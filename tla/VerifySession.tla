--------------------------- MODULE VerifySession ---------------------------
(***************************************************************************)
(* The Verify* entry points of tamga::core::Session called from several    *)
(* threads on one session object.                                          *)
(*                                                                         *)
(* Session::mutex_ is held only for short sections: the state check at     *)
(* entry, the commit of a result, and the amendments made after a commit.  *)
(* Parsing, cryptography and the network run between them.  One action     *)
(* here is one such section (or one early return), so every interleaving   *)
(* of sections is a behaviour.  VerifyReportOwnership's epochs decide      *)
(* whether a thread may still amend the report it committed.               *)
(*                                                                         *)
(* A report's contents are abstracted to what ownership is about: which    *)
(* call wrote its core, its operation name, its container facts and its    *)
(* container time stamp.  A call is the number of the Verify* invocation.  *)
(***************************************************************************)
EXTENDS Naturals, Sequences, FiniteSets

CONSTANTS
    Threads,        \* threads that share the session
    Entries,        \* the public operations the threads call
    MaxCalls,       \* bound: Verify* invocations in a behaviour
    MaxSigs,        \* bound: signatures in an ASiC-E container
    MaxElsewhere    \* bound: commits seen before other sessions stop committing

Detached   == {"VerifyData", "VerifyDataBase64", "VerifyFile", "RawVerifyFile"}
StrEntries == {"VerifyDataInternalStr", "VerifyDataInternalBase64Str"}
Attached   == {"VerifyDataInternal", "VerifyDataInternalBase64"} \cup StrEntries
Formats    == {"VerifyXml", "VerifyPdf"}
Containers == {"VerifyFileAsicS", "VerifyFileAsicE", "VerifyFileAsicEXades"}
Lifecycle  == {"Initialize", "Finalize"}
Verifying  == Detached \cup Attached \cup Formats \cup Containers
                \cup {"RecordVerifyFailure"}

ASSUME SessionAssumption ==
    /\ Entries \subseteq Verifying \cup Lifecycle
    /\ MaxCalls \in Nat
    /\ MaxSigs \in Nat \ {0}
    /\ MaxElsewhere \in Nat

VARIABLES
    initialized,    \* is_initialized_
    report,         \* last_verify_report_
    metadata,       \* last_signer_metadata_: the call it comes from, 0 when empty
    userReport,     \* last_user_report_json_: the report and metadata it renders
    lastError,      \* last_error_, with the call that set it
    epoch,          \* VerifyReportOwnership::epoch_
    globalEpoch,    \* g_verify_report_epoch, shared by all sessions
    lastCommit,     \* t_last_verify_commit_epoch of each thread
    frame,          \* what each thread is executing
    made            \* the entry point of every invocation so far

session   == <<initialized, report, metadata, userReport, lastError>>
ownership == <<epoch, globalEpoch, lastCommit>>
vars      == <<initialized, report, metadata, userReport, lastError,
               epoch, globalEpoch, lastCommit, frame, made>>

Calls == 0 .. MaxCalls
Names == Verifying \cup {""}

Report == [has_result : BOOLEAN, operation : Names, executed : BOOLEAN,
           signature_valid : BOOLEAN, malformed : BOOLEAN,
           core : Calls, named : Calls, coverage : Calls, stamp : Calls,
           entries : Seq([valid : BOOLEAN, kept : BOOLEAN])]

Codes == {"None", "NotInitialized", "InvalidArgument", "InternalError"}

PCs == {"idle", "record", "enter", "crypto", "rename", "asic", "unpack", "coverage",
        "stamp", "next", "copy", "close", "facts", "xades", "load", "format",
        "parse"}

FrameRecord ==
         [pc : PCs, entry : Names, call : Calls, todo : Seq(Names), ok : BOOLEAN,
          valid : BOOLEAN, left : 0 .. MaxSigs, malformed : BOOLEAN,
          entries : Seq([valid : BOOLEAN, kept : BOOLEAN]), mine : BOOLEAN]

\* A call that is about to rename its report has a name to give it.
Frame == {f \in FrameRecord : f.pc = "rename" => f.todo # << >>}

-----------------------------------------------------------------------------
(* The report, its user-facing rendering, the error and the epochs. *)

\* MakeClearedVerifyReport.
Cleared == [has_result |-> FALSE, operation |-> "", executed |-> FALSE,
            signature_valid |-> FALSE, malformed |-> FALSE, core |-> 0,
            named |-> 0, coverage |-> 0, stamp |-> 0, entries |-> << >>]

\* CommitVerifyOutcome applied to a cleared report, or the local report that a
\* Verify* builds before it takes the lock, on behalf of call c.
Outcome(op, executed, valid, c) ==
    [Cleared EXCEPT !.has_result = TRUE, !.operation = op, !.executed = executed,
                    !.signature_valid = valid, !.core = c, !.named = c]

\* UserReportBuilder::Build renders the report and the signer's metadata.
View(r, m) == [report |-> r, metadata |-> m]

RefreshUserReport == userReport' = View(report', metadata')

SetError(code, c) == lastError' = [code |-> code, by |-> c]

ClearError == lastError' = [code |-> "None", by |-> 0]

\* VerifyReportOwnership::MarkCommitted, run by thread t.
MarkCommitted(t) ==
    /\ globalEpoch' = globalEpoch + 1
    /\ epoch' = globalEpoch + 1
    /\ lastCommit' = [lastCommit EXCEPT ![t] = globalEpoch + 1]

\* Mutated StillOwned: the epochs are not compared.
StillOwnedByAnyone(t) == epoch # 0

\* VerifyReportOwnership::StillOwnedByThisThread.
StillOwned(t) == epoch # 0 /\ epoch = lastCommit[t]

ClearVerifyReport ==
    /\ report' = Cleared
    /\ metadata' = 0
    /\ RefreshUserReport

SetVerifyReport(t, op, executed, valid) ==
    /\ report' = Outcome(op, executed, valid, frame[t].call)
    /\ metadata' = 0
    /\ MarkCommitted(t)
    /\ RefreshUserReport

-----------------------------------------------------------------------------
(* Frames. *)

Idle(ok) == [pc |-> "idle", entry |-> "", call |-> 0, todo |-> << >>, ok |-> ok,
             valid |-> FALSE, left |-> 0, malformed |-> FALSE, entries |-> << >>,
             mine |-> FALSE]

At(t, pc) == frame[t].pc = pc

Goto(t, f) == frame' = [frame EXCEPT ![t] = f]

\* The names that the wrappers around an entry point's core operation still
\* have to put on its report, innermost first.
Renames(e) ==
    CASE e \in {"VerifyDataBase64", "VerifyFile", "VerifyDataInternalBase64",
                "VerifyDataInternalStr", "VerifyFileAsicS"} -> << e >>
      [] e = "RawVerifyFile" -> << "VerifyFile", e >>
      [] e = "VerifyDataInternalBase64Str" -> << "VerifyDataInternalBase64", e >>
      [] OTHER -> << >>

\* The wrappers that read a file or decode Base64 before the core operation.
ReadsInput == {"VerifyDataBase64", "VerifyFile", "RawVerifyFile",
               "VerifyDataInternalBase64"}

\* The operation whose name the core of entry point e commits.
CoreOf(e) == IF e \in Attached THEN "VerifyDataInternal" ELSE "VerifyData"

FirstSection(e) ==
    CASE e \in Detached \cup Attached -> "enter"
      [] e \in {"VerifyFileAsicS", "VerifyFileAsicE"} -> "asic"
      [] e = "VerifyFileAsicEXades" -> "xades"
      [] e \in Formats -> "format"
      [] OTHER -> "record"

\* Where control goes once the core operation has returned ok.
Resume(f, ok, valid) ==
    LET g == [f EXCEPT !.ok = ok, !.valid = valid, !.mine = TRUE]
    IN  CASE g.todo # << >> -> [g EXCEPT !.pc = "rename"]
          [] g.todo = << >> /\ g.entry = "VerifyFileAsicE" -> [g EXCEPT !.pc = "copy"]
          [] OTHER -> Idle(ok)

-----------------------------------------------------------------------------
Init ==
    /\ initialized = FALSE
    /\ report = Cleared
    /\ metadata = 0
    /\ userReport = View(Cleared, 0)
    /\ lastError = [code |-> "None", by |-> 0]
    /\ epoch = 0
    /\ globalEpoch = 0
    /\ lastCommit = [t \in Threads |-> 0]
    /\ frame = [t \in Threads |-> Idle(TRUE)]
    /\ made = << >>

\* A thread calls a Verify* entry point (or an add-in method that reports bad
\* arguments through RecordVerifyFailure).
Start(t, e) ==
    /\ At(t, "idle")
    /\ e \in Entries \ Lifecycle
    /\ Len(made) < MaxCalls
    /\ made' = Append(made, e)
    /\ Goto(t, [Idle(FALSE) EXCEPT !.pc = FirstSection(e), !.entry = e,
                                   !.call = Len(made) + 1, !.todo = Renames(e)])
    /\ UNCHANGED <<session, ownership>>

\* Session::Initialize.
Initialize(t) ==
    /\ At(t, "idle")
    /\ "Initialize" \in Entries
    /\ initialized' = TRUE
    /\ ClearVerifyReport
    /\ ClearError
    /\ UNCHANGED <<ownership, frame, made>>

\* Session::Finalize.  The epoch is left as it is.
Finalize(t) ==
    /\ At(t, "idle")
    /\ "Finalize" \in Entries
    /\ initialized' = FALSE
    /\ ClearVerifyReport
    /\ ClearError
    /\ UNCHANGED <<ownership, frame, made>>

\* An idle thread verifies something on another session: the global epoch and
\* this thread's last commit move, this session's epoch does not.
CommitElsewhere(t) ==
    /\ At(t, "idle")
    /\ globalEpoch < MaxElsewhere
    /\ globalEpoch' = globalEpoch + 1
    /\ lastCommit' = [lastCommit EXCEPT ![t] = globalEpoch + 1]
    /\ UNCHANGED <<session, epoch, frame, made>>

\* Session::RecordVerifyFailure.
RecordVerifyFailure(t) ==
    /\ At(t, "record")
    /\ SetVerifyReport(t, "RecordVerifyFailure", FALSE, FALSE)
    /\ SetError("InvalidArgument", frame[t].call)
    /\ Goto(t, Idle(FALSE))
    /\ UNCHANGED <<initialized, made>>

-----------------------------------------------------------------------------
(* VerifyData, VerifyDataInternal and the wrappers around them. *)

\* A wrapper fails to read its file or to decode its Base64: it commits a
\* failure under its own name, and the wrappers outside it still rename.
InputFails(t) ==
    /\ At(t, "enter")
    /\ \E i \in DOMAIN frame[t].todo :
          LET f == frame[t]
              outer == SubSeq(f.todo, i + 1, Len(f.todo))
          IN  /\ f.todo[i] \in ReadsInput
              /\ SetVerifyReport(t, f.todo[i], FALSE, FALSE)
              /\ SetError("InvalidArgument", f.call)
              /\ Goto(t, Resume([f EXCEPT !.todo = outer], FALSE, FALSE))
    /\ UNCHANGED <<initialized, made>>

\* First section of VerifyData and VerifyDataInternal: the state check.
Enter(t) ==
    /\ At(t, "enter")
    /\ \/ /\ initialized
          /\ Goto(t, [frame[t] EXCEPT !.pc = "crypto"])
          /\ UNCHANGED <<session, ownership, made>>
       \/ /\ ~initialized
          /\ SetError("NotInitialized", frame[t].call)
          /\ SetVerifyReport(t, CoreOf(frame[t].entry), FALSE, FALSE)
          /\ Goto(t, Resume(frame[t], FALSE, FALSE))
          /\ UNCHANGED <<initialized, made>>

\* Mutated CryptoFails: the failure is not put into the report.
CryptoFailsUnreported(t) ==
    /\ At(t, "crypto")
    /\ SetError("InvalidArgument", frame[t].call)
    /\ Goto(t, Resume(frame[t], FALSE, FALSE))
    /\ UNCHANGED <<initialized, report, metadata, userReport, ownership, made>>

\* CryptoniteAdapter::VerifyDetached / VerifyAttached returns false.
CryptoFails(t) ==
    /\ At(t, "crypto")
    /\ SetVerifyReport(t, CoreOf(frame[t].entry), FALSE, FALSE)
    /\ SetError("InvalidArgument", frame[t].call)
    /\ Goto(t, Resume(frame[t], FALSE, FALSE))
    /\ UNCHANGED <<initialized, made>>

\* Last section of VerifyData and VerifyDataInternal: the local report replaces
\* the session's one; the signer's metadata does so only if it was extracted.
Commit(t) ==
    /\ At(t, "crypto")
    /\ \E valid, extracted \in BOOLEAN :
          /\ report' = Outcome(CoreOf(frame[t].entry), TRUE, valid, frame[t].call)
          /\ metadata' = IF extracted THEN frame[t].call ELSE metadata
          /\ Goto(t, Resume(frame[t], TRUE, valid))
    /\ MarkCommitted(t)
    /\ RefreshUserReport
    /\ ClearError
    /\ UNCHANGED <<initialized, made>>

\* Where control goes once the first pending rename is done.
Renamed(f) ==
    CASE Len(f.todo) > 1 -> [f EXCEPT !.todo = Tail(f.todo)]
      [] Len(f.todo) <= 1 /\ f.entry = "VerifyFileAsicS" ->
            [f EXCEPT !.todo = << >>, !.pc = "coverage"]
      [] OTHER -> Idle(f.ok)

\* The last rename of the *Str entry points does not go through
\* OverrideVerifyReportOperation when the verification ran.
ForcesName(f) == f.ok /\ Len(f.todo) = 1 /\ f.entry \in StrEntries

\* OverrideVerifyReportOperation.
Rename(t) ==
    /\ At(t, "rename")
    /\ ~ForcesName(frame[t])
    /\ \/ /\ report.has_result /\ StillOwned(t)
          /\ report' = [report EXCEPT !.operation = Head(frame[t].todo),
                                      !.named = frame[t].call]
          /\ UNCHANGED metadata
          /\ RefreshUserReport
       \/ /\ ~(report.has_result /\ StillOwned(t))
          /\ UNCHANGED <<report, metadata, userReport>>
    /\ Goto(t, Renamed(frame[t]))
    /\ UNCHANGED <<initialized, lastError, ownership, made>>

\* The last section of VerifyDataInternalString and
\* VerifyDataInternalBase64String: no ownership check.
ForceName(t) ==
    /\ At(t, "rename")
    /\ ForcesName(frame[t])
    /\ report' = [report EXCEPT !.operation = Head(frame[t].todo),
                                !.named = frame[t].call]
    /\ UNCHANGED metadata
    /\ RefreshUserReport
    /\ ClearError
    /\ Goto(t, Renamed(frame[t]))
    /\ UNCHANGED <<initialized, ownership, made>>

-----------------------------------------------------------------------------
(* VerifyXml and VerifyPdf. *)

\* First section: unlike the CMS operations, an uninitialized session is
\* reported through the error only.
FormatEnter(t) ==
    /\ At(t, "format")
    /\ \/ /\ initialized
          /\ Goto(t, [frame[t] EXCEPT !.pc = "parse"])
          /\ UNCHANGED <<session, ownership, made>>
       \/ /\ ~initialized
          /\ SetError("NotInitialized", frame[t].call)
          /\ Goto(t, Idle(FALSE))
          /\ UNCHANGED <<initialized, report, metadata, userReport, ownership, made>>

\* XadesVerifier::VerifyAll or PadesVerifier::VerifyPdf returns false.
FormatFails(t) ==
    /\ At(t, "parse")
    /\ SetError("InternalError", frame[t].call)
    /\ Goto(t, Idle(FALSE))
    /\ UNCHANGED <<initialized, report, metadata, userReport, ownership, made>>

\* VerifyPdf declares what its signatures cover; VerifyXml leaves the default.
Declares(f) == IF f.entry = "VerifyPdf" THEN f.call ELSE 0

\* Last section: last_signer_metadata_ is not touched.
FormatCommit(t) ==
    /\ At(t, "parse")
    /\ \E valid \in BOOLEAN :
          report' = [Outcome(frame[t].entry, TRUE, valid, frame[t].call)
                        EXCEPT !.coverage = Declares(frame[t])]
    /\ UNCHANGED metadata
    /\ MarkCommitted(t)
    /\ RefreshUserReport
    /\ ClearError
    /\ Goto(t, Idle(TRUE))
    /\ UNCHANGED <<initialized, made>>

-----------------------------------------------------------------------------
(* VerifyFileAsicEXades. *)

\* Its first section; VerifyFileAsicS and VerifyFileAsicE also come here when
\* the container holds XAdES signatures.
XadesEnter(t) ==
    /\ At(t, "xades")
    /\ \/ /\ initialized
          /\ Goto(t, [frame[t] EXCEPT !.pc = "load"])
          /\ UNCHANGED <<session, ownership, made>>
       \/ /\ ~initialized
          /\ SetError("NotInitialized", frame[t].call)
          /\ SetVerifyReport(t, "VerifyFileAsicEXades", FALSE, FALSE)
          /\ Goto(t, Idle(FALSE))
          /\ UNCHANGED <<initialized, made>>

\* The container or one of its signature files cannot be read.
XadesFails(t) ==
    /\ At(t, "load")
    /\ SetVerifyReport(t, "VerifyFileAsicEXades", FALSE, FALSE)
    /\ SetError("InvalidArgument", frame[t].call)
    /\ Goto(t, Idle(FALSE))
    /\ UNCHANGED <<initialized, made>>

\* Two entries normalise to one name: the container is malformed.
XadesMalformed(t) ==
    /\ At(t, "load")
    /\ report' = [Outcome("VerifyFileAsicEXades", TRUE, FALSE, frame[t].call)
                    EXCEPT !.malformed = TRUE]
    /\ metadata' = 0
    /\ MarkCommitted(t)
    /\ RefreshUserReport
    /\ SetError("InvalidArgument", frame[t].call)
    /\ Goto(t, Idle(TRUE))
    /\ UNCHANGED <<initialized, made>>

\* No signature file or no document in the container.
XadesEmpty(t) ==
    /\ At(t, "load")
    /\ SetVerifyReport(t, "VerifyFileAsicEXades", TRUE, FALSE)
    /\ ClearError
    /\ Goto(t, Idle(TRUE))
    /\ UNCHANGED <<initialized, made>>

\* Every signature was verified: the report, its entries and its container
\* facts are committed in one section.
XadesCommit(t) ==
    /\ At(t, "load")
    /\ \E n \in 1 .. MaxSigs : \E valid \in [1 .. n -> BOOLEAN] :
          report' = [Outcome("VerifyFileAsicEXades", TRUE,
                             \A i \in 1 .. n : valid[i], frame[t].call)
                        EXCEPT !.coverage = frame[t].call,
                               !.entries = [i \in 1 .. n |->
                                              [valid |-> valid[i], kept |-> TRUE]]]
    /\ UNCHANGED metadata
    /\ MarkCommitted(t)
    /\ RefreshUserReport
    /\ ClearError
    /\ Goto(t, Idle(TRUE))
    /\ UNCHANGED <<initialized, made>>

-----------------------------------------------------------------------------
(* VerifyFileAsicS and VerifyFileAsicE on CAdES containers. *)

\* First section of both.
AsicEnter(t) ==
    /\ At(t, "asic")
    /\ \/ /\ initialized
          /\ Goto(t, [frame[t] EXCEPT !.pc = "unpack"])
          /\ UNCHANGED <<session, ownership, made>>
       \/ /\ ~initialized
          /\ SetError("NotInitialized", frame[t].call)
          /\ SetVerifyReport(t, frame[t].entry, FALSE, FALSE)
          /\ Goto(t, Idle(FALSE))
          /\ UNCHANGED <<initialized, made>>

\* The file cannot be read or unpacked.
AsicUnpackFails(t) ==
    /\ At(t, "unpack")
    /\ SetVerifyReport(t, frame[t].entry, FALSE, FALSE)
    /\ SetError("InvalidArgument", frame[t].call)
    /\ Goto(t, Idle(FALSE))
    /\ UNCHANGED <<initialized, made>>

\* ContainerHasXadesSignature: the container is handed to VerifyFileAsicEXades.
AsicIsXades(t) ==
    /\ At(t, "unpack")
    /\ Goto(t, [frame[t] EXCEPT !.todo = << >>, !.pc = "xades"])
    /\ UNCHANGED <<session, ownership, made>>

\* An ASiC-E container with no data object or no signature.
AsicEEmpty(t) ==
    /\ At(t, "unpack")
    /\ frame[t].entry = "VerifyFileAsicE"
    /\ SetVerifyReport(t, "VerifyFileAsicE", TRUE, FALSE)
    /\ ClearError
    /\ Goto(t, Idle(TRUE))
    /\ UNCHANGED <<initialized, made>>

\* Unpacked: ASiC-S calls VerifyData, ASiC-E enters its signature loop.
AsicUnpacked(t) ==
    /\ At(t, "unpack")
    /\ \/ /\ frame[t].entry = "VerifyFileAsicS"
          /\ Goto(t, [frame[t] EXCEPT !.pc = "enter"])
       \/ /\ frame[t].entry = "VerifyFileAsicE"
          /\ \E n \in 1 .. MaxSigs :
                Goto(t, [frame[t] EXCEPT !.pc = "next", !.left = n])
    /\ UNCHANGED <<session, ownership, made>>

\* ASiC-E: the next signature's manifest refers to no data object, carries only
\* some of the digests, or is a legacy one over several objects.
AsicESkips(t) ==
    /\ At(t, "next")
    /\ frame[t].left > 0
    /\ Goto(t, [frame[t] EXCEPT
                  !.left = @ - 1, !.malformed = TRUE,
                  !.entries = Append(@, [valid |-> FALSE, kept |-> TRUE])])
    /\ UNCHANGED <<session, ownership, made>>

\* ASiC-E: the next signature goes to VerifyData.
AsicEVerifies(t) ==
    /\ At(t, "next")
    /\ frame[t].left > 0
    /\ Goto(t, [frame[t] EXCEPT !.left = @ - 1, !.pc = "enter"])
    /\ UNCHANGED <<session, ownership, made>>

\* ASiC-E: after VerifyData, the digests of a manifest are compared and the
\* time stamps it found are copied into the signature's entry, if the report
\* is still this thread's.
AsicECopies(t) ==
    /\ At(t, "copy")
    /\ \E mismatch \in BOOLEAN :
          LET f == frame[t] IN
          /\ mismatch => f.ok /\ f.valid
          /\ Goto(t, [f EXCEPT
                        !.pc = "next",
                        !.malformed = @ \/ mismatch,
                        !.entries = Append(@, [valid |-> f.ok /\ f.valid /\ ~mismatch,
                                               kept |-> f.ok => StillOwned(t)])])
    /\ UNCHANGED <<session, ownership, made>>

AsicELoopEnds(t) ==
    /\ At(t, "next")
    /\ frame[t].left = 0
    /\ Goto(t, [frame[t] EXCEPT !.pc = "close", !.ok = TRUE])
    /\ UNCHANGED <<session, ownership, made>>

\* ASiC-E, structural defect: a new report is committed; container_malformed is
\* set after the user report was rendered.
AsicEMalformed(t) ==
    /\ At(t, "close")
    /\ frame[t].malformed
    /\ LET r == Outcome("VerifyFileAsicE", TRUE, FALSE, frame[t].call)
       IN  /\ report' = [r EXCEPT !.malformed = TRUE]
           /\ userReport' = View(r, 0)
    /\ metadata' = 0
    /\ MarkCommitted(t)
    /\ SetError("InvalidArgument", frame[t].call)
    /\ Goto(t, [frame[t] EXCEPT !.pc = "facts", !.mine = TRUE])
    /\ UNCHANGED <<initialized, made>>

\* Mutated AsicERenames: the report keeps the name of the inner VerifyData.
AsicERenamesNothing(t) ==
    /\ At(t, "close")
    /\ ~frame[t].malformed
    /\ Goto(t, [frame[t] EXCEPT !.pc = "facts"])
    /\ UNCHANGED <<session, ownership, made>>

\* ASiC-E, no structural defect: OverrideVerifyReportOperation.
AsicERenames(t) ==
    /\ At(t, "close")
    /\ ~frame[t].malformed
    /\ \/ /\ report.has_result /\ StillOwned(t)
          /\ report' = [report EXCEPT !.operation = "VerifyFileAsicE",
                                      !.named = frame[t].call]
          /\ UNCHANGED metadata
          /\ RefreshUserReport
       \/ /\ ~(report.has_result /\ StillOwned(t))
          /\ UNCHANGED <<report, metadata, userReport>>
    /\ Goto(t, [frame[t] EXCEPT !.pc = "facts"])
    /\ UNCHANGED <<initialized, lastError, ownership, made>>

AllValid(entries) == \A i \in DOMAIN entries : entries[i].valid

\* ASiC-E: the entries, their time-stamp aggregate and the coverage go into the
\* report if it is still this thread's.  A container time stamp is validated
\* only when every signature is valid and every data object is covered.
AsicEFacts(t) ==
    /\ At(t, "facts")
    /\ \/ /\ StillOwned(t)
          /\ report' = [report EXCEPT !.entries = frame[t].entries,
                                      !.coverage = frame[t].call]
          /\ UNCHANGED metadata
          /\ RefreshUserReport
       \/ /\ ~StillOwned(t)
          /\ UNCHANGED <<report, metadata, userReport>>
    /\ \E stamped \in BOOLEAN :
          /\ stamped => AllValid(frame[t].entries)
          /\ Goto(t, IF stamped THEN [frame[t] EXCEPT !.pc = "stamp"] ELSE Idle(TRUE))
    /\ UNCHANGED <<initialized, lastError, ownership, made>>

\* Mutated AsicSCoverage: the default coverage is left in the report.
AsicSCoverageSilent(t) ==
    /\ At(t, "coverage")
    /\ \E stamped \in BOOLEAN :
          /\ stamped => frame[t].ok
          /\ Goto(t, IF stamped THEN [frame[t] EXCEPT !.pc = "stamp"]
                                ELSE Idle(frame[t].ok))
    /\ UNCHANGED <<session, ownership, made>>

\* ASiC-S: the coverage is declared if the report is still this thread's; a
\* container time stamp is validated only when VerifyData returned true.
AsicSCoverage(t) ==
    /\ At(t, "coverage")
    /\ \/ /\ StillOwned(t)
          /\ report' = [report EXCEPT !.coverage = frame[t].call]
          /\ UNCHANGED metadata
          /\ RefreshUserReport
       \/ /\ ~StillOwned(t)
          /\ UNCHANGED <<report, metadata, userReport>>
    /\ \E stamped \in BOOLEAN :
          /\ stamped => frame[t].ok
          /\ Goto(t, IF stamped THEN [frame[t] EXCEPT !.pc = "stamp"]
                                ELSE Idle(frame[t].ok))
    /\ UNCHANGED <<initialized, lastError, ownership, made>>

\* Both: the container time stamp's verdict, if the report is still this
\* thread's.
AsicStamp(t) ==
    /\ At(t, "stamp")
    /\ \/ /\ StillOwned(t)
          /\ report' = [report EXCEPT !.stamp = frame[t].call]
          /\ UNCHANGED metadata
          /\ RefreshUserReport
       \/ /\ ~StillOwned(t)
          /\ UNCHANGED <<report, metadata, userReport>>
    /\ Goto(t, Idle(TRUE))
    /\ UNCHANGED <<initialized, lastError, ownership, made>>

-----------------------------------------------------------------------------
\* A call in progress takes its next section.
Step(t) ==
    \/ RecordVerifyFailure(t)
    \/ InputFails(t) \/ Enter(t) \/ CryptoFails(t) \/ Commit(t)
    \/ Rename(t) \/ ForceName(t)
    \/ FormatEnter(t) \/ FormatFails(t) \/ FormatCommit(t)
    \/ XadesEnter(t) \/ XadesFails(t) \/ XadesMalformed(t) \/ XadesEmpty(t)
    \/ XadesCommit(t)
    \/ AsicEnter(t) \/ AsicUnpackFails(t) \/ AsicIsXades(t) \/ AsicEEmpty(t)
    \/ AsicUnpacked(t)
    \/ AsicESkips(t) \/ AsicEVerifies(t) \/ AsicECopies(t) \/ AsicELoopEnds(t)
    \/ AsicEMalformed(t) \/ AsicERenames(t) \/ AsicEFacts(t)
    \/ AsicSCoverage(t) \/ AsicStamp(t)

Call(t) ==
    \/ \E e \in Entries : Start(t, e)
    \/ Initialize(t)
    \/ Finalize(t)
    \/ CommitElsewhere(t)

Next == \E t \in Threads : Call(t) \/ Step(t)

Spec == Init /\ [][Next]_vars

-----------------------------------------------------------------------------
(* Properties. *)

\* Every variable keeps its type.
TypeOK ==
    /\ initialized \in BOOLEAN
    /\ report \in Report
    /\ metadata \in Calls
    /\ userReport \in [report : Report, metadata : Calls]
    /\ lastError \in [code : Codes, by : Calls]
    /\ epoch \in Nat
    /\ globalEpoch \in Nat
    /\ lastCommit \in [Threads -> Nat]
    /\ frame \in [Threads -> Frame]
    /\ made \in Seq(Verifying)
    /\ Len(made) <= MaxCalls

Running == {frame[t].call : t \in {u \in Threads : frame[u].pc # "idle"}}

\* The calls that wrote some part of the report.
Authors == {report.core, report.named, report.coverage, report.stamp} \ {0}

\* The report in the session is the work of one call: whatever order the
\* sections of concurrent Verify* calls take, no name, coverage or time-stamp
\* verdict of one call is ever found in the report committed by another.  This
\* is what OverrideVerifyReportOperation and the "if still owned" sections of
\* the ASiC operations are for.
ReportOfOneCall == report.core # 0 => Authors = {report.core}

\* The operation names under which a call of entry point e may leave its report.
FinalNames(e) ==
    IF e \in {"VerifyFileAsicS", "VerifyFileAsicE"}
    THEN {e, "VerifyFileAsicEXades"} ELSE {e}

\* Once the call that produced the report has returned, the report carries the
\* name of the entry point the caller used, not that of an inner operation.
CompletedReportNamed ==
    report.core # 0 /\ report.core \notin Running
        => report.operation \in FinalNames(made[report.core])

\* Once a container's Verify* has returned, a report of it that says the
\* signature is valid also carries that call's own statement of coverage; the
\* default "not-applicable, complete" is never left in its place.
CoverageDeclared ==
    /\ report.core # 0 /\ report.core \notin Running
    /\ report.signature_valid
    /\ made[report.core] \in Containers
    => report.coverage = report.core

\* What a caller is shown: a report without a result has no verdict, whatever
\* container facts a call in flight across Initialize or Finalize has still
\* added to it (GetLastVerifyReport renders it with hasResult=false).
Shown == IF report.has_result THEN report ELSE Cleared
ShownBy == IF report.has_result THEN Authors ELSE {}

Slot == INSTANCE ReportSlot WITH CallIds <- 1 .. MaxCalls, Blank <- Cleared,
                                 content <- Shown, authors <- ShownBy,
                                 open <- Running

\* The session implements the abstract report slot: every section of every call
\* is a write by a running call that leaves the report that call's alone, a
\* clearing, or invisible; a report whose call has returned never changes in
\* part, and a report that Initialize or Finalize cleared shows nothing until
\* the next commit.
ImplementsReportSlot == Slot!Spec

=============================================================================
