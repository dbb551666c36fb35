-------------------------- MODULE FrontEndsProofs --------------------------
(***************************************************************************)
(* Proofs about FrontEnds: what a front end answers is earned by the       *)
(* session's report, and what it signs with is what the keys allow.        *)
(***************************************************************************)
EXTENDS FrontEnds, TLAPS

\* Zenon is the backend of every step that names no other.
USE Zenon

-----------------------------------------------------------------------------
(***************************************************************************)
(* The inductive invariant of a verification, over the job j, the frame f  *)
(* of the session's thread, the report r, the error e and the facts x.     *)
(***************************************************************************)

JobRecord ==
    [pc : {"closed", "idle", "call", "return", "write"}, op : {"", "verify", "load", "sign"},
     ask : SUBSET Asks, entry : Names, call : Calls, ok : BOOLEAN, valid : BOOLEAN]

FactRecord == [covered : BOOLEAN, policy : Policies \cup {"unjudged"}]

AllKept(entries) == \A i \in DOMAIN entries : entries[i].kept

\* The entries of a report and its verdict agree.
Earned(r) ==
    /\ AllKept(r.entries)
    /\ IF r.operation = "VerifyFileAsicE"
       THEN AllValid(r.entries) /\ r.entries # << >> => r.signature_valid
       ELSE r.signature_valid => AllValid(r.entries)

\* The report after n calls.
ReportOK(r, n) == r.core \in 0 .. n /\ r.coverage \in {0, r.core} /\ Earned(r)

\* The coverage is incomplete only when it was declared, and a wrapper declares
\* a complete one.
Marked(f, r, x) ==
    /\ r.coverage = 0 => x.covered
    /\ f.pc = "stamp" /\ f.entry # "VerifyFileAsicE" => x.covered

\* The report is this call's own.
Own(f, r, e) ==
    /\ r.core = f.call /\ r.has_result
    /\ e.code # "None" => e.by = f.call
    /\ f.pc # "stamp" => r.coverage = 0
    /\ f.pc # "stamp" \/ f.entry # "VerifyFileAsicE" => r.entries = << >>
    /\ f.pc = "stamp" /\ f.entry = "VerifyFileAsicE"
         => r.operation = "VerifyFileAsicE" /\ r.entries = f.entries
    /\ InWrapper(f) /\ f.valid => r.signature_valid
    /\ f.pc \in {"rename", "coverage"} /\ ~f.ok => ~r.executed /\ e.code # "None"

\* The signatures of an ASiC-E container that were verified so far.
Loop(f, r) ==
    /\ AllKept(f.entries)
    /\ f.malformed => ~AllValid(f.entries)
    /\ f.pc = "next" /\ f.left = 0 => f.entries # << >>
    /\ f.pc = "close" => f.entries # << >>
    /\ f.pc \in {"next", "close"} /\ f.entries # << >> /\ ~f.malformed => f.mine
    /\ f.pc \in {"next", "close", "facts"} /\ f.entries # << >> /\ AllValid(f.entries)
         => r.signature_valid
    /\ f.pc = "copy" => f.mine /\ (f.ok /\ f.valid => r.signature_valid)
    /\ f.pc = "facts" => f.mine /\ r.operation = "VerifyFileAsicE"
    /\ f.pc \in {"next", "copy", "close", "facts"} => f.entry = "VerifyFileAsicE"

\* The n-th call is running.
InCall(j, f, r, e, n, owned) ==
    /\ f.pc # "idle" /\ f.call = n /\ j.call = n /\ j.entry = f.entry /\ n # 0
    /\ IF f.mine THEN owned /\ Own(f, r, e) ELSE r.core # n
    /\ Loop(f, r)
    /\ f.pc \in {"rename", "coverage", "stamp"} => f.mine
    /\ f.pc = "coverage" => f.entry # "VerifyFileAsicE"
    /\ f.pc \in {"format", "parse"} => ~f.mine /\ f.entry \in Formats
    /\ f.pc \in {"asic", "unpack"} => f.entries = << >>

\* What a call or its answer j says and what the session holds agree.
Ended(j, r, e, x) ==
    /\ j.ok \/ j.entry \notin Formats => r.core = j.call
    /\ r.core = j.call => r.has_result /\ (r.executed => j.ok)
    /\ e.code # "None" => e.by = j.call
    /\ j.ok \/ e.code # "None"
    /\ j.valid => /\ j.ok /\ r.core = j.call /\ r.signature_valid
                  /\ AllValid(r.entries) /\ AllKept(r.entries) /\ x.covered

SessionInv(j, f, r, e, x, n, owned) ==
    /\ ReportOK(r, n) /\ Marked(f, r, x)
    /\ IF j.pc = "call" /\ j.op = "verify" THEN InCall(j, f, r, e, n, owned) ELSE f.pc = "idle"
    /\ j.pc = "return" => Ended(j, r, e, x) /\ j.call # 0
    /\ j.pc = "closed" => x.covered

FrontTyped ==
    /\ job \in JobRecord /\ facts \in FactRecord /\ report \in Report
    /\ frame \in [Threads -> Frame] /\ lastCommit \in [Threads -> Nat] /\ globalEpoch \in Nat
    /\ made \in Seq(Verifying) /\ Len(made) <= MaxCalls

\* What was told about a verification still holds.
ToldOK ==
    /\ told.op # "" => job.pc = "idle"
    /\ told.op = "verify" =>
         IF told.call = 0 THEN ~told.valid
         ELSE /\ IF told.thrown THEN ~told.valid ELSE Ended(told, report, lastError, facts)
              /\ front = "capi" => told.ok = (apiError = "None")

FrontInv ==
    /\ FrontTyped
    /\ SessionInv(job, frame[Self], report, lastError, facts, Len(made), StillOwned(Self))
    /\ ToldOK

-----------------------------------------------------------------------------
(***************************************************************************)
(* The inductive invariant of the keys.                                    *)
(***************************************************************************)

LoadShape(l) ==
    l = [pc |-> l.pc, ok |-> l.ok, ask |-> l.ask, it |-> l.it, found |-> l.found,
         source |-> l.source, seen |-> l.seen]

Searching == {"beside", "cache", "ldap", "cmp"}
LoadPCs   == {"rest", "normalize", "open", "named", "commit"} \cup Searching

\* The certificate of a key: the container's, none, or one that the resolver
\* accepted, which is the named one if one was named.
Chosen(it, pass, certificate, source, named) ==
    \/ source = "container"
    \/ source = "" /\ named = {}
    \/ /\ source \in Keys!FromResolver
       /\ \E c \in certificate :
             /\ certificate = {c} /\ Keys!Acceptable(c, Keys!PublicKeys(it, pass))
             /\ named # {} => c \in named

\* The folder was not changed since the load began, or has grown.
Grown(seen) ==
    \E s \in seen :
        /\ seen = {s} /\ IsList(s) /\ Len(s) <= Len(folder)
        /\ Len(s) = Len(folder) => s = folder

LoadOK ==
    /\ LoadShape(load) /\ load.pc \in LoadPCs
    /\ load.pc # "rest" => /\ \E r \in Requests : load.ask = {r}
                           /\ Grown(load.seen)
    /\ load.pc \in Searching => Keys!Ask.named = {}
    /\ load.pc \notin {"rest", "normalize"} => IsList(load.it.material)
    /\ load.pc \in {"open", "named"} \cup Searching => load.source = "" /\ load.found = {}
    /\ load.pc = "commit" => Chosen(load.it, Keys!Effective, load.found, load.source, Keys!Ask.named)

\* The files beside the key come first.
BesideOK ==
    load.seen = {folder} =>
        /\ load.pc \in {"cache", "ldap", "cmp"} => Keys!Beside = {}
        /\ load.pc = "commit" /\ load.source # "container" /\ Keys!Ask.named = {} /\ Keys!Beside # {}
             => load.found = Keys!Beside

KeyOK ==
    key.loaded => /\ IsList(key.it.material)
                  /\ Chosen(key.it, key.pass, key.certificate, key.source, key.named)

LoadInv == IsList(folder) /\ LoadOK /\ BesideOK /\ KeyOK

\* A signature that is being written has its signer, and what returns from the
\* session is a verification.
SignerReady ==
    /\ job.pc = "write" => key.loaded /\ Keys!Signer.ok
    /\ job.pc = "return" => job.op = "verify"

KeyInv == LoadInv /\ SignerReady /\ SignedAsAsked

-----------------------------------------------------------------------------
(***************************************************************************)
(* Frames, reports and lists of signatures.                                *)
(***************************************************************************)

Entry == [valid : BOOLEAN, kept : BOOLEAN]

\* The thread that runs the session.
LEMMA SelfRuns == Self \in Threads
BY FrontAssumption DEF Self

\* The number of no call, and lists of nothing.
LEMMA NoCall == 0 \in Calls /\ 0 \in 0 .. MaxSigs
BY SessionAssumption, SMT DEF Calls

\* An empty list is a list of report entries and of names.
LEMMA NoEntries ==
    << >> \in Seq(Entry) /\ << >> \in Seq(Names) /\ AllKept(<< >>) /\ AllValid(<< >>)
<1>1. << >> \in Seq(Entry) /\ << >> \in Seq(Names)
  BY SMT
<1> QED
  BY <1>1, SMT DEF AllKept, AllValid

\* Adding an entry at the end of a list.
LEMMA Appended ==
    ASSUME NEW S, NEW s \in Seq(S), NEW e \in S
    PROVE  /\ Append(s, e) \in Seq(S) /\ Append(s, e) # << >> /\ DOMAIN Append(s, e) = 1 .. Len(s) + 1
           /\ Len(s) \in Nat /\ DOMAIN s = 1 .. Len(s)
           /\ \A i \in 1 .. Len(s) : Append(s, e)[i] = s[i]
           /\ Append(s, e)[Len(s) + 1] = e
BY SMT

\* Taking the first entry off a list of several.
LEMMA Shorter ==
    ASSUME NEW S, NEW s \in Seq(S), Len(s) > 1
    PROVE  Tail(s) \in Seq(S) /\ Tail(s) # << >>
<1>1. Tail(s) \in Seq(S) /\ Len(Tail(s)) = Len(s) - 1 /\ Len(s) \in Nat
  BY SMT
<1>2. Len(Tail(s)) # 0
  BY <1>1, SMT
<1>3. Len(<< >>) = 0
  BY SMT
<1> QED
  BY <1>1, <1>2, <1>3

\* One more signature of a container.
LEMMA OneMore ==
    ASSUME NEW s \in Seq(Entry), NEW e \in Entry
    PROVE  /\ Append(s, e) \in Seq(Entry) /\ Append(s, e) # << >>
           /\ AllKept(Append(s, e)) <=> AllKept(s) /\ e.kept
           /\ AllValid(Append(s, e)) <=> AllValid(s) /\ e.valid
<1> DEFINE q == Append(s, e)
<1>1. /\ q \in Seq(Entry) /\ q # << >> /\ Len(s) \in Nat /\ DOMAIN s = 1 .. Len(s)
      /\ DOMAIN q = 1 .. Len(s) + 1 /\ q[Len(s) + 1] = e /\ \A i \in 1 .. Len(s) : q[i] = s[i]
  BY Appended, SMT
<1>2. PICK n \in Nat : n = Len(s)
  BY <1>1
<1> HIDE DEF q
<1>3. \A i \in 1 .. n + 1 : i \in 1 .. n \/ i = n + 1
  BY SMT
<1>4. n + 1 \in 1 .. n + 1 /\ \A i \in 1 .. n : i \in 1 .. n + 1
  BY SMT
<1>5. AllKept(q) <=> AllKept(s) /\ e.kept
  BY <1>1, <1>2, <1>3, <1>4 DEF AllKept
<1>6. AllValid(q) <=> AllValid(s) /\ e.valid
  BY <1>1, <1>2, <1>3, <1>4 DEF AllValid
<1> QED
  BY <1>1, <1>5, <1>6 DEF q

\* The frame of a call that has returned.
LEMMA IdleFrame ==
    ASSUME NEW ok \in BOOLEAN
    PROVE  Idle(ok) \in Frame /\ Idle(ok).pc = "idle" /\ Idle(ok).ok = ok
<1>1. 0 \in Calls /\ 0 \in 0 .. MaxSigs
  BY NoCall
<1>2. << >> \in Seq(Names) /\ << >> \in Seq(Entry)
  BY NoEntries
<1> QED
  BY <1>1, <1>2 DEF Idle, Frame, FrameRecord, PCs, Names, Entry

\* What a commit puts into the report.
OutcomeIs(r, op, executed, valid, c) ==
    /\ r \in Report /\ r.has_result /\ r.operation = op /\ r.executed = executed
    /\ r.signature_valid = valid /\ r.core = c /\ r.coverage = 0 /\ r.entries = << >>

\* The fields of Outcome.
LEMMA OutcomeFields ==
    ASSUME NEW op \in Names, NEW executed \in BOOLEAN, NEW valid \in BOOLEAN, NEW c \in Calls,
           NEW r, r = Outcome(op, executed, valid, c)
    PROVE  OutcomeIs(r, op, executed, valid, c)
<1>1. 0 \in Calls
  BY NoCall
<1>2. << >> \in Seq(Entry)
  BY NoEntries
<1>3. /\ Cleared \in Report /\ Cleared.coverage = 0 /\ Cleared.entries = << >>
  BY <1>1, <1>2 DEF Cleared, Report, Names, Entry
<1> QED
  BY <1>3 DEF Outcome, Report, OutcomeIs

\* Two frames of one call that differ in where it stands.
Same(f, h) ==
    /\ h.call = f.call /\ h.entry = f.entry /\ h.entries = f.entries /\ h.malformed = f.malformed

\* Where a call goes on when its core operation has returned.
LEMMA ResumedFrame ==
    ASSUME NEW f \in FrameRecord, NEW ok \in BOOLEAN, NEW valid \in BOOLEAN,
           NEW h, h = Resume(f, ok, valid)
    PROVE  /\ h \in Frame /\ h.ok = ok
           /\ \/ h.pc = "idle"
              \/ /\ h.pc \in {"rename", "copy"} /\ Same(f, h) /\ h.valid = valid /\ h.mine
                 /\ h.pc = "copy" => f.entry = "VerifyFileAsicE"
<1>1. PICK g : g = [f EXCEPT !.ok = ok, !.valid = valid, !.mine = TRUE]
  OBVIOUS
<1>2. g \in FrameRecord /\ Same(f, g) /\ g.ok = ok /\ g.valid = valid /\ g.mine
  BY <1>1 DEF FrameRecord, Same
<1>3. \/ h = [g EXCEPT !.pc = "rename"] /\ g.todo # << >>
      \/ h = [g EXCEPT !.pc = "copy"] /\ g.entry = "VerifyFileAsicE"
      \/ h = Idle(ok)
  BY <1>1, SMT DEF Resume
<1>4. ASSUME NEW p \in {"rename", "copy"}, h = [g EXCEPT !.pc = p], p = "rename" => g.todo # << >>
      PROVE  h \in Frame /\ h.ok = ok /\ h.pc = p /\ Same(f, h) /\ h.valid = valid /\ h.mine
  BY <1>2, <1>4 DEF Frame, FrameRecord, Same, PCs
<1> QED
  BY <1>2, <1>3, <1>4, IdleFrame DEF Same

\* Where a call goes on after a rename.
LEMMA RenamedFrame ==
    ASSUME NEW f \in FrameRecord, NEW h, h = Renamed(f)
    PROVE  /\ h \in Frame /\ h.ok = f.ok
           /\ \/ h.pc = "idle"
              \/ /\ h.pc \in {f.pc, "coverage"} /\ Same(f, h) /\ h.mine = f.mine /\ h.valid = f.valid
                 /\ h.pc # f.pc => f.entry # "VerifyFileAsicE"
<1>1. f.todo \in Seq(Names) /\ f.ok \in BOOLEAN
  BY DEF FrameRecord
<1>2. CASE Len(f.todo) > 1
  <2>1. Tail(f.todo) \in Seq(Names) /\ Tail(f.todo) # << >>
    BY <1>1, <1>2, Shorter, SMT
  <2>2. h = [f EXCEPT !.todo = Tail(f.todo)]
    BY <1>2, SMT DEF Renamed
  <2> QED
    BY <2>1, <2>2 DEF Frame, FrameRecord, Same
<1>3. CASE ~(Len(f.todo) > 1)
  <2>1. << >> \in Seq(Names)
    BY NoEntries
  <2>2. \/ h = [f EXCEPT !.todo = << >>, !.pc = "coverage"] /\ f.entry # "VerifyFileAsicE"
        \/ h = Idle(f.ok)
    BY <1>3, SMT DEF Renamed
  <2>3. CASE h = [f EXCEPT !.todo = << >>, !.pc = "coverage"] /\ f.entry # "VerifyFileAsicE"
    BY <2>1, <2>3 DEF Frame, FrameRecord, Same, PCs
  <2> QED
    BY <1>1, <2>2, <2>3, IdleFrame
<1> QED
  BY <1>2, <1>3
-----------------------------------------------------------------------------
(***************************************************************************)
(* The steps of a call, as functions of the frame, the report and the      *)
(* error: h, r1, e1 and o1 are their next values.                          *)
(***************************************************************************)

\* A report that one section commits: its coverage is complete by default, or
\* declared there.
Declared(r1) ==
    \/ r1.coverage = 0 /\ r1.entries = << >>
    \/ r1.operation \in {"VerifyFileAsicEXades", "VerifyPdf"}

\* What a call that returns leaves behind.
Returns(f, h, r1, e1, n) ==
    /\ h.ok \/ f.entry \notin Formats => r1.core = n
    /\ r1.core = n => r1.has_result /\ (r1.executed => h.ok)
    /\ e1.code # "None" => e1.by = n
    /\ h.ok \/ e1.code # "None"
    /\ h.ok /\ InAsicE(f) => r1.operation = "VerifyFileAsicE" /\ r1.entries = f.entries
    /\ h.ok /\ InWrapper(f) => r1.entries = << >> /\ (f.valid => r1.signature_valid)
    /\ h.ok /\ ~InAsicE(f) /\ ~InWrapper(f) => Declared(r1)

Taken(j, f, r, n, h, r1, e1, o1) ==
    /\ ReportOK(r1, n)
    /\ h.pc = "stamp" /\ h.entry # "VerifyFileAsicE" => InWrapper(f)
    /\ IF h.pc = "idle" THEN Returns(f, h, r1, e1, n) ELSE InCall(j, h, r1, e1, n, o1)

\* A commit is the call's own: its number is in the report, and an error is its.
Committed(r1, e1, n) ==
    /\ r1.core = n /\ r1.has_result /\ r1.coverage \in {0, n} /\ Earned(r1)
    /\ e1.code # "None" => e1.by = n

\* The call commits and returns.
LEMMA CommitReturns ==
    ASSUME NEW j, NEW f, NEW r, NEW n \in Nat, NEW h, NEW r1, NEW e1, NEW o1,
           f.pc \notin {"rename", "coverage", "facts", "stamp"}, Declared(r1),
           Committed(r1, e1, n), h.pc = "idle", r1.executed => h.ok, h.ok \/ e1.code # "None"
    PROVE  Taken(j, f, r, n, h, r1, e1, o1)
<1>1. n \in 0 .. n
  BY SMT
<1>2. ReportOK(r1, n)
  BY <1>1 DEF Committed, ReportOK
<1>3. ~InAsicE(f) /\ ~InWrapper(f)
  BY DEF InAsicE, InWrapper
<1> QED
  BY <1>2, <1>3 DEF Taken, Returns, Committed

\* The core operation commits, and the call goes on in its wrapper.
LEMMA CommitResumes ==
    ASSUME NEW j, NEW f, NEW r, NEW e, NEW n \in Nat, NEW o, NEW h, NEW r1, NEW e1, NEW o1,
           InCall(j, f, r, e, n, o), ReportOK(r, n), f.pc \in {"enter", "crypto"},
           Committed(r1, e1, n), r1.coverage = 0, r1.entries = << >>, o1,
           r1.executed => h.ok, h.ok \/ e1.code # "None",
           \/ h.pc = "idle"
           \/ /\ h.pc \in {"rename", "copy"} /\ Same(f, h) /\ h.mine
              /\ h.valid = r1.signature_valid /\ (h.pc = "copy" => f.entry = "VerifyFileAsicE")
    PROVE  Taken(j, f, r, n, h, r1, e1, o1)
<1>1. CASE h.pc = "idle"
  BY <1>1, CommitReturns DEF Declared
<1>2. CASE /\ h.pc \in {"rename", "copy"} /\ Same(f, h) /\ h.mine
           /\ h.valid = r1.signature_valid /\ (h.pc = "copy" => f.entry = "VerifyFileAsicE")
  <2>1. n \in 0 .. n
    BY SMT
  <2>2. ReportOK(r1, n)
    BY <2>1 DEF Committed, ReportOK
  <2>3. h.call = n /\ Own(h, r1, e1)
    BY <1>2 DEF InCall, Own, Committed, Same
  <2>4. Loop(h, r1)
    BY <1>2 DEF InCall, Loop, Same
  <2>5. InCall(j, h, r1, e1, n, o1)
    BY <1>2, <2>3, <2>4 DEF InCall, Same
  <2> QED
    BY <1>2, <2>2, <2>5 DEF Taken
<1> QED
  BY <1>1, <1>2

\* The call only moves on.
LEMMA Moves ==
    ASSUME NEW j, NEW f, NEW r, NEW n, NEW h, NEW e, NEW o,
           ReportOK(r, n), h.pc \notin {"idle", "stamp"}, InCall(j, h, r, e, n, o)
    PROVE  Taken(j, f, r, n, h, r, e, o)
BY DEF Taken

\* The call goes on to its next section.
LEMMA GoesOn ==
    ASSUME NEW j, NEW f, NEW r, NEW n, NEW h, NEW e, NEW o,
           ReportOK(r, n), InCall(j, f, r, e, n, o), f.pc # "stamp", Same(f, h), h.mine = f.mine,
           \/ h.pc \in {"crypto", "load", "xades", "enter"}
           \/ h.pc = "parse" /\ f.pc = "format"
           \/ h.pc = "unpack" /\ f.pc = "asic"
           \/ h.pc = "next" /\ f.pc = "unpack" /\ h.left # 0 /\ h.entry = "VerifyFileAsicE"
    PROVE  Taken(j, f, r, n, h, r, e, o)
<1>1. Loop(h, r)
  BY DEF InCall, Loop, Same
<1>2. IF h.mine THEN o /\ Own(h, r, e) ELSE r.core # n
  BY DEF InCall, Own, Same, InWrapper
<1>3. InCall(j, h, r, e, n, o)
  BY <1>1, <1>2 DEF InCall, Same
<1> QED
  BY <1>3, Moves

\* The verification could not be run; the report is left as it was.
LEMMA OnlyError ==
    ASSUME NEW j, NEW f, NEW r, NEW n, NEW h, NEW e, NEW o, NEW e1, NEW o1,
           ReportOK(r, n), InCall(j, f, r, e, n, o), f.pc \in {"format", "parse"},
           h.pc = "idle", ~h.ok, e1.code # "None", e1.by = n
    PROVE  Taken(j, f, r, n, h, r, e1, o1)
BY DEF Taken, InCall, Returns

\* The report of the call is given another name.
LEMMA RenameTaken ==
    ASSUME NEW j, NEW f \in Frame, NEW r \in Report, NEW e, NEW n \in Nat, NEW o, NEW x \in Names,
           NEW c, NEW h, NEW r1, NEW e1, InCall(j, f, r, e, n, o), ReportOK(r, n), f.pc = "rename",
           r1 = [r EXCEPT !.operation = x, !.named = c], h = Renamed(f),
           e1 = e \/ (e1.code = "None" /\ f.ok)
    PROVE  Taken(j, f, r, n, h, r1, e1, o)
<1>1. /\ r1.core = r.core /\ r1.has_result = r.has_result /\ r1.executed = r.executed
      /\ r1.signature_valid = r.signature_valid /\ r1.entries = r.entries /\ r1.coverage = r.coverage
      /\ r1.operation = x
  BY DEF Report
<1>2. /\ f.mine /\ o /\ r.core = n /\ f.call = n /\ n # 0 /\ r.has_result /\ r.entries = << >> /\ r.coverage = 0
      /\ e.code # "None" => e.by = n
      /\ ~f.ok => ~r.executed /\ e.code # "None"
      /\ f.valid => r.signature_valid
  BY DEF InCall, Own, InWrapper, InAsicE
<1>3. AllKept(<< >>) /\ AllValid(<< >>)
  BY NoEntries
<1>4. Earned(r1)
  BY <1>1, <1>2, <1>3 DEF Earned
<1>5. ReportOK(r1, n)
  BY <1>1, <1>2, <1>4 DEF ReportOK
<1>6. f \in FrameRecord
  BY DEF Frame
<1>7. /\ h.ok = f.ok
      /\ \/ h.pc = "idle"
         \/ /\ h.pc \in {"rename", "coverage"} /\ Same(f, h) /\ h.mine /\ h.valid = f.valid
            /\ h.pc = "coverage" => f.entry # "VerifyFileAsicE"
  BY <1>2, <1>6, RenamedFrame
<1>8. CASE h.pc = "idle"
  <2>1. ~InAsicE(f) /\ InWrapper(f)
    BY DEF InAsicE, InWrapper
  <2> QED
    BY <1>1, <1>2, <1>5, <1>7, <1>8, <2>1 DEF Taken, Returns
<1>9. CASE /\ h.pc \in {"rename", "coverage"} /\ Same(f, h) /\ h.mine /\ h.valid = f.valid
           /\ h.pc = "coverage" => f.entry # "VerifyFileAsicE"
  <2>1. Own(h, r1, e1)
    BY <1>1, <1>2, <1>7, <1>9 DEF Own, Same
  <2>2. Loop(h, r1)
    BY <1>9 DEF InCall, Loop, Same
  <2>3. InCall(j, h, r1, e1, n, o)
    BY <1>2, <1>9, <2>1, <2>2 DEF InCall, Same
  <2> QED
    BY <1>5, <1>9, <2>3 DEF Taken
<1> QED
  BY <1>7, <1>8, <1>9

\* The signatures of an ASiC-E container were verified, and its report gets the
\* container's name: the report of the last signature, or a new one that says
\* the container is malformed.
LEMMA CloseTaken ==
    ASSUME NEW j, NEW f \in Frame, NEW r \in Report, NEW e, NEW n \in Nat, NEW o, NEW h, NEW r1, NEW e1,
           NEW o1, InCall(j, f, r, e, n, o), ReportOK(r, n), f.pc = "close",
           h.pc = "facts", Same(f, h), h.mine, o1,
           r1.operation = "VerifyFileAsicE", r1.core = n, r1.has_result, r1.entries = << >>, r1.coverage = 0,
           e1.code # "None" => e1.by = n,
           f.malformed \/ r1.signature_valid = r.signature_valid
    PROVE  Taken(j, f, r, n, h, r1, e1, o1)
<1>1. AllKept(<< >>)
  BY NoEntries
<1>2. n \in 0 .. n
  BY SMT
<1>3. ReportOK(r1, n)
  BY <1>1, <1>2 DEF ReportOK, Earned
<1>4. Own(h, r1, e1)
  BY DEF Own, InCall, Same, InWrapper
<1>5. Loop(h, r1)
  BY DEF InCall, Loop, Same
<1>6. InCall(j, h, r1, e1, n, o1)
  BY <1>4, <1>5 DEF InCall, Same
<1> QED
  BY <1>3, <1>6 DEF Taken

\* The coverage is declared, and for ASiC-E the verified signatures are listed.
LEMMA CoverTaken ==
    ASSUME NEW j, NEW f \in Frame, NEW r \in Report, NEW e, NEW n \in Nat, NEW o, NEW h, NEW r1,
           InCall(j, f, r, e, n, o), ReportOK(r, n), f.pc \in {"coverage", "facts"},
           r1.core = r.core, r1.has_result = r.has_result, r1.executed = r.executed,
           r1.signature_valid = r.signature_valid, r1.operation = r.operation, r1.coverage = n,
           r1.entries = (IF f.pc = "facts" THEN f.entries ELSE r.entries),
           \/ h.pc = "idle" /\ h.ok = (f.pc = "facts" \/ f.ok)
           \/ h.pc = "stamp" /\ Same(f, h) /\ h.mine = f.mine /\ h.valid = f.valid
    PROVE  Taken(j, f, r, n, h, r1, e, o)
<1>1. /\ f.mine /\ o /\ r.core = n /\ f.call = n /\ n # 0 /\ r.has_result /\ r.entries = << >> /\ r.coverage = 0
      /\ e.code # "None" => e.by = n
      /\ f.pc = "coverage" /\ ~f.ok => ~r.executed /\ e.code # "None"
  BY DEF InCall, Own, Loop
<1>2. AllKept(<< >>) /\ AllValid(<< >>)
  BY NoEntries
<1>3. f.pc = "facts" => /\ AllKept(f.entries) /\ r.operation = "VerifyFileAsicE"
                        /\ f.entries # << >> /\ AllValid(f.entries) => r.signature_valid
  BY DEF InCall, Loop
<1>4. Earned(r)
  BY DEF ReportOK
<1>5. Earned(r1)
  <2>1. CASE f.pc = "facts"
    BY <1>3, <2>1 DEF Earned
  <2>2. CASE f.pc # "facts"
    BY <1>4, <2>2 DEF Earned
  <2> QED
    BY <2>1, <2>2
<1>6. ReportOK(r1, n)
  BY <1>1, <1>5 DEF ReportOK
<1>7. /\ f.pc = "facts" => InAsicE(f) /\ ~InWrapper(f) /\ f.entry = "VerifyFileAsicE"
      /\ f.pc = "coverage" => /\ InWrapper(f) /\ ~InAsicE(f) /\ f.entry # "VerifyFileAsicE"
                              /\ f.valid => r.signature_valid
  BY DEF InAsicE, InWrapper, InCall, Own, Loop
<1>8. CASE h.pc = "idle"
  BY <1>1, <1>3, <1>6, <1>7, <1>8 DEF Taken, Returns
<1>9. CASE h.pc = "stamp" /\ Same(f, h) /\ h.mine = f.mine /\ h.valid = f.valid
  <2>1. InWrapper(h) => f.pc = "coverage"
    BY <1>7, <1>9 DEF InWrapper, InAsicE, Same
  <2>2. Own(h, r1, e)
    BY <1>1, <1>3, <1>7, <1>9, <2>1 DEF Own, Same
  <2>3. Loop(h, r1)
    BY <1>9 DEF InCall, Loop, Same
  <2>4. InCall(j, h, r1, e, n, o)
    BY <1>1, <1>9, <2>2, <2>3 DEF InCall, Same
  <2> QED
    BY <1>6, <1>7, <1>9, <2>4 DEF Taken, Same
<1> QED
  BY <1>8, <1>9

\* The verdict on the container's time stamp goes into the report.
LEMMA StampTaken ==
    ASSUME NEW j, NEW f \in Frame, NEW r \in Report, NEW e, NEW n \in Nat, NEW o, NEW h, NEW r1, NEW c,
           InCall(j, f, r, e, n, o), ReportOK(r, n), f.pc = "stamp", r1 = [r EXCEPT !.stamp = c],
           h.pc = "idle", h.ok
    PROVE  Taken(j, f, r, n, h, r1, e, o)
<1>1. /\ r1.core = r.core /\ r1.has_result = r.has_result /\ r1.executed = r.executed
      /\ r1.signature_valid = r.signature_valid /\ r1.entries = r.entries /\ r1.coverage = r.coverage
      /\ r1.operation = r.operation
  BY DEF Report
<1>2. /\ r.core = n /\ r.has_result /\ (e.code # "None" => e.by = n)
      /\ InAsicE(f) => r.operation = "VerifyFileAsicE" /\ r.entries = f.entries
      /\ InWrapper(f) => r.entries = << >> /\ (f.valid => r.signature_valid)
      /\ InAsicE(f) \/ InWrapper(f)
  BY DEF InCall, Own, InAsicE, InWrapper
<1>3. ReportOK(r1, n)
  BY <1>1 DEF ReportOK, Earned
<1> QED
  BY <1>1, <1>2, <1>3 DEF Taken, Returns

\* One more signature of an ASiC-E container was verified or skipped, or there
\* is none left.
LEMMA LoopTaken ==
    ASSUME NEW j, NEW f, NEW r, NEW e, NEW n, NEW o, NEW h,
           InCall(j, f, r, e, n, o), ReportOK(r, n), f.pc \in {"next", "copy"}, h.pc \in {"next", "close"},
           h.call = f.call, h.entry = f.entry, h.mine = f.mine,
           h.entries # << >>, AllKept(h.entries), h.malformed => ~AllValid(h.entries),
           h.malformed \/ h.mine, AllValid(h.entries) => r.signature_valid
    PROVE  Taken(j, f, r, n, h, r, e, o)
<1>1. Loop(h, r)
  BY DEF Loop, InCall
<1>2. IF h.mine THEN o /\ Own(h, r, e) ELSE r.core # n
  BY DEF InCall, Own, InWrapper
<1>3. InCall(j, h, r, e, n, o)
  BY <1>1, <1>2 DEF InCall
<1> QED
  BY <1>3, Moves
-----------------------------------------------------------------------------
(***************************************************************************)
(* The sections of VerifySession as such steps.                            *)
(***************************************************************************)

Before ==
    /\ FrontTyped /\ ReportOK(report, Len(made))
    /\ InCall(job, frame[Self], report, lastError, Len(made), StillOwned(Self))

StepOK ==
    /\ report' \in Report /\ made' = made
    /\ lastCommit' \in [Threads -> Nat] /\ globalEpoch' \in Nat
    /\ \E h \in Frame :
          /\ frame' = [frame EXCEPT ![Self] = h]
          /\ Taken(job, frame[Self], report, Len(made), h, report', lastError', StillOwned(Self)')

\* The call in progress and its number.
LEMMA CallFacts ==
    ASSUME Before
    PROVE  /\ frame[Self] \in Frame /\ frame[Self] \in FrameRecord /\ frame[Self].call = Len(made)
           /\ Len(made) \in Nat /\ Len(made) \in Calls /\ Len(made) # 0 /\ frame[Self].entry \in Names
<1>1. made \in Seq(Verifying) /\ Len(made) <= MaxCalls
  BY DEF Before, FrontTyped
<1>2. Len(made) \in Nat /\ Len(made) \in 0 .. MaxCalls
  BY <1>1, SessionAssumption, SMT
<1>3. frame[Self] \in Frame
  BY SelfRuns DEF Before, FrontTyped
<1>4. frame[Self] \in FrameRecord /\ frame[Self].entry \in Names
  BY <1>3 DEF Frame, FrameRecord
<1> QED
  BY <1>2, <1>3, <1>4 DEF Before, InCall, Calls

\* A thread that commits owns the report.
LEMMA MarksOwn ==
    ASSUME FrontTyped, MarkCommitted(Self)
    PROVE  StillOwned(Self)' /\ lastCommit' \in [Threads -> Nat] /\ globalEpoch' \in Nat
<1>1. PICK g \in Nat : g = globalEpoch
  BY DEF FrontTyped
<1>2. g + 1 \in Nat /\ g + 1 # 0
  BY SMT
<1> QED
  BY <1>1, <1>2, SelfRuns DEF FrontTyped, MarkCommitted, StillOwned

\* A step that commits, and one that does not.
LEMMA CommitStep ==
    ASSUME Before, NEW h \in Frame, Goto(Self, h), report' \in Report, made' = made, MarkCommitted(Self),
           Taken(job, frame[Self], report, Len(made), h, report', lastError', TRUE)
    PROVE  StepOK
<1>1. StillOwned(Self)' /\ lastCommit' \in [Threads -> Nat] /\ globalEpoch' \in Nat
  BY MarksOwn DEF Before
<1>2. Taken(job, frame[Self], report, Len(made), h, report', lastError', StillOwned(Self)')
  BY <1>1 DEF Taken, InCall
<1> QED
  BY <1>1, <1>2 DEF StepOK, Goto

\* A step that leaves the ownership of the report alone.
LEMMA QuietStep ==
    ASSUME Before, NEW h \in Frame, Goto(Self, h), report' \in Report, made' = made, UNCHANGED ownership,
           Taken(job, frame[Self], report, Len(made), h, report', lastError', StillOwned(Self))
    PROVE  StepOK
<1>1. /\ StillOwned(Self)' <=> StillOwned(Self)
      /\ lastCommit' \in [Threads -> Nat] /\ globalEpoch' \in Nat
  BY DEF Before, FrontTyped, StillOwned, ownership
<1>2. Taken(job, frame[Self], report, Len(made), h, report', lastError', StillOwned(Self)')
  BY <1>1 DEF Taken, InCall
<1> QED
  BY <1>1, <1>2 DEF StepOK, Goto

\* What Outcome gives is a commit of the call.
LEMMA OutcomeCommits ==
    ASSUME NEW op \in Names, NEW executed \in BOOLEAN, NEW valid \in BOOLEAN, NEW n \in Calls,
           NEW r1, NEW e1, r1 = Outcome(op, executed, valid, n), e1.code # "None" => e1.by = n
    PROVE  Committed(r1, e1, n)
<1>1. AllKept(<< >>) /\ AllValid(<< >>)
  BY NoEntries
<1>2. OutcomeIs(r1, op, executed, valid, n)
  BY OutcomeFields
<1>3. Earned(r1)
  BY <1>1, <1>2 DEF Earned, OutcomeIs
<1> QED
  BY <1>2, <1>3 DEF Committed, OutcomeIs

\* A call commits and returns.
LEMMA EndsCommitted ==
    ASSUME Before, frame[Self].pc \notin {"rename", "coverage", "facts", "stamp"}, Declared(report'),
           NEW ok \in BOOLEAN, Goto(Self, Idle(ok)), MarkCommitted(Self), report' \in Report, made' = made, Committed(report', lastError', Len(made)),
           report'.executed => ok, ok \/ lastError'.code # "None"
    PROVE  StepOK
<1>1. Idle(ok) \in Frame /\ Idle(ok).pc = "idle" /\ Idle(ok).ok = ok
  BY IdleFrame
<1>2. Len(made) \in Nat
  BY CallFacts
<1>3. Taken(job, frame[Self], report, Len(made), Idle(ok), report', lastError', TRUE)
  BY <1>1, <1>2, CommitReturns
<1> QED
  BY <1>1, <1>3, CommitStep

\* The same through SetVerifyReport.
LEMMA EndsSet ==
    ASSUME Before, frame[Self].pc \notin {"rename", "coverage", "facts", "stamp"},
           NEW ok \in BOOLEAN, NEW op \in Names, NEW executed \in BOOLEAN, NEW valid \in BOOLEAN, Goto(Self, Idle(ok)), SetVerifyReport(Self, op, executed, valid), made' = made,
           lastError'.code # "None" => lastError'.by = Len(made),
           executed => ok, ok \/ lastError'.code # "None"
    PROVE  StepOK
<1>1. Len(made) \in Calls /\ frame[Self].call = Len(made)
  BY CallFacts
<1>2. report' = Outcome(op, executed, valid, Len(made)) /\ MarkCommitted(Self)
  BY <1>1 DEF SetVerifyReport
<1>3. report' \in Report /\ report'.executed = executed /\ Declared(report')
  <2>1. OutcomeIs(report', op, executed, valid, Len(made))
    BY <1>1, <1>2, OutcomeFields
  <2> QED
    BY <2>1 DEF OutcomeIs, Declared
<1>4. Committed(report', lastError', Len(made))
  BY <1>1, <1>2, OutcomeCommits
<1> QED
  BY <1>2, <1>3, <1>4, EndsCommitted

\* The core operation of a wrapper commits.
LEMMA ResumesCommitted ==
    ASSUME Before, frame[Self].pc \in {"enter", "crypto"}, NEW g \in FrameRecord, Same(frame[Self], g),
           NEW op \in Names, NEW ok \in BOOLEAN, NEW valid \in BOOLEAN,
           Goto(Self, Resume(g, ok, valid)), report' = Outcome(op, ok, valid, Len(made)),
           MarkCommitted(Self), made' = made,
           lastError'.code # "None" => lastError'.by = Len(made), ok \/ lastError'.code # "None"
    PROVE  StepOK
<1>1. Len(made) \in Calls /\ Len(made) \in Nat
  BY CallFacts
<1>2. /\ report' \in Report /\ report'.executed = ok /\ report'.signature_valid = valid
      /\ report'.coverage = 0 /\ report'.entries = << >>
  <2>1. OutcomeIs(report', op, ok, valid, Len(made))
    BY <1>1, OutcomeFields
  <2> QED
    BY <2>1 DEF OutcomeIs
<1>3. Committed(report', lastError', Len(made))
  BY <1>1, OutcomeCommits
<1>4. PICK h : h = Resume(g, ok, valid)
  OBVIOUS
<1>5. /\ h \in Frame /\ h.ok = ok
      /\ \/ h.pc = "idle"
         \/ /\ h.pc \in {"rename", "copy"} /\ Same(g, h) /\ h.valid = valid /\ h.mine
            /\ h.pc = "copy" => g.entry = "VerifyFileAsicE"
  BY <1>4, ResumedFrame, SMT
<1>6. \/ h.pc = "idle"
      \/ /\ h.pc \in {"rename", "copy"} /\ Same(frame[Self], h) /\ h.mine /\ h.valid = valid
         /\ h.pc = "copy" => frame[Self].entry = "VerifyFileAsicE"
  BY <1>5 DEF Same
<1>7. Taken(job, frame[Self], report, Len(made), h, report', lastError', TRUE)
  BY <1>1, <1>2, <1>3, <1>5, <1>6, CommitResumes DEF Before
<1> QED
  BY <1>2, <1>4, <1>5, <1>7, CommitStep

\* The error of a section.
LEMMA ErrorSet ==
    ASSUME Before, NEW code, code # "None", SetError(code, frame[Self].call)
    PROVE  lastError'.code # "None" /\ lastError'.by = Len(made)
BY CallFacts DEF SetError

\* ClearError leaves no error.
LEMMA ErrorCleared ==
    ASSUME ClearError
    PROVE  lastError'.code = "None"
BY DEF ClearError

\* The names that the sections use themselves.
LEMMA KnownNames ==
    /\ "RecordVerifyFailure" \in Names /\ "VerifyFileAsicEXades" \in Names /\ "VerifyFileAsicE" \in Names
    /\ \A e : CoreOf(e) \in Names
BY DEF Names, Verifying, Containers, Detached, Attached, CoreOf

\* The session is not initialized, or the cryptography fails.
LEMMA CoreFails ==
    ASSUME Before, frame[Self].pc \in {"enter", "crypto"}, NEW code, code # "None",
           SetError(code, frame[Self].call), SetVerifyReport(Self, CoreOf(frame[Self].entry), FALSE, FALSE),
           Goto(Self, Resume(frame[Self], FALSE, FALSE)), made' = made
    PROVE  StepOK
<1>1. lastError'.code # "None" /\ lastError'.by = Len(made)
  BY ErrorSet
<1>2. CoreOf(frame[Self].entry) \in Names
  BY KnownNames
<1>3. report' = Outcome(CoreOf(frame[Self].entry), FALSE, FALSE, Len(made)) /\ MarkCommitted(Self)
  BY CallFacts DEF SetVerifyReport
<1>4. frame[Self] \in FrameRecord /\ Same(frame[Self], frame[Self])
  BY CallFacts DEF Same
<1> QED
  BY <1>1, <1>2, <1>3, <1>4, ResumesCommitted

\* A frame with another program counter.
LEMMA MovedFrame ==
    ASSUME NEW f \in FrameRecord, NEW p \in PCs, NEW h, h = [f EXCEPT !.pc = p]
    PROVE  h \in FrameRecord /\ h.pc = p /\ Same(f, h) /\ h.mine = f.mine
BY DEF FrameRecord, Same

\* A call moves on to another section.
LEMMA GotoNext ==
    ASSUME Before, frame[Self].pc # "stamp", UNCHANGED <<session, ownership, made>>,
           NEW h \in FrameRecord, Goto(Self, h), Same(frame[Self], h), h.mine = frame[Self].mine,
           \/ h.pc \in {"crypto", "load", "xades", "enter"}
           \/ h.pc = "parse" /\ frame[Self].pc = "format"
           \/ h.pc = "unpack" /\ frame[Self].pc = "asic"
           \/ h.pc = "next" /\ frame[Self].pc = "unpack" /\ h.left # 0 /\ h.entry = "VerifyFileAsicE"
    PROVE  StepOK
<1>1. h \in Frame
  BY DEF Frame
<1>2. Taken(job, frame[Self], report, Len(made), h, report, lastError, StillOwned(Self))
  BY GoesOn DEF Before
<1>3. report' = report /\ lastError' = lastError /\ UNCHANGED ownership /\ made' = made
  BY DEF session
<1>4. report' \in Report
  BY <1>3 DEF Before, FrontTyped
<1> QED
  BY <1>1, <1>2, <1>3, <1>4, QuietStep

\* A frame that only moves on.
LEMMA GotoPC ==
    ASSUME Before, frame[Self].pc # "stamp", UNCHANGED <<session, ownership, made>>, NEW p \in PCs,
           Goto(Self, [frame[Self] EXCEPT !.pc = p]),
           \/ p \in {"crypto", "load", "xades", "enter"}
           \/ p = "parse" /\ frame[Self].pc = "format"
           \/ p = "unpack" /\ frame[Self].pc = "asic"
    PROVE  StepOK
<1>1. PICK h : h = [frame[Self] EXCEPT !.pc = p]
  OBVIOUS
<1>2. h \in FrameRecord /\ h.pc = p /\ Same(frame[Self], h) /\ h.mine = frame[Self].mine
  BY <1>1, CallFacts, MovedFrame, SMT
<1> QED
  BY <1>1, <1>2, GotoNext

-----------------------------------------------------------------------------

\* VerifyXml and VerifyPdf.
LEMMA FormatErrs ==
    ASSUME Before, frame[Self].pc \in {"format", "parse"}, NEW code, code # "None",
           SetError(code, frame[Self].call), Goto(Self, Idle(FALSE)),
           report' = report, UNCHANGED ownership, made' = made
    PROVE  StepOK
<1>1. lastError'.code # "None" /\ lastError'.by = Len(made)
  BY ErrorSet
<1>2. Idle(FALSE) \in Frame /\ Idle(FALSE).pc = "idle" /\ ~Idle(FALSE).ok
  BY IdleFrame
<1>3. report' = report /\ report' \in Report /\ UNCHANGED ownership /\ made' = made
  BY DEF Before, FrontTyped
<1>4. Taken(job, frame[Self], report, Len(made), Idle(FALSE), report, lastError', StillOwned(Self))
  BY <1>1, <1>2, OnlyError DEF Before
<1> QED
  BY <1>2, <1>3, <1>4, QuietStep

\* A report of a call that declares its coverage.
LEMMA CoveredCommits ==
    ASSUME NEW n, NEW r1, NEW e1, e1.code = "None", r1.has_result, r1.core = n, r1.coverage \in {0, n},
           r1.operation # "VerifyFileAsicE", AllKept(r1.entries), r1.signature_valid => AllValid(r1.entries)
    PROVE  Committed(r1, e1, n)
BY DEF Committed, Earned

\* A list of signatures whose time stamps were all kept.
LEMMA KeptList ==
    ASSUME NEW k \in Nat, NEW v \in [1 .. k -> BOOLEAN],
           NEW s, s = [i \in 1 .. k |-> [valid |-> v[i], kept |-> TRUE]]
    PROVE  s \in Seq(Entry) /\ AllKept(s) /\ ((\A i \in 1 .. k : v[i]) => AllValid(s))
<1>1. \A i \in 1 .. k : [valid |-> v[i], kept |-> TRUE] \in Entry
  BY DEF Entry
<1>2. s \in Seq(Entry)
  BY <1>1, SMT
<1>3. DOMAIN s = 1 .. k /\ \A i \in 1 .. k : s[i].kept /\ s[i].valid = v[i]
  OBVIOUS
<1> QED
  BY <1>2, <1>3 DEF AllKept, AllValid

\* One signature less is left.
LEMMA OneLess ==
    ASSUME NEW l \in 0 .. MaxSigs, l > 0
    PROVE  l - 1 \in 0 .. MaxSigs
BY SessionAssumption, SMT

\* A step of the loop over the signatures of an ASiC-E container.
LEMMA LoopStep ==
    ASSUME Before, UNCHANGED <<session, ownership, made>>, NEW h \in FrameRecord, Goto(Self, h),
           frame[Self].pc \in {"next", "copy"}, h.pc \in {"next", "close"},
           h.call = frame[Self].call, h.entry = frame[Self].entry, h.mine = frame[Self].mine,
           h.entries # << >>, AllKept(h.entries), h.malformed => ~AllValid(h.entries),
           h.malformed \/ h.mine, AllValid(h.entries) => report.signature_valid
    PROVE  StepOK
<1>1. h \in Frame
  BY DEF Frame
<1>2. Taken(job, frame[Self], report, Len(made), h, report, lastError, StillOwned(Self))
  BY LoopTaken DEF Before
<1>3. report' = report /\ lastError' = lastError /\ UNCHANGED ownership /\ made' = made
  BY DEF session
<1>4. report' \in Report
  BY <1>3 DEF Before, FrontTyped
<1> QED
  BY <1>1, <1>2, <1>3, <1>4, QuietStep

\* A container whose time stamp is validated next, or that has none.
AfterCover(f, h, ok) ==
    /\ h \in Frame
    /\ \/ h.pc = "idle" /\ h.ok = ok
       \/ h.pc = "stamp" /\ Same(f, h) /\ h.mine = f.mine /\ h.valid = f.valid

\* Where a call goes on once the coverage is declared.
LEMMA StampFrame ==
    ASSUME NEW f \in FrameRecord, NEW stamped \in BOOLEAN, NEW ok \in BOOLEAN,
           NEW h, h = IF stamped THEN [f EXCEPT !.pc = "stamp"] ELSE Idle(ok)
    PROVE  AfterCover(f, h, ok)
<1>1. CASE stamped
  <2>1. h = [f EXCEPT !.pc = "stamp"]
    BY <1>1
  <2> QED
    BY <2>1 DEF Frame, FrameRecord, Same, PCs, AfterCover
<1>2. CASE ~stamped
  <2>1. h = Idle(ok)
    BY <1>2
  <2> QED
    BY <2>1, IdleFrame DEF AfterCover
<1> QED
  BY <1>1, <1>2

\* Every section of a call is such a step.
LEMMA StepTaken ==
    ASSUME Before, Step(Self)
    PROVE  StepOK
\* RecordVerifyFailure.
<1>1. CASE RecordVerifyFailure(Self)
  <2> USE <1>1
  <2>1. /\ frame[Self].pc = "record" /\ Goto(Self, Idle(FALSE)) /\ made' = made
        /\ SetVerifyReport(Self, "RecordVerifyFailure", FALSE, FALSE)
        /\ SetError("InvalidArgument", frame[Self].call)
    BY DEF RecordVerifyFailure, At
  <2>2. lastError'.code # "None" /\ lastError'.by = Len(made)
    BY <2>1, ErrorSet
  <2> QED
    BY <2>1, <2>2, KnownNames, EndsSet
\* The sections of VerifyData and VerifyDataInternal.
<1>2. CASE InputFails(Self)
  <2> USE <1>2
  <2>1. PICK f : f = frame[Self]
    OBVIOUS
  <2>2. f \in FrameRecord /\ f.todo \in Seq(Names) /\ f.call = Len(made)
    BY <2>1, CallFacts DEF FrameRecord
  <2>3. PICK i \in DOMAIN f.todo :
          /\ SetVerifyReport(Self, f.todo[i], FALSE, FALSE)
          /\ SetError("InvalidArgument", f.call)
          /\ Goto(Self, Resume([f EXCEPT !.todo = SubSeq(f.todo, i + 1, Len(f.todo))], FALSE, FALSE))
    BY <2>1 DEF InputFails
  <2>4. f.pc = "enter" /\ made' = made
    BY <2>1 DEF InputFails, At
  <2>5. PICK outer : outer = SubSeq(f.todo, i + 1, Len(f.todo))
    OBVIOUS
  <2>6. outer \in Seq(Names) /\ f.todo[i] \in Names
    BY <2>2, <2>5, SMT
  <2>7. PICK g : g = [f EXCEPT !.todo = outer]
    OBVIOUS
  <2>8. g \in FrameRecord /\ Same(f, g)
    BY <2>2, <2>6, <2>7 DEF FrameRecord, Same
  <2>9. lastError'.code # "None" /\ lastError'.by = Len(made)
    BY <2>1, <2>3, ErrorSet
  <2>10. report' = Outcome(f.todo[i], FALSE, FALSE, Len(made)) /\ MarkCommitted(Self)
    BY <2>1, <2>2, <2>3 DEF SetVerifyReport
  <2>11. Goto(Self, Resume(g, FALSE, FALSE))
    BY <2>3, <2>5, <2>7
  <2> QED
    BY <2>1, <2>4, <2>6, <2>8, <2>9, <2>10, <2>11, ResumesCommitted
\* VerifyDataInternal begins: the session is initialized, or the call fails.
<1>3. CASE Enter(Self)
  <2> USE <1>3
  <2>1. CASE /\ initialized
             /\ Goto(Self, [frame[Self] EXCEPT !.pc = "crypto"])
             /\ UNCHANGED <<session, ownership, made>>
    <3>1. frame[Self].pc # "stamp" /\ "crypto" \in PCs
      BY DEF Enter, At, PCs
    <3> QED
      BY <2>1, <3>1, GotoPC
  <2>2. CASE /\ ~initialized
             /\ SetError("NotInitialized", frame[Self].call)
             /\ SetVerifyReport(Self, CoreOf(frame[Self].entry), FALSE, FALSE)
             /\ Goto(Self, Resume(frame[Self], FALSE, FALSE))
             /\ UNCHANGED <<initialized, made>>
    <3>1. frame[Self].pc \in {"enter", "crypto"} /\ made' = made
      BY <2>2 DEF Enter, At
    <3> QED
      BY <2>2, <3>1, CoreFails
  <2> QED
    BY <2>1, <2>2 DEF Enter
\* The cryptographic check fails.
<1>4. CASE CryptoFails(Self)
  <2> USE <1>4
  <2>1. frame[Self].pc \in {"enter", "crypto"} /\ made' = made
    BY DEF CryptoFails, At
  <2> QED
    BY <2>1, CoreFails DEF CryptoFails
\* VerifyDataInternal publishes its report.
<1>5. CASE Commit(Self)
  <2> USE <1>5
  <2>1. PICK valid \in BOOLEAN :
          /\ report' = Outcome(CoreOf(frame[Self].entry), TRUE, valid, frame[Self].call)
          /\ Goto(Self, Resume(frame[Self], TRUE, valid))
    BY DEF Commit
  <2>2. frame[Self].pc \in {"enter", "crypto"} /\ MarkCommitted(Self) /\ ClearError /\ made' = made
    BY DEF Commit, At
  <2>3. CoreOf(frame[Self].entry) \in Names
    BY KnownNames
  <2>4. frame[Self] \in FrameRecord /\ frame[Self].call = Len(made) /\ Same(frame[Self], frame[Self])
    BY CallFacts DEF Same
  <2>5. lastError'.code = "None"
    BY <2>2, ErrorCleared
  <2> QED
    BY <2>1, <2>2, <2>3, <2>4, <2>5, ResumesCommitted
\* The wrappers give the report their names.
<1>6. CASE Rename(Self) \/ ForceName(Self)
  <2> USE <1>6
  <2>1. PICK f \in Frame : f = frame[Self]
    BY CallFacts
  <2>2. f.pc = "rename" /\ Goto(Self, Renamed(f)) /\ UNCHANGED ownership /\ made' = made
    BY <2>1 DEF Rename, ForceName, At
  <2>3. StillOwned(Self) /\ report.has_result
    BY <2>1, <2>2 DEF Before, InCall, Own
  <2>4. PICK x : x = Head(f.todo)
    OBVIOUS
  <2>5. f \in FrameRecord /\ f.todo \in Seq(Names) /\ f.todo # << >>
    BY <2>2 DEF Frame, FrameRecord
  <2>6. x \in Names
    BY <2>4, <2>5, SMT
  <2>7. report' = [report EXCEPT !.operation = x, !.named = f.call]
    BY <2>1, <2>3, <2>4 DEF Rename, ForceName
  <2>8. lastError' = lastError \/ (lastError'.code = "None" /\ f.ok)
    <3>1. CASE Rename(Self)
      BY <3>1 DEF Rename
    <3>2. CASE ForceName(Self)
      <4>1. ClearError /\ f.ok
        BY <2>1, <3>2 DEF ForceName, ForcesName
      <4> QED
        BY <4>1, ErrorCleared
    <3> QED
      BY <3>1, <3>2
  <2>9. PICK h : h = Renamed(f)
    OBVIOUS
  <2>10. h \in Frame
    BY <2>5, <2>9, RenamedFrame, SMT
  <2>11. report \in Report /\ f.call \in Calls /\ Len(made) \in Nat
    BY <2>1, CallFacts DEF Before, FrontTyped
  <2>12. report' \in Report
    BY <2>6, <2>7, <2>11 DEF Report
  <2>13. Taken(job, f, report, Len(made), h, report', lastError', StillOwned(Self))
    BY <2>1, <2>2, <2>6, <2>7, <2>8, <2>9, <2>11, RenameTaken DEF Before
  <2> QED
    BY <2>1, <2>2, <2>9, <2>10, <2>12, <2>13, QuietStep
\* VerifyXml and VerifyPdf begin.
<1>7. CASE FormatEnter(Self)
  <2> USE <1>7
  <2>1. frame[Self].pc = "format" /\ "parse" \in PCs
    BY DEF FormatEnter, At, PCs
  <2>2. CASE /\ initialized
             /\ Goto(Self, [frame[Self] EXCEPT !.pc = "parse"])
             /\ UNCHANGED <<session, ownership, made>>
    BY <2>1, <2>2, GotoPC
  <2>3. CASE /\ SetError("NotInitialized", frame[Self].call) /\ Goto(Self, Idle(FALSE))
             /\ report' = report /\ UNCHANGED ownership /\ made' = made
    BY <2>1, <2>3, FormatErrs
  <2> QED
    BY <2>2, <2>3 DEF FormatEnter
\* Their verifier returns false.
<1>8. CASE FormatFails(Self)
  <2> USE <1>8
  <2>1. /\ frame[Self].pc \in {"format", "parse"} /\ Goto(Self, Idle(FALSE))
        /\ SetError("InternalError", frame[Self].call)
        /\ report' = report /\ UNCHANGED ownership /\ made' = made
    BY DEF FormatFails, At
  <2> QED
    BY <2>1, FormatErrs
\* They publish their report.
<1>9. CASE FormatCommit(Self)
  <2> USE <1>9
  <2>1. PICK n \in Calls : n = Len(made) /\ n = frame[Self].call
    BY CallFacts
  <2>2. PICK c \in {0, n} : c = Declares(frame[Self]) /\ (c = 0 \/ frame[Self].entry = "VerifyPdf")
    BY <2>1 DEF Declares
  <2>3. PICK valid \in BOOLEAN : report' = [Outcome(frame[Self].entry, TRUE, valid, n) EXCEPT !.coverage = c]
    BY <2>1, <2>2 DEF FormatCommit
  <2>4. /\ frame[Self].pc = "parse" /\ MarkCommitted(Self) /\ ClearError /\ Goto(Self, Idle(TRUE)) /\ made' = made
    BY DEF FormatCommit, At
  <2>5. frame[Self].entry \in Formats /\ frame[Self].entry \in Names
    BY <2>4, CallFacts DEF Before, InCall
  <2>6. frame[Self].entry # "VerifyFileAsicE"
    BY <2>5 DEF Formats
  <2>7. PICK r : r = Outcome(frame[Self].entry, TRUE, valid, n)
    OBVIOUS
  <2>8. OutcomeIs(r, frame[Self].entry, TRUE, valid, n)
    BY <2>5, <2>7, OutcomeFields
  <2>9. report' = [r EXCEPT !.coverage = c] /\ c \in Calls
    BY <2>3, <2>7, NoCall
  <2>10. /\ report' \in Report /\ report'.has_result /\ report'.operation = frame[Self].entry
         /\ report'.core = n /\ report'.coverage = c /\ report'.entries = << >>
    BY <2>8, <2>9 DEF Report, OutcomeIs
  <2>11. AllKept(<< >>) /\ AllValid(<< >>)
    BY NoEntries
  <2>12. lastError'.code = "None"
    BY <2>4, ErrorCleared
  <2>13. Committed(report', lastError', n)
    BY <2>6, <2>10, <2>11, <2>12, CoveredCommits
  <2>14. Declared(report')
    BY <2>2, <2>10 DEF Declared
  <2> QED
    BY <2>1, <2>4, <2>10, <2>13, <2>14, EndsCommitted
\* VerifyFileAsicEXades.
<1>10. CASE XadesEnter(Self)
  <2> USE <1>10
  <2>1. frame[Self].pc = "xades" /\ "load" \in PCs
    BY DEF XadesEnter, At, PCs
  <2>2. CASE /\ initialized
             /\ Goto(Self, [frame[Self] EXCEPT !.pc = "load"])
             /\ UNCHANGED <<session, ownership, made>>
    BY <2>1, <2>2, GotoPC
  <2>3. CASE /\ SetError("NotInitialized", frame[Self].call)
             /\ SetVerifyReport(Self, "VerifyFileAsicEXades", FALSE, FALSE)
             /\ Goto(Self, Idle(FALSE)) /\ made' = made
    <3>1. lastError'.code # "None" /\ lastError'.by = Len(made)
      BY <2>3, ErrorSet
    <3> QED
      BY <2>1, <2>3, <3>1, KnownNames, EndsSet
  <2> QED
    BY <2>2, <2>3 DEF XadesEnter
\* VerifyFileAsicEXades cannot read its container.
<1>11. CASE XadesFails(Self)
  <2> USE <1>11
  <2>1. /\ frame[Self].pc = "load" /\ Goto(Self, Idle(FALSE)) /\ made' = made
        /\ SetVerifyReport(Self, "VerifyFileAsicEXades", FALSE, FALSE)
        /\ SetError("InvalidArgument", frame[Self].call)
    BY DEF XadesFails, At
  <2>2. lastError'.code # "None" /\ lastError'.by = Len(made)
    BY <2>1, ErrorSet
  <2> QED
    BY <2>1, <2>2, KnownNames, EndsSet
\* VerifyFileAsicEXades finds two entries of one name.
<1>12. CASE XadesMalformed(Self)
  <2> USE <1>12
  <2>1. PICK n \in Calls : n = Len(made) /\ n = frame[Self].call
    BY CallFacts
  <2>2. PICK r :
          /\ r = Outcome("VerifyFileAsicEXades", TRUE, FALSE, n)
          /\ report' = [r EXCEPT !.malformed = TRUE]
    BY <2>1 DEF XadesMalformed
  <2>3. /\ frame[Self].pc = "load" /\ MarkCommitted(Self) /\ Goto(Self, Idle(TRUE)) /\ made' = made
        /\ SetError("InvalidArgument", frame[Self].call)
    BY DEF XadesMalformed, At
  <2>4. lastError'.code # "None" /\ lastError'.by = n
    BY <2>1, <2>3, ErrorSet
  <2>5. OutcomeIs(r, "VerifyFileAsicEXades", TRUE, FALSE, n)
    BY <2>2, KnownNames, OutcomeFields
  <2>6. Committed(r, lastError', n)
    BY <2>2, <2>4, KnownNames, OutcomeCommits
  <2>7. /\ report' \in Report /\ report'.has_result = r.has_result /\ report'.operation = r.operation
        /\ report'.core = r.core /\ report'.coverage = r.coverage /\ report'.entries = r.entries
        /\ report'.signature_valid = r.signature_valid
    BY <2>2, <2>5 DEF Report, OutcomeIs
  <2>8. Committed(report', lastError', n)
    BY <2>6, <2>7 DEF Committed, Earned
  <2>9. Declared(report')
    BY <2>5, <2>7 DEF Declared, OutcomeIs
  <2> QED
    BY <2>1, <2>3, <2>7, <2>8, <2>9, EndsCommitted
\* VerifyFileAsicEXades finds no signature or no document.
<1>13. CASE XadesEmpty(Self)
  <2> USE <1>13
  <2>1. /\ frame[Self].pc = "load" /\ Goto(Self, Idle(TRUE)) /\ made' = made /\ ClearError
        /\ SetVerifyReport(Self, "VerifyFileAsicEXades", TRUE, FALSE)
    BY DEF XadesEmpty, At
  <2>2. lastError'.code = "None"
    BY <2>1, ErrorCleared
  <2> QED
    BY <2>1, <2>2, KnownNames, EndsSet
\* VerifyFileAsicEXades publishes the report of all its signatures.
<1>14. CASE XadesCommit(Self)
  <2> USE <1>14
  <2>1. PICK k \in 1 .. MaxSigs : \E v \in [1 .. k -> BOOLEAN] :
          report' = [Outcome("VerifyFileAsicEXades", TRUE, \A i \in 1 .. k : v[i], frame[Self].call)
                       EXCEPT !.coverage = frame[Self].call,
                              !.entries = [i \in 1 .. k |-> [valid |-> v[i], kept |-> TRUE]]]
    BY DEF XadesCommit
  <2>2. PICK v \in [1 .. k -> BOOLEAN] :
          report' = [Outcome("VerifyFileAsicEXades", TRUE, \A i \in 1 .. k : v[i], frame[Self].call)
                       EXCEPT !.coverage = frame[Self].call,
                              !.entries = [i \in 1 .. k |-> [valid |-> v[i], kept |-> TRUE]]]
    BY <2>1
  <2>3. /\ frame[Self].pc = "load" /\ MarkCommitted(Self) /\ ClearError /\ Goto(Self, Idle(TRUE)) /\ made' = made
    BY DEF XadesCommit, At
  <2>4. k \in Nat
    BY SessionAssumption, SMT
  <2>5. PICK n \in Calls : n = Len(made) /\ n = frame[Self].call
    BY CallFacts
  <2>6. PICK valid \in BOOLEAN : valid = \A i \in 1 .. k : v[i]
    OBVIOUS
  <2>7. PICK s : s = [i \in 1 .. k |-> [valid |-> v[i], kept |-> TRUE]]
    OBVIOUS
  <2>8. report' = [Outcome("VerifyFileAsicEXades", TRUE, valid, n) EXCEPT !.coverage = n, !.entries = s]
    BY <2>5, <2>2, <2>6, <2>7
  <2>9. s \in Seq(Entry) /\ AllKept(s) /\ (valid => AllValid(s))
    BY <2>4, <2>6, <2>7, KeptList
  <2>10. PICK r : r = Outcome("VerifyFileAsicEXades", TRUE, valid, n)
    OBVIOUS
  <2>11. OutcomeIs(r, "VerifyFileAsicEXades", TRUE, valid, n)
    BY <2>10, KnownNames, OutcomeFields
  <2>12. report' = [r EXCEPT !.coverage = n, !.entries = s]
    BY <2>8, <2>10
  <2>13. /\ report' \in Report /\ report'.has_result /\ report'.operation = "VerifyFileAsicEXades"
         /\ report'.core = n /\ report'.coverage = n /\ report'.entries = s /\ report'.signature_valid = valid
    BY <2>9, <2>11, <2>12 DEF Report, OutcomeIs, Entry
  <2>14. lastError'.code = "None"
    BY <2>3, ErrorCleared
  <2>15. Committed(report', lastError', n)
    BY <2>9, <2>13, <2>14, CoveredCommits
  <2>16. Declared(report')
    BY <2>13 DEF Declared
  <2> QED
    BY <2>5, <2>3, <2>13, <2>15, <2>16, EndsCommitted
\* VerifyFileAsicS and VerifyFileAsicE on CAdES containers.
<1>15. CASE AsicEnter(Self)
  <2> USE <1>15
  <2>1. frame[Self].pc = "asic" /\ "unpack" \in PCs
    BY DEF AsicEnter, At, PCs
  <2>2. CASE /\ initialized
             /\ Goto(Self, [frame[Self] EXCEPT !.pc = "unpack"])
             /\ UNCHANGED <<session, ownership, made>>
    BY <2>1, <2>2, GotoPC
  <2>3. CASE /\ SetError("NotInitialized", frame[Self].call)
             /\ SetVerifyReport(Self, frame[Self].entry, FALSE, FALSE)
             /\ Goto(Self, Idle(FALSE)) /\ made' = made
    <3>1. lastError'.code # "None" /\ lastError'.by = Len(made)
      BY <2>3, ErrorSet
    <3>2. frame[Self].entry \in Names
      BY CallFacts
    <3> QED
      BY <2>1, <2>3, <3>1, <3>2, EndsSet
  <2> QED
    BY <2>2, <2>3 DEF AsicEnter
\* A CAdES container cannot be unpacked.
<1>16. CASE AsicUnpackFails(Self)
  <2> USE <1>16
  <2>1. /\ frame[Self].pc = "unpack" /\ Goto(Self, Idle(FALSE)) /\ made' = made
        /\ SetVerifyReport(Self, frame[Self].entry, FALSE, FALSE)
        /\ SetError("InvalidArgument", frame[Self].call)
    BY DEF AsicUnpackFails, At
  <2>2. lastError'.code # "None" /\ lastError'.by = Len(made)
    BY <2>1, ErrorSet
  <2>3. frame[Self].entry \in Names
    BY CallFacts
  <2> QED
    BY <2>1, <2>2, <2>3, EndsSet
\* A container with XAdES signatures goes to VerifyFileAsicEXades.
<1>17. CASE AsicIsXades(Self)
  <2> USE <1>17
  <2>1. PICK f \in FrameRecord : f = frame[Self]
    BY CallFacts
  <2>2. PICK h : h = [f EXCEPT !.todo = << >>, !.pc = "xades"]
    OBVIOUS
  <2>3. << >> \in Seq(Names)
    BY NoEntries
  <2>4. h \in FrameRecord /\ h.pc = "xades" /\ Same(f, h) /\ h.mine = f.mine
    BY <2>2, <2>3 DEF FrameRecord, Same, PCs
  <2>5. f.pc # "stamp" /\ Goto(Self, h) /\ UNCHANGED <<session, ownership, made>>
    BY <2>1, <2>2 DEF AsicIsXades, At
  <2> QED
    BY <2>1, <2>4, <2>5, GotoNext
\* An ASiC-E container with no data object or no signature.
<1>18. CASE AsicEEmpty(Self)
  <2> USE <1>18
  <2>1. /\ frame[Self].pc = "unpack" /\ Goto(Self, Idle(TRUE)) /\ made' = made /\ ClearError
        /\ SetVerifyReport(Self, "VerifyFileAsicE", TRUE, FALSE)
    BY DEF AsicEEmpty, At
  <2>2. lastError'.code = "None"
    BY <2>1, ErrorCleared
  <2> QED
    BY <2>1, <2>2, KnownNames, EndsSet
\* An unpacked container goes to VerifyData, or to the signature loop of ASiC-E.
<1>19. CASE AsicUnpacked(Self)
  <2> USE <1>19
  <2>1. frame[Self].pc = "unpack" /\ UNCHANGED <<session, ownership, made>> /\ "enter" \in PCs
    BY DEF AsicUnpacked, At, PCs
  <2>2. CASE Goto(Self, [frame[Self] EXCEPT !.pc = "enter"])
    BY <2>1, <2>2, GotoPC
  <2>3. CASE /\ frame[Self].entry = "VerifyFileAsicE"
             /\ \E n \in 1 .. MaxSigs : Goto(Self, [frame[Self] EXCEPT !.pc = "next", !.left = n])
    <3>1. PICK n \in 1 .. MaxSigs : Goto(Self, [frame[Self] EXCEPT !.pc = "next", !.left = n])
      BY <2>3
    <3>2. n \in 0 .. MaxSigs /\ n # 0
      BY SessionAssumption, SMT
    <3>3. PICK f \in FrameRecord : f = frame[Self]
      BY CallFacts
    <3>4. PICK h : h = [f EXCEPT !.pc = "next", !.left = n]
      OBVIOUS
    <3>5. h \in FrameRecord /\ h.pc = "next" /\ Same(f, h) /\ h.mine = f.mine /\ h.left = n
      BY <3>2, <3>4 DEF FrameRecord, Same, PCs
    <3>6. Goto(Self, h) /\ h.entry = "VerifyFileAsicE"
      BY <2>3, <3>1, <3>3, <3>4, <3>5 DEF Same
    <3> QED
      BY <2>1, <3>2, <3>3, <3>5, <3>6, GotoNext
  <2> QED
    BY <2>2, <2>3 DEF AsicUnpacked
\* The loop passes over a signature whose manifest does not fit.
<1>20. CASE AsicESkips(Self)
  <2> USE <1>20
  <2>1. PICK f \in FrameRecord : f = frame[Self]
    BY CallFacts
  <2>2. f.pc = "next" /\ f.left > 0 /\ UNCHANGED <<session, ownership, made>>
    BY <2>1 DEF AsicESkips, At
  <2>3. f.left - 1 \in 0 .. MaxSigs
    BY <2>2, OneLess DEF FrameRecord
  <2>4. PICK e \in Entry : e = [valid |-> FALSE, kept |-> TRUE]
    BY DEF Entry
  <2>5. f.entries \in Seq(Entry) /\ AllKept(f.entries)
    BY <2>1 DEF FrameRecord, Entry, Before, InCall, Loop
  <2>6. PICK q : q = Append(f.entries, e)
    OBVIOUS
  <2>7. q \in Seq(Entry) /\ q # << >> /\ AllKept(q) /\ ~AllValid(q)
    BY <2>4, <2>5, <2>6, OneMore
  <2>8. PICK h : h = [f EXCEPT !.left = f.left - 1, !.malformed = TRUE, !.entries = q]
    OBVIOUS
  <2>9. /\ h \in FrameRecord /\ h.pc = f.pc /\ h.call = f.call /\ h.entry = f.entry /\ h.mine = f.mine
        /\ h.malformed /\ h.entries = q
    BY <2>3, <2>7, <2>8 DEF FrameRecord, Entry
  <2>10. Goto(Self, h)
    BY <2>1, <2>4, <2>6, <2>8 DEF AsicESkips
  <2> QED
    BY <2>1, <2>2, <2>7, <2>9, <2>10, LoopStep
\* The loop hands the next signature to VerifyData.
<1>21. CASE AsicEVerifies(Self)
  <2> USE <1>21
  <2>1. PICK f \in FrameRecord : f = frame[Self]
    BY CallFacts
  <2>2. f.pc = "next" /\ f.left > 0 /\ UNCHANGED <<session, ownership, made>>
    BY <2>1 DEF AsicEVerifies, At
  <2>3. f.left - 1 \in 0 .. MaxSigs
    BY <2>2, OneLess DEF FrameRecord
  <2>4. PICK h : h = [f EXCEPT !.left = f.left - 1, !.pc = "enter"]
    OBVIOUS
  <2>5. h \in FrameRecord /\ h.pc = "enter" /\ Same(f, h) /\ h.mine = f.mine
    BY <2>3, <2>4 DEF FrameRecord, Same, PCs
  <2>6. Goto(Self, h)
    BY <2>1, <2>4 DEF AsicEVerifies
  <2> QED
    BY <2>1, <2>2, <2>5, <2>6, GotoNext
\* The loop keeps what VerifyData found as the entry of the signature.
<1>22. CASE AsicECopies(Self)
  <2> USE <1>22
  <2>1. PICK f \in FrameRecord : f = frame[Self]
    BY CallFacts
  <2>2. f.pc = "copy" /\ UNCHANGED <<session, ownership, made>>
    BY <2>1 DEF AsicECopies, At
  <2>3. PICK mismatch \in BOOLEAN :
          Goto(Self, [f EXCEPT !.pc = "next", !.malformed = f.malformed \/ mismatch,
                               !.entries = Append(f.entries, [valid |-> f.ok /\ f.valid /\ ~mismatch,
                                                              kept |-> f.ok => StillOwned(Self)])])
    BY <2>1 DEF AsicECopies
  <2>4. /\ f.entries \in Seq(Entry) /\ AllKept(f.entries) /\ (f.malformed => ~AllValid(f.entries))
        /\ f.mine /\ StillOwned(Self) /\ (f.ok /\ f.valid => report.signature_valid)
        /\ f.malformed \in BOOLEAN /\ f.ok \in BOOLEAN /\ f.valid \in BOOLEAN
    BY <2>1, <2>2 DEF FrameRecord, Entry, Before, InCall, Loop
  <2>5. PICK e : e = [valid |-> f.ok /\ f.valid /\ ~mismatch, kept |-> f.ok => StillOwned(Self)]
    OBVIOUS
  <2>6. e \in Entry /\ e.kept /\ (e.valid <=> f.ok /\ f.valid /\ ~mismatch)
    BY <2>4, <2>5 DEF Entry
  <2>7. PICK q : q = Append(f.entries, e)
    OBVIOUS
  <2>8. /\ q \in Seq(Entry) /\ q # << >> /\ AllKept(q)
        /\ AllValid(q) => AllValid(f.entries) /\ e.valid
    BY <2>4, <2>6, <2>7, OneMore
  <2>9. PICK m \in BOOLEAN : m = (f.malformed \/ mismatch)
    OBVIOUS
  <2>10. PICK h : h = [f EXCEPT !.pc = "next", !.malformed = m, !.entries = q]
    OBVIOUS
  <2>11. /\ h \in FrameRecord /\ h.pc = "next" /\ h.call = f.call /\ h.entry = f.entry /\ h.mine = f.mine
         /\ h.malformed = m /\ h.entries = q
    BY <2>8, <2>10 DEF FrameRecord, Entry, PCs
  <2>12. Goto(Self, h)
    BY <2>3, <2>5, <2>7, <2>9, <2>10
  <2>13. /\ m => ~AllValid(q)
         /\ AllValid(q) => report.signature_valid
    BY <2>4, <2>6, <2>8, <2>9
  <2> QED
    BY <2>1, <2>2, <2>4, <2>8, <2>11, <2>12, <2>13, LoopStep
\* The loop has dealt with every signature.
<1>23. CASE AsicELoopEnds(Self)
  <2> USE <1>23
  <2>1. PICK f \in FrameRecord : f = frame[Self]
    BY CallFacts
  <2>2. f.pc = "next" /\ f.left = 0 /\ UNCHANGED <<session, ownership, made>>
    BY <2>1 DEF AsicELoopEnds, At
  <2>3. /\ f.entries # << >> /\ AllKept(f.entries) /\ (f.malformed => ~AllValid(f.entries))
        /\ (f.malformed \/ f.mine) /\ (AllValid(f.entries) => report.signature_valid)
    BY <2>1, <2>2 DEF Before, InCall, Loop
  <2>4. PICK h : h = [f EXCEPT !.pc = "close", !.ok = TRUE]
    OBVIOUS
  <2>5. /\ h \in FrameRecord /\ h.pc = "close" /\ h.call = f.call /\ h.entry = f.entry /\ h.mine = f.mine
        /\ h.malformed = f.malformed /\ h.entries = f.entries
    BY <2>4 DEF FrameRecord, PCs
  <2>6. Goto(Self, h)
    BY <2>1, <2>4 DEF AsicELoopEnds
  <2> QED
    BY <2>1, <2>2, <2>3, <2>5, <2>6, LoopStep
\* A structural defect: a report of its own is published.
<1>24. CASE AsicEMalformed(Self)
  <2> USE <1>24
  <2>1. PICK n \in Calls : n = Len(made) /\ n = frame[Self].call
    BY CallFacts
  <2>2. PICK f \in Frame : f = frame[Self] /\ f \in FrameRecord
    BY CallFacts
  <2>3. PICK r : r = Outcome("VerifyFileAsicE", TRUE, FALSE, n) /\ report' = [r EXCEPT !.malformed = TRUE]
    BY <2>1 DEF AsicEMalformed
  <2>4. /\ f.pc = "close" /\ f.malformed /\ MarkCommitted(Self) /\ made' = made
        /\ SetError("InvalidArgument", frame[Self].call)
    BY <2>2 DEF AsicEMalformed, At
  <2>5. OutcomeIs(r, "VerifyFileAsicE", TRUE, FALSE, n)
    BY <2>3, KnownNames, OutcomeFields
  <2>6. /\ report' \in Report /\ report'.has_result /\ report'.operation = "VerifyFileAsicE"
        /\ report'.core = n /\ report'.coverage = 0 /\ report'.entries = << >>
    BY <2>3, <2>5 DEF Report, OutcomeIs
  <2>7. lastError'.code # "None" /\ lastError'.by = n
    BY <2>1, <2>4, ErrorSet
  <2>8. PICK h : h = [f EXCEPT !.pc = "facts", !.mine = TRUE]
    OBVIOUS
  <2>9. h \in Frame /\ h.pc = "facts" /\ Same(f, h) /\ h.mine
    BY <2>2, <2>8 DEF Frame, FrameRecord, Same, PCs
  <2>10. Goto(Self, h)
    BY <2>2, <2>8 DEF AsicEMalformed
  <2>11. report \in Report /\ n \in Nat
    BY <2>1, CallFacts DEF Before, FrontTyped
  <2>12. InCall(job, f, report, lastError, n, StillOwned(Self)) /\ ReportOK(report, n)
    BY <2>1, <2>2 DEF Before
  <2>13. Taken(job, f, report, n, h, report', lastError', TRUE)
    BY <2>4, <2>6, <2>7, <2>9, <2>11, <2>12, CloseTaken
  <2> QED
    BY <2>1, <2>2, <2>4, <2>6, <2>9, <2>10, <2>13, CommitStep
\* OverrideVerifyReportOperation.
<1>25. CASE AsicERenames(Self)
  <2> USE <1>25
  <2>1. PICK n \in Calls : n = Len(made) /\ n = frame[Self].call
    BY CallFacts
  <2>2. PICK f \in Frame : f = frame[Self] /\ f \in FrameRecord
    BY CallFacts
  <2>3. f.pc = "close" /\ ~f.malformed /\ UNCHANGED ownership /\ lastError' = lastError /\ made' = made
    BY <2>2 DEF AsicERenames, At
  <2>4. report \in Report /\ n \in Nat
    BY <2>1, CallFacts DEF Before, FrontTyped
  <2>5. InCall(job, f, report, lastError, n, StillOwned(Self)) /\ ReportOK(report, n)
    BY <2>1, <2>2 DEF Before
  <2>6. /\ f.mine /\ StillOwned(Self) /\ report.has_result /\ report.core = n /\ report.entries = << >>
        /\ report.coverage = 0 /\ (lastError.code # "None" => lastError.by = n)
    BY <2>3, <2>5 DEF InCall, Loop, Own
  <2>7. report' = [report EXCEPT !.operation = "VerifyFileAsicE", !.named = n]
    BY <2>1, <2>6 DEF AsicERenames
  <2>8. /\ report' \in Report /\ report'.has_result /\ report'.operation = "VerifyFileAsicE"
        /\ report'.core = n /\ report'.coverage = 0 /\ report'.entries = << >>
        /\ report'.signature_valid = report.signature_valid
    BY <2>4, <2>6, <2>7, KnownNames DEF Report
  <2>9. PICK h : h = [f EXCEPT !.pc = "facts"]
    OBVIOUS
  <2>10. h \in Frame /\ h.pc = "facts" /\ Same(f, h) /\ h.mine
    BY <2>2, <2>6, <2>9 DEF Frame, FrameRecord, Same, PCs
  <2>11. Goto(Self, h)
    BY <2>2, <2>9 DEF AsicERenames
  <2>12. Taken(job, f, report, n, h, report', lastError', StillOwned(Self))
    BY <2>3, <2>4, <2>5, <2>6, <2>8, <2>10, CloseTaken
  <2> QED
    BY <2>1, <2>2, <2>3, <2>8, <2>10, <2>11, <2>12, QuietStep
\* The last sections of ASiC-E and of ASiC-S.
<1>26. CASE AsicEFacts(Self)
  <2> USE <1>26
  <2>1. PICK n \in Calls : n = Len(made) /\ n = frame[Self].call
    BY CallFacts
  <2>2. PICK f \in Frame : f = frame[Self] /\ f \in FrameRecord
    BY CallFacts
  <2>3. f.pc = "facts" /\ UNCHANGED ownership /\ lastError' = lastError /\ made' = made
    BY <2>2 DEF AsicEFacts, At
  <2>4. report \in Report /\ n \in Nat /\ f.entries \in Seq(Entry)
    BY <2>1, <2>2, CallFacts DEF Before, FrontTyped, FrameRecord, Entry
  <2>5. InCall(job, f, report, lastError, n, StillOwned(Self)) /\ ReportOK(report, n)
    BY <2>1, <2>2 DEF Before
  <2>6. StillOwned(Self)
    BY <2>3, <2>5 DEF InCall, Loop
  <2>7. report' = [report EXCEPT !.entries = f.entries, !.coverage = n]
    BY <2>1, <2>2, <2>6 DEF AsicEFacts
  <2>8. /\ report' \in Report /\ report'.has_result = report.has_result /\ report'.operation = report.operation
        /\ report'.executed = report.executed /\ report'.core = report.core /\ report'.coverage = n
        /\ report'.entries = f.entries /\ report'.signature_valid = report.signature_valid
    BY <2>4, <2>7 DEF Report, Entry
  <2>9. PICK stamped \in BOOLEAN : Goto(Self, IF stamped THEN [f EXCEPT !.pc = "stamp"] ELSE Idle(TRUE))
    BY <2>2 DEF AsicEFacts
  <2>10. PICK h : h = IF stamped THEN [f EXCEPT !.pc = "stamp"] ELSE Idle(TRUE)
    OBVIOUS
  <2>11. AfterCover(f, h, TRUE)
    BY <2>2, <2>10, StampFrame
  <2>12. Taken(job, f, report, n, h, report', lastError, StillOwned(Self))
    BY <2>3, <2>4, <2>5, <2>8, <2>11, CoverTaken DEF AfterCover
  <2> QED
    BY <2>1, <2>2, <2>3, <2>8, <2>9, <2>10, <2>11, <2>12, QuietStep DEF AfterCover
\* ASiC-S declares its coverage.
<1>27. CASE AsicSCoverage(Self)
  <2> USE <1>27
  <2>1. PICK n \in Calls : n = Len(made) /\ n = frame[Self].call
    BY CallFacts
  <2>2. PICK f \in Frame : f = frame[Self] /\ f \in FrameRecord
    BY CallFacts
  <2>3. f.pc = "coverage" /\ UNCHANGED ownership /\ lastError' = lastError /\ made' = made
    BY <2>2 DEF AsicSCoverage, At
  <2>4. report \in Report /\ n \in Nat /\ f.ok \in BOOLEAN
    BY <2>1, <2>2, CallFacts DEF Before, FrontTyped, FrameRecord
  <2>5. InCall(job, f, report, lastError, n, StillOwned(Self)) /\ ReportOK(report, n)
    BY <2>1, <2>2 DEF Before
  <2>6. StillOwned(Self)
    BY <2>3, <2>5 DEF InCall
  <2>7. report' = [report EXCEPT !.coverage = n]
    BY <2>1, <2>6 DEF AsicSCoverage
  <2>8. /\ report' \in Report /\ report'.has_result = report.has_result /\ report'.operation = report.operation
        /\ report'.executed = report.executed /\ report'.core = report.core /\ report'.coverage = n
        /\ report'.entries = report.entries /\ report'.signature_valid = report.signature_valid
    BY <2>4, <2>7 DEF Report
  <2>9. PICK stamped \in BOOLEAN : Goto(Self, IF stamped THEN [f EXCEPT !.pc = "stamp"] ELSE Idle(f.ok))
    BY <2>2 DEF AsicSCoverage
  <2>10. PICK h : h = IF stamped THEN [f EXCEPT !.pc = "stamp"] ELSE Idle(f.ok)
    OBVIOUS
  <2>11. AfterCover(f, h, f.ok)
    BY <2>2, <2>4, <2>10, StampFrame
  <2>12. Taken(job, f, report, n, h, report', lastError, StillOwned(Self))
    <3>1. \/ h.pc = "idle" /\ h.ok = (f.pc = "facts" \/ f.ok)
          \/ h.pc = "stamp" /\ Same(f, h) /\ h.mine = f.mine /\ h.valid = f.valid
      BY <2>3, <2>4, <2>11, SMT DEF AfterCover
    <3> QED
      BY <2>3, <2>4, <2>5, <2>8, <3>1, CoverTaken
  <2> QED
    BY <2>1, <2>2, <2>3, <2>8, <2>9, <2>10, <2>11, <2>12, QuietStep DEF AfterCover
\* The verdict on the time stamp of the container.
<1>28. CASE AsicStamp(Self)
  <2> USE <1>28
  <2>1. PICK n \in Calls : n = Len(made) /\ n = frame[Self].call
    BY CallFacts
  <2>2. PICK f \in Frame : f = frame[Self]
    BY CallFacts
  <2>3. /\ f.pc = "stamp" /\ UNCHANGED ownership /\ lastError' = lastError /\ made' = made
        /\ Goto(Self, Idle(TRUE))
    BY <2>2 DEF AsicStamp, At
  <2>4. report \in Report /\ n \in Nat
    BY <2>1, CallFacts DEF Before, FrontTyped
  <2>5. InCall(job, f, report, lastError, n, StillOwned(Self)) /\ ReportOK(report, n)
    BY <2>1, <2>2 DEF Before
  <2>6. StillOwned(Self)
    BY <2>3, <2>5 DEF InCall
  <2>7. report' = [report EXCEPT !.stamp = n]
    BY <2>1, <2>6 DEF AsicStamp
  <2>8. report' \in Report
    BY <2>4, <2>7 DEF Report
  <2>9. Idle(TRUE) \in Frame /\ Idle(TRUE).pc = "idle" /\ Idle(TRUE).ok
    BY IdleFrame
  <2>10. Taken(job, f, report, n, Idle(TRUE), report', lastError, StillOwned(Self))
    BY <2>3, <2>4, <2>5, <2>7, <2>9, StampTaken
  <2> QED
    BY <2>1, <2>2, <2>3, <2>8, <2>9, <2>10, QuietStep
<1> QED
  BY <1>1, <1>2, <1>3, <1>4, <1>5, <1>6, <1>7, <1>8, <1>9, <1>10, <1>11, <1>12, <1>13, <1>14,
     <1>15, <1>16, <1>17, <1>18, <1>19, <1>20, <1>21, <1>22, <1>23, <1>24, <1>25, <1>26, <1>27, <1>28 DEF Step
-----------------------------------------------------------------------------
(***************************************************************************)
(* The session's steps keep the invariant.                                 *)
(***************************************************************************)

\* The facts that follow a report match it, and a wrapper's coverage is complete.
LEMMA JudgeMarks ==
    ASSUME Judge, Marked(frame[Self], report, facts),
           InCall(job, frame[Self], report, lastError, Len(made), StillOwned(Self)),
           NEW h, h.pc = "stamp" /\ h.entry # "VerifyFileAsicE" => InWrapper(frame[Self])
    PROVE  /\ facts' \in FactRecord /\ Marked(h, report', facts')
           /\ InWrapper(frame[Self]) => facts'.covered
<1>1. facts' \in FactRecord
  BY DEF Judge, FactRecord
<1>2. report'.coverage = 0 => facts'.covered
  BY SMT DEF Judge
<1>3. ASSUME InWrapper(frame[Self])
      PROVE  facts'.covered
  <2>1. facts.covered /\ ~InAsicE(frame[Self])
    BY <1>3 DEF InCall, Own, Marked, InWrapper, InAsicE
  <2>2. CASE report'.coverage # 0 /\ report'.coverage # report.coverage
    <3>1. facts'.covered \in Coverages(frame[Self], frame'[Self].pc = "stamp")
      BY <2>2, SMT DEF Judge
    <3>2. facts'.covered \in {TRUE}
      BY <1>3, <2>1, <3>1 DEF Coverages
    <3> QED
      BY <3>2
  <2>3. CASE report'.coverage # 0 /\ report'.coverage = report.coverage
    <3>1. facts'.covered = facts.covered
      BY <2>3, SMT DEF Judge
    <3> QED
      BY <2>1, <3>1
  <2> QED
    BY <1>2, <2>2, <2>3
<1> QED
  BY <1>1, <1>2, <1>3 DEF Marked

\* A call that says "valid" has earned it.
LEMMA OutValidEarned ==
    ASSUME NEW f, NEW h, NEW r, NEW e, NEW x, NEW n, Returns(f, h, r, e, n), Earned(r), Marked(h, r, x),
           InWrapper(f) => x.covered, OutValid(f, r, x, h.ok)
    PROVE  h.ok /\ r.signature_valid /\ AllValid(r.entries) /\ AllKept(r.entries) /\ x.covered
<1>1. CASE InAsicE(f)
  <2>1. h.ok /\ AllValid(f.entries) /\ f.entries # << >> /\ x.covered
    BY <1>1, SMT DEF OutValid, InWrapper
  <2>2. r.operation = "VerifyFileAsicE" /\ r.entries = f.entries
    BY <1>1, <2>1 DEF Returns
  <2> QED
    BY <2>1, <2>2 DEF Earned
<1>2. CASE InWrapper(f)
  <2>1. h.ok /\ f.valid
    BY <1>2, SMT DEF OutValid, InWrapper
  <2>2. r.entries = << >> /\ r.signature_valid
    BY <1>2, <2>1 DEF Returns
  <2> QED
    BY <1>2, <2>1, <2>2, NoEntries
<1>3. CASE ~InAsicE(f) /\ ~InWrapper(f)
  <2>1. h.ok /\ r.signature_valid
    BY <1>3, SMT DEF OutValid
  <2>2. Declared(r)
    BY <1>3, <2>1 DEF Returns
  <2>3. CASE r.operation \in {"VerifyFileAsicEXades", "VerifyPdf"}
    <3>1. x.covered
      BY <1>3, <2>3, SMT DEF OutValid
    <3> QED
      BY <2>1, <2>3, <3>1 DEF Earned
  <2>4. CASE r.coverage = 0 /\ r.entries = << >>
    BY <2>1, <2>4, NoEntries DEF Marked
  <2> QED
    BY <2>2, <2>3, <2>4 DEF Declared
<1> QED
  BY <1>1, <1>2, <1>3

\* The answer of a call that returns.
LEMMA ReturnEnds ==
    ASSUME NEW j, NEW f, NEW h, NEW r1, NEW e1, NEW x1, NEW n, NEW j1,
           Returns(f, h, r1, e1, n), ReportOK(r1, n), Marked(h, r1, x1), InWrapper(f) => x1.covered,
           j.entry = f.entry, j.call = n,
           j1.entry = j.entry, j1.call = j.call, j1.ok = h.ok, j1.valid = OutValid(f, r1, x1, h.ok)
    PROVE  Ended(j1, r1, e1, x1)
<1>1. j1.valid => /\ h.ok /\ r1.signature_valid /\ AllValid(r1.entries) /\ AllKept(r1.entries) /\ x1.covered
  BY OutValidEarned DEF ReportOK
<1> QED
  BY <1>1 DEF Ended, Returns

-----------------------------------------------------------------------------
(***************************************************************************)
(* What happens outside the session's calls.                               *)
(***************************************************************************)

\* No verification runs before or after the step, and none is answered.
Outside ==
    /\ frame[Self].pc = "idle" /\ UNCHANGED <<frame, made, ownership>>
    /\ report' \in Report /\ ReportOK(report', Len(made))
    /\ facts' \in FactRecord /\ Marked(frame[Self], report', facts')
    /\ job' \in JobRecord /\ job'.pc \notin {"return", "closed"} /\ ~(job'.pc = "call" /\ job'.op = "verify")
    /\ told'.op # "verify" /\ (told'.op # "" => job'.pc = "idle")

\* Such a step keeps the invariant.
LEMMA OutsideInv ==
    ASSUME FrontInv, Outside
    PROVE  FrontInv'
<1>1. FrontTyped'
  BY DEF FrontInv, FrontTyped, Outside, ownership
<1>2. SessionInv(job, frame[Self], report, lastError, facts, Len(made), StillOwned(Self))'
  BY DEF SessionInv, Outside
<1>3. ToldOK'
  BY DEF ToldOK, Outside
<1> QED
  BY <1>1, <1>2, <1>3 DEF FrontInv

\* A cleared report.
LEMMA ClearedOK ==
    ASSUME NEW n \in Nat, NEW f, NEW x, x.covered
    PROVE  Cleared \in Report /\ ReportOK(Cleared, n) /\ Marked(f, Cleared, x)
<1>1. 0 \in Calls /\ 0 \in 0 .. n
  <2>1. 0 \in 0 .. n
    BY SMT
  <2> QED
    BY <2>1, NoCall
<1>2. << >> \in Seq(Entry)
  BY NoEntries
<1>3. /\ Cleared \in Report /\ Cleared.coverage = 0 /\ Cleared.core = 0 /\ Cleared.entries = << >>
  BY <1>1, <1>2 DEF Cleared, Report, Names, Entry
<1>4. AllKept(<< >>) /\ AllValid(<< >>)
  BY NoEntries
<1>5. Earned(Cleared)
  BY <1>3, <1>4 DEF Earned
<1> QED
  BY <1>1, <1>3, <1>5 DEF ReportOK, Marked

\* A job that is not a verification, and no job.
LEMMA OtherJob ==
    ASSUME NEW p \in {"idle", "call", "write"}, NEW op \in {"", "load", "sign"},
           NEW j, j = [NoJob EXCEPT !.pc = p, !.op = op]
    PROVE  j \in JobRecord /\ j.pc = p /\ j.op = op
<1>1. 0 \in Calls
  BY NoCall
<1> QED
  BY <1>1 DEF NoJob, JobRecord, Names

\* No command is in progress.
LEMMA NoJobIsJob ==
    NoJob \in JobRecord /\ NoJob.pc = "idle" /\ NoJob.op = ""
<1>1. 0 \in Calls
  BY NoCall
<1> QED
  BY <1>1 DEF NoJob, JobRecord, Names

\* What the invariant says while no verification is in progress.
LEMMA BetweenCalls ==
    ASSUME FrontInv, job.pc # "call" \/ job.op # "verify"
    PROVE  /\ frame[Self].pc = "idle" /\ job \in JobRecord /\ facts \in FactRecord /\ report \in Report
           /\ ReportOK(report, Len(made)) /\ Marked(frame[Self], report, facts) /\ Len(made) \in Nat
           /\ job.pc # "idle" => told.op = ""
<1>1. made \in Seq(Verifying)
  BY DEF FrontInv, FrontTyped
<1>2. Len(made) \in Nat
  BY <1>1, SMT
<1> QED
  BY <1>2 DEF FrontInv, FrontTyped, SessionInv, ToldOK

\* The session is initialized or finalized.
LEMMA ClearInv ==
    ASSUME FrontInv, job.pc # "call", Initialize(Self) \/ Finalize(Self),
           facts' \in FactRecord, facts'.covered, job' = NoJob \/ (job' = job /\ job.pc = "idle"),
           told'.op = ""
    PROVE  FrontInv'
<1>1. report' = Cleared /\ UNCHANGED <<frame, made, ownership>>
  BY DEF Initialize, Finalize, ClearVerifyReport
<1>2. frame[Self].pc = "idle" /\ Len(made) \in Nat /\ job \in JobRecord
  BY BetweenCalls
<1>3. report' \in Report /\ ReportOK(report', Len(made)) /\ Marked(frame[Self], report', facts')
  BY <1>1, <1>2, ClearedOK
<1>4. job' \in JobRecord /\ job'.pc = "idle"
  BY <1>2, NoJobIsJob
<1> QED
  BY <1>1, <1>2, <1>3, <1>4, OutsideInv DEF Outside

\* What is told, and known of the report, before anything was asked.
LEMMA NothingTold ==
    Nothing.op = "" /\ Unjudged \in FactRecord /\ Unjudged.covered
BY DEF Nothing, Unjudged, FactRecord

\* The frame of a call that begins.
Started(h, e, n) ==
    /\ h \in Frame /\ h.pc \in {"enter", "asic", "xades", "format", "record"} /\ h.entry = e
    /\ h.call = n /\ ~h.mine /\ ~h.malformed /\ h.entries = << >>
    /\ h.pc = "format" => e \in Formats

\* Start gives the thread such a frame.
LEMMA StartFrame ==
    ASSUME NEW e \in Verifying, NEW n \in Calls, NEW h,
           h = [Idle(FALSE) EXCEPT !.pc = FirstSection(e), !.entry = e, !.call = n, !.todo = Renames(e)]
    PROVE  Started(h, e, n)
<1>1. Renames(e) \in Seq(Names)
  <2>1. /\ "VerifyFile" \in Names /\ "VerifyDataInternalBase64" \in Names /\ e \in Names
    BY DEF Names, Verifying, Detached, Attached
  <2>2. << e >> \in Seq(Names) /\ << "VerifyFile", e >> \in Seq(Names)
        /\ << "VerifyDataInternalBase64", e >> \in Seq(Names) /\ << >> \in Seq(Names)
    BY <2>1, SMT
  <2>3. Renames(e) \in {<< e >>, << "VerifyFile", e >>, << "VerifyDataInternalBase64", e >>, << >>}
    BY SMT DEF Renames
  <2> QED
    BY <2>2, <2>3
<1>2. /\ FirstSection(e) \in {"enter", "asic", "xades", "format", "record"}
      /\ FirstSection(e) = "format" => e \in Formats
  BY SMT DEF FirstSection
<1>3. PICK g : g = Idle(FALSE)
  OBVIOUS
<1>4. g \in FrameRecord /\ ~g.mine /\ ~g.malformed /\ g.entries = << >>
  BY <1>3, IdleFrame DEF Frame, Idle
<1>5. PICK p, td : p = FirstSection(e) /\ td = Renames(e)
  OBVIOUS
<1>6. p \in PCs /\ p # "rename" /\ td \in Seq(Names) /\ e \in Names
  BY <1>1, <1>2, <1>5 DEF PCs, Names
<1>7. h = [g EXCEPT !.pc = p, !.entry = e, !.call = n, !.todo = td]
  BY <1>3, <1>5
<1>8. /\ h \in FrameRecord /\ h.pc = p /\ h.entry = e /\ h.call = n /\ h.mine = g.mine
      /\ h.malformed = g.malformed /\ h.entries = g.entries
  BY <1>4, <1>6, <1>7 DEF FrameRecord
<1> QED
  BY <1>2, <1>4, <1>5, <1>6, <1>8 DEF Frame, Started

\* The call is in progress.
LEMMA StartsCall ==
    ASSUME NEW j, NEW h, NEW r, NEW e, NEW n \in Nat, NEW o, NEW m, m = n + 1, ReportOK(r, n),
           h.pc \in {"enter", "asic", "xades", "format", "record"}, h.call = m, ~h.mine, ~h.malformed,
           h.entries = << >>, h.pc = "format" => h.entry \in Formats, j.call = m, j.entry = h.entry
    PROVE  ReportOK(r, m) /\ InCall(j, h, r, e, m, o)
<1>1. \A c \in 0 .. n : c \in 0 .. m /\ c # m
  BY SMT
<1>2. m # 0
  BY SMT
<1>3. ReportOK(r, m) /\ r.core # m
  BY <1>1 DEF ReportOK
<1>4. Loop(h, r)
  BY NoEntries DEF Loop
<1> QED
  BY <1>2, <1>3, <1>4 DEF InCall

\* A call that returned is answered.
LEMMA AnsweredInv ==
    ASSUME FrontInv, job.pc = "return", NEW code, Answer(code),
           front = "capi" => apiError' = IF job.ok THEN "None" ELSE lastError.code,
           UNCHANGED <<vars, front, facts>>
    PROVE  FrontInv'
<1>1. /\ told'.op = job.op /\ told'.entry = job.entry /\ told'.call = job.call
      /\ told'.ok = job.ok /\ told'.valid = job.valid /\ ~told'.thrown /\ job' = NoJob
  BY DEF Answer
<1>2. /\ report' = report /\ lastError' = lastError /\ facts' = facts /\ frame' = frame /\ made' = made
      /\ globalEpoch' = globalEpoch /\ lastCommit' = lastCommit /\ epoch' = epoch /\ front' = front
  BY DEF vars
<1>3. /\ frame[Self].pc = "idle" /\ FrontTyped /\ ReportOK(report, Len(made))
      /\ Marked(frame[Self], report, facts) /\ Ended(job, report, lastError, facts) /\ job.call # 0
  BY BetweenCalls DEF FrontInv, SessionInv
<1>4. FrontTyped'
  BY <1>1, <1>2, <1>3, NoJobIsJob DEF FrontTyped
<1>5. SessionInv(job, frame[Self], report, lastError, facts, Len(made), StillOwned(Self))'
  BY <1>1, <1>2, <1>3, NoJobIsJob DEF SessionInv
<1>6. Ended(told', report', lastError', facts')
  BY <1>1, <1>2, <1>3 DEF Ended
<1>7. front' = "capi" => told'.ok = (apiError' = "None")
  <2>1. job.ok \in BOOLEAN /\ (job.ok \/ lastError.code # "None")
    BY <1>3 DEF FrontTyped, JobRecord, Ended
  <2> QED
    BY <1>1, <1>2, <2>1
<1>8. ToldOK'
  BY <1>1, <1>3, <1>6, <1>7, NoJobIsJob DEF ToldOK
<1> QED
  BY <1>4, <1>5, <1>8 DEF FrontInv

\* An exception ends a call: the report and the facts stay as they are.
LEMMA ThrowsInv ==
    ASSUME FrontInv, Throws
    PROVE  FrontInv'
<1>1. /\ report' = report /\ facts' = facts /\ made' = made /\ globalEpoch' = globalEpoch
      /\ lastCommit' = lastCommit /\ front' = front /\ job' = NoJob
      /\ frame' = [frame EXCEPT ![Self] = Idle(FALSE)]
  BY DEF Throws, session, ownership, Goto
<1>2. FrontTyped /\ ReportOK(report, Len(made)) /\ Marked(frame[Self], report, facts)
  BY DEF FrontInv, SessionInv
<1>3. frame' \in [Threads -> Frame] /\ frame'[Self].pc = "idle"
  <2>1. Idle(FALSE) \in Frame /\ Idle(FALSE).pc = "idle"
    BY IdleFrame
  <2> QED
    BY <1>1, <1>2, <2>1, SelfRuns DEF FrontTyped
<1>4. FrontTyped'
  BY <1>1, <1>2, <1>3, NoJobIsJob DEF FrontTyped
<1>5. SessionInv(job, frame[Self], report, lastError, facts, Len(made), StillOwned(Self))'
  BY <1>1, <1>2, <1>3, NoJobIsJob DEF SessionInv, Marked
<1>6. ~told'.ok /\ told'.ok \in BOOLEAN /\ ~told'.valid /\ told'.thrown
  BY DEF Throws, Nothing
<1>7. front' = "capi" => told'.ok = (apiError' = "None")
  <2>1. front = "capi" => apiError' # "None"
    BY DEF Throws, ThrowError
  <2> QED
    BY <1>1, <1>6, <2>1
<1>8. ToldOK'
  BY <1>1, <1>6, <1>7, NoJobIsJob DEF ToldOK
<1> QED
  BY <1>4, <1>5, <1>8 DEF FrontInv

\* A step of key loading or signing: the session's report and calls are left
\* alone.
Aside ==
    /\ job.pc # "call" \/ job.op # "verify"
    /\ UNCHANGED sessionButError /\ facts' = facts
    /\ job' \in JobRecord /\ job'.pc \notin {"return", "closed"} /\ ~(job'.pc = "call" /\ job'.op = "verify")
    /\ told'.op # "verify" /\ (told'.op # "" => job'.pc = "idle")

\* Such a step keeps the invariant.
LEMMA AsideInv ==
    ASSUME FrontInv, Aside
    PROVE  FrontInv'
<1>1. /\ report' = report /\ frame' = frame /\ made' = made /\ UNCHANGED ownership /\ facts' = facts
  BY DEF Aside, sessionButError
<1>2. /\ frame[Self].pc = "idle" /\ facts \in FactRecord /\ report \in Report
      /\ ReportOK(report, Len(made)) /\ Marked(frame[Self], report, facts)
  BY BetweenCalls DEF Aside
<1> QED
  BY <1>1, <1>2, OutsideInv DEF Outside, Aside

\* The first state.
LEMMA FrontInitInv ==
    ASSUME FrontInit
    PROVE  FrontInv
<1>1. /\ report = Cleared /\ globalEpoch = 0 /\ lastCommit = [t \in Threads |-> 0]
      /\ frame = [t \in Threads |-> Idle(TRUE)] /\ made = << >>
  BY DEF FrontInit, Init
<1>2. facts = Unjudged /\ told = Nothing
  BY DEF FrontInit
<1>3. PICK p : p = (IF front = "addin" THEN "idle" ELSE "closed") /\ job = [NoJob EXCEPT !.pc = p]
  BY DEF FrontInit
<1>4. job \in JobRecord /\ job.pc \in {"idle", "closed"}
  BY <1>3, NoJobIsJob DEF JobRecord
<1>5. made \in Seq(Verifying) /\ Len(made) = 0 /\ 0 <= MaxCalls /\ 0 \in Nat
  BY <1>1, SessionAssumption, SMT
<1>6. Idle(TRUE) \in Frame /\ Idle(TRUE).pc = "idle"
  BY IdleFrame DEF Idle
<1>7. frame \in [Threads -> Frame] /\ frame[Self].pc = "idle" /\ lastCommit \in [Threads -> Nat]
  BY <1>1, <1>5, <1>6, SelfRuns
<1>8. report \in Report /\ ReportOK(report, Len(made)) /\ Marked(frame[Self], report, facts)
  BY <1>1, <1>2, <1>5, NothingTold, ClearedOK
<1>9. FrontTyped
  BY <1>1, <1>2, <1>4, <1>5, <1>7, <1>8, NothingTold DEF FrontTyped
<1>10. SessionInv(job, frame[Self], report, lastError, facts, Len(made), StillOwned(Self))
  BY <1>2, <1>4, <1>7, <1>8, NothingTold DEF SessionInv
<1>11. ToldOK
  BY <1>2, NothingTold DEF ToldOK
<1> QED
  BY <1>9, <1>10, <1>11 DEF FrontInv

\* Every step keeps the invariant.
LEMMA FrontNextInv ==
    ASSUME FrontInv, [FrontNext]_allVars
    PROVE  FrontInv'
\* A session is opened by a front end.
<1>1. CASE Open
  <2> USE <1>1
  <2>1. job.pc = "closed" /\ Initialize(Self) /\ job' = NoJob /\ told' = told /\ facts' = facts
    BY DEF Open
  <2>2. facts \in FactRecord /\ facts.covered /\ told.op = ""
    BY <2>1, BetweenCalls DEF FrontInv, SessionInv
  <2> QED
    BY <2>1, <2>2, ClearInv
\* The session is configured.
<1>2. CASE Configure \/ AddinFinalize
  <2> USE <1>2
  <2>1. /\ job.pc = "idle" /\ (Initialize(Self) \/ Finalize(Self)) /\ job' = job /\ told' = Nothing
        /\ facts' = Unjudged
    BY DEF Configure, AddinFinalize, Comes
  <2> QED
    BY <2>1, NothingTold, ClearInv
\* A request is refused by the program, or becomes a call.
<1>3. ASSUME NEW q \in Asks, BeginVerify(q)
      PROVE  FrontInv'
  <2> USE <1>3
  <2>1. job.pc = "idle" /\ facts' = facts
    BY DEF BeginVerify, Comes
  <2>2. /\ frame[Self].pc = "idle" /\ job \in JobRecord /\ facts \in FactRecord /\ report \in Report
        /\ ReportOK(report, Len(made)) /\ Marked(frame[Self], report, facts) /\ Len(made) \in Nat
        /\ FrontTyped
    BY <2>1, BetweenCalls DEF FrontInv
  <2>3. ASSUME NEW e, Start(Self, e), told' = Nothing,
               job' = [NoJob EXCEPT !.pc = "call", !.op = "verify", !.ask = {q}, !.entry = e,
                                    !.call = Len(made) + 1]
        PROVE  FrontInv'
    <3>1. /\ e \in Verifying /\ Len(made) < MaxCalls /\ made' = Append(made, e)
          /\ UNCHANGED <<report, lastError, globalEpoch, lastCommit>>
      BY <2>3, SessionAssumption DEF Start, session, ownership
    <3>2. made \in Seq(Verifying)
      BY <2>2 DEF FrontTyped
    <3>3. /\ made' \in Seq(Verifying) /\ Len(made') = Len(made) + 1 /\ Len(made') <= MaxCalls
          /\ Len(made) + 1 \in 0 .. MaxCalls
      BY <3>1, <3>2, SessionAssumption, SMT
    <3>4. PICK n \in Calls : n = Len(made) + 1 /\ n = Len(made')
      BY <3>3 DEF Calls
    <3>5. PICK h : h = [Idle(FALSE) EXCEPT !.pc = FirstSection(e), !.entry = e, !.call = n, !.todo = Renames(e)]
      OBVIOUS
    <3>6. /\ h \in Frame /\ h.pc \in {"enter", "asic", "xades", "format", "record"} /\ h.entry = e
          /\ h.call = n /\ ~h.mine /\ ~h.malformed /\ h.entries = << >>
          /\ h.pc = "format" => e \in Formats
      <4>1. Started(h, e, n)
        BY <3>1, <3>5, StartFrame
      <4> QED
        BY <4>1 DEF Started
    <3>7. frame' = [frame EXCEPT ![Self] = h]
      BY <2>3, <3>4, <3>5 DEF Start, Goto
    <3>8. frame' \in [Threads -> Frame] /\ frame'[Self] = h
      BY <2>2, <3>6, <3>7, SelfRuns DEF FrontTyped
    <3>9. /\ job' \in JobRecord /\ job'.pc = "call" /\ job'.op = "verify"
          /\ job'.entry = e /\ job'.call = n
      <4>1. job' = [NoJob EXCEPT !.pc = "call", !.op = "verify", !.ask = {q}, !.entry = e, !.call = n]
        BY <2>3, <3>4
      <4>2. e \in Names /\ {q} \subseteq Asks
        BY <3>1 DEF Names
      <4> QED
        BY <4>1, <4>2, NoJobIsJob DEF JobRecord
    <3>10. ReportOK(report, n) /\ InCall(job', h, report, lastError, n, StillOwned(Self)')
      BY <2>2, <3>4, <3>6, <3>9, StartsCall
    <3>11. FrontTyped'
      BY <2>1, <2>2, <3>1, <3>3, <3>8, <3>9 DEF FrontTyped
    <3>12. SessionInv(job, frame[Self], report, lastError, facts, Len(made), StillOwned(Self))'
      BY <2>1, <2>2, <3>1, <3>4, <3>6, <3>8, <3>9, <3>10 DEF SessionInv, Marked
    <3>13. ToldOK'
      BY <2>3, NothingTold DEF ToldOK
    <3> QED
      BY <3>11, <3>12, <3>13 DEF FrontInv
  <2>4. ASSUME told' = [Nothing EXCEPT !.op = "verify", !.ask = {q}, !.code = 1], UNCHANGED <<vars, job>>
        PROVE  FrontInv'
    <3>1. told'.op = "verify" /\ told'.call = 0 /\ ~told'.valid
      BY <2>4 DEF Nothing
    <3>2. UNCHANGED <<report, lastError, globalEpoch, lastCommit, epoch, frame, made, job>>
      BY <2>4 DEF vars
    <3>3. FrontTyped'
      BY <2>1, <2>2, <3>2 DEF FrontTyped
    <3>4. SessionInv(job, frame[Self], report, lastError, facts, Len(made), StillOwned(Self))'
      BY <2>1, <2>2, <3>2 DEF SessionInv
    <3>5. ToldOK'
      BY <2>1, <3>1, <3>2 DEF ToldOK
    <3> QED
      BY <3>3, <3>4, <3>5 DEF FrontInv
  <2> QED
    BY <2>3, <2>4 DEF BeginVerify
\* A section of the call in progress.
<1>4. CASE SessionStep
  <2> USE <1>4
  <2>1. job.pc = "call" /\ job.op = "verify" /\ Step(Self) /\ Judge
    BY DEF SessionStep
  <2>2. /\ FrontTyped /\ ReportOK(report, Len(made)) /\ Marked(frame[Self], report, facts)
        /\ InCall(job, frame[Self], report, lastError, Len(made), StillOwned(Self))
    BY <2>1 DEF FrontInv, SessionInv
  <2>3. StepOK
    BY <2>1, <2>2, StepTaken DEF Before
  <2>4. PICK h \in Frame :
          /\ frame' = [frame EXCEPT ![Self] = h]
          /\ Taken(job, frame[Self], report, Len(made), h, report', lastError', StillOwned(Self)')
    BY <2>3 DEF StepOK
  <2>5. frame' \in [Threads -> Frame] /\ frame'[Self] = h
    BY <2>2, <2>4, SelfRuns DEF FrontTyped
  <2>6. /\ facts' \in FactRecord /\ Marked(h, report', facts')
        /\ InWrapper(frame[Self]) => facts'.covered
    BY <2>1, <2>2, <2>4, JudgeMarks DEF Taken
  <2>7. ReportOK(report', Len(made)) /\ made' = made
    BY <2>3, <2>4 DEF Taken, StepOK
  <2>8. told.op = "" /\ told' = told
    BY <2>1 DEF FrontInv, ToldOK, SessionStep
  <2>9. CASE h.pc # "idle"
    <3>1. job' = job
      BY <2>5, <2>9 DEF SessionStep
    <3>2. InCall(job, h, report', lastError', Len(made), StillOwned(Self)')
      BY <2>4, <2>9 DEF Taken
    <3>3. FrontTyped'
      BY <2>2, <2>3, <2>5, <2>6, <3>1 DEF FrontTyped, StepOK
    <3>4. ToldOK'
      BY <2>8 DEF ToldOK
    <3> QED
      BY <2>1, <2>5, <2>6, <2>7, <3>1, <3>2, <3>3, <3>4 DEF FrontInv, SessionInv
  <2>10. CASE h.pc = "idle"
    <3>1. job' = [job EXCEPT !.pc = "return", !.ok = h.ok,
                              !.valid = OutValid(frame[Self], report', facts', h.ok)]
      BY <2>5, <2>10 DEF SessionStep
    <3>2. /\ job' \in JobRecord /\ job'.pc = "return" /\ job'.entry = job.entry /\ job'.call = job.call
          /\ job'.ok = h.ok /\ job'.valid = OutValid(frame[Self], report', facts', h.ok)
      <4>1. h.ok \in BOOLEAN /\ OutValid(frame[Self], report', facts', h.ok) \in BOOLEAN
        BY DEF Frame, FrameRecord, OutValid
      <4> QED
        BY <2>2, <3>1, <4>1 DEF FrontTyped, JobRecord
    <3>3. job.entry = frame[Self].entry /\ job.call = Len(made) /\ Len(made) # 0
      BY <2>2 DEF InCall
    <3>4. Ended(job', report', lastError', facts')
      BY <2>4, <2>6, <2>7, <2>10, <3>2, <3>3, ReturnEnds DEF Taken
    <3>5. FrontTyped'
      BY <2>2, <2>3, <2>5, <2>6, <3>2 DEF FrontTyped, StepOK
    <3>6. ToldOK'
      BY <2>8 DEF ToldOK
    <3> QED
      BY <2>5, <2>6, <2>7, <2>10, <3>2, <3>3, <3>4, <3>5, <3>6 DEF FrontInv, SessionInv
  <2> QED
    BY <2>9, <2>10
\* Each front end answers.
<1>5. CASE CapiVerified \/ AddinVerified \/ CliVerified
  <2> USE <1>5
  <2>1. job.pc = "return" /\ UNCHANGED <<vars, front, facts>>
    BY DEF CapiVerified, AddinVerified, CliVerified
  <2>2. PICK code : Answer(code)
    BY DEF CapiVerified, AddinVerified, CliVerified
  <2>3. front = "capi" => apiError' = IF job.ok THEN "None" ELSE lastError.code
    BY DEF CapiVerified, AddinVerified, CliVerified
  <2> QED
    BY <2>1, <2>2, <2>3, AnsweredInv
\* Loading a key.
<1>6. CASE \/ \E r \in Requests : BeginLoad(r)
           \/ CliRefusesKey \/ LoadStep \/ Loaded \/ AddinResetKey
  <2> USE <1>6
  <2>1. job \in JobRecord
    BY DEF FrontInv, FrontTyped
  <2>2. CASE \E r \in Requests : BeginLoad(r)
    <3>1. /\ job.pc = "idle" /\ job' = [NoJob EXCEPT !.pc = "call", !.op = "load"] /\ told' = Nothing
          /\ UNCHANGED sessionButError /\ facts' = facts
      BY <2>2 DEF BeginLoad, Comes
    <3>2. PICK p, op : p = "call" /\ op = "load"
      OBVIOUS
    <3>3. job' \in JobRecord /\ job'.pc = p /\ job'.op = op
      BY <3>1, <3>2, OtherJob
    <3> QED
      BY <3>1, <3>2, <3>3, NothingTold, AsideInv DEF Aside
  <2>3. CASE CliRefusesKey
    <3>1. /\ job.pc = "idle" /\ job' = job /\ told' = [Nothing EXCEPT !.op = "load", !.code = 2]
          /\ UNCHANGED vars /\ facts' = facts
      BY <2>3 DEF CliRefusesKey, Comes
    <3>2. told'.op = "load"
      BY <3>1 DEF Nothing
    <3>3. UNCHANGED sessionButError
      BY <3>1 DEF vars, sessionButError, ownership, session
    <3> QED
      BY <2>1, <3>1, <3>2, <3>3, AsideInv DEF Aside
  <2>4. CASE LoadStep
    <3>1. /\ job.pc = "call" /\ job.op = "load" /\ job' = job /\ told' = told
          /\ UNCHANGED sessionButError /\ facts' = facts
      BY <2>4 DEF LoadStep, frontVars
    <3>2. told.op = ""
      BY <3>1 DEF FrontInv, ToldOK
    <3> QED
      BY <2>1, <3>1, <3>2, AsideInv DEF Aside
  <2>5. CASE Loaded
    <3>1. /\ job.op = "load" /\ job' = NoJob /\ UNCHANGED vars /\ facts' = facts
          /\ told' = [Nothing EXCEPT !.op = "load", !.ok = load.ok, !.code = IF load.ok THEN 0 ELSE 2]
      BY <2>5 DEF Loaded
    <3>2. told'.op = "load"
      BY <3>1 DEF Nothing
    <3>3. UNCHANGED sessionButError
      BY <3>1 DEF vars, sessionButError, ownership, session
    <3> QED
      BY <3>1, <3>2, <3>3, NoJobIsJob, AsideInv DEF Aside
  <2>6. CASE AddinResetKey
    <3>1. /\ job.pc = "idle" /\ job' = job /\ told' = Nothing
          /\ UNCHANGED sessionButError /\ facts' = facts
      BY <2>6 DEF AddinResetKey, Comes
    <3> QED
      BY <2>1, <3>1, NothingTold, AsideInv DEF Aside
  <2> QED
    BY <2>2, <2>3, <2>4, <2>5, <2>6
\* Signing.
<1>7. CASE SignRefused \/ Sign \/ WriteOutput
  <2> USE <1>7
  <2>1. job \in JobRecord
    BY DEF FrontInv, FrontTyped
  <2>2. ASSUME NEW code, NEW why, SignFails(code, why), job.pc = "idle", UNCHANGED sessionButError,
               facts' = facts
        PROVE  FrontInv'
    <3>1. told'.op = "sign" /\ job' = job
      BY <2>2 DEF SignFails, Nothing
    <3> QED
      BY <2>1, <2>2, <3>1, AsideInv DEF Aside
  <2>3. CASE SignRefused
    BY <2>2, <2>3 DEF SignRefused, Comes
  <2>4. CASE Sign
    <3>1. job.pc = "idle" /\ UNCHANGED sessionButError /\ facts' = facts
      BY <2>4 DEF Sign, Comes
    <3>2. CASE job' = [NoJob EXCEPT !.pc = "write", !.op = "sign"] /\ told' = Nothing
      <4>1. PICK p, op : p = "write" /\ op = "sign"
        OBVIOUS
      <4>2. job' \in JobRecord /\ job'.pc = p /\ job'.op = op
        BY <3>2, <4>1, OtherJob
      <4> QED
        BY <3>1, <3>2, <4>1, <4>2, NothingTold, AsideInv DEF Aside
    <3> QED
      BY <2>2, <2>4, <3>1, <3>2 DEF Sign
  <2>5. CASE WriteOutput
    <3>1. /\ job.pc = "write" /\ job' = NoJob /\ UNCHANGED vars /\ facts' = facts
      BY <2>5 DEF WriteOutput
    <3>2. told'.op = "sign"
      BY <2>5 DEF WriteOutput, Nothing
    <3>3. UNCHANGED sessionButError
      BY <3>1 DEF vars, sessionButError, ownership, session
    <3> QED
      BY <3>1, <3>2, <3>3, NoJobIsJob, AsideInv DEF Aside
  <2> QED
    BY <2>3, <2>4, <2>5
\* Nothing of the invariant changes.
<1>8. CASE UNCHANGED <<vars, frontVars>>
  <2> USE <1>8
  <2>1. /\ report' = report /\ lastError' = lastError /\ facts' = facts /\ frame' = frame /\ made' = made
        /\ globalEpoch' = globalEpoch /\ lastCommit' = lastCommit /\ epoch' = epoch /\ front' = front
        /\ job' = job /\ told' = told /\ apiError' = apiError
    BY DEF vars, frontVars, ownership, session
  <2>2. StillOwned(Self)' <=> StillOwned(Self)
    BY <2>1 DEF StillOwned
  <2>3. FrontTyped'
    BY <2>1 DEF FrontInv, FrontTyped
  <2>4. SessionInv(job, frame[Self], report, lastError, facts, Len(made), StillOwned(Self))'
    BY <2>1, <2>2 DEF FrontInv, SessionInv, InCall
  <2>5. ToldOK'
    BY <2>1 DEF FrontInv, ToldOK, Ended
  <2> QED
    BY <2>3, <2>4, <2>5 DEF FrontInv
<1>9. CASE CertificateReissued \/ UNCHANGED allVars
  <2>1. UNCHANGED <<vars, frontVars>>
    BY <1>9 DEF CertificateReissued, allVars
  <2> QED
    BY <1>8, <2>1
<1> QED
  BY <1>1, <1>2, <1>3, <1>4, <1>5, <1>6, <1>7, <1>8, <1>9, ThrowsInv DEF FrontNext

\* The invariant of the front ends holds always.
LEMMA FrontIsInv == FrontSpec => []FrontInv
<1>1. FrontInit => FrontInv
  BY FrontInitInv
<1>2. FrontInv /\ [FrontNext]_allVars => FrontInv'
  BY FrontNextInv
<1> QED
  BY <1>1, <1>2, PTL DEF FrontSpec

\* ValidIsEarned: a C caller, the 1C add-in, the program or a C++ caller is
\* told "valid" only of a verification that ran to its end, whose report is the
\* session's and agrees in every part; for every script, request and container.
THEOREM ValidAnswersAreEarned == FrontSpec => []ValidIsEarned
<1>1. FrontInv => ValidIsEarned
  <2> SUFFICES ASSUME FrontInv, Answered, told.valid
               PROVE  /\ told.ok /\ report.core = told.call /\ report.signature_valid
                      /\ AllValid(report.entries)
                      /\ \A i \in DOMAIN report.entries : report.entries[i].kept
                      /\ facts.covered
    BY DEF ValidIsEarned
  <2>1. Ended(told, report, lastError, facts)
    BY DEF FrontInv, ToldOK, Answered
  <2> QED
    BY <2>1 DEF Ended, AllKept
<1> QED
  BY <1>1, FrontIsInv, PTL

\* AnswerIsOfRequest: what a caller reads after a verification that returned, in
\* the report and in the session's error, is about that verification; and the C
\* wrapper has an error exactly when it answers with one, also when an exception
\* ended the call.
THEOREM AnswersAreOfTheirRequest == FrontSpec => []AnswerIsOfRequest
<1>1. FrontInv => AnswerIsOfRequest
  <2> SUFFICES ASSUME FrontInv, Answered, told.call # 0
               PROVE  /\ front = "capi" => told.ok = (apiError = "None")
                      /\ ~told.thrown
                           => /\ told.ok \/ told.entry \notin Formats => report.core = told.call
                              /\ report.core = told.call
                                   => report.has_result /\ (report.executed => told.ok)
                              /\ lastError.code # "None" => lastError.by = told.call
                              /\ told.ok \/ lastError.code # "None"
    BY DEF AnswerIsOfRequest
  <2>1. /\ ~told.thrown => Ended(told, report, lastError, facts)
        /\ front = "capi" => told.ok = (apiError = "None")
    BY DEF FrontInv, ToldOK, Answered
  <2> QED
    BY <2>1 DEF Ended
<1> QED
  BY <1>1, FrontIsInv, PTL

-----------------------------------------------------------------------------
(***************************************************************************)
(* Lists, and the first of some positions.                                 *)
(***************************************************************************)

\* Every set of numbers has a least one; LeastOfSome shows it.
WellOrdered == \A S \in SUBSET Nat : S # {} => \E i \in S : \A j \in S : i <= j

\* The least of some numbers is one of them.
LEMMA MinIsIn ==
    ASSUME WellOrdered, NEW S \in SUBSET Nat, S # {}
    PROVE  Keys!Min(S) \in S
BY DEF WellOrdered, Keys!Min

\* A list has positions and a length.
LEMMA ListDomain ==
    ASSUME NEW s, IsList(s)
    PROVE  DOMAIN s \subseteq Nat /\ Len(s) \in Nat
BY SMT DEF IsList

\* A list of one element.
LEMMA OneIsList ==
    ASSUME NEW x
    PROVE  IsList(<< x >>)
BY SMT DEF IsList

\* A list grows at its front.
LEMMA ListGrows ==
    ASSUME NEW s, IsList(s), NEW c
    PROVE  IsList(<< c >> \o s) /\ Len(<< c >> \o s) = Len(s) + 1
<1>1. PICK S : S = {c} \cup {s[i] : i \in DOMAIN s}
  OBVIOUS
<1>2. s \in Seq({s[i] : i \in DOMAIN s})
  BY DEF IsList
<1>3. PICK U : U = {s[i] : i \in DOMAIN s} /\ s \in Seq(U)
  BY <1>2
<1>4. s \in Seq(S)
  <2>1. U \subseteq S
    BY <1>1, <1>3
  <2> QED
    BY <1>3, <2>1, SMT
<1>5. << c >> \in Seq(S)
  BY <1>1, SMT
<1>6. PICK t : t = << c >> \o s
  OBVIOUS
<1>7. t \in Seq(S) /\ Len(t) = Len(s) + 1
  BY <1>4, <1>5, <1>6, SMT
<1>8. IsList(t)
  BY <1>7, SMT DEF IsList
<1> QED
  BY <1>6, <1>7, <1>8

\* The element of a set of one.
LEMMA TheOne ==
    ASSUME NEW c, NEW A, A = {c}
    PROVE  (CHOOSE x \in A : TRUE) = c
OBVIOUS

-----------------------------------------------------------------------------
(***************************************************************************)
(* The signer.                                                             *)
(***************************************************************************)

\* A signer that signs with key id and certificate c.
SignerOf(s, id, c) ==
    s.ok /\ s.key = id /\ s.certificate = {c} /\ c.key = id /\ c.signs

\* A certificate that allows signing signs with the key it certifies.
LEMMA SignsWithOwn ==
    ASSUME NEW c, NEW id, c.signs, c.key = id
    PROVE  SignerOf(Keys!SignsWith(id, c), id, c)
BY DEF SignerOf, Keys!SignsWith

\* Who signs, signs with the key that the certificate certifies.
LEMMA SignsOnlyWithOwn ==
    ASSUME NEW c, NEW id, Keys!SignsWith(id, c).ok
    PROVE  SignerOf(Keys!SignsWith(id, c), id, c)
<1>1. c.signs /\ c.key = id
  BY SMT DEF Keys!SignsWith, Keys!CannotSign
<1> QED
  BY <1>1, SignsWithOwn

\* Whatever was loaded, a signer signs with the key that its certificate
\* certifies, a certificate that allows signing, and the one it was given.
LEMMA SignerSigns ==
    ASSUME NEW k, NEW pw, NEW cert, Keys!PrepareSigner(k, pw, cert).ok
    PROVE  \E c, id : SignerOf(Keys!PrepareSigner(k, pw, cert), id, c) /\ (cert # {} => c \in cert)
<1>1. \A w : ~Keys!CannotSign(w).ok
  BY DEF Keys!CannotSign
<1>2. CASE k.form = "pkcs12"
  <2>1. PICK s : s = Keys!PreparePkcs12Signer(k, pw, cert) /\ s = Keys!PrepareSigner(k, pw, cert)
    BY <1>2 DEF Keys!PrepareSigner
  <2>2. PICK id : id = CHOOSE x \in Keys!SelectedKey(k, pw, cert) : TRUE
    OBVIOUS
  <2>3. PICK own : own = IF Keys!BagCertificate(k.bag, id, TRUE) # {}
                         THEN Keys!BagCertificate(k.bag, id, TRUE)
                         ELSE Keys!BagCertificate(k.bag, id, FALSE)
    OBVIOUS
  <2>4. PICK used : used = IF cert # {} THEN cert ELSE own
    OBVIOUS
  <2>5. s = IF Keys!SelectedKey(k, pw, cert) = {} THEN Keys!CannotSign("Decode")
            ELSE IF used = {} THEN Keys!CannotSign("NoCertificate")
            ELSE Keys!SignsWith(id, CHOOSE c \in used : TRUE)
    BY <2>1, <2>2, <2>3, <2>4 DEF Keys!PreparePkcs12Signer
  <2>6. used # {} /\ s = Keys!SignsWith(id, CHOOSE c \in used : TRUE)
    BY <1>1, <2>1, <2>5
  <2>7. PICK c \in used : c = CHOOSE x \in used : TRUE
    BY <2>6
  <2>8. SignerOf(s, id, c)
    BY <2>1, <2>6, <2>7, SignsOnlyWithOwn
  <2> QED
    BY <2>1, <2>4, <2>7, <2>8
<1>3. CASE k.form # "pkcs12"
  <2>1. PICK s : s = Keys!PreparePkcs8Signer(k, cert) /\ s = Keys!PrepareSigner(k, pw, cert)
    BY <1>3 DEF Keys!PrepareSigner
  <2>2. PICK id : id = CHOOSE x \in Keys!Fingerprint(k, "") : TRUE
    OBVIOUS
  <2>3. cert # {} /\ s = Keys!SignsWith(id, CHOOSE c \in cert : TRUE)
    BY <1>1, <2>1, <2>2 DEF Keys!PreparePkcs8Signer
  <2>4. PICK c \in cert : c = CHOOSE x \in cert : TRUE
    BY <2>3
  <2>5. SignerOf(s, id, c)
    BY <2>1, <2>3, <2>4, SignsOnlyWithOwn
  <2> QED
    BY <2>1, <2>4, <2>5
<1> QED
  BY <1>2, <1>3

\* A certificate that the resolver accepts is one the signer can use: the
\* signer's own selection among the container's keys finds the key that the
\* resolver compared it with.
LEMMA AcceptedSigns ==
    ASSUME NEW k, NEW pw, NEW c, NEW cert, cert = {c}, IsList(k.material),
           Keys!Acceptable(c, Keys!PublicKeys(k, pw))
    PROVE  SignerOf(Keys!PrepareSigner(k, pw, cert), c.key, c)
<1>1. c.signs /\ c.key \in Keys!PublicKeys(k, pw)
  BY DEF Keys!Acceptable
<1>2. (CHOOSE x \in cert : TRUE) = c /\ cert # {}
  BY TheOne
<1>3. CASE k.form = "pkcs12"
  <2>1. PICK i \in Keys!Distinct(k, pw) : c.key = k.material[i].id
    BY <1>1, <1>3 DEF Keys!PublicKeys
  <2>2. PICK fits : fits = {k.material[m].id : m \in Keys!Distinct(k, pw)} \cap {x.key : x \in cert}
    OBVIOUS
  <2>3. fits = {c.key}
    BY <2>1, <2>2
  <2>4. PICK A : A = Keys!SelectedKey(k, pw, cert)
    OBVIOUS
  <2>5. A = IF Len(k.material) > 1 /\ fits # {} THEN fits ELSE Keys!Fingerprint(k, pw)
    BY <2>2, <2>4 DEF Keys!SelectedKey
  <2>6. A = {c.key}
    <3>1. CASE Len(k.material) > 1
      BY <2>3, <2>5, <3>1
    <3>2. CASE ~(Len(k.material) > 1)
      <4>1. i \in Keys!Opens(k, pw) /\ Keys!Opens(k, pw) \subseteq DOMAIN k.material
        BY DEF Keys!Distinct, Keys!Opens
      <4>2. \A m \in DOMAIN k.material : m = 1
        BY <3>2, SMT DEF IsList
      <4>3. Keys!Opens(k, pw) \cap {1} = {i}
        BY <4>1, <4>2
      <4>4. Keys!Fingerprint(k, pw) = {c.key}
        BY <2>1, <4>3 DEF Keys!Fingerprint
      <4> QED
        BY <2>5, <3>2, <4>4
    <3> QED
      BY <3>1, <3>2
  <2>7. (CHOOSE x \in A : TRUE) = c.key /\ A # {}
    BY <2>6, TheOne
  <2>8. Keys!PrepareSigner(k, pw, cert) = Keys!SignsWith(c.key, c)
    BY <1>2, <1>3, <2>4, <2>7 DEF Keys!PrepareSigner, Keys!PreparePkcs12Signer
  <2> QED
    BY <1>1, <2>8, SignsWithOwn
<1>4. CASE k.form # "pkcs12"
  <2>1. PICK e : e = ""
    OBVIOUS
  <2>2. Keys!Opens(k, e) = Keys!Opens(k, pw)
    BY <1>4 DEF Keys!Opens
  <2>3. PICK A : A = Keys!Fingerprint(k, e)
    OBVIOUS
  <2>4. A = {k.material[m].id : m \in Keys!Opens(k, pw) \cap {1}} /\ c.key \in A
    BY <1>1, <1>4, <2>2, <2>3 DEF Keys!PublicKeys, Keys!Fingerprint
  <2>5. A = {c.key}
    BY <2>4
  <2>6. (CHOOSE x \in A : TRUE) = c.key /\ A # {}
    BY <2>5, TheOne
  <2>7. Keys!PreparePkcs8Signer(k, cert) = Keys!SignsWith(c.key, c)
    BY <1>2, <2>1, <2>3, <2>6 DEF Keys!PreparePkcs8Signer
  <2>8. Keys!PrepareSigner(k, pw, cert) = Keys!SignsWith(c.key, c)
    BY <1>4, <2>7 DEF Keys!PrepareSigner
  <2> QED
    BY <1>1, <2>8, SignsWithOwn
<1> QED
  BY <1>3, <1>4

-----------------------------------------------------------------------------
(***************************************************************************)
(* Loading a key.                                                          *)
(***************************************************************************)

\* A container that was read has some keys, or those it had.
Readable(n, keys) ==
    n = Keys!Refused \/ n.material = keys \/ \E x : n.material = << x >>

\* The key of a PKCS#8 that was made from a container.
LEMMA MaterialOf ==
    ASSUME NEW n, NEW t, NEW b, NEW f, NEW x, NEW keys, t = << x >>,
           n = [ok |-> TRUE, form |-> "pkcs8", material |-> t, bag |-> b, pass |-> "", certificate |-> f]
    PROVE  Readable(n, keys)
<1>1. n.material = t
  OBVIOUS
<1> QED
  BY <1>1 DEF Readable

\* A normalised container has the keys that the container has, or one of its own.
LEMMA NormalizedKeys ==
    ASSUME NEW c, NEW store, NEW keyPw, NEW alias
    PROVE  Readable(Keys!NormalizeKeyContainer(c, store, keyPw, alias), c.keys)
<1>1. Readable(Keys!NormalizeJks(c, store, keyPw, alias), c.keys)
  <2>1. CASE \/ store = "" /\ keyPw = ""
             \/ Keys!JksEntry(c, store, keyPw, alias) = {}
    BY <2>1 DEF Keys!NormalizeJks, Readable
  <2>2. CASE ~(\/ store = "" /\ keyPw = ""
               \/ Keys!JksEntry(c, store, keyPw, alias) = {})
    <3>1. PICK x, t, b, f : /\ t = << x >>
                            /\ Keys!NormalizeJks(c, store, keyPw, alias)
                                 = [ok |-> TRUE, form |-> "pkcs8", material |-> t, bag |-> b, pass |-> "",
                                    certificate |-> f]
      BY <2>2 DEF Keys!NormalizeJks
    <3> QED
      BY <3>1, MaterialOf
  <2> QED
    BY <2>1, <2>2
<1>2. \A pw : Readable(Keys!NormalizeIit(c, pw), c.keys)
  BY DEF Keys!NormalizeIit, Readable
<1>3. \A pw : Readable(Keys!NormalizeZs2(c, pw), c.keys)
  BY DEF Keys!NormalizeZs2, Readable
<1>4. Readable(Keys!NormalizePemDer(c), c.keys)
  <2>1. CASE c.kind = "p12"
    BY <2>1, SMT DEF Keys!NormalizePemDer, Readable
  <2>2. CASE c.kind # "p12" /\ c.keys # << >>
    <3>1. PICK t, b, f : /\ t = << c.keys[1] >>
                         /\ Keys!NormalizePemDer(c) = [ok |-> TRUE, form |-> "pkcs8", material |-> t,
                                                       bag |-> b, pass |-> "", certificate |-> f]
      BY <2>2 DEF Keys!NormalizePemDer
    <3> QED
      BY <3>1, MaterialOf
  <2>3. CASE c.kind # "p12" /\ c.keys = << >>
    BY <2>3, SMT DEF Keys!NormalizePemDer, Readable
  <2> QED
    BY <2>1, <2>2, <2>3
<1>5. Readable(Keys!Refused, c.keys)
  BY DEF Readable
<1> QED
  BY <1>1, <1>2, <1>3, <1>4, <1>5 DEF Keys!NormalizeKeyContainer

\* The keys of a container that could be read come in an order.
LEMMA NormalizedIsList ==
    ASSUME NEW n, NEW keys, Readable(n, keys), n.ok, IsList(keys)
    PROVE  IsList(n.material)
<1>1. n # Keys!Refused
  <2>1. ~Keys!Refused.ok
    BY DEF Keys!Refused
  <2> QED
    BY <2>1
<1> QED
  BY <1>1, OneIsList DEF Readable

\* The load m has gone on from l.
LoadIs(m, l, p, it, found, source) ==
    /\ LoadShape(m) /\ m.pc = p /\ m.it = it /\ m.found = found /\ m.source = source
    /\ m.ask = l.ask /\ m.seen = l.seen

\* The load in progress after the container was normalised.
LEMMA LoadNormalized ==
    ASSUME NEW l, NEW m, LoadShape(l), NEW p, NEW it, NEW found, NEW source,
           m = [l EXCEPT !.it = it, !.found = found, !.source = source, !.pc = p]
    PROVE  LoadIs(m, l, p, it, found, source)
<1>1. PICK a, b, c, d, e, f, g : l = [pc |-> a, ok |-> b, ask |-> c, it |-> d, found |-> e,
                                      source |-> f, seen |-> g]
  BY DEF LoadShape
<1>2. m = [pc |-> p, ok |-> b, ask |-> c, it |-> it, found |-> found, source |-> source, seen |-> g]
  BY <1>1
<1> QED
  BY <1>1, <1>2 DEF LoadIs, LoadShape

\* The load in progress when it only moves on.
LEMMA LoadContinued ==
    ASSUME NEW l, NEW m, LoadShape(l), NEW p, m = [l EXCEPT !.pc = p]
    PROVE  LoadIs(m, l, p, l.it, l.found, l.source)
<1>1. PICK a, b, c, d, e, f, g : l = [pc |-> a, ok |-> b, ask |-> c, it |-> d, found |-> e,
                                      source |-> f, seen |-> g]
  BY DEF LoadShape
<1>2. m = [pc |-> p, ok |-> b, ask |-> c, it |-> d, found |-> e, source |-> f, seen |-> g]
  BY <1>1
<1> QED
  BY <1>1, <1>2 DEF LoadIs, LoadShape

\* The load in progress when a certificate was found.
LEMMA LoadResolved ==
    ASSUME NEW l, NEW m, LoadShape(l), NEW p, NEW found, NEW source,
           m = [l EXCEPT !.pc = p, !.found = found, !.source = source]
    PROVE  LoadIs(m, l, p, l.it, found, source)
<1>1. PICK a, b, c, d, e, f, g : l = [pc |-> a, ok |-> b, ask |-> c, it |-> d, found |-> e,
                                      source |-> f, seen |-> g]
  BY DEF LoadShape
<1>2. m = [pc |-> p, ok |-> b, ask |-> c, it |-> d, found |-> found, source |-> source, seen |-> g]
  BY <1>1
<1> QED
  BY <1>1, <1>2 DEF LoadIs, LoadShape

\* The request stays the one it was.
LEMMA SameRequest ==
    ASSUME NEW r, load.ask = {r}, load'.ask = load.ask
    PROVE  Keys!Ask = r /\ Keys!Ask' = r /\ Keys!Effective' = Keys!Effective
<1>1. Keys!Ask = r /\ Keys!Ask' = r
  BY TheOne DEF Keys!Ask
<1> QED
  BY <1>1 DEF Keys!Effective, Keys!KeyPw

\* The first acceptable certificate of folder f.
BesideOf(f, onDisk, public) ==
    LET fits == {i \in DOMAIN f : onDisk /\ Keys!Acceptable(f[i], public)}
    IN  IF fits = {} THEN {} ELSE {f[Keys!Min(fits)]}

\* What lies beside the key is the same while request, key and folder are.
LEMMA SameBeside ==
    ASSUME NEW r, load.ask = {r}, load'.ask = load.ask, load'.it = load.it, folder' = folder
    PROVE  Keys!Public' = Keys!Public /\ Keys!Beside' = Keys!Beside
<1>1. Keys!Ask = r /\ Keys!Ask' = r /\ Keys!Effective' = Keys!Effective
  BY SameRequest
<1>2. Keys!Public' = Keys!Public
  BY <1>1 DEF Keys!Public
<1>3. Keys!Beside = BesideOf(folder, Keys!Ask.onDisk, Keys!Public)
  BY DEF Keys!Beside, BesideOf
<1>4. Keys!Beside' = BesideOf(folder', Keys!Ask'.onDisk, Keys!Public')
  BY DEF Keys!Beside, BesideOf
<1> QED
  BY <1>1, <1>2, <1>3, <1>4

\* The certificate beside the key is an acceptable one, and the only one.
LEMMA BesideAccepted ==
    ASSUME WellOrdered, NEW f, IsList(f), NEW onDisk, NEW public,
           NEW c \in BesideOf(f, onDisk, public)
    PROVE  Keys!Acceptable(c, public) /\ BesideOf(f, onDisk, public) = {c}
<1>1. PICK fits : fits = {i \in DOMAIN f : onDisk /\ Keys!Acceptable(f[i], public)}
  OBVIOUS
<1>2. fits # {} /\ BesideOf(f, onDisk, public) = {f[Keys!Min(fits)]}
  BY <1>1 DEF BesideOf
<1>3. fits \in SUBSET Nat
  BY <1>1, ListDomain
<1>4. Keys!Min(fits) \in fits
  BY <1>2, <1>3, MinIsIn
<1>5. c = f[Keys!Min(fits)]
  BY <1>2
<1> QED
  BY <1>1, <1>2, <1>4, <1>5

\* The load in progress is of one request.
LEMMA LoadFacts ==
    ASSUME LoadOK, load.pc # "rest"
    PROVE  \E r \in Requests : load.ask = {r} /\ Keys!Ask = r
BY TheOne DEF LoadOK, Keys!Ask

\* A load that has ended.
LEMMA RestOK ==
    ASSUME NEW b, load' = Keys!AtRest(b)
    PROVE  LoadOK' /\ BesideOK'
<1>1. LoadShape(load') /\ load'.pc = "rest"
  BY DEF Keys!AtRest, LoadShape
<1> QED
  BY <1>1 DEF LoadOK, BesideOK, LoadPCs, Searching

\* What stays true of a load that goes on.
LEMMA GoesOnLoading ==
    ASSUME LoadOK, load.pc # "rest", NEW p \in LoadPCs, NEW it, NEW found, NEW source,
           LoadIs(load', load, p, it, found, source), folder' = folder, IsList(it.material),
           p \in Searching => Keys!Ask.named = {},
           p \in {"open", "named"} \cup Searching => source = "" /\ found = {},
           p = "commit" => Chosen(it, Keys!Effective, found, source, Keys!Ask.named)
    PROVE  LoadOK'
<1>1. PICK r \in Requests : load.ask = {r} /\ Keys!Ask = r
  BY LoadFacts
<1>2. Keys!Ask' = Keys!Ask /\ Keys!Effective' = Keys!Effective
  BY <1>1, SameRequest DEF LoadIs
<1>3. Grown(load.seen)'
  BY DEF LoadOK, LoadIs, Grown
<1> QED
  BY <1>1, <1>2, <1>3 DEF LoadOK, LoadIs

\* The search goes on, or ends without a certificate.
LEMMA ContinueOK ==
    ASSUME LoadOK, load.pc \in {"open", "named"} \cup Searching, folder' = folder,
           NEW p \in {"named", "commit"} \cup Searching, load' = [load EXCEPT !.pc = p],
           p # "named" => Keys!Ask.named = {},
           load.seen = {folder} /\ p \in {"cache", "ldap", "cmp", "commit"} => Keys!Beside = {}
    PROVE  LoadOK' /\ BesideOK'
<1>1. LoadShape(load) /\ load.pc # "rest" /\ load.source = "" /\ load.found = {} /\ IsList(load.it.material)
  BY DEF LoadOK, Searching
<1>2. LoadIs(load', load, p, load.it, load.found, load.source)
  BY <1>1, LoadContinued
<1>3. p = "commit" => Chosen(load.it, Keys!Effective, load.found, load.source, Keys!Ask.named)
  BY <1>1 DEF Chosen
<1>4. LoadOK'
  BY <1>1, <1>2, <1>3, GoesOnLoading DEF LoadPCs, Searching
<1>5. PICK r \in Requests : load.ask = {r} /\ Keys!Ask = r
  BY <1>1, LoadFacts
<1>6. Keys!Beside' = Keys!Beside
  BY <1>2, <1>5, SameBeside DEF LoadIs
<1>7. BesideOK'
  BY <1>2, <1>6 DEF BesideOK, LoadIs
<1> QED
  BY <1>4, <1>7

\* The resolver accepts a certificate.
LEMMA ResolvedOK ==
    ASSUME LoadOK, load.pc \in {"named"} \cup Searching, folder' = folder,
           NEW c, NEW source \in Keys!FromResolver, Keys!Resolved(c, source),
           Keys!Acceptable(c, Keys!Public), Keys!Ask.named # {} => c \in Keys!Ask.named,
           load.seen = {folder} /\ Keys!Ask.named = {} /\ Keys!Beside # {} => Keys!Beside = {c}
    PROVE  LoadOK' /\ BesideOK'
<1>1. LoadShape(load) /\ load.pc # "rest" /\ IsList(load.it.material)
  BY DEF LoadOK, Searching
<1>2. PICK p, found : /\ p = "commit" /\ found = {c}
                      /\ load' = [load EXCEPT !.pc = p, !.found = found, !.source = source]
  BY DEF Keys!Resolved
<1>3. LoadIs(load', load, p, load.it, found, source)
  BY <1>1, <1>2, LoadResolved
<1>4. Chosen(load.it, Keys!Effective, found, source, Keys!Ask.named)
  <2>1. Keys!Public = Keys!PublicKeys(load.it, Keys!Effective)
    BY DEF Keys!Acceptable, Keys!Public
  <2> QED
    BY <1>2, <2>1 DEF Chosen
<1>5. LoadOK'
  BY <1>1, <1>2, <1>3, <1>4, GoesOnLoading DEF LoadPCs, Searching
<1>6. PICK r \in Requests : load.ask = {r} /\ Keys!Ask = r
  BY <1>1, LoadFacts
<1>7. Keys!Beside' = Keys!Beside /\ Keys!Ask' = Keys!Ask
  BY <1>3, <1>6, SameBeside, SameRequest DEF LoadIs
<1>8. BesideOK'
  BY <1>2, <1>3, <1>7 DEF BesideOK, LoadIs
<1> QED
  BY <1>5, <1>8

\* Nothing fits a container that cannot be opened.
LEMMA NothingBeside ==
    ASSUME Keys!Public = {}
    PROVE  Keys!Beside = {}
<1>1. \A i \in DOMAIN folder : ~Keys!Acceptable(folder[i], Keys!Public)
  BY DEF Keys!Acceptable
<1> QED
  BY <1>1 DEF Keys!Beside

\* A step of the load.
LEMMA LoadStepOK ==
    ASSUME WellOrdered, LoadInv, Keys!LoadStep
    PROVE  LoadInv'
\* A container is read.
<1>1. ASSUME Keys!Normalize
      PROVE  LoadOK' /\ BesideOK'
  <2> USE <1>1
  <2>1. load.pc = "normalize" /\ folder' = folder /\ LoadOK
    BY DEF Keys!Normalize, LoadInv
  <2>2. PICK n : n = Keys!NormalizeKeyContainer(Keys!Ask.container, Keys!Ask.store, Keys!KeyPw, Keys!Ask.alias)
    OBVIOUS
  <2>3. CASE load' = Keys!AtRest(FALSE)
    BY <2>3, RestOK
  <2>4. CASE load' # Keys!AtRest(FALSE)
    <3>1. PICK source, p :
            /\ n.ok /\ source = (IF n.certificate = {} THEN "" ELSE "container")
            /\ p = (IF n.certificate = {} THEN "open" ELSE "commit")
            /\ load' = [load EXCEPT !.it = n, !.found = n.certificate, !.source = source, !.pc = p]
      BY <2>2, <2>4 DEF Keys!Normalize
    <3>2. LoadShape(load)
      BY <2>1 DEF LoadOK
    <3>3. LoadIs(load', load, p, n, n.certificate, source)
      BY <3>1, <3>2, LoadNormalized
    <3>4. PICK r \in Requests : load.ask = {r} /\ Keys!Ask = r
      BY <2>1, LoadFacts
    <3>5. Readable(n, r.container.keys) /\ IsList(r.container.keys)
      BY <2>2, <3>4, NormalizedKeys, FrontAssumption
    <3>6. IsList(n.material)
      BY <3>1, <3>5, NormalizedIsList
    <3>7. p \in {"open", "commit"} /\ (p = "commit" => source = "container")
          /\ (p = "open" => source = "" /\ n.certificate = {})
      BY <3>1
    <3>8. p = "commit" => Chosen(n, Keys!Effective, n.certificate, source, Keys!Ask.named)
      BY <3>7 DEF Chosen
    <3>9. p \in LoadPCs /\ p \notin Searching /\ p # "named"
      BY <3>7 DEF LoadPCs, Searching
    <3>10. LoadOK'
      BY <2>1, <3>3, <3>6, <3>7, <3>8, <3>9, GoesOnLoading
    <3>11. BesideOK'
      BY <3>3, <3>7 DEF BesideOK, LoadIs
    <3> QED
      BY <3>10, <3>11
  <2> QED
    BY <2>3, <2>4
\* The container is opened.
<1>2. ASSUME Keys!OpenContainer
      PROVE  LoadOK' /\ BesideOK'
  <2> USE <1>2
  <2>1. load.pc = "open" /\ folder' = folder /\ LoadOK
    BY DEF Keys!OpenContainer, LoadInv
  <2>2. CASE Keys!NamedRefused
    BY <2>2, RestOK DEF Keys!NamedRefused
  <2>3. CASE Keys!Public = {} /\ Keys!Ask.named = {} /\ Keys!NoneFound
    <3>1. PICK p : p = "commit" /\ load' = [load EXCEPT !.pc = p]
      BY <2>3 DEF Keys!NoneFound, Keys!Continue
    <3> QED
      BY <2>1, <2>3, <3>1, NothingBeside, ContinueOK
  <2>4. CASE Keys!Public # {} /\ Keys!Continue(IF Keys!Ask.named # {} THEN "named" ELSE "beside")
    <3>1. PICK p : p = (IF Keys!Ask.named # {} THEN "named" ELSE "beside") /\ load' = [load EXCEPT !.pc = p]
      BY <2>4 DEF Keys!Continue
    <3>2. /\ p \in {"named", "commit"} \cup Searching /\ (p # "named" => Keys!Ask.named = {})
          /\ p \notin {"cache", "ldap", "cmp", "commit"}
      BY <3>1 DEF Searching
    <3> QED
      BY <2>1, <3>1, <3>2, ContinueOK
  <2> QED
    BY <2>2, <2>3, <2>4 DEF Keys!OpenContainer
\* The certificate that the user named is tried.
<1>3. ASSUME Keys!ResolveNamed
      PROVE  LoadOK' /\ BesideOK'
  <2> USE <1>3
  <2>1. load.pc = "named" /\ folder' = folder /\ LoadOK
    BY DEF Keys!ResolveNamed, LoadInv
  <2>2. CASE Keys!NamedRefused
    BY <2>2, RestOK DEF Keys!NamedRefused
  <2>3. CASE ~Keys!NamedRefused
    <3>1. PICK source : source = "named"
      OBVIOUS
    <3>2. PICK c \in Keys!Ask.named : Keys!Acceptable(c, Keys!Public) /\ Keys!Resolved(c, source)
      BY <2>3, <3>1 DEF Keys!ResolveNamed
    <3>3. Keys!Ask.named # {} /\ source \in Keys!FromResolver
      BY <3>1, <3>2 DEF Keys!FromResolver
    <3> QED
      BY <2>1, <3>2, <3>3, ResolvedOK
  <2> QED
    BY <2>2, <2>3
\* The certificates beside the key are tried.
<1>4. ASSUME Keys!ResolveBeside
      PROVE  LoadOK' /\ BesideOK'
  <2> USE <1>4
  <2>1. load.pc = "beside" /\ folder' = folder /\ LoadOK /\ IsList(folder)
    BY DEF Keys!ResolveBeside, LoadInv
  <2>2. Keys!Ask.named = {} /\ load.pc \in Searching
    BY <2>1 DEF LoadOK, Searching
  <2>3. CASE \E c \in Keys!Beside : Keys!Resolved(c, "beside")
    <3>1. PICK source : source = "beside"
      OBVIOUS
    <3>2. PICK c \in Keys!Beside : Keys!Resolved(c, source)
      BY <2>3, <3>1
    <3>3. Keys!Beside = BesideOf(folder, Keys!Ask.onDisk, Keys!Public)
      BY DEF Keys!Beside, BesideOf
    <3>4. Keys!Acceptable(c, Keys!Public) /\ Keys!Beside = {c}
      BY <2>1, <3>2, <3>3, BesideAccepted
    <3>5. source \in Keys!FromResolver
      BY <3>1 DEF Keys!FromResolver
    <3> QED
      BY <2>1, <2>2, <3>2, <3>4, <3>5, ResolvedOK
  <2>4. CASE Keys!Beside = {} /\ Keys!Continue("cache")
    <3>1. PICK p : p = "cache" /\ load' = [load EXCEPT !.pc = p]
      BY <2>4 DEF Keys!Continue
    <3>2. p \in {"named", "commit"} \cup Searching
      BY <3>1 DEF Searching
    <3> QED
      BY <2>1, <2>2, <2>4, <3>1, <3>2, ContinueOK
  <2> QED
    BY <2>3, <2>4 DEF Keys!ResolveBeside
\* The cache and the network are asked when nothing beside the key fits.
<1>5. ASSUME Keys!ResolveCached \/ Keys!ResolveLdap \/ Keys!ResolveCmp
      PROVE  LoadOK' /\ BesideOK'
  <2> USE <1>5
  <2>1. load.pc \in {"cache", "ldap", "cmp"} /\ folder' = folder /\ LoadOK /\ BesideOK
    BY DEF Keys!ResolveCached, Keys!ResolveLdap, Keys!ResolveCmp, LoadInv
  <2>2. Keys!Ask.named = {} /\ load.pc \in Searching /\ (load.seen = {folder} => Keys!Beside = {})
    BY <2>1 DEF LoadOK, BesideOK, Searching
  <2>3. CASE \E c : \E source \in Keys!FromResolver :
               Keys!Acceptable(c, Keys!Public) /\ Keys!Resolved(c, source)
    BY <2>1, <2>2, <2>3, ResolvedOK
  <2>4. CASE \E p \in {"ldap", "cmp", "commit"} : Keys!Continue(p)
    <3>1. PICK p \in {"ldap", "cmp", "commit"} : load' = [load EXCEPT !.pc = p]
      BY <2>4 DEF Keys!Continue
    <3>2. p \in {"named", "commit"} \cup Searching
      BY DEF Searching
    <3> QED
      BY <2>1, <2>2, <3>1, <3>2, ContinueOK
  <2>5. "cache" \in Keys!FromResolver /\ "ldap" \in Keys!FromResolver /\ "cmp" \in Keys!FromResolver
    BY DEF Keys!FromResolver
  <2>6. CASE Keys!ResolveCached
    <3>1. \A c \in Keys!Cached : Keys!Acceptable(c, Keys!Public)
      BY DEF Keys!Cached
    <3> QED
      BY <2>3, <2>4, <2>5, <2>6, <3>1 DEF Keys!ResolveCached, Keys!NoneFound
  <2>7. CASE Keys!ResolveLdap
    BY <2>3, <2>4, <2>5, <2>7 DEF Keys!ResolveLdap
  <2>8. CASE Keys!ResolveCmp
    BY <2>3, <2>4, <2>5, <2>8 DEF Keys!ResolveCmp, Keys!NoneFound
  <2> QED
    BY <2>6, <2>7, <2>8
\* The key that was found is committed.
<1>6. ASSUME Keys!CommitLoadedKey
      PROVE  LoadOK' /\ BesideOK' /\ KeyOK'
  <2> USE <1>6
  <2>1. /\ load.pc = "commit" /\ load' = Keys!AtRest(TRUE) /\ LoadOK
        /\ key' = [loaded |-> TRUE, it |-> load.it, certificate |-> load.found, pass |-> Keys!Effective,
                   source |-> load.source, named |-> Keys!Ask.named]
    BY DEF Keys!CommitLoadedKey, LoadInv
  <2>2. IsList(load.it.material) /\ Chosen(load.it, Keys!Effective, load.found, load.source, Keys!Ask.named)
    BY <2>1 DEF LoadOK
  <2>3. PICK it, found, pass, source, named :
          /\ it = load.it /\ found = load.found /\ pass = Keys!Effective /\ source = load.source
          /\ named = Keys!Ask.named
          /\ key' = [loaded |-> TRUE, it |-> it, certificate |-> found, pass |-> pass,
                     source |-> source, named |-> named]
    BY <2>1
  <2>4. /\ key'.it = it /\ key'.certificate = found /\ key'.pass = pass /\ key'.source = source
        /\ key'.named = named
    BY <2>3
  <2>5. KeyOK'
    BY <2>2, <2>3, <2>4 DEF KeyOK
  <2> QED
    BY <2>1, <2>5, RestOK
<1>7. IsList(folder) /\ folder' = folder /\ KeyOK
  BY DEF LoadInv, Keys!LoadStep, Keys!Normalize, Keys!OpenContainer, Keys!ResolveNamed,
       Keys!ResolveBeside, Keys!ResolveCached, Keys!ResolveLdap, Keys!ResolveCmp, Keys!CommitLoadedKey
<1>8. CASE Keys!CommitLoadedKey
  BY <1>7, <1>8, <1>6 DEF LoadInv
<1>9. CASE ~Keys!CommitLoadedKey
  <2>1. key' = key
    BY <1>9 DEF Keys!LoadStep, Keys!Normalize, Keys!OpenContainer, Keys!ResolveNamed,
         Keys!ResolveBeside, Keys!ResolveCached, Keys!ResolveLdap, Keys!ResolveCmp
  <2>2. KeyOK'
    BY <1>7, <2>1 DEF KeyOK
  <2>3. LoadOK' /\ BesideOK'
    BY <1>9, <1>1, <1>2, <1>3, <1>4, <1>5
       DEF Keys!LoadStep
  <2> QED
    BY <1>7, <2>2, <2>3 DEF LoadInv
<1> QED
  BY <1>8, <1>9

\* The beginning of a load.
LEMMA ReadOK ==
    ASSUME LoadInv, NEW r \in Requests, Keys!ReadPrivateKey(r)
    PROVE  LoadInv'
<1>1. IsList(folder) /\ folder' = folder /\ key' = key /\ KeyOK
  BY DEF LoadInv, Keys!ReadPrivateKey
<1>2. KeyOK'
  BY <1>1 DEF KeyOK
<1>3. CASE load' = Keys!AtRest(FALSE)
  BY <1>1, <1>2, <1>3, RestOK DEF LoadInv
<1>4. CASE load' = [Keys!AtRest(FALSE) EXCEPT !.pc = "normalize", !.ask = {r}, !.seen = {folder}]
  <2>1. PICK p, a, t : p = "normalize" /\ a = {r} /\ t = {folder}
    OBVIOUS
  <2>2. load' = [Keys!AtRest(FALSE) EXCEPT !.pc = p, !.ask = a, !.seen = t]
    BY <1>4, <2>1
  <2>3. LoadShape(load') /\ load'.pc = p /\ load'.ask = a /\ load'.seen = t
    BY <2>2 DEF Keys!AtRest, LoadShape
  <2>4. Len(folder) <= Len(folder)
    <3>1. Len(folder) \in Nat
      BY <1>1, ListDomain
    <3> QED
      BY <3>1, SMT
  <2>5. Grown(load.seen)'
    BY <1>1, <2>1, <2>3, <2>4 DEF Grown
  <2>6. LoadOK' /\ BesideOK'
    BY <2>1, <2>3, <2>5 DEF LoadOK, BesideOK, LoadPCs, Searching
  <2> QED
    BY <1>1, <1>2, <2>6 DEF LoadInv
<1> QED
  BY <1>3, <1>4 DEF Keys!ReadPrivateKey

\* A certificate is put beside the key.
LEMMA ReissueOK ==
    ASSUME LoadInv, Keys!Reissue
    PROVE  LoadInv'
<1>1. load' = load /\ key' = key /\ IsList(folder) /\ LoadOK /\ BesideOK /\ KeyOK
  BY DEF LoadInv, Keys!Reissue
<1>2. PICK c : folder' = << c >> \o folder
  BY DEF Keys!Reissue
<1>3. IsList(folder') /\ Len(folder') = Len(folder) + 1 /\ Len(folder) \in Nat
  BY <1>1, <1>2, ListGrows, ListDomain
<1>4. KeyOK'
  BY <1>1 DEF KeyOK
<1>5. CASE load.pc = "rest"
  BY <1>1, <1>3, <1>4, <1>5 DEF LoadInv, LoadOK, BesideOK, Searching
<1>6. CASE load.pc # "rest"
  <2>1. PICK t : load.seen = {t} /\ IsList(t) /\ Len(t) <= Len(folder)
    BY <1>1, <1>6 DEF LoadOK, Grown
  <2>2. Len(t) <= Len(folder') /\ Len(t) # Len(folder')
    <3>1. Len(t) \in Nat
      BY <2>1, ListDomain
    <3> QED
      BY <1>3, <2>1, <3>1, SMT
  <2>3. Grown(load.seen)'
    BY <1>1, <2>1, <2>2 DEF Grown
  <2>4. PICK r \in Requests : load.ask = {r}
    BY <1>1, <1>6, LoadFacts
  <2>5. Keys!Ask' = Keys!Ask /\ Keys!Effective' = Keys!Effective
    BY <1>1, <2>4, SameRequest
  <2>6. LoadOK'
    BY <1>1, <2>3, <2>5 DEF LoadOK
  <2>7. load'.seen # {folder'}
    BY <1>1, <2>1, <2>2
  <2>8. BesideOK'
    BY <2>7 DEF BesideOK
  <2> QED
    BY <1>3, <1>4, <2>6, <2>8 DEF LoadInv
<1> QED
  BY <1>5, <1>6

\* The load and the folder stay as they are, and the key too or it is dropped.
LEMMA StillLoadInv ==
    ASSUME LoadInv, load' = load, folder' = folder, key' = key \/ key' = Keys!Unloaded
    PROVE  LoadInv'
<1>1. IsList(folder) /\ LoadOK /\ BesideOK /\ KeyOK
  BY DEF LoadInv
<1>2. KeyOK'
  <2>1. ~Keys!Unloaded.loaded
    BY DEF Keys!Unloaded
  <2> QED
    BY <1>1, <2>1 DEF KeyOK
<1>3. CASE load.pc = "rest"
  BY <1>1, <1>2, <1>3 DEF LoadInv, LoadOK, BesideOK, Searching
<1>4. CASE load.pc # "rest"
  <2>1. PICK r \in Requests : load.ask = {r}
    BY <1>1, <1>4, LoadFacts
  <2>2. Keys!Ask' = Keys!Ask /\ Keys!Effective' = Keys!Effective /\ Keys!Beside' = Keys!Beside
    BY <2>1, SameRequest, SameBeside
  <2>3. LoadOK' /\ BesideOK'
    BY <1>1, <2>2 DEF LoadOK, BesideOK, Grown
  <2> QED
    BY <1>1, <1>2, <2>3 DEF LoadInv
<1> QED
  BY <1>3, <1>4

-----------------------------------------------------------------------------
(***************************************************************************)
(* Signing with the loaded key.                                            *)
(***************************************************************************)

\* A step that neither writes a signature nor reports one.
LEMMA NoSignature ==
    ASSUME KeyInv, job'.pc # "write", job'.pc = "return" => job'.op = "verify",
           ~(told'.op = "sign" /\ told'.ok)
    PROVE  SignerReady' /\ SignedAsAsked'
BY DEF SignerReady, SignedAsAsked

\* A step that leaves the key, the job, the answer and the output alone.
LEMMA SameSignature ==
    ASSUME KeyInv, key' = key, job' = job, told' = told, output' = output
    PROVE  SignerReady' /\ SignedAsAsked'
<1>1. Keys!Signer' = Keys!Signer
  BY DEF Keys!Signer
<1> QED
  BY <1>1 DEF KeyInv, SignerReady, SignedAsAsked

\* A step of verifying, or between commands.
LEMMA VerifyKeepsKeys ==
    ASSUME KeyInv, FrontInv, \/ Open \/ Configure \/ AddinFinalize \/ SessionStep
                             \/ Throws \/ CapiVerified \/ AddinVerified \/ CliVerified
                             \/ \E q \in Asks : BeginVerify(q)
    PROVE  KeyInv'
<1>1. load' = load /\ folder' = folder /\ (key' = key \/ key' = Keys!Unloaded)
  BY DEF Open, Configure, AddinFinalize, SessionStep, Throws, CapiVerified, AddinVerified, CliVerified,
       BeginVerify, keyVars
<1>2. LoadInv'
  BY <1>1, StillLoadInv DEF KeyInv
<1>3. ~(Nothing.ok) /\ Nothing.op = ""
  BY DEF Nothing
<1>4. /\ job'.pc # "write" /\ (job'.pc = "return" => job'.op = "verify")
      /\ ~(told'.op = "sign" /\ told'.ok)
  <2>1. CASE Open
    BY <2>1, NoJobIsJob DEF Open, FrontInv, ToldOK
  <2>2. CASE Configure \/ AddinFinalize
    BY <1>3, <2>2 DEF Configure, AddinFinalize, Comes
  <2>3. CASE SessionStep
    <3>1. job.pc = "call" /\ job.op = "verify" /\ told.op = "" /\ told' = told
      BY <2>3 DEF SessionStep, FrontInv, ToldOK
    <3>2. job' = job \/ \E ok, v : job' = [job EXCEPT !.pc = "return", !.ok = ok, !.valid = v]
      BY <2>3 DEF SessionStep
    <3>3. job \in JobRecord
      BY DEF FrontInv, FrontTyped
    <3>4. job'.pc # "write" /\ job'.op = job.op
      BY <3>1, <3>2, <3>3 DEF JobRecord
    <3> QED
      BY <3>1, <3>4
  <2>4. CASE CapiVerified \/ AddinVerified \/ CliVerified
    <3>1. PICK code : Answer(code)
      BY <2>4 DEF CapiVerified, AddinVerified, CliVerified
    <3>2. job.pc = "return" /\ job.op = "verify"
      BY <2>4 DEF CapiVerified, AddinVerified, CliVerified, KeyInv, SignerReady
    <3>3. told'.op = job.op /\ job' = NoJob
      BY <3>1 DEF Answer
    <3> QED
      BY <3>2, <3>3, NoJobIsJob
  <2>5. CASE \E q \in Asks : BeginVerify(q)
    <3>1. PICK q \in Asks : BeginVerify(q)
      BY <2>5
    <3>2. PICK e, n : /\ e = (IF Route(q) = "reject" THEN "RecordVerifyFailure" ELSE Route(q))
                      /\ n = Len(made) + 1
      OBVIOUS
    <3>3. CASE /\ job' = [NoJob EXCEPT !.pc = "call", !.op = "verify", !.ask = {q}, !.entry = e, !.call = n]
               /\ told' = Nothing
      BY <1>3, <3>3 DEF NoJob
    <3>4. CASE told' = [Nothing EXCEPT !.op = "verify", !.ask = {q}, !.code = 1] /\ UNCHANGED <<vars, job>>
      <4>1. job' = job /\ job.pc = "idle"
        BY <3>1, <3>4 DEF BeginVerify, Comes
      <4>2. told'.op = "verify"
        BY <3>4 DEF Nothing
      <4> QED
        BY <4>1, <4>2
    <3> QED
      BY <3>1, <3>2, <3>3, <3>4 DEF BeginVerify
  <2>6. CASE Throws
    <3>1. told'.op = "verify" /\ job' = NoJob
      BY <2>6 DEF Throws, Nothing
    <3> QED
      BY <3>1, NoJobIsJob
  <2> QED
    BY <2>1, <2>2, <2>3, <2>4, <2>5, <2>6
<1> QED
  BY <1>2, <1>4, NoSignature DEF KeyInv

\* A step of key loading or signing.
LEMMA LoadKeepsKeys ==
    ASSUME WellOrdered, KeyInv, FrontInv,
           \/ \E r \in Requests : BeginLoad(r)
           \/ CliRefusesKey \/ LoadStep \/ Loaded \/ AddinResetKey
    PROVE  KeyInv'
<1>1. ~Nothing.ok
  BY DEF Nothing
<1>2. CASE \E r \in Requests : BeginLoad(r)
  <2>1. PICK r \in Requests : Keys!ReadPrivateKey(r)
    BY <1>2 DEF BeginLoad
  <2>2. job'.pc = "call" /\ told' = Nothing
    BY <1>2 DEF BeginLoad, NoJob
  <2> QED
    BY <1>1, <2>1, <2>2, ReadOK, NoSignature DEF KeyInv
<1>3. CASE CliRefusesKey
  <2>1. load' = load /\ folder' = folder /\ key' = key /\ job' = job /\ job.pc = "idle"
    BY <1>3 DEF CliRefusesKey, Comes, keyVars
  <2>2. told'.op = "load"
    BY <1>3 DEF CliRefusesKey, Nothing
  <2> QED
    BY <2>1, <2>2, StillLoadInv, NoSignature DEF KeyInv
<1>4. CASE LoadStep
  <2>1. Keys!LoadStep /\ job.pc = "call" /\ job' = job /\ told' = told
    BY <1>4 DEF LoadStep, frontVars
  <2>2. told.op = ""
    BY <2>1 DEF FrontInv, ToldOK
  <2> QED
    BY <2>1, <2>2, LoadStepOK, NoSignature DEF KeyInv
<1>5. CASE Loaded
  <2>1. load' = load /\ folder' = folder /\ key' = key /\ job' = NoJob
    BY <1>5 DEF Loaded, keyVars
  <2>2. told'.op = "load"
    BY <1>5 DEF Loaded, Nothing
  <2> QED
    BY <2>1, <2>2, NoJobIsJob, StillLoadInv, NoSignature DEF KeyInv
<1>6. CASE AddinResetKey
  <2>1. /\ load' = load /\ folder' = folder /\ key' = Keys!Unloaded /\ job' = job /\ job.pc = "idle"
        /\ told' = Nothing
    BY <1>6 DEF AddinResetKey, Comes, Keys!ResetPrivateKey
  <2> QED
    BY <1>1, <2>1, StillLoadInv, NoSignature DEF KeyInv
<1> QED
  BY <1>2, <1>3, <1>4, <1>5, <1>6

\* A Sign* operation leaves the loaded key and the load alone.
LEMMA SignKeepsKeys ==
    ASSUME KeyInv, SignRefused \/ Sign \/ WriteOutput
    PROVE  KeyInv'
\* A request to sign.
<1>1. ASSUME SignRefused \/ Sign
      PROVE  SignerReady' /\ SignedAsAsked'
  <2> USE <1>1
  <2>1. job.pc = "idle" /\ key' = key
    BY DEF SignRefused, Sign, Comes, keyVars
  <2>2. ASSUME NEW code, NEW why, SignFails(code, why)
        PROVE  SignerReady' /\ SignedAsAsked'
    <3>1. job' = job /\ ~told'.ok
      BY <2>2 DEF SignFails, Nothing
    <3> QED
      BY <2>1, <3>1, NoSignature
  <2>3. CASE /\ key.loaded /\ Keys!Signer.ok /\ told' = Nothing
             /\ job' = [NoJob EXCEPT !.pc = "write", !.op = "sign"]
    <3>1. Keys!Signer' = Keys!Signer
      BY <2>1 DEF Keys!Signer
    <3>2. job'.pc = "write"
      BY <2>3 DEF NoJob
    <3> QED
      BY <2>1, <2>3, <3>1, <3>2, NothingTold DEF SignerReady, SignedAsAsked
  <2> QED
    BY <2>2, <2>3 DEF SignRefused, Sign
\* The signature that is written.
<1>2. ASSUME WriteOutput
      PROVE  SignerReady' /\ SignedAsAsked'
  <2> USE <1>2
  <2>1. job.pc = "write" /\ job' = NoJob /\ key' = key
    BY DEF WriteOutput, keyVars
  <2>2. SignerReady'
    BY <2>1, NoJobIsJob DEF SignerReady
  <2>3. CASE ~told'.ok
    BY <2>2, <2>3 DEF SignedAsAsked
  <2>4. CASE told'.ok
    <3>1. output' = {[key |-> Keys!Signer.key, certificate |-> Keys!Signer.certificate]}
      BY <2>4 DEF WriteOutput, Nothing
    <3>2. /\ key.loaded /\ Keys!PrepareSigner(key.it, key.pass, key.certificate).ok
          /\ Chosen(key.it, key.pass, key.certificate, key.source, key.named)
      BY <2>1 DEF KeyInv, SignerReady, LoadInv, KeyOK, Keys!Signer
    <3>3. PICK c, id : /\ SignerOf(Keys!PrepareSigner(key.it, key.pass, key.certificate), id, c)
                       /\ key.certificate # {} => c \in key.certificate
      BY <3>2, SignerSigns
    <3>4. Keys!Signer.key = id /\ Keys!Signer.certificate = {c} /\ c.key = id /\ c.signs
      BY <3>3 DEF SignerOf, Keys!Signer
    <3>5. key.named # {} /\ key.source # "container" => c \in key.named
      BY <3>2, <3>3 DEF Chosen
    <3>6. PICK s \in output' : s.key = id /\ s.certificate = {c}
      BY <3>1, <3>4
    <3>7. SignedAsAsked'
      BY <2>1, <3>4, <3>5, <3>6 DEF SignedAsAsked
    <3> QED
      BY <2>2, <3>7
  <2> QED
    BY <2>3, <2>4
<1>3. load' = load /\ folder' = folder /\ key' = key
  BY DEF SignRefused, Sign, WriteOutput, keyVars
<1> QED
  BY <1>3, StillLoadInv, <1>1, <1>2 DEF KeyInv

\* The first state.
LEMMA KeyInitInv ==
    ASSUME FrontInit
    PROVE  KeyInv
<1>1. /\ key = Keys!Unloaded /\ load = Keys!AtRest(TRUE) /\ folder \in Folders
      /\ told = Nothing
  BY DEF FrontInit, Keys!KeyInit
<1>2. job.pc \in {"idle", "closed"}
  BY DEF FrontInit, NoJob
<1>3. IsList(folder)
  BY <1>1, FrontAssumption
<1>4. LoadShape(load) /\ load.pc = "rest"
  BY <1>1 DEF Keys!AtRest, LoadShape
<1>5. LoadOK /\ BesideOK
  BY <1>4 DEF LoadOK, BesideOK, LoadPCs, Searching
<1>6. ~key.loaded
  BY <1>1 DEF Keys!Unloaded
<1> QED
  BY <1>1, <1>2, <1>3, <1>5, <1>6, NothingTold DEF KeyInv, LoadInv, KeyOK, SignerReady, SignedAsAsked

WF == INSTANCE WellFoundedInduction

\* A set of numbers has a least one.
LEMMA LeastOfSome == WellOrdered
<1> SUFFICES ASSUME NEW S \in SUBSET Nat, S # {}
             PROVE  \E i \in S : \A j \in S : i <= j
  BY DEF WellOrdered
<1> DEFINE Less == {p \in Nat \X Nat : p[1] < p[2]}
<1>1. WF!IsWellFoundedOn(Less, Nat)
  <2>1. WF!OpToRel(<, Nat) = Less
    BY DEF WF!OpToRel
  <2> QED
    BY <2>1, WF!NatLessThanWellFounded
<1>2. \A y, z \in Nat : y < z => <<y, z>> \in Less
  <2> TAKE y, z \in Nat
  <2> HAVE y < z
  <2> DEFINE p == <<y, z>>
  <2>1. p[1] = y /\ p[2] = z /\ p \in Nat \X Nat
    OBVIOUS
  <2> HIDE DEF p
  <2>2. p[1] < p[2]
    BY <2>1
  <2> QED
    BY <2>1, <2>2 DEF Less, p
<1> HIDE DEF Less
<1>3. PICK x \in S : \A y \in S : ~(<<y, x>> \in Less)
  BY <1>1, WF!WFMin
<1>4. \A y \in S : ~(y < x)
  BY <1>2, <1>3
<1>5. \A y \in S : x <= y
  BY <1>4, SMT
<1> QED
  BY <1>5

\* Every step keeps the invariant.
LEMMA KeyNextInv ==
    ASSUME KeyInv, FrontInv, [FrontNext]_allVars
    PROVE  KeyInv'
<1>1. CASE CertificateReissued
  <2>1. Keys!Reissue /\ key' = key /\ job' = job /\ told' = told /\ output' = output
    BY <1>1 DEF CertificateReissued, Keys!Reissue, frontVars
  <2> QED
    BY <2>1, ReissueOK, SameSignature DEF KeyInv
<1>2. CASE UNCHANGED allVars
  <2>1. /\ load' = load /\ folder' = folder /\ key' = key /\ job' = job /\ told' = told
        /\ output' = output
    BY <1>2 DEF allVars, keyVars, frontVars
  <2> QED
    BY <2>1, StillLoadInv, SameSignature DEF KeyInv
<1> QED
  BY <1>1, <1>2, VerifyKeepsKeys, LoadKeepsKeys, SignKeepsKeys, LeastOfSome DEF FrontNext

\* The invariant of the keys holds always.
LEMMA KeyIsInv == FrontSpec => []KeyInv
<1>1. FrontInit => KeyInv
  BY KeyInitInv
<1>2. KeyInv /\ FrontInv /\ [FrontNext]_allVars => KeyInv'
  BY KeyNextInv
<1> QED
  BY <1>1, <1>2, FrontIsInv, PTL DEF FrontSpec

\* SignedAsAsked: a command that reports a signature has written one that was
\* made with the key its certificate certifies, and by the certificate that
\* the user named, if any.
THEOREM SignaturesAreAsAsked == FrontSpec => []SignedAsAsked
<1>1. KeyInv => SignedAsAsked
  BY DEF KeyInv
<1> QED
  BY <1>1, KeyIsInv, PTL

\* ResolvedSigns: the certificate that the resolver accepted for a key can be
\* signed with, for every container: PrepareSigner's own selection among its
\* keys and its own checks agree with the resolver's.
THEOREM ResolvedCertificatesSign == FrontSpec => []ResolvedSigns
<1>1. KeyInv => ResolvedSigns
  <2> SUFFICES ASSUME KeyInv, key.loaded, key.source \in Keys!FromResolver
               PROVE  /\ Keys!Signer.ok /\ Keys!Signer.certificate = key.certificate
                      /\ \A c \in key.certificate : c.key = Keys!Signer.key /\ c.signs
    BY DEF ResolvedSigns, Keys!ResolvedSigns
  <2>1. IsList(key.it.material) /\ Chosen(key.it, key.pass, key.certificate, key.source, key.named)
    BY DEF KeyInv, LoadInv, KeyOK
  <2>2. key.source # "container" /\ key.source # ""
    BY DEF Keys!FromResolver
  <2>3. PICK c : key.certificate = {c} /\ Keys!Acceptable(c, Keys!PublicKeys(key.it, key.pass))
    BY <2>1, <2>2 DEF Chosen
  <2>4. SignerOf(Keys!PrepareSigner(key.it, key.pass, key.certificate), c.key, c)
    BY <2>1, <2>3, AcceptedSigns
  <2> QED
    BY <2>3, <2>4 DEF SignerOf, Keys!Signer
<1> QED
  BY <1>1, KeyIsInv, PTL

\* BesideIsPreferred: a certificate that was put beside the key takes effect at
\* the next load, whatever an earlier load left in the cache.
THEOREM BesideComesFirst == FrontSpec => BesideIsPreferred
<1> DEFINE Preferred ==
       load.pc = "commit" /\ load'.pc = "rest" /\ load.seen = {folder}
         /\ load.source # "container" /\ Keys!Ask.named = {} /\ Keys!Beside # {}
       => key'.certificate = Keys!Beside
<1>1. KeyInv /\ [FrontNext]_allVars => [Preferred]_Keys!keyVars
  <2> SUFFICES ASSUME KeyInv, [FrontNext]_allVars, load.pc = "commit", load'.pc = "rest",
                      load.seen = {folder}, load.source # "container", Keys!Ask.named = {},
                      Keys!Beside # {}
               PROVE  key'.certificate = Keys!Beside
    OBVIOUS
  <2>1. load.found = Keys!Beside
    BY DEF KeyInv, LoadInv, BesideOK
  <2>2. load' # load
    OBVIOUS
  <2>3. LoadStep
    BY <2>2 DEF FrontNext, allVars, keyVars, Open, Configure, AddinFinalize, BeginVerify, SessionStep,
         Throws, CapiVerified, AddinVerified, CliVerified, BeginLoad, Keys!ReadPrivateKey, CliRefusesKey, Loaded,
         AddinResetKey, Keys!ResetPrivateKey, CertificateReissued, Keys!Reissue, SignRefused, Sign, WriteOutput
  <2>4. Keys!CommitLoadedKey
    BY <2>3 DEF LoadStep, Keys!LoadStep, Keys!Normalize, Keys!OpenContainer, Keys!ResolveNamed,
         Keys!ResolveBeside, Keys!ResolveCached, Keys!ResolveLdap, Keys!ResolveCmp
  <2> QED
    BY <2>1, <2>4 DEF Keys!CommitLoadedKey
<1>2. BesideIsPreferred <=> [][Preferred]_Keys!keyVars
  BY DEF BesideIsPreferred, Keys!BesideIsPreferred
<1> QED
  BY <1>1, <1>2, KeyIsInv, PTL DEF FrontSpec
=============================================================================
