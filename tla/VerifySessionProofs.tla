------------------------ MODULE VerifySessionProofs ------------------------
(***************************************************************************)
(* Proofs about VerifySession for any number of threads, calls and         *)
(* signatures: types, the ownership of the report, the refinement of       *)
(* ReportSlot, and the completeness of the report of a call that returned. *)
(***************************************************************************)
EXTENDS VerifySession, TLAPS

Entry == [valid : BOOLEAN, kept : BOOLEAN]

\* The empty list, and the length of any other.
LEMMA EmptyList ==
    ASSUME NEW S
    PROVE  << >> \in Seq(S) /\ Len(<< >>) = 0 /\ \A s \in Seq(S) : s # << >> => Len(s) \in Nat \ {0}
OBVIOUS

\* A part of a list.
LEMMA Slice ==
    ASSUME NEW S, NEW s \in Seq(S), NEW m \in Nat \ {0}, NEW n \in 0 .. Len(s)
    PROVE  /\ SubSeq(s, m, n) \in Seq(S) /\ Len(SubSeq(s, m, n)) = IF m <= n THEN n - m + 1 ELSE 0
           /\ \A i \in 1 .. n - m + 1 : SubSeq(s, m, n)[i] = s[m + i - 1]
OBVIOUS

\* Taking the first entry off a list.
LEMMA HeadAndTail ==
    ASSUME NEW S, NEW s \in Seq(S), s # << >>
    PROVE  /\ Head(s) \in S /\ Tail(s) \in Seq(S) /\ Len(Tail(s)) = Len(s) - 1
           /\ \A i \in 1 .. Len(Tail(s)) : Tail(s)[i] = s[i + 1]
OBVIOUS

\* Adding an entry at the end of a list.
LEMMA Appended ==
    ASSUME NEW S, NEW s \in Seq(S), NEW e \in S
    PROVE  /\ Append(s, e) \in Seq(S) /\ Append(s, e) # << >> /\ Len(Append(s, e)) = Len(s) + 1
           /\ \A i \in 1 .. Len(s) : Append(s, e)[i] = s[i]
           /\ Append(s, e)[Len(s) + 1] = e
OBVIOUS

\* A thread's new frame keeps the table of frames well typed.
LEMMA GotoType ==
    ASSUME frame \in [Threads -> Frame], NEW t \in Threads, NEW f \in Frame,
           Goto(t, f)
    PROVE  frame' \in [Threads -> Frame]
BY Zenon DEF Goto

\* The frame of an idle thread is a frame.
LEMMA IdleType == ASSUME NEW ok \in BOOLEAN PROVE Idle(ok) \in Frame
<1>1. 0 \in Calls /\ 0 \in 0 .. MaxSigs
  BY SessionAssumption DEF Calls
<1>2. << >> \in Seq(Names) /\ << >> \in Seq(Entry)
  OBVIOUS
<1> QED
  BY <1>1, <1>2, Zenon DEF Idle, Frame, FrameRecord, PCs, Names, Entry

\* Returning from a core operation leaves a frame.
LEMMA ResumeType ==
    ASSUME NEW f \in Frame, NEW ok \in BOOLEAN, NEW valid \in BOOLEAN
    PROVE  Resume(f, ok, valid) \in Frame
<1> DEFINE g == [f EXCEPT !.ok = ok, !.valid = valid, !.mine = TRUE]
<1>1. g \in FrameRecord /\ g.todo = f.todo
  BY Zenon DEF Frame, FrameRecord
<1> HIDE DEF g
<1>2. CASE g.todo # << >>
  <2>1. Resume(f, ok, valid) = [g EXCEPT !.pc = "rename"]
    BY <1>2, Zenon DEF Resume, g
  <2> QED
    BY <1>1, <1>2, <2>1, Zenon DEF Frame, FrameRecord, PCs
<1>3. CASE g.todo = << >>
  <2>1. [g EXCEPT !.pc = "copy"] \in Frame
    BY <1>1, Zenon DEF Frame, FrameRecord, PCs
  <2>2. Resume(f, ok, valid) \in {[g EXCEPT !.pc = "copy"], Idle(ok)}
    BY <1>3, Zenon DEF Resume, g
  <2> QED
    BY <2>1, <2>2, IdleType, Zenon
<1> QED
  BY <1>2, <1>3, Zenon

\* A committed outcome is a report.
LEMMA OutcomeType ==
    ASSUME NEW op \in Names, NEW executed \in BOOLEAN, NEW valid \in BOOLEAN,
           NEW c \in Calls
    PROVE  Outcome(op, executed, valid, c) \in Report /\ Cleared \in Report
<1>1. 0 \in Calls
  BY SessionAssumption DEF Calls
<1>2. << >> \in Seq(Entry)
  OBVIOUS
<1>3. Cleared \in Report
  BY <1>1, <1>2, Zenon DEF Cleared, Report, Names, Entry
<1> QED
  BY <1>3, Zenon DEF Outcome, Report

\* Rendering a well-typed report and well-typed metadata.
LEMMA RefreshType ==
    ASSUME report' \in Report, metadata' \in Calls, RefreshUserReport
    PROVE  userReport' \in [report : Report, metadata : Calls]
BY Zenon DEF RefreshUserReport, View

\* The epochs stay natural numbers when a thread commits.
LEMMA MarkType ==
    ASSUME TypeOK, NEW t \in Threads, MarkCommitted(t)
    PROVE  /\ epoch' \in Nat /\ globalEpoch' \in Nat
           /\ lastCommit' \in [Threads -> Nat]
BY DEF TypeOK, MarkCommitted

\* The types of what a commit of a failure (or of an empty result) writes.
LEMMA SetVerifyReportType ==
    ASSUME TypeOK, NEW t \in Threads, NEW op \in Names,
           NEW executed \in BOOLEAN, NEW valid \in BOOLEAN,
           SetVerifyReport(t, op, executed, valid)
    PROVE  /\ report' \in Report /\ metadata' \in Calls
           /\ userReport' \in [report : Report, metadata : Calls]
           /\ epoch' \in Nat /\ globalEpoch' \in Nat
           /\ lastCommit' \in [Threads -> Nat]
<1>1. frame[t].call \in Calls
  BY Zenon DEF TypeOK, Frame, FrameRecord
<1>2. report' \in Report
  BY <1>1, OutcomeType, Zenon DEF SetVerifyReport
<1>3. metadata' \in Calls
  BY SessionAssumption DEF SetVerifyReport, Calls
<1> QED
  BY <1>2, <1>3, RefreshType, MarkType, Zenon DEF SetVerifyReport

\* The error is set to a known code on behalf of a call.
LEMMA SetErrorType ==
    ASSUME NEW code \in Codes, NEW c \in Calls,
           SetError(code, c) \/ ClearError
    PROVE  lastError' \in [code : Codes, by : Calls]
<1>1. 0 \in Calls
  BY SessionAssumption DEF Calls
<1> QED
  BY <1>1 DEF SetError, ClearError, Codes

\* The names an entry point uses are names.
LEMMA NamesType ==
    ASSUME NEW e \in Verifying
    PROVE  /\ e \in Names /\ CoreOf(e) \in Names
           /\ Renames(e) \in Seq(Names) /\ FirstSection(e) \in PCs
<1>1. e \in Names /\ "VerifyFile" \in Names /\ "VerifyDataInternalBase64" \in Names
        /\ "VerifyDataInternal" \in Names /\ "VerifyData" \in Names
  BY Zenon DEF Names, Verifying, Detached, Attached
<1>2. CoreOf(e) \in Names
  BY <1>1, Zenon DEF CoreOf
<1>3. Renames(e) \in {<< e >>, << "VerifyFile", e >>,
                      << "VerifyDataInternalBase64", e >>, << >>}
  BY Zenon DEF Renames
<1>4. << e >> \in Seq(Names) /\ << "VerifyFile", e >> \in Seq(Names)
        /\ << "VerifyDataInternalBase64", e >> \in Seq(Names)
        /\ << >> \in Seq(Names)
  BY <1>1
<1>5. FirstSection(e) \in {"enter", "asic", "xades", "format", "record"}
  BY Zenon DEF FirstSection
<1> QED
  BY <1>1, <1>2, <1>3, <1>4, <1>5, Zenon DEF PCs

\* The tail of a sequence of two or more elements is a non-empty sequence.
LEMMA TailType ==
    ASSUME NEW S, NEW s \in Seq(S), Len(s) > 1
    PROVE  Tail(s) \in Seq(S) /\ Tail(s) # << >>
<1> DEFINE n == Len(s)
<1> DEFINE m == Len(Tail(s))
<1>1. n \in Nat /\ n > 1
  OBVIOUS
<1>2. s # << >>
  OBVIOUS
<1>3. Tail(s) \in Seq(S) /\ m = n - 1
  BY <1>2, HeadAndTail, Zenon
<1>4. m # 0
  <2> HIDE DEF n, m
  <2> QED
    BY <1>1, <1>3
<1>5. Len(<< >>) = 0
  BY EmptyList, Zenon
<1> QED
  BY <1>3, <1>4, <1>5, Zenon
\* A frame keeps its type when it moves on with another list of pending names.
LEMMA TodoType ==
    ASSUME NEW f \in Frame, NEW todo \in Seq(Names), NEW pc \in PCs,
           pc = "rename" => todo # << >>
    PROVE  [f EXCEPT !.todo = todo, !.pc = pc] \in Frame
BY Zenon DEF Frame, FrameRecord

\* Renaming moves to a frame: the pending names shrink or the call goes on.
LEMMA RenamedType == ASSUME NEW f \in Frame PROVE Renamed(f) \in Frame
<1>1. f.todo \in Seq(Names) /\ f.ok \in BOOLEAN
  BY Zenon DEF Frame, FrameRecord
<1>2. CASE Len(f.todo) > 1
  <2>1. Tail(f.todo) \in Seq(Names) /\ Tail(f.todo) # << >>
    BY <1>1, <1>2, TailType, Zenon
  <2>2. [f EXCEPT !.todo = Tail(f.todo)] \in Frame
    BY <2>1, Zenon DEF Frame, FrameRecord
  <2>3. Renamed(f) = [f EXCEPT !.todo = Tail(f.todo)]
    BY <1>2 DEF Renamed
  <2> QED
    BY <2>2, <2>3, Zenon
<1>3. CASE ~(Len(f.todo) > 1)
  <2>1. << >> \in Seq(Names) /\ "coverage" \in PCs /\ "coverage" # "rename"
    BY DEF PCs
  <2>2. [f EXCEPT !.todo = << >>, !.pc = "coverage"] \in Frame
    BY <2>1, TodoType, Zenon
  <2>3. Renamed(f) \in {[f EXCEPT !.todo = << >>, !.pc = "coverage"], Idle(f.ok)}
    BY <1>3, Zenon DEF Renamed
  <2> QED
    BY <1>1, <2>2, <2>3, IdleType, Zenon
<1> QED
  BY <1>2, <1>3, Zenon

\* A report stays a report under another name.
LEMMA RenameReportType ==
    ASSUME NEW r \in Report, NEW op \in Names, NEW c \in Calls
    PROVE  [r EXCEPT !.operation = op, !.named = c] \in Report
BY Zenon DEF Report

\* No section of a call in progress leaves the types.
LEMMA StepType ==
    ASSUME TypeOK, NEW t \in Threads, Step(t)
    PROVE  TypeOK'
<1> DEFINE f == frame[t]
<1> DEFINE UserReports == [report : Report, metadata : Calls]
<1> DEFINE Errors == [code : Codes, by : Calls]
<1> DEFINE Written == /\ report' \in Report /\ metadata' \in Calls
                      /\ userReport' \in UserReports /\ epoch' \in Nat
                      /\ globalEpoch' \in Nat /\ lastCommit' \in [Threads -> Nat]
<1>f. /\ f \in Frame /\ f.call \in Calls /\ f.entry \in Names /\ f.todo \in Seq(Names)
      /\ f.ok \in BOOLEAN /\ f.valid \in BOOLEAN
      /\ frame \in [Threads -> Frame] /\ f.entries \in Seq(Entry)
      /\ f.left \in 0 .. MaxSigs
  BY Zenon DEF TypeOK, Frame, FrameRecord, Entry
<1>c. /\ Codes = {"None", "NotInitialized", "InvalidArgument", "InternalError"}
      /\ 0 \in Calls
      /\ CoreOf(f.entry) \in Names
      /\ "RecordVerifyFailure" \in Names /\ "VerifyFileAsicE" \in Names
      /\ "VerifyFileAsicEXades" \in Names
  BY SessionAssumption DEF Codes, Calls, CoreOf, Names, Verifying, Detached,
     Attached, Containers
<1>i. Idle(TRUE) \in Frame /\ Idle(FALSE) \in Frame /\ Idle(f.ok) \in Frame
  BY <1>f, IdleType, Zenon
<1>r. \A ok, valid \in BOOLEAN : Resume(f, ok, valid) \in Frame
  BY <1>f, ResumeType, Zenon
<1>p. \A pc \in PCs \ {"rename"} : [f EXCEPT !.pc = pc] \in Frame
  BY <1>f, Zenon DEF Frame, FrameRecord
<1>g. ASSUME NEW x \in Frame, Goto(t, x) PROVE frame' \in [Threads -> Frame]
  BY <1>f, <1>g, GotoType, Zenon
<1>u. ASSUME UNCHANGED <<session, ownership, made>>, frame' \in [Threads -> Frame]
      PROVE  TypeOK'
  BY <1>u, Zenon DEF TypeOK, session, ownership
<1>w. ASSUME Written, UNCHANGED <<initialized, made>>, lastError' \in Errors,
             frame' \in [Threads -> Frame]
      PROVE  TypeOK'
  BY <1>w, Zenon DEF TypeOK
<1>e. ASSUME lastError' \in Errors, frame' \in [Threads -> Frame],
             UNCHANGED <<initialized, report, metadata, userReport, ownership, made>>
      PROVE  TypeOK'
  BY <1>e, Zenon DEF TypeOK, ownership
<1>a. ASSUME report' \in Report, metadata' = metadata, RefreshUserReport,
             UNCHANGED <<initialized, lastError, ownership, made>>,
             frame' \in [Threads -> Frame]
      PROVE  TypeOK'
  BY <1>a, RefreshType, Zenon DEF TypeOK, ownership
<1>n. ASSUME UNCHANGED <<report, metadata, userReport>>,
             UNCHANGED <<initialized, lastError, ownership, made>>,
             frame' \in [Threads -> Frame]
      PROVE  TypeOK'
  BY <1>n, Zenon DEF TypeOK, ownership
<1>1. CASE RecordVerifyFailure(t)
  <2>1. Written
    BY <1>1, <1>c, <1>f, SetVerifyReportType, Zenon DEF RecordVerifyFailure
  <2>2. lastError' \in Errors
    BY <1>1, <1>c, <1>f, SetErrorType, Zenon DEF RecordVerifyFailure
  <2>3. frame' \in [Threads -> Frame]
    BY <1>1, <1>i, <1>r, <1>g, Zenon DEF RecordVerifyFailure
  <2> QED
    BY <1>1, <2>1, <2>2, <2>3, <1>w, Zenon DEF RecordVerifyFailure
<1>2. CASE InputFails(t)
  <2>1. PICK j \in DOMAIN f.todo :
          LET outer == SubSeq(f.todo, j + 1, Len(f.todo))
          IN  /\ SetVerifyReport(t, f.todo[j], FALSE, FALSE)
              /\ SetError("InvalidArgument", f.call)
              /\ Goto(t, Resume([f EXCEPT !.todo = outer], FALSE, FALSE))
    BY <1>2, Zenon DEF InputFails
  <2>2. f.todo[j] \in Names /\ SubSeq(f.todo, j + 1, Len(f.todo)) \in Seq(Names)
    BY <2>1, <1>f
  <2>3. Written
    BY <2>1, <2>2, SetVerifyReportType, Zenon
  <2>4. lastError' \in Errors
    BY <2>1, <1>c, <1>f, SetErrorType, Zenon
  <2>5. [f EXCEPT !.todo = SubSeq(f.todo, j + 1, Len(f.todo))] \in Frame
    BY <1>2, <2>2, <1>f, Zenon DEF Frame, FrameRecord, InputFails, At
  <2>6. frame' \in [Threads -> Frame]
    BY <2>1, <2>5, ResumeType, <1>g, Zenon
  <2> QED
    BY <1>2, <2>3, <2>4, <2>6, <1>w, Zenon DEF InputFails
<1>3. CASE Enter(t)
  <2>1. CASE initialized
    <3>1. Goto(t, [f EXCEPT !.pc = "crypto"]) /\ UNCHANGED <<session, ownership, made>>
      BY <1>3, <2>1, Zenon DEF Enter
    <3> QED
      BY <3>1, <1>p, <1>g, <1>u, Zenon DEF PCs
  <2>2. CASE ~initialized
    <3>1. Written
      BY <1>3, <2>2, <1>c, <1>f, SetVerifyReportType, Zenon DEF Enter
    <3>2. lastError' \in Errors
      BY <1>3, <2>2, <1>c, <1>f, SetErrorType, Zenon DEF Enter
    <3>3. frame' \in [Threads -> Frame]
      BY <1>3, <2>2, <1>i, <1>r, <1>g, Zenon DEF Enter
    <3> QED
      BY <1>3, <2>2, <3>1, <3>2, <3>3, <1>w, Zenon DEF Enter
  <2> QED
    BY <2>1, <2>2, Zenon
<1>4. CASE CryptoFails(t)
  <2>1. Written
    BY <1>4, <1>c, <1>f, SetVerifyReportType, Zenon DEF CryptoFails
  <2>2. lastError' \in Errors
    BY <1>4, <1>c, <1>f, SetErrorType, Zenon DEF CryptoFails
  <2>3. frame' \in [Threads -> Frame]
    BY <1>4, <1>i, <1>r, <1>g, Zenon DEF CryptoFails
  <2> QED
    BY <1>4, <2>1, <2>2, <2>3, <1>w, Zenon DEF CryptoFails
<1>5. CASE Commit(t)
  <2>1. report' \in Report
    BY <1>5, <1>c, <1>f, OutcomeType, ZenonT(60) DEF Commit
  <2>2. metadata' \in Calls
    BY <1>5, <1>f, Zenon DEF Commit, TypeOK
  <2>3. Written
    BY <1>5, <2>1, <2>2, RefreshType, MarkType, Zenon DEF Commit
  <2>4. lastError' \in Errors
    BY <1>5, <1>c, <1>f, SetErrorType, Zenon DEF Commit
  <2>5. frame' \in [Threads -> Frame]
    BY <1>5, <1>i, <1>r, <1>g, Zenon DEF Commit
  <2> QED
    BY <1>5, <2>3, <2>4, <2>5, <1>w, Zenon DEF Commit
<1>6. CASE Rename(t)
  <2>1. Renamed(f) \in Frame
    BY <1>6, RenamedType, <1>f, Zenon DEF Rename
  <2>2. frame' \in [Threads -> Frame]
    BY <1>6, <2>1, <1>g, Zenon DEF Rename
  <2>3. CASE report.has_result /\ StillOwned(t)
    <3>1. Head(f.todo) \in Names
      BY <1>6, <1>f DEF Rename, At, Frame, FrameRecord
    <3>2. [report EXCEPT !.operation = Head(f.todo), !.named = f.call] \in Report
      BY <3>1, <1>f, RenameReportType, Zenon DEF TypeOK
    <3>3. report' \in Report
      BY <1>6, <2>3, <3>2, Zenon DEF Rename
    <3> QED
      BY <1>6, <2>2, <2>3, <3>3, <1>a, Zenon DEF Rename
  <2>4. CASE ~(report.has_result /\ StillOwned(t))
    BY <1>6, <2>2, <2>4, <1>n, Zenon DEF Rename
  <2> QED
    BY <2>3, <2>4, Zenon
<1>7. CASE ForceName(t)
  <2>1. frame' \in [Threads -> Frame]
    BY <1>7, RenamedType, <1>f, <1>g, Zenon DEF ForceName
  <2>2. report' \in Report
    <3>1. Head(f.todo) \in Names
      BY <1>7, <1>f DEF ForceName, ForcesName
    <3>2. [report EXCEPT !.operation = Head(f.todo), !.named = f.call] \in Report
      BY <3>1, <1>f, RenameReportType, Zenon DEF TypeOK
    <3> QED
      BY <1>7, <3>2, Zenon DEF ForceName
  <2>3. metadata' \in Calls /\ userReport' \in UserReports
    BY <1>7, <2>2, RefreshType, Zenon DEF ForceName, TypeOK
  <2>4. lastError' \in Errors
    BY <1>7, <1>c, SetErrorType, Zenon DEF ForceName
  <2> QED
    BY <1>7, <2>1, <2>2, <2>3, <2>4, Zenon DEF ForceName, TypeOK, ownership
<1>8. CASE FormatEnter(t)
  <2>1. CASE initialized
    <3>1. Goto(t, [f EXCEPT !.pc = "parse"]) /\ UNCHANGED <<session, ownership, made>>
      BY <1>8, <2>1, Zenon DEF FormatEnter
    <3> QED
      BY <3>1, <1>p, <1>g, <1>u, Zenon DEF PCs
  <2>2. CASE ~initialized
    <3>1. lastError' \in Errors
      BY <1>8, <2>2, <1>c, <1>f, SetErrorType, Zenon DEF FormatEnter
    <3>2. frame' \in [Threads -> Frame]
      BY <1>8, <2>2, <1>i, <1>g, Zenon DEF FormatEnter
    <3> QED
      BY <1>8, <2>2, <3>1, <3>2, <1>e, Zenon DEF FormatEnter
  <2> QED
    BY <2>1, <2>2, Zenon
<1>9. CASE FormatFails(t)
  <2>1. lastError' \in Errors
    BY <1>9, <1>c, <1>f, SetErrorType, Zenon DEF FormatFails
  <2>2. frame' \in [Threads -> Frame]
    BY <1>9, <1>i, <1>g, Zenon DEF FormatFails
  <2> QED
    BY <1>9, <2>1, <2>2, <1>e, Zenon DEF FormatFails
<1>10. CASE FormatCommit(t)
  <2>1. report' \in Report
    <3>1. PICK valid \in BOOLEAN :
            report' = [Outcome(f.entry, TRUE, valid, f.call) EXCEPT !.coverage = Declares(f)]
      BY <1>10, Zenon DEF FormatCommit
    <3>2. Outcome(f.entry, TRUE, valid, f.call) \in Report
      BY <1>f, OutcomeType, Zenon
    <3>3. Declares(f) \in Calls
      BY <1>c, <1>f, Zenon DEF Declares
    <3> QED
      BY <3>1, <3>2, <3>3, Zenon DEF Report
  <2>2. metadata' \in Calls
    BY <1>10, <1>f, Zenon DEF FormatCommit, TypeOK
  <2>3. Written
    BY <1>10, <2>1, <2>2, RefreshType, MarkType, Zenon DEF FormatCommit
  <2>4. lastError' \in Errors
    BY <1>10, <1>c, <1>f, SetErrorType, Zenon DEF FormatCommit
  <2>5. frame' \in [Threads -> Frame]
    BY <1>10, <1>i, <1>r, <1>g, Zenon DEF FormatCommit
  <2> QED
    BY <1>10, <2>3, <2>4, <2>5, <1>w, Zenon DEF FormatCommit
<1>11. CASE XadesEnter(t)
  <2>1. CASE initialized
    <3>1. Goto(t, [f EXCEPT !.pc = "load"]) /\ UNCHANGED <<session, ownership, made>>
      BY <1>11, <2>1, Zenon DEF XadesEnter
    <3> QED
      BY <3>1, <1>p, <1>g, <1>u, Zenon DEF PCs
  <2>2. CASE ~initialized
    <3>1. Written
      BY <1>11, <2>2, <1>c, <1>f, SetVerifyReportType, Zenon DEF XadesEnter
    <3>2. lastError' \in Errors
      BY <1>11, <2>2, <1>c, <1>f, SetErrorType, Zenon DEF XadesEnter
    <3>3. frame' \in [Threads -> Frame]
      BY <1>11, <2>2, <1>i, <1>r, <1>g, Zenon DEF XadesEnter
    <3> QED
      BY <1>11, <2>2, <3>1, <3>2, <3>3, <1>w, Zenon DEF XadesEnter
  <2> QED
    BY <2>1, <2>2, Zenon
<1>12. CASE XadesFails(t)
  <2>1. Written
    BY <1>12, <1>c, <1>f, SetVerifyReportType, Zenon DEF XadesFails
  <2>2. lastError' \in Errors
    BY <1>12, <1>c, <1>f, SetErrorType, Zenon DEF XadesFails
  <2>3. frame' \in [Threads -> Frame]
    BY <1>12, <1>i, <1>r, <1>g, Zenon DEF XadesFails
  <2> QED
    BY <1>12, <2>1, <2>2, <2>3, <1>w, Zenon DEF XadesFails
<1>13. CASE XadesMalformed(t)
  <2>1. report' \in Report
    <3>1. Outcome("VerifyFileAsicEXades", TRUE, FALSE, f.call) \in Report
      BY <1>c, <1>f, OutcomeType, Zenon
    <3> QED
      BY <1>13, <3>1, Zenon DEF XadesMalformed, Report
  <2>2. metadata' \in Calls
    BY <1>13, <1>c, Zenon DEF XadesMalformed
  <2>3. Written
    BY <1>13, <2>1, <2>2, RefreshType, MarkType, Zenon DEF XadesMalformed
  <2>4. lastError' \in Errors
    BY <1>13, <1>c, <1>f, SetErrorType, Zenon DEF XadesMalformed
  <2>5. frame' \in [Threads -> Frame]
    BY <1>13, <1>i, <1>r, <1>g, Zenon DEF XadesMalformed
  <2> QED
    BY <1>13, <2>3, <2>4, <2>5, <1>w, Zenon DEF XadesMalformed
<1>14. CASE XadesEmpty(t)
  <2>1. Written
    BY <1>14, <1>c, <1>f, SetVerifyReportType, Zenon DEF XadesEmpty
  <2>2. lastError' \in Errors
    BY <1>14, <1>c, <1>f, SetErrorType, Zenon DEF XadesEmpty
  <2>3. frame' \in [Threads -> Frame]
    BY <1>14, <1>i, <1>r, <1>g, Zenon DEF XadesEmpty
  <2> QED
    BY <1>14, <2>1, <2>2, <2>3, <1>w, Zenon DEF XadesEmpty
<1>15. CASE XadesCommit(t)
  <2>1. report' \in Report
    <3>0. PICK m \in 1 .. MaxSigs : \E valid \in [1 .. m -> BOOLEAN] :
            report' = [Outcome("VerifyFileAsicEXades", TRUE,
                               \A j \in 1 .. m : valid[j], f.call)
                          EXCEPT !.coverage = f.call,
                                 !.entries = [j \in 1 .. m |->
                                                [valid |-> valid[j], kept |-> TRUE]]]
      BY <1>15, Zenon DEF XadesCommit
    <3>1. PICK valid \in [1 .. m -> BOOLEAN] :
            report' = [Outcome("VerifyFileAsicEXades", TRUE,
                               \A j \in 1 .. m : valid[j], f.call)
                          EXCEPT !.coverage = f.call,
                                 !.entries = [j \in 1 .. m |->
                                                [valid |-> valid[j], kept |-> TRUE]]]
      BY <3>0, Zenon
    <3> DEFINE all == \A j \in 1 .. m : valid[j]
    <3> DEFINE listed == [j \in 1 .. m |-> [valid |-> valid[j], kept |-> TRUE]]
    <3>2. m \in Nat
      BY SessionAssumption
    <3>3. listed \in [1 .. m -> Entry]
      BY Zenon DEF Entry
    <3>4. listed \in Seq(Entry)
      BY <3>2, <3>3
    <3>5. all \in BOOLEAN
      BY Zenon
    <3> HIDE DEF listed, all
    <3>6. Outcome("VerifyFileAsicEXades", TRUE, all, f.call) \in Report
      BY <3>5, <1>c, <1>f, OutcomeType, Zenon
    <3>7. report' = [Outcome("VerifyFileAsicEXades", TRUE, all, f.call)
                        EXCEPT !.coverage = f.call, !.entries = listed]
      BY <3>1, Zenon DEF listed, all
    <3> QED
      BY <3>4, <3>6, <3>7, <1>f, Zenon DEF Report, Entry
  <2>2. metadata' \in Calls
    BY <1>15, <1>f, Zenon DEF XadesCommit, TypeOK
  <2>3. Written
    BY <1>15, <2>1, <2>2, RefreshType, MarkType, Zenon DEF XadesCommit
  <2>4. lastError' \in Errors
    BY <1>15, <1>c, <1>f, SetErrorType, Zenon DEF XadesCommit
  <2>5. frame' \in [Threads -> Frame]
    BY <1>15, <1>i, <1>r, <1>g, Zenon DEF XadesCommit
  <2> QED
    BY <1>15, <2>3, <2>4, <2>5, <1>w, Zenon DEF XadesCommit
<1>16. CASE AsicEnter(t)
  <2>1. CASE initialized
    <3>1. Goto(t, [f EXCEPT !.pc = "unpack"]) /\ UNCHANGED <<session, ownership, made>>
      BY <1>16, <2>1, Zenon DEF AsicEnter
    <3> QED
      BY <3>1, <1>p, <1>g, <1>u, Zenon DEF PCs
  <2>2. CASE ~initialized
    <3>1. Written
      BY <1>16, <2>2, <1>c, <1>f, SetVerifyReportType, Zenon DEF AsicEnter
    <3>2. lastError' \in Errors
      BY <1>16, <2>2, <1>c, <1>f, SetErrorType, Zenon DEF AsicEnter
    <3>3. frame' \in [Threads -> Frame]
      BY <1>16, <2>2, <1>i, <1>r, <1>g, Zenon DEF AsicEnter
    <3> QED
      BY <1>16, <2>2, <3>1, <3>2, <3>3, <1>w, Zenon DEF AsicEnter
  <2> QED
    BY <2>1, <2>2, Zenon
<1>17. CASE AsicUnpackFails(t)
  <2>1. Written
    BY <1>17, <1>c, <1>f, SetVerifyReportType, Zenon DEF AsicUnpackFails
  <2>2. lastError' \in Errors
    BY <1>17, <1>c, <1>f, SetErrorType, Zenon DEF AsicUnpackFails
  <2>3. frame' \in [Threads -> Frame]
    BY <1>17, <1>i, <1>r, <1>g, Zenon DEF AsicUnpackFails
  <2> QED
    BY <1>17, <2>1, <2>2, <2>3, <1>w, Zenon DEF AsicUnpackFails
<1>18. CASE AsicIsXades(t)
  <2>0. << >> \in Seq(Names) /\ "xades" \in PCs /\ "xades" # "rename"
    BY DEF PCs
  <2>1. [f EXCEPT !.todo = << >>, !.pc = "xades"] \in Frame
    BY <2>0, <1>f, TodoType, Zenon
  <2> QED
    BY <1>18, <2>1, <1>g, <1>u, Zenon DEF AsicIsXades
<1>19. CASE AsicEEmpty(t)
  <2>1. Written
    BY <1>19, <1>c, <1>f, SetVerifyReportType, Zenon DEF AsicEEmpty
  <2>2. lastError' \in Errors
    BY <1>19, <1>c, <1>f, SetErrorType, Zenon DEF AsicEEmpty
  <2>3. frame' \in [Threads -> Frame]
    BY <1>19, <1>i, <1>r, <1>g, Zenon DEF AsicEEmpty
  <2> QED
    BY <1>19, <2>1, <2>2, <2>3, <1>w, Zenon DEF AsicEEmpty
<1>20. CASE AsicUnpacked(t)
  <2>1. [f EXCEPT !.pc = "enter"] \in Frame
    BY <1>p, Zenon DEF PCs
  <2>2. ASSUME NEW m \in 1 .. MaxSigs
        PROVE  [f EXCEPT !.pc = "next", !.left = m] \in Frame
    <3>1. m \in 0 .. MaxSigs
      BY SessionAssumption
    <3> QED
      BY <3>1, <1>f, ZenonT(60) DEF Frame, FrameRecord, PCs
  <2>3. frame' \in [Threads -> Frame]
    BY <1>20, <2>1, <2>2, <1>g, Zenon DEF AsicUnpacked
  <2> QED
    BY <1>20, <2>3, <1>u, Zenon DEF AsicUnpacked
<1>21. CASE AsicESkips(t)
  <2>1. Append(f.entries, [valid |-> FALSE, kept |-> TRUE]) \in Seq(Entry)
    BY <1>f DEF Entry
  <2>2. f.left - 1 \in 0 .. MaxSigs
    BY <1>21, <1>f, SessionAssumption DEF AsicESkips
  <2> DEFINE x == [f EXCEPT !.left = f.left - 1, !.malformed = TRUE,
                            !.entries = Append(f.entries,
                                               [valid |-> FALSE, kept |-> TRUE])]
  <2>3. x \in Frame
    BY <1>f, <2>1, <2>2, Zenon DEF Frame, FrameRecord, Entry
  <2>4. Goto(t, x)
    BY <1>21, Zenon DEF AsicESkips
  <2> QED
    BY <1>21, <2>3, <2>4, <1>g, <1>u, Zenon DEF AsicESkips
<1>22. CASE AsicEVerifies(t)
  <2>1. f.left - 1 \in 0 .. MaxSigs
    BY <1>22, <1>f, SessionAssumption DEF AsicEVerifies
  <2>2. [f EXCEPT !.left = f.left - 1, !.pc = "enter"] \in Frame
    BY <1>f, <2>1, Zenon DEF Frame, FrameRecord, PCs
  <2>3. Goto(t, [f EXCEPT !.left = f.left - 1, !.pc = "enter"])
    BY <1>22, Zenon DEF AsicEVerifies
  <2> QED
    BY <1>22, <2>2, <2>3, <1>g, <1>u, Zenon DEF AsicEVerifies
<1>23. CASE AsicECopies(t)
  <2> DEFINE item(b) == [valid |-> f.ok /\ f.valid /\ ~b,
                         kept |-> f.ok => StillOwned(t)]
  <2>1. PICK mismatch \in BOOLEAN :
          Goto(t, [f EXCEPT !.pc = "next", !.malformed = f.malformed \/ mismatch,
                            !.entries = Append(f.entries, item(mismatch))])
    BY <1>23, Zenon DEF AsicECopies
  <2>2. item(mismatch) \in Entry
    <3>1. (f.ok /\ f.valid /\ ~mismatch) \in BOOLEAN
            /\ (f.ok => StillOwned(t)) \in BOOLEAN
      BY Zenon
    <3> QED
      BY <3>1, Zenon DEF Entry
  <2> HIDE DEF item
  <2>3. Append(f.entries, item(mismatch)) \in Seq(Entry)
    BY <2>2, <1>f
  <2>4. (f.malformed \/ mismatch) \in BOOLEAN
    BY Zenon
  <2> DEFINE x == [f EXCEPT !.pc = "next", !.malformed = f.malformed \/ mismatch,
                            !.entries = Append(f.entries, item(mismatch))]
  <2>5. x \in Frame
    BY <1>f, <2>3, <2>4, ZenonT(60) DEF Frame, FrameRecord, PCs, Entry
  <2> QED
    BY <1>23, <2>1, <2>5, <1>g, <1>u, Zenon DEF AsicECopies
<1>24. CASE AsicELoopEnds(t)
  <2>1. [f EXCEPT !.pc = "close", !.ok = TRUE] \in Frame
    BY <1>f, Zenon DEF Frame, FrameRecord, PCs
  <2> QED
    BY <1>24, <2>1, <1>g, <1>u, Zenon DEF AsicELoopEnds
<1>25. CASE AsicEMalformed(t)
  <2> DEFINE r == Outcome("VerifyFileAsicE", TRUE, FALSE, f.call)
  <2>1. r \in Report
    BY <1>c, <1>f, OutcomeType, Zenon
  <2>2. report' \in Report /\ metadata' \in Calls /\ userReport' \in UserReports
    <3>1. /\ report' = [r EXCEPT !.malformed = TRUE] /\ userReport' = View(r, 0)
          /\ metadata' = 0
      BY <1>25, Zenon DEF AsicEMalformed
    <3> HIDE DEF r
    <3> QED
      BY <3>1, <2>1, <1>c, Zenon DEF Report, View
  <2>3. Written
    BY <1>25, <2>2, MarkType, Zenon DEF AsicEMalformed
  <2>4. lastError' \in Errors
    BY <1>25, <1>c, <1>f, SetErrorType, Zenon DEF AsicEMalformed
  <2>5. [f EXCEPT !.pc = "facts", !.mine = TRUE] \in Frame
    BY <1>f, Zenon DEF Frame, FrameRecord, PCs
  <2>6. frame' \in [Threads -> Frame]
    BY <1>25, <2>5, <1>g, Zenon DEF AsicEMalformed
  <2> QED
    BY <1>25, <2>3, <2>4, <2>6, <1>w, Zenon DEF AsicEMalformed
<1>26. CASE AsicERenames(t)
  <2>1. frame' \in [Threads -> Frame]
    BY <1>26, <1>p, <1>g, Zenon DEF AsicERenames, PCs
  <2>2. CASE report.has_result /\ StillOwned(t)
    <3>0. [report EXCEPT !.operation = "VerifyFileAsicE", !.named = f.call] \in Report
      BY <1>f, <1>c, RenameReportType, Zenon DEF TypeOK
    <3>1. report' \in Report
      BY <1>26, <2>2, <3>0, Zenon DEF AsicERenames
    <3> QED
      BY <1>26, <2>1, <2>2, <3>1, <1>a, Zenon DEF AsicERenames
  <2>3. CASE ~(report.has_result /\ StillOwned(t))
    BY <1>26, <2>1, <2>3, <1>n, Zenon DEF AsicERenames
  <2> QED
    BY <2>2, <2>3, Zenon
<1>27. CASE AsicEFacts(t)
  <2>1. frame' \in [Threads -> Frame]
    BY <1>27, <1>p, <1>i, <1>g, Zenon DEF AsicEFacts, PCs
  <2>2. CASE StillOwned(t)
    <3>1. report' \in Report
      BY <1>27, <2>2, <1>f, ZenonT(60) DEF AsicEFacts, TypeOK, Report, Entry
    <3> QED
      BY <1>27, <2>1, <2>2, <3>1, <1>a, Zenon DEF AsicEFacts
  <2>3. CASE ~StillOwned(t)
    BY <1>27, <2>1, <2>3, <1>n, Zenon DEF AsicEFacts
  <2> QED
    BY <2>2, <2>3, Zenon
<1>28. CASE AsicSCoverage(t)
  <2>1. frame' \in [Threads -> Frame]
    BY <1>28, <1>p, <1>i, <1>g, Zenon DEF AsicSCoverage, PCs
  <2>2. CASE StillOwned(t)
    <3>1. report' \in Report
      BY <1>28, <2>2, <1>f, ZenonT(60) DEF AsicSCoverage, TypeOK, Report, Entry
    <3> QED
      BY <1>28, <2>1, <2>2, <3>1, <1>a, Zenon DEF AsicSCoverage
  <2>3. CASE ~StillOwned(t)
    BY <1>28, <2>1, <2>3, <1>n, Zenon DEF AsicSCoverage
  <2> QED
    BY <2>2, <2>3, Zenon
<1>29. CASE AsicStamp(t)
  <2>1. frame' \in [Threads -> Frame]
    BY <1>29, <1>p, <1>i, <1>g, Zenon DEF AsicStamp, PCs
  <2>2. CASE StillOwned(t)
    <3>1. report' \in Report
      BY <1>29, <2>2, <1>f, ZenonT(60) DEF AsicStamp, TypeOK, Report, Entry
    <3> QED
      BY <1>29, <2>1, <2>2, <3>1, <1>a, Zenon DEF AsicStamp
  <2>3. CASE ~StillOwned(t)
    BY <1>29, <2>1, <2>3, <1>n, Zenon DEF AsicStamp
  <2> QED
    BY <2>2, <2>3, Zenon
<1> QED
  BY <1>1, <1>2, <1>3, <1>4, <1>5, <1>6, <1>7, <1>8, <1>9, <1>10, <1>11, <1>12, <1>13, <1>14, <1>15, <1>16, <1>17, <1>18, <1>19, <1>20, <1>21, <1>22, <1>23, <1>24, <1>25, <1>26, <1>27, <1>28, <1>29, Zenon DEF Step

\* No call, Initialize, Finalize or commit on another session leaves the types.
LEMMA CallType ==
    ASSUME TypeOK, NEW t \in Threads, Call(t)
    PROVE  TypeOK'
<1>1. ASSUME NEW e \in Entries, Start(t, e) PROVE TypeOK'
  <2>1. e \in Verifying /\ Len(made) \in Nat /\ Len(made) < MaxCalls
    BY <1>1, SessionAssumption DEF Start, TypeOK
  <2>2. made' \in Seq(Verifying) /\ Len(made') = Len(made) + 1
    BY <1>1, <2>1 DEF Start, TypeOK
  <2>3. Len(made) + 1 \in Calls
    BY <2>1, SessionAssumption DEF Calls
  <2>4. /\ e \in Names /\ Renames(e) \in Seq(Names) /\ FirstSection(e) \in PCs
        /\ FirstSection(e) # "rename" /\ Idle(FALSE) \in Frame
    BY <2>1, NamesType, IdleType, Zenon DEF FirstSection
  <2>5. [Idle(FALSE) EXCEPT !.pc = FirstSection(e), !.entry = e,
                            !.call = Len(made) + 1, !.todo = Renames(e)] \in Frame
    BY <2>3, <2>4, Zenon DEF Frame, FrameRecord
  <2>6. frame' \in [Threads -> Frame]
    BY <1>1, <2>5, GotoType, Zenon DEF Start, TypeOK
  <2>7. Len(made') <= MaxCalls
    BY <2>1, <2>2, SessionAssumption
  <2> QED
    BY <1>1, <2>2, <2>6, <2>7, Zenon DEF Start, TypeOK, session, ownership
<1>2. ASSUME Initialize(t) \/ Finalize(t) PROVE TypeOK'
  <2>1. report' \in Report /\ metadata' \in Calls
    <3>1. 0 \in Calls /\ "" \in Names
      BY SessionAssumption DEF Calls, Names
    <3>2. Cleared \in Report
      BY <3>1, OutcomeType, Zenon
    <3> QED
      BY <1>2, <3>1, <3>2, Zenon DEF Initialize, Finalize, ClearVerifyReport
  <2>2. userReport' \in [report : Report, metadata : Calls]
    BY <1>2, <2>1, RefreshType, Zenon DEF Initialize, Finalize, ClearVerifyReport
  <2>3. lastError' \in [code : Codes, by : Calls]
    BY <1>2, SessionAssumption DEF Initialize, Finalize, ClearError, Codes, Calls
  <2> QED
    BY <1>2, <2>1, <2>2, <2>3, Zenon DEF Initialize, Finalize, TypeOK, ownership
<1>3. ASSUME CommitElsewhere(t) PROVE TypeOK'
  BY <1>3 DEF CommitElsewhere, TypeOK, session
<1> QED
  BY <1>1, <1>2, <1>3, Zenon DEF Call

\* Initially every variable has its type.
LEMMA InitType == Init => TypeOK
<1> SUFFICES ASSUME Init PROVE TypeOK
  BY Zenon
<1>1. 0 \in Calls /\ "" \in Names
  BY SessionAssumption DEF Calls, Names
<1>2. Cleared \in Report
  BY <1>1, OutcomeType, Zenon
<1>3. userReport \in [report : Report, metadata : Calls]
  BY <1>1, <1>2, Zenon DEF Init, View
<1>4. frame \in [Threads -> Frame]
  BY IdleType, Zenon DEF Init
<1>5. lastError \in [code : Codes, by : Calls]
  BY <1>1, Zenon DEF Init, Codes
<1>6. made \in Seq(Verifying) /\ Len(made) <= MaxCalls
  BY SessionAssumption DEF Init
<1> QED
  BY <1>1, <1>2, <1>3, <1>4, <1>5, <1>6, Zenon DEF Init, TypeOK

\* Types are preserved by every step.
LEMMA NextType == TypeOK /\ [Next]_vars => TypeOK'
<1> SUFFICES ASSUME TypeOK, [Next]_vars PROVE TypeOK'
  BY Zenon
<1>1. CASE Next
  BY <1>1, StepType, CallType, Zenon DEF Next
<1>2. CASE UNCHANGED vars
  BY <1>2, Zenon DEF TypeOK, vars
<1> QED
  BY <1>1, <1>2, Zenon

\* Type correctness of the session for every set of threads and every bound.
THEOREM TypeCorrect == Spec => []TypeOK
BY InitType, NextType, PTL DEF Spec

-----------------------------------------------------------------------------
(***************************************************************************)
(* The report of a session is always the work of one call, for any number  *)
(* of threads and calls, when the *Str entry points are not used.          *)
(*                                                                         *)
(* The inductive invariant says why the epoch test is enough: a thread     *)
(* reaches a section that amends the report only after a commit made by    *)
(* the same call, and as long as the session's epoch is the one of that    *)
(* commit, the report is the one it committed, or a cleared one.           *)
(***************************************************************************)

\* Where a call amends a report that it believes to be its own.
AmendPCs == {"rename", "coverage", "stamp", "copy", "facts"}

\* A call has committed before it amends; a container's loop may come to its
\* end without a commit only because of a structural defect.
CommittedFirst(f) ==
    /\ f.pc \in AmendPCs => f.mine
    /\ f.pc = "close" => f.mine \/ f.malformed
    /\ f.pc = "next" => f.mine \/ f.malformed \/ f.left > 0
    /\ f.entry \notin StrEntries

\* If the epochs still agree, the report is the call's own, or cleared.
OwnsReport(t) ==
    frame[t].mine /\ epoch = lastCommit[t] => report.core \in {0, frame[t].call}

\* No epoch is ahead of the global counter.
EpochsBounded ==
    /\ epoch <= globalEpoch
    /\ \A t \in Threads : lastCommit[t] <= globalEpoch

Inv ==
    /\ TypeOK
    /\ EpochsBounded
    /\ \A t \in Threads : CommittedFirst(frame[t]) /\ OwnsReport(t)
    /\ ReportOfOneCall

\* What a report whose parts all come from call c (or from nobody) satisfies.
Of(r, c) == r.core = c /\ {r.named, r.coverage, r.stamp} \subseteq {0, c}

\* The frame x that a section of the call in frame f ends with.
Moves(f, x) == CommittedFirst(x) /\ (x.mine \/ x.pc # "idle" => x.call = f.call)

Moving(t, x) ==
    /\ frame[t].pc # "idle"
    /\ Moves(frame[t], x)
    /\ Goto(t, x)
    /\ made' = made

\* The three kinds of section: it commits a report of its own, it leaves the
\* report alone, or it amends the report it still owns.
CommitStep(t, x) ==
    /\ Moving(t, x)
    /\ MarkCommitted(t)
    /\ report'.has_result
    /\ Of(report', frame[t].call)

LocalStep(t, x) ==
    /\ Moving(t, x)
    /\ x.mine => frame[t].mine
    /\ UNCHANGED <<report, ownership>>

AmendStep(t, x) ==
    /\ Moving(t, x)
    /\ frame[t].mine
    /\ StillOwned(t)
    /\ UNCHANGED ownership
    /\ report'.has_result = report.has_result
    /\ report'.core = report.core
    /\ report'.named \in {report.named, frame[t].call}
    /\ report'.coverage \in {report.coverage, frame[t].call}
    /\ report'.stamp \in {report.stamp, frame[t].call}

Kinds(t) == \E x : CommitStep(t, x) \/ LocalStep(t, x) \/ AmendStep(t, x)

\* A commit keeps the invariant: the new epoch is nobody else's.
LEMMA CommitKeeps ==
    ASSUME Inv, TypeOK', NEW t \in Threads, NEW x, Goto(t, x), MarkCommitted(t),
           Of(report', frame[t].call),
           CommittedFirst(x), x.mine => x.call = frame[t].call
    PROVE  Inv'
<1>1. /\ globalEpoch \in Nat /\ epoch \in Nat
      /\ \A u \in Threads : lastCommit[u] \in Nat /\ lastCommit[u] <= globalEpoch
      /\ lastCommit \in [Threads -> Nat] /\ frame \in [Threads -> Frame]
  BY Zenon DEF Inv, TypeOK, EpochsBounded
<1>2. /\ epoch' = globalEpoch + 1 /\ globalEpoch' = globalEpoch + 1
      /\ lastCommit'[t] = globalEpoch + 1
      /\ \A u \in Threads \ {t} : lastCommit'[u] = lastCommit[u]
      /\ frame'[t] = x /\ \A u \in Threads \ {t} : frame'[u] = frame[u]
  BY <1>1, Zenon DEF MarkCommitted, Goto
<1>3. EpochsBounded'
  BY <1>1, <1>2 DEF EpochsBounded
<1>4. ASSUME NEW u \in Threads PROVE CommittedFirst(frame[u])' /\ OwnsReport(u)'
  <2>1. CASE u = t
    BY <1>2, <2>1, Zenon DEF OwnsReport, Of, CommittedFirst
  <2>2. CASE u # t
    <3>1. lastCommit'[u] # epoch'
      BY <1>1, <1>2, <2>2
    <3> QED
      BY <1>2, <2>2, <3>1, Zenon DEF OwnsReport, Inv, CommittedFirst
  <2> QED
    BY <2>1, <2>2, Zenon
<1>5. ReportOfOneCall'
  BY Zenon DEF ReportOfOneCall, Authors, Of
<1> QED
  BY <1>3, <1>4, <1>5, Zenon DEF Inv

\* A step that leaves the report and the epochs alone keeps the invariant.
LEMMA LocalKeeps ==
    ASSUME Inv, TypeOK', NEW t \in Threads, NEW x, Goto(t, x),
           UNCHANGED <<report, ownership>>,
           CommittedFirst(x), x.mine => frame[t].mine /\ x.call = frame[t].call
    PROVE  Inv'
<1>1. frame \in [Threads -> Frame]
  BY Zenon DEF Inv, TypeOK
<1>2. frame'[t] = x /\ \A u \in Threads \ {t} : frame'[u] = frame[u]
  BY <1>1, Zenon DEF Goto
<1>3. ASSUME NEW u \in Threads PROVE CommittedFirst(frame[u])' /\ OwnsReport(u)'
  BY <1>2, Zenon DEF Inv, OwnsReport, CommittedFirst, ownership
<1> QED
  BY <1>3, Zenon DEF Inv, EpochsBounded, ReportOfOneCall, Authors, ownership

\* An amendment by the owner keeps the invariant.
LEMMA AmendKeeps ==
    ASSUME Inv, TypeOK', NEW t \in Threads, NEW x, Goto(t, x),
           frame[t].mine, StillOwned(t), UNCHANGED ownership,
           report'.core = report.core,
           report'.named \in {report.named, frame[t].call},
           report'.coverage \in {report.coverage, frame[t].call},
           report'.stamp \in {report.stamp, frame[t].call},
           CommittedFirst(x), x.mine => x.call = frame[t].call
    PROVE  Inv'
<1>1. frame \in [Threads -> Frame] /\ report.core \in {0, frame[t].call}
  BY Zenon DEF Inv, TypeOK, OwnsReport, StillOwned
<1>2. frame'[t] = x /\ \A u \in Threads \ {t} : frame'[u] = frame[u]
  BY <1>1, Zenon DEF Goto
<1>3. ASSUME NEW u \in Threads PROVE CommittedFirst(frame[u])' /\ OwnsReport(u)'
  BY <1>2, Zenon DEF Inv, OwnsReport, CommittedFirst, ownership
<1>4. ReportOfOneCall'
  BY <1>1, Zenon DEF Inv, ReportOfOneCall, Authors
<1> QED
  BY <1>3, <1>4, Zenon DEF Inv, EpochsBounded, ownership

\* The frame of an idle thread amends nothing.
LEMMA IdleFirst ==
    ASSUME NEW ok
    PROVE  CommittedFirst(Idle(ok)) /\ Idle(ok).mine = FALSE /\ Idle(ok).pc = "idle"
BY Zenon DEF CommittedFirst, Idle, AmendPCs, StrEntries

\* A core operation has committed when it returns.
LEMMA ResumeFirst ==
    ASSUME NEW f \in Frame, NEW ok \in BOOLEAN, NEW valid \in BOOLEAN,
           f.entry \notin StrEntries
    PROVE  Moves(f, Resume(f, ok, valid))
<1> DEFINE g == [f EXCEPT !.ok = ok, !.valid = valid, !.mine = TRUE]
<1>1. g \in FrameRecord /\ g.mine = TRUE /\ g.call = f.call /\ g.entry = f.entry
  BY Zenon DEF Frame, FrameRecord
<1>2. Resume(f, ok, valid)
        \in {[g EXCEPT !.pc = "rename"], [g EXCEPT !.pc = "copy"], Idle(ok)}
  BY Zenon DEF Resume
<1> HIDE DEF g
<1>3. ASSUME NEW pc \in {"rename", "copy"}
      PROVE  CommittedFirst([g EXCEPT !.pc = pc]) /\ [g EXCEPT !.pc = pc].call = f.call
  BY <1>1, Zenon DEF CommittedFirst, FrameRecord, AmendPCs
<1> QED
  BY <1>2, <1>3, IdleFirst, Zenon DEF Moves

\* Every part of a committed outcome comes from its call.
LEMMA OutcomeOf ==
    ASSUME NEW op, NEW executed, NEW valid, NEW c
    PROVE  /\ Of(Outcome(op, executed, valid, c), c)
           /\ Outcome(op, executed, valid, c).has_result
BY Zenon DEF Of, Outcome, Cleared

\* The same after SetVerifyReport.
LEMMA SetVerifyReportOf ==
    ASSUME NEW t \in Threads, NEW op, NEW executed, NEW valid,
           SetVerifyReport(t, op, executed, valid)
    PROVE  MarkCommitted(t) /\ Of(report', frame[t].call) /\ report'.has_result
BY OutcomeOf, Zenon DEF SetVerifyReport

\* A rename is followed by another rename, by the coverage, or by nothing.
LEMMA RenamedFirst ==
    ASSUME NEW f \in Frame, f.mine, f.pc = "rename", f.entry \notin StrEntries
    PROVE  Moves(f, Renamed(f))
<1> DEFINE g == [f EXCEPT !.todo = Tail(f.todo)]
<1> DEFINE h == [f EXCEPT !.todo = << >>, !.pc = "coverage"]
<1>1. Renamed(f) \in {g, h, Idle(f.ok)}
  BY Zenon DEF Renamed
<1>2. CommittedFirst(g) /\ g.call = f.call
  BY Zenon DEF CommittedFirst, Frame, FrameRecord, AmendPCs
<1>3. CommittedFirst(h) /\ h.call = f.call
  BY Zenon DEF CommittedFirst, Frame, FrameRecord, AmendPCs
<1> QED
  BY <1>1, <1>2, <1>3, IdleFirst, Zenon DEF Moves

\* Every section of a call in progress is of one of the three kinds.
LEMMA StepKinds ==
    ASSUME Inv, NEW t \in Threads, Step(t)
    PROVE  Kinds(t)
<1> DEFINE f == frame[t]
<1>a. f.pc # "idle" /\ made' = made
  BY Zenon DEF Step, At, RecordVerifyFailure, InputFails, Enter, CryptoFails, Commit, Rename,
     ForceName, FormatEnter, FormatFails, FormatCommit, XadesEnter, XadesFails,
     XadesMalformed, XadesEmpty, XadesCommit, AsicEnter, AsicUnpackFails, AsicIsXades,
     AsicEEmpty, AsicUnpacked, AsicESkips, AsicEVerifies, AsicECopies, AsicELoopEnds,
     AsicEMalformed, AsicERenames, AsicEFacts, AsicSCoverage, AsicStamp
<1>f. /\ f \in Frame /\ f \in FrameRecord /\ CommittedFirst(f)
      /\ f.entry \notin StrEntries /\ f.ok \in BOOLEAN
  BY Zenon DEF Inv, TypeOK, Frame, FrameRecord, CommittedFirst
<1>i. \A ok : Moves(f, Idle(ok)) /\ Idle(ok).mine = FALSE
  BY IdleFirst, Zenon DEF Moves
<1>r. \A ok, valid \in BOOLEAN : Moves(f, Resume(f, ok, valid))
  BY <1>f, ResumeFirst, Zenon
<1>k. ASSUME NEW x, Goto(t, x), Moves(f, x), MarkCommitted(t),
             Of(report', f.call) /\ report'.has_result
      PROVE  Kinds(t)
  BY <1>a, <1>k, Zenon DEF Kinds, CommitStep, Moving
<1>l. ASSUME NEW x, Goto(t, x), Moves(f, x), x.mine => f.mine,
             UNCHANGED <<report, ownership>>
      PROVE  Kinds(t)
  BY <1>a, <1>l, Zenon DEF Kinds, LocalStep, Moving
<1>m. ASSUME NEW x, Goto(t, x), Moves(f, x), f.mine, StillOwned(t), UNCHANGED ownership,
             report'.core = report.core /\ report'.has_result = report.has_result,
             report'.named \in {report.named, f.call},
             report'.coverage \in {report.coverage, f.call},
             report'.stamp \in {report.stamp, f.call}
      PROVE  Kinds(t)
  BY <1>a, <1>m, Zenon DEF Kinds, AmendStep, Moving
<1>1. CASE RecordVerifyFailure(t)
  <2>1. MarkCommitted(t) /\ Of(report', f.call) /\ report'.has_result
    BY <1>1, SetVerifyReportOf, Zenon DEF RecordVerifyFailure
  <2> QED
    BY <1>1, <2>1, <1>i, <1>r, <1>k, Zenon DEF RecordVerifyFailure
<1>2. CASE InputFails(t)
  <2>1. PICK j \in DOMAIN f.todo :
          LET outer == SubSeq(f.todo, j + 1, Len(f.todo))
          IN  /\ SetVerifyReport(t, f.todo[j], FALSE, FALSE)
              /\ Goto(t, Resume([f EXCEPT !.todo = outer], FALSE, FALSE))
    BY <1>2, Zenon DEF InputFails
  <2> DEFINE y == [f EXCEPT !.todo = SubSeq(f.todo, j + 1, Len(f.todo))]
  <2>2. SubSeq(f.todo, j + 1, Len(f.todo)) \in Seq(Names)
    <3>1. f.todo \in Seq(Names)
      BY <1>f, Zenon DEF FrameRecord
    <3> QED
      BY <3>1
  <2>3. y \in Frame /\ y.call = f.call /\ y.entry = f.entry
    BY <1>2, <1>f, <2>2, Zenon DEF Frame, FrameRecord, InputFails, At
  <2>4. Goto(t, Resume(y, FALSE, FALSE))
    BY <2>1, Zenon
  <2> HIDE DEF y
  <2>5. Moves(f, Resume(y, FALSE, FALSE))
    BY <2>3, <1>f, ResumeFirst, Zenon DEF Moves
  <2>6. MarkCommitted(t) /\ Of(report', f.call) /\ report'.has_result
    BY <2>1, SetVerifyReportOf, Zenon
  <2> QED
    BY <2>4, <2>5, <2>6, <1>k, Zenon
<1>3. CASE Enter(t)
  <2>1. CASE initialized
    <3>1. Goto(t, [f EXCEPT !.pc = "crypto"]) /\ UNCHANGED <<report, ownership>>
      BY <1>3, <2>1, Zenon DEF Enter, session
    <3>2. /\ Moves(f, [f EXCEPT !.pc = "crypto"])
          /\ [f EXCEPT !.pc = "crypto"].mine = f.mine
      BY <1>f, Zenon DEF Moves, CommittedFirst, FrameRecord, AmendPCs
    <3> QED
      BY <3>1, <3>2, <1>l, Zenon
  <2>2. CASE ~initialized
    <3>1. MarkCommitted(t) /\ Of(report', f.call) /\ report'.has_result
      BY <1>3, <2>2, SetVerifyReportOf, Zenon DEF Enter
    <3> QED
      BY <1>3, <2>2, <3>1, <1>i, <1>r, <1>k, Zenon DEF Enter
  <2> QED
    BY <2>1, <2>2, Zenon
<1>4. CASE CryptoFails(t)
  <2>1. MarkCommitted(t) /\ Of(report', f.call) /\ report'.has_result
    BY <1>4, SetVerifyReportOf, Zenon DEF CryptoFails
  <2> QED
    BY <1>4, <2>1, <1>i, <1>r, <1>k, Zenon DEF CryptoFails
<1>5. CASE Commit(t)
  <2>1. Of(report', f.call) /\ report'.has_result
    BY <1>5, OutcomeOf, Zenon DEF Commit
  <2> QED
    BY <1>5, <2>1, <1>i, <1>r, <1>k, Zenon DEF Commit
<1>6. CASE Rename(t)
  <2>1. f.mine
    BY <1>6, <1>f, Zenon DEF Rename, At, CommittedFirst, AmendPCs
  <2>2. Moves(f, Renamed(f))
    BY <1>6, <2>1, <1>f, <1>i, RenamedFirst, Zenon DEF Rename, At
  <2>3. CASE report.has_result /\ StillOwned(t)
    <3>1. report' = [report EXCEPT !.operation = Head(f.todo), !.named = f.call]
      BY <1>6, <2>3, Zenon DEF Rename
    <3>2. /\ report'.core = report.core /\ report'.has_result = report.has_result /\ report'.named = f.call
          /\ report'.coverage = report.coverage /\ report'.stamp = report.stamp
      BY <3>1, Zenon DEF Inv, TypeOK, Report
    <3> QED
      BY <1>6, <2>1, <2>2, <2>3, <3>2, <1>m, Zenon DEF Rename
  <2>4. CASE ~(report.has_result /\ StillOwned(t))
    BY <1>6, <2>1, <2>2, <2>4, <1>l, Zenon DEF Rename
  <2> QED
    BY <2>3, <2>4, Zenon
<1>7. CASE ForceName(t)
  BY <1>7, <1>f, Zenon DEF ForceName, ForcesName
<1>8. CASE FormatEnter(t)
  <2>1. CASE initialized
    <3>1. Goto(t, [f EXCEPT !.pc = "parse"]) /\ UNCHANGED <<report, ownership>>
      BY <1>8, <2>1, Zenon DEF FormatEnter, session
    <3>2. /\ Moves(f, [f EXCEPT !.pc = "parse"])
          /\ [f EXCEPT !.pc = "parse"].mine = f.mine
      BY <1>f, Zenon DEF Moves, CommittedFirst, FrameRecord, AmendPCs
    <3> QED
      BY <3>1, <3>2, <1>l, Zenon
  <2>2. CASE ~initialized
    BY <1>8, <2>2, <1>i, <1>l, Zenon DEF FormatEnter
  <2> QED
    BY <2>1, <2>2, Zenon
<1>9. CASE FormatFails(t)
  BY <1>9, <1>i, <1>l, Zenon DEF FormatFails
<1>10. CASE FormatCommit(t)
  <2>1. Of(report', f.call) /\ report'.has_result
    <3>1. PICK valid \in BOOLEAN :
            report' = [Outcome(f.entry, TRUE, valid, f.call) EXCEPT !.coverage = Declares(f)]
      BY <1>10, Zenon DEF FormatCommit
    <3> QED
      BY <3>1, Zenon DEF Of, Outcome, Cleared, Declares
  <2> QED
    BY <1>10, <2>1, <1>i, <1>r, <1>k, Zenon DEF FormatCommit
<1>11. CASE XadesEnter(t)
  <2>1. CASE initialized
    <3>1. Goto(t, [f EXCEPT !.pc = "load"]) /\ UNCHANGED <<report, ownership>>
      BY <1>11, <2>1, Zenon DEF XadesEnter, session
    <3>2. /\ Moves(f, [f EXCEPT !.pc = "load"])
          /\ [f EXCEPT !.pc = "load"].mine = f.mine
      BY <1>f, Zenon DEF Moves, CommittedFirst, FrameRecord, AmendPCs
    <3> QED
      BY <3>1, <3>2, <1>l, Zenon
  <2>2. CASE ~initialized
    <3>1. MarkCommitted(t) /\ Of(report', f.call) /\ report'.has_result
      BY <1>11, <2>2, SetVerifyReportOf, Zenon DEF XadesEnter
    <3> QED
      BY <1>11, <2>2, <3>1, <1>i, <1>r, <1>k, Zenon DEF XadesEnter
  <2> QED
    BY <2>1, <2>2, Zenon
<1>12. CASE XadesFails(t)
  <2>1. MarkCommitted(t) /\ Of(report', f.call) /\ report'.has_result
    BY <1>12, SetVerifyReportOf, Zenon DEF XadesFails
  <2> QED
    BY <1>12, <2>1, <1>i, <1>r, <1>k, Zenon DEF XadesFails
<1>13. CASE XadesMalformed(t)
  <2>1. Of(report', f.call) /\ report'.has_result
    BY <1>13, Zenon DEF XadesMalformed, Of, Outcome, Cleared
  <2> QED
    BY <1>13, <2>1, <1>i, <1>r, <1>k, Zenon DEF XadesMalformed
<1>14. CASE XadesEmpty(t)
  <2>1. MarkCommitted(t) /\ Of(report', f.call) /\ report'.has_result
    BY <1>14, SetVerifyReportOf, Zenon DEF XadesEmpty
  <2> QED
    BY <1>14, <2>1, <1>i, <1>r, <1>k, Zenon DEF XadesEmpty
<1>15. CASE XadesCommit(t)
  <2>1. Of(report', f.call) /\ report'.has_result
    <3>1. PICK listed, all :
            report' = [Outcome("VerifyFileAsicEXades", TRUE, all, f.call)
                          EXCEPT !.coverage = f.call, !.entries = listed]
      BY <1>15, Zenon DEF XadesCommit
    <3> QED
      BY <3>1, Zenon DEF Of, Outcome, Cleared
  <2> QED
    BY <1>15, <2>1, <1>i, <1>r, <1>k, Zenon DEF XadesCommit
<1>16. CASE AsicEnter(t)
  <2>1. CASE initialized
    <3>1. Goto(t, [f EXCEPT !.pc = "unpack"]) /\ UNCHANGED <<report, ownership>>
      BY <1>16, <2>1, Zenon DEF AsicEnter, session
    <3>2. /\ Moves(f, [f EXCEPT !.pc = "unpack"])
          /\ [f EXCEPT !.pc = "unpack"].mine = f.mine
      BY <1>f, Zenon DEF Moves, CommittedFirst, FrameRecord, AmendPCs
    <3> QED
      BY <3>1, <3>2, <1>l, Zenon
  <2>2. CASE ~initialized
    <3>1. MarkCommitted(t) /\ Of(report', f.call) /\ report'.has_result
      BY <1>16, <2>2, SetVerifyReportOf, Zenon DEF AsicEnter
    <3> QED
      BY <1>16, <2>2, <3>1, <1>i, <1>r, <1>k, Zenon DEF AsicEnter
  <2> QED
    BY <2>1, <2>2, Zenon
<1>17. CASE AsicUnpackFails(t)
  <2>1. MarkCommitted(t) /\ Of(report', f.call) /\ report'.has_result
    BY <1>17, SetVerifyReportOf, Zenon DEF AsicUnpackFails
  <2> QED
    BY <1>17, <2>1, <1>i, <1>r, <1>k, Zenon DEF AsicUnpackFails
<1>18. CASE AsicIsXades(t)
  <2> DEFINE x == [f EXCEPT !.todo = << >>, !.pc = "xades"]
  <2>1. Goto(t, x) /\ UNCHANGED <<report, ownership>>
    BY <1>18, Zenon DEF AsicIsXades, session
  <2>2. Moves(f, x) /\ x.mine = f.mine
    BY <1>18, <1>f, Zenon DEF AsicIsXades, At, Moves, CommittedFirst, Frame, FrameRecord, AmendPCs
  <2> QED
    BY <2>1, <2>2, <1>l, Zenon
<1>19. CASE AsicEEmpty(t)
  <2>1. MarkCommitted(t) /\ Of(report', f.call) /\ report'.has_result
    BY <1>19, SetVerifyReportOf, Zenon DEF AsicEEmpty
  <2> QED
    BY <1>19, <2>1, <1>i, <1>r, <1>k, Zenon DEF AsicEEmpty
<1>20. CASE AsicUnpacked(t)
  <2>1. CASE Goto(t, [f EXCEPT !.pc = "enter"])
    <3> DEFINE x == [f EXCEPT !.pc = "enter"]
    <3>1. Moves(f, x) /\ x.mine = f.mine
      BY <1>f, Zenon DEF Moves, CommittedFirst, FrameRecord, AmendPCs
    <3> QED
      BY <1>20, <2>1, <3>1, <1>l, Zenon DEF AsicUnpacked, session
  <2>2. ASSUME NEW m \in 1 .. MaxSigs, Goto(t, [f EXCEPT !.pc = "next", !.left = m])
        PROVE  Kinds(t)
    <3> DEFINE x == [f EXCEPT !.pc = "next", !.left = m]
    <3>1. m > 0
      BY SessionAssumption
    <3>2. Moves(f, x) /\ x.mine = f.mine
      BY <1>f, <3>1, Zenon DEF Moves, CommittedFirst, FrameRecord, AmendPCs
    <3> QED
      BY <1>20, <2>2, <3>2, <1>l, Zenon DEF AsicUnpacked, session
  <2> QED
    BY <1>20, <2>1, <2>2, Zenon DEF AsicUnpacked
<1>21. CASE AsicESkips(t)
  <2> DEFINE x == [f EXCEPT !.left = f.left - 1, !.malformed = TRUE,
                            !.entries = Append(f.entries,
                                               [valid |-> FALSE, kept |-> TRUE])]
  <2>1. Goto(t, x) /\ UNCHANGED <<report, ownership>>
    BY <1>21, Zenon DEF AsicESkips, session
  <2>2. Moves(f, x) /\ x.mine = f.mine
    BY <1>21, <1>f, Zenon DEF AsicESkips, At, Moves, CommittedFirst, Frame, FrameRecord, AmendPCs
  <2> QED
    BY <2>1, <2>2, <1>l, Zenon
<1>22. CASE AsicEVerifies(t)
  <2> DEFINE x == [f EXCEPT !.left = f.left - 1, !.pc = "enter"]
  <2>1. Goto(t, x) /\ UNCHANGED <<report, ownership>>
    BY <1>22, Zenon DEF AsicEVerifies, session
  <2>2. Moves(f, x) /\ x.mine = f.mine
    BY <1>22, <1>f, Zenon DEF AsicEVerifies, At, Moves, CommittedFirst, Frame, FrameRecord, AmendPCs
  <2> QED
    BY <2>1, <2>2, <1>l, Zenon
<1>23. CASE AsicECopies(t)
  <2>1. PICK bad, listed :
          Goto(t, [f EXCEPT !.pc = "next", !.malformed = bad, !.entries = listed])
    BY <1>23, Zenon DEF AsicECopies
  <2> DEFINE x == [f EXCEPT !.pc = "next", !.malformed = bad, !.entries = listed]
  <2>2. f.mine
    BY <1>23, <1>f, Zenon DEF AsicECopies, At, CommittedFirst, AmendPCs
  <2>3. Moves(f, x) /\ x.mine = f.mine
    BY <2>2, <1>f, Zenon DEF Moves, CommittedFirst, FrameRecord, AmendPCs
  <2> QED
    BY <1>23, <2>1, <2>3, <1>l, Zenon DEF AsicECopies, session
<1>24. CASE AsicELoopEnds(t)
  <2> DEFINE x == [f EXCEPT !.pc = "close", !.ok = TRUE]
  <2>1. Goto(t, x) /\ UNCHANGED <<report, ownership>>
    BY <1>24, Zenon DEF AsicELoopEnds, session
  <2>2. Moves(f, x) /\ x.mine = f.mine
    BY <1>24, <1>f DEF AsicELoopEnds, At, Moves, CommittedFirst, Frame, FrameRecord, AmendPCs
  <2> QED
    BY <2>1, <2>2, <1>l, Zenon
<1>25. CASE AsicEMalformed(t)
  <2> DEFINE x == [f EXCEPT !.pc = "facts", !.mine = TRUE]
  <2>1. Moves(f, x)
    BY <1>f, Zenon DEF Moves, CommittedFirst, FrameRecord, AmendPCs
  <2>2. Of(report', f.call) /\ report'.has_result
    BY <1>25, Zenon DEF AsicEMalformed, Of, Outcome, Cleared
  <2> QED
    BY <1>25, <2>1, <2>2, <1>k, Zenon DEF AsicEMalformed
<1>26. CASE AsicERenames(t)
  <2> DEFINE x == [f EXCEPT !.pc = "facts"]
  <2>1. f.mine
    BY <1>26, <1>f, Zenon DEF AsicERenames, At, Moves, CommittedFirst, FrameRecord
  <2>2. Moves(f, x) /\ x.mine = f.mine
    BY <2>1, <1>f, Zenon DEF Moves, CommittedFirst, FrameRecord, AmendPCs
  <2>3. CASE report.has_result /\ StillOwned(t)
    <3>1. report' = [report EXCEPT !.operation = "VerifyFileAsicE", !.named = f.call]
      BY <1>26, <2>3, Zenon DEF AsicERenames
    <3>2. /\ report'.core = report.core /\ report'.has_result = report.has_result /\ report'.named = f.call
          /\ report'.coverage = report.coverage /\ report'.stamp = report.stamp
      BY <3>1, Zenon DEF Inv, TypeOK, Report
    <3> QED
      BY <1>26, <2>1, <2>2, <2>3, <3>2, <1>m, Zenon DEF AsicERenames
  <2>4. CASE ~(report.has_result /\ StillOwned(t))
    BY <1>26, <2>1, <2>2, <2>4, <1>l, Zenon DEF AsicERenames
  <2> QED
    BY <2>3, <2>4, Zenon
<1>27. CASE AsicEFacts(t)
  <2>1. f.mine
    BY <1>27, <1>f, Zenon DEF AsicEFacts, At, CommittedFirst, AmendPCs
  <2>2. PICK x : Goto(t, x) /\ x \in {[f EXCEPT !.pc = "stamp"], Idle(TRUE), Idle(f.ok)}
    BY <1>27, Zenon DEF AsicEFacts
  <2>3. Moves(f, x)
    <3>1. LET y == [f EXCEPT !.pc = "stamp"]
          IN  Moves(f, y)
      BY <2>1, <1>f, Zenon DEF Moves, CommittedFirst, FrameRecord, AmendPCs
    <3> QED
      BY <2>2, <3>1, <1>i, Zenon
  <2>4. CASE StillOwned(t)
    <3>1. report' = [report EXCEPT !.entries = f.entries, !.coverage = f.call]
      BY <1>27, <2>4, Zenon DEF AsicEFacts
    <3>2. /\ report'.core = report.core /\ report'.has_result = report.has_result /\ report'.named = report.named
          /\ report'.coverage = f.call /\ report'.stamp = report.stamp
      BY <3>1, Zenon DEF Inv, TypeOK, Report
    <3>3. UNCHANGED ownership
      BY <1>27, Zenon DEF AsicEFacts
    <3> QED
      BY <2>1, <2>2, <2>3, <2>4, <3>2, <3>3, <1>m, Zenon
  <2>5. CASE ~StillOwned(t)
    <3>1. UNCHANGED <<report, ownership>>
      BY <1>27, <2>5, Zenon DEF AsicEFacts
    <3> QED
      BY <2>1, <2>2, <2>3, <3>1, <1>l, Zenon
  <2> QED
    BY <2>4, <2>5, Zenon
<1>28. CASE AsicSCoverage(t)
  <2>1. f.mine
    BY <1>28, <1>f, Zenon DEF AsicSCoverage, At, CommittedFirst, AmendPCs
  <2>2. PICK x : Goto(t, x) /\ x \in {[f EXCEPT !.pc = "stamp"], Idle(TRUE), Idle(f.ok)}
    BY <1>28, Zenon DEF AsicSCoverage
  <2>3. Moves(f, x)
    <3>1. LET y == [f EXCEPT !.pc = "stamp"]
          IN  Moves(f, y)
      BY <2>1, <1>f, Zenon DEF Moves, CommittedFirst, FrameRecord, AmendPCs
    <3> QED
      BY <2>2, <3>1, <1>i, Zenon
  <2>4. CASE StillOwned(t)
    <3>1. report' = [report EXCEPT !.coverage = f.call]
      BY <1>28, <2>4, Zenon DEF AsicSCoverage
    <3>2. /\ report'.core = report.core /\ report'.has_result = report.has_result /\ report'.named = report.named
          /\ report'.coverage = f.call /\ report'.stamp = report.stamp
      BY <3>1, Zenon DEF Inv, TypeOK, Report
    <3>3. UNCHANGED ownership
      BY <1>28, Zenon DEF AsicSCoverage
    <3> QED
      BY <2>1, <2>2, <2>3, <2>4, <3>2, <3>3, <1>m, Zenon
  <2>5. CASE ~StillOwned(t)
    <3>1. UNCHANGED <<report, ownership>>
      BY <1>28, <2>5, Zenon DEF AsicSCoverage
    <3> QED
      BY <2>1, <2>2, <2>3, <3>1, <1>l, Zenon
  <2> QED
    BY <2>4, <2>5, Zenon
<1>29. CASE AsicStamp(t)
  <2>1. f.mine
    BY <1>29, <1>f, Zenon DEF AsicStamp, At, CommittedFirst, AmendPCs
  <2>2. PICK x : Goto(t, x) /\ x \in {[f EXCEPT !.pc = "stamp"], Idle(TRUE), Idle(f.ok)}
    BY <1>29, Zenon DEF AsicStamp
  <2>3. Moves(f, x)
    <3>1. LET y == [f EXCEPT !.pc = "stamp"]
          IN  Moves(f, y)
      BY <2>1, <1>f, Zenon DEF Moves, CommittedFirst, FrameRecord, AmendPCs
    <3> QED
      BY <2>2, <3>1, <1>i, Zenon
  <2>4. CASE StillOwned(t)
    <3>1. report' = [report EXCEPT !.stamp = f.call]
      BY <1>29, <2>4, Zenon DEF AsicStamp
    <3>2. /\ report'.core = report.core /\ report'.has_result = report.has_result /\ report'.named = report.named
          /\ report'.coverage = report.coverage /\ report'.stamp = f.call
      BY <3>1, Zenon DEF Inv, TypeOK, Report
    <3>3. UNCHANGED ownership
      BY <1>29, Zenon DEF AsicStamp
    <3> QED
      BY <2>1, <2>2, <2>3, <2>4, <3>2, <3>3, <1>m, Zenon
  <2>5. CASE ~StillOwned(t)
    <3>1. UNCHANGED <<report, ownership>>
      BY <1>29, <2>5, Zenon DEF AsicStamp
    <3> QED
      BY <2>1, <2>2, <2>3, <3>1, <1>l, Zenon
  <2> QED
    BY <2>4, <2>5, Zenon
<1> QED
  BY <1>1, <1>2, <1>3, <1>4, <1>5, <1>6, <1>7, <1>8, <1>9, <1>10, <1>11, <1>12, <1>13, <1>14,
     <1>15, <1>16, <1>17, <1>18, <1>19, <1>20, <1>21, <1>22, <1>23, <1>24, <1>25, <1>26, <1>27, <1>28, <1>29, Zenon
     DEF Step

\* A section of a call in progress keeps the invariant.
LEMMA StepKeeps ==
    ASSUME Inv, NEW t \in Threads, Step(t)
    PROVE  Inv'
<1>1. TypeOK'
  BY StepType, Zenon DEF Inv
<1>2. PICK x : CommitStep(t, x) \/ LocalStep(t, x) \/ AmendStep(t, x)
  BY StepKinds, Zenon DEF Kinds
<1>3. CASE CommitStep(t, x)
  BY <1>1, <1>3, CommitKeeps, Zenon DEF CommitStep, Moving, Moves
<1>4. CASE LocalStep(t, x)
  BY <1>1, <1>4, LocalKeeps, Zenon DEF LocalStep, Moving, Moves
<1>5. CASE AmendStep(t, x)
  BY <1>1, <1>5, AmendKeeps, Zenon DEF AmendStep, Moving, Moves
<1> QED
  BY <1>2, <1>3, <1>4, <1>5, Zenon

\* Neither does the start of a call, a clearing or a commit elsewhere break it,
\* as long as no *Str entry point is called.
LEMMA CallKeeps ==
    ASSUME Inv, NEW t \in Threads, Call(t), Entries \cap StrEntries = {}
    PROVE  Inv'
<1>t. TypeOK'
  BY CallType, Zenon DEF Inv
<1>1. ASSUME NEW e \in Entries, Start(t, e) PROVE Inv'
  <2> DEFINE x == [Idle(FALSE) EXCEPT !.pc = FirstSection(e), !.entry = e,
                                      !.call = Len(made) + 1, !.todo = Renames(e)]
  <2>1. FirstSection(e) \in {"enter", "asic", "xades", "format", "record"}
    BY Zenon DEF FirstSection
  <2>2. e \notin StrEntries
    BY Zenon
  <2>3. CommittedFirst(x) /\ x.mine = FALSE
    BY <2>1, <2>2, Zenon DEF CommittedFirst, Idle, AmendPCs
  <2> QED
    BY <1>1, <2>3, <1>t, LocalKeeps, Zenon DEF Start, session
<1>2. ASSUME Initialize(t) \/ Finalize(t) PROVE Inv'
  <2>1. report' = Cleared /\ UNCHANGED <<ownership, frame>>
    BY <1>2, Zenon DEF Initialize, Finalize, ClearVerifyReport
  <2>2. report'.core = 0
    BY <2>1, Zenon DEF Cleared
  <2>3. ASSUME NEW u \in Threads PROVE CommittedFirst(frame[u])' /\ OwnsReport(u)'
    BY <2>1, <2>2, Zenon DEF Inv, OwnsReport, CommittedFirst
  <2> QED
    BY <2>1, <2>2, <2>3, <1>t, Zenon DEF Inv, EpochsBounded, ReportOfOneCall, ownership
<1>3. ASSUME CommitElsewhere(t) PROVE Inv'
  <2>1. /\ globalEpoch' = globalEpoch + 1 /\ epoch' = epoch
        /\ lastCommit' = [lastCommit EXCEPT ![t] = globalEpoch + 1]
        /\ UNCHANGED <<report, frame>>
    BY <1>3, Zenon DEF CommitElsewhere, session
  <2>2. epoch # lastCommit'[t]
    BY <2>1 DEF Inv, TypeOK, EpochsBounded
  <2>3. EpochsBounded'
    BY <2>1 DEF Inv, TypeOK, EpochsBounded
  <2>4. ASSUME NEW u \in Threads PROVE CommittedFirst(frame[u])' /\ OwnsReport(u)'
    <3>1. CASE u = t
      BY <2>1, <2>2, <3>1, Zenon DEF Inv, OwnsReport, CommittedFirst
    <3>2. CASE u # t
      BY <2>1, <3>2, Zenon DEF Inv, TypeOK, OwnsReport, CommittedFirst
    <3> QED
      BY <3>1, <3>2, Zenon
  <2> QED
    BY <2>1, <2>3, <2>4, <1>t, Zenon DEF Inv, ReportOfOneCall, Authors
<1> QED
  BY <1>1, <1>2, <1>3, Zenon DEF Call

\* Initially nobody has committed anything.
LEMMA InitInv == Init => Inv
<1> SUFFICES ASSUME Init PROVE Inv
  BY Zenon
<1>1. TypeOK
  BY InitType, Zenon
<1>2. ASSUME NEW t \in Threads PROVE CommittedFirst(frame[t]) /\ OwnsReport(t)
  <2>1. frame[t] = Idle(TRUE)
    BY Zenon DEF Init
  <2> QED
    BY <2>1, IdleFirst, Zenon DEF OwnsReport
<1>3. ReportOfOneCall
  BY Zenon DEF Init, Cleared, ReportOfOneCall
<1>4. EpochsBounded
  BY DEF Init, EpochsBounded
<1> QED
  BY <1>1, <1>2, <1>3, <1>4, Zenon DEF Inv

\* Whatever the number of threads and calls and whatever their interleaving,
\* with Initialize and Finalize called at any time: the report holds the work of
\* one call only.  The hypothesis excludes the two entry points that rename
\* without asking who owns the report.
THEOREM ReportHasOneAuthor ==
    ASSUME Entries \cap StrEntries = {}
    PROVE  Spec => []ReportOfOneCall
<1>1. Inv /\ [Next]_vars => Inv'
  <2> SUFFICES ASSUME Inv, [Next]_vars PROVE Inv'
    BY Zenon
  <2>1. CASE Next
    BY <2>1, StepKeeps, CallKeeps, Zenon DEF Next
  <2>2. CASE UNCHANGED vars
    BY <2>2, Zenon DEF vars, Inv, TypeOK, EpochsBounded, OwnsReport, CommittedFirst,
       ReportOfOneCall, Authors
  <2> QED
    BY <2>1, <2>2, Zenon
<1>2. Inv => ReportOfOneCall
  BY Zenon DEF Inv
<1> QED
  BY InitInv, <1>1, <1>2, PTL DEF Spec

-----------------------------------------------------------------------------
(***************************************************************************)
(* The session implements the abstract report slot, for any number of      *)
(* threads and calls, when the *Str entry points are not used.             *)
(*                                                                         *)
(* The refinement needs more than the ownership of the report: calls that  *)
(* run at the same time are different calls, each already numbered, and a  *)
(* report has a result exactly when some call wrote its core.  Then the    *)
(* three kinds of section map as follows: a commit is a write, a section   *)
(* that leaves the report alone is invisible or the end of its call, and   *)
(* an amendment is a write when the report has a result and otherwise like *)
(* a section that leaves the report alone.                                 *)
(***************************************************************************)

IsRunning(t) == frame[t].pc # "idle"

CallsDistinct ==
    /\ \A t \in Threads : IsRunning(t) => frame[t].call \in 1 .. Len(made)
    /\ \A t, u \in Threads :
          t # u /\ IsRunning(t) /\ IsRunning(u) => frame[t].call # frame[u].call

ResultHasCore == report.has_result <=> report.core # 0

SlotInv == Inv /\ CallsDistinct /\ ResultHasCore

\* A section leaves its call running or takes it out of the running calls.
LEMMA RunningAfter ==
    ASSUME SlotInv, NEW t \in Threads, NEW x, Moving(t, x)
    PROVE  /\ frame[t].call \in Running
           /\ frame[t].call \in 1 .. MaxCalls
           /\ Running' \in {Running, Running \ {frame[t].call}}
<1>1. frame \in [Threads -> Frame] /\ made \in Seq(Verifying) /\ Len(made) <= MaxCalls
  BY Zenon DEF SlotInv, Inv, TypeOK
<1>2. frame'[t] = x /\ \A u \in Threads \ {t} : frame'[u] = frame[u]
  BY <1>1, Zenon DEF Moving, Goto
<1>3. frame[t].pc # "idle" /\ (x.pc # "idle" => x.call = frame[t].call)
  BY Zenon DEF Moving, Moves
<1>4. frame[t].call \in 1 .. Len(made)
  BY <1>3, Zenon DEF SlotInv, CallsDistinct, IsRunning
<1>5. frame[t].call \in 1 .. MaxCalls
  <2>1. Len(made) \in Nat /\ MaxCalls \in Nat
    BY <1>1, SessionAssumption
  <2> QED
    BY <1>1, <1>4, <2>1
<1>6. frame[t].call \in Running
  BY <1>3, Zenon DEF Running
<1>7. CASE x.pc # "idle"
  <2>1. \A u \in Threads : /\ frame'[u].pc # "idle" <=> frame[u].pc # "idle"
                           /\ frame[u].pc # "idle" => frame'[u].call = frame[u].call
    BY <1>2, <1>3, <1>7, Zenon
  <2>2. Running' = Running
    BY <2>1, Zenon DEF Running
  <2> QED
    BY <1>5, <1>6, <2>2, Zenon
<1>8. CASE x.pc = "idle"
  <2>1. \A u \in Threads : frame'[u].pc # "idle" <=> u # t /\ frame[u].pc # "idle"
    BY <1>2, <1>8, Zenon
  <2>2. \A u \in Threads : u # t /\ frame[u].pc # "idle" => frame[u].call # frame[t].call
    BY <1>3, Zenon DEF SlotInv, CallsDistinct, IsRunning
  <2>3. Running' = Running \ {frame[t].call}
    BY <1>2, <2>1, <2>2, Zenon DEF Running
  <2> QED
    BY <1>5, <1>6, <2>3, Zenon
<1> QED
  BY <1>7, <1>8, Zenon

\* A section of a call in progress keeps calls distinct.
LEMMA DistinctAfter ==
    ASSUME SlotInv, NEW t \in Threads, NEW x, Moving(t, x)
    PROVE  CallsDistinct' /\ frame[t].call # 0
<1>1. frame \in [Threads -> Frame] /\ made' = made
  BY Zenon DEF SlotInv, Inv, TypeOK, Moving
<1>2. frame'[t] = x /\ \A u \in Threads \ {t} : frame'[u] = frame[u]
  BY <1>1, Zenon DEF Moving, Goto
<1>3. frame[t].pc # "idle" /\ (x.pc # "idle" => x.call = frame[t].call)
  BY Zenon DEF Moving, Moves
<1>4. \A u \in Threads : frame'[u].pc # "idle" =>
        frame[u].pc # "idle" /\ frame'[u].call = frame[u].call
  BY <1>2, <1>3, Zenon
<1>5. CallsDistinct'
  BY <1>1, <1>4, Zenon DEF SlotInv, CallsDistinct, IsRunning
<1>6. frame[t].call # 0
  BY <1>3 DEF SlotInv, CallsDistinct, IsRunning
<1> QED
  BY <1>5, <1>6, Zenon

\* A report with a result is not the blank one.
LEMMA ShownIsNotBlank ==
    ASSUME report'.has_result = TRUE
    PROVE  Shown' = report' /\ Shown' # Cleared /\ ShownBy' = Authors'
<1>1. Cleared.has_result = FALSE
  BY Zenon DEF Cleared
<1> QED
  BY <1>1, Zenon DEF Shown, ShownBy

\* A section that shows nothing new is invisible, or the end of its call.
LEMMA QuietStep ==
    ASSUME SlotInv, NEW t \in Threads, NEW x, Moving(t, x),
           Shown' = Shown, ShownBy' = ShownBy
    PROVE  [Slot!Next]_(Slot!slot)
<1>1. /\ frame[t].call \in Running /\ frame[t].call \in 1 .. MaxCalls
      /\ Running' \in {Running, Running \ {frame[t].call}}
  BY RunningAfter, Zenon
<1>2. CASE Running' = Running
  BY <1>2, Zenon DEF Slot!slot
<1>3. CASE Running' = Running \ {frame[t].call}
  <2>1. Slot!End(frame[t].call)
    BY <1>1, <1>3, Zenon DEF Slot!End
  <2> QED
    BY <1>1, <2>1, Zenon DEF Slot!Next
<1> QED
  BY <1>1, <1>2, <1>3, Zenon

\* A section that leaves a report with a result, all of it its own, writes.
LEMMA WritingStep ==
    ASSUME SlotInv, NEW t \in Threads, NEW x, Moving(t, x),
           report'.has_result = TRUE, Authors' = {frame[t].call}
    PROVE  [Slot!Next]_(Slot!slot)
<1>1. /\ frame[t].call \in Running /\ frame[t].call \in 1 .. MaxCalls
      /\ Running' \in {Running, Running \ {frame[t].call}}
  BY RunningAfter, Zenon
<1>2. Slot!Write(frame[t].call)
  BY <1>1, ShownIsNotBlank, Zenon DEF Slot!Write
<1> QED
  BY <1>1, <1>2, Zenon DEF Slot!Next

\* Every section of a call in progress keeps the invariant and is a step of the
\* slot.
LEMMA StepImplements ==
    ASSUME SlotInv, NEW t \in Threads, Step(t)
    PROVE  SlotInv' /\ [Slot!Next]_(Slot!slot)
<1> DEFINE c == frame[t].call
<1>1. Inv'
  BY StepKeeps, Zenon DEF SlotInv
<1>2. PICK x : CommitStep(t, x) \/ LocalStep(t, x) \/ AmendStep(t, x)
  BY StepKinds, Zenon DEF Kinds, SlotInv
<1>3. Moving(t, x)
  BY <1>2, Zenon DEF CommitStep, LocalStep, AmendStep
<1>4. CallsDistinct' /\ c # 0
  BY <1>3, DistinctAfter, Zenon
<1>5. report \in Report /\ report' \in Report
  BY <1>1, Zenon DEF SlotInv, Inv, TypeOK
<1>6. CASE CommitStep(t, x)
  <2>1. report'.has_result = TRUE /\ Of(report', c)
    BY <1>5, <1>6, Zenon DEF CommitStep, Report
  <2>2. Authors' = {c}
    BY <1>4, <2>1, Zenon DEF Authors, Of
  <2>3. ResultHasCore'
    BY <1>4, <2>1, Zenon DEF ResultHasCore, Of
  <2>4. [Slot!Next]_(Slot!slot)
    BY <1>3, <2>1, <2>2, WritingStep, Zenon
  <2> QED
    BY <1>1, <1>4, <2>3, <2>4, Zenon DEF SlotInv
<1>7. CASE LocalStep(t, x)
  <2>1. report' = report
    BY <1>7, Zenon DEF LocalStep
  <2>2. Shown' = Shown /\ ShownBy' = ShownBy /\ ResultHasCore'
    BY <2>1, Zenon DEF SlotInv, Shown, ShownBy, Authors, ResultHasCore
  <2>3. [Slot!Next]_(Slot!slot)
    BY <1>3, <2>2, QuietStep, Zenon
  <2> QED
    BY <1>1, <1>4, <2>2, <2>3, Zenon DEF SlotInv
<1>8. CASE AmendStep(t, x)
  <2>1. ResultHasCore'
    BY <1>8, Zenon DEF AmendStep, SlotInv, ResultHasCore
  <2>2. ASSUME report.has_result = TRUE PROVE [Slot!Next]_(Slot!slot)
    <3>1. report.core = c
      BY <1>8, <2>2, Zenon DEF AmendStep, SlotInv, ResultHasCore, Inv, OwnsReport, StillOwned
    <3>2. Authors = {c}
      BY <1>4, <3>1, Zenon DEF SlotInv, Inv, ReportOfOneCall
    <3>3. Authors' = {c}
      BY <1>4, <1>8, <3>1, <3>2, Zenon DEF AmendStep, Authors
    <3>4. report'.has_result = TRUE
      BY <1>8, <2>2, Zenon DEF AmendStep
    <3> QED
      BY <1>3, <3>3, <3>4, WritingStep, Zenon
  <2>3. ASSUME report.has_result = FALSE PROVE [Slot!Next]_(Slot!slot)
    <3>1. Shown' = Shown /\ ShownBy' = ShownBy
      BY <1>8, <2>3, Zenon DEF AmendStep, Shown, ShownBy, Cleared
    <3> QED
      BY <1>3, <3>1, QuietStep, Zenon
  <2>4. report.has_result \in BOOLEAN
    BY <1>5, Zenon DEF Report
  <2> QED
    BY <1>1, <1>4, <2>1, <2>2, <2>3, <2>4, Zenon DEF SlotInv
<1> QED
  BY <1>2, <1>6, <1>7, <1>8, Zenon

\* The start of a call begins it in the slot, Initialize and Finalize clear the
\* slot, and a commit on another session is invisible.
LEMMA CallImplements ==
    ASSUME SlotInv, NEW t \in Threads, Call(t), Entries \cap StrEntries = {}
    PROVE  SlotInv' /\ [Slot!Next]_(Slot!slot)
<1>1. Inv'
  BY CallKeeps, Zenon DEF SlotInv
<1>2. /\ frame \in [Threads -> Frame] /\ made \in Seq(Verifying)
      /\ Len(made) \in Nat /\ MaxCalls \in Nat
  BY SessionAssumption DEF SlotInv, Inv, TypeOK
<1>3. ASSUME NEW e \in Entries, Start(t, e)
      PROVE  SlotInv' /\ [Slot!Next]_(Slot!slot)
  <2> DEFINE n == Len(made) + 1
  <2>1. /\ frame[t].pc = "idle" /\ Len(made) < MaxCalls /\ report' = report
        /\ made' = Append(made, e) /\ e \in Verifying
    BY <1>3, SessionAssumption, Zenon DEF Start, At, session
  <2>2. Len(made') = n
    BY <1>2, <2>1, Appended, Zenon
  <2>3. PICK x : /\ Goto(t, x) /\ x.call = n /\ x.pc = FirstSection(e)
    <3> DEFINE y == [Idle(FALSE) EXCEPT !.pc = FirstSection(e), !.entry = e,
                                        !.call = Len(made) + 1, !.todo = Renames(e)]
    <3>1. Goto(t, y)
      BY <1>3, Zenon DEF Start
    <3>2. y.call = n /\ y.pc = FirstSection(e)
      BY Zenon DEF Idle
    <3> HIDE DEF y
    <3> QED
      BY <3>1, <3>2, Zenon
  <2>4. x.pc # "idle"
    <3>1. FirstSection(e) \in {"enter", "asic", "xades", "format", "record"}
      BY Zenon DEF FirstSection
    <3> QED
      BY <2>3, <3>1, Zenon
  <2>5. frame'[t] = x /\ \A u \in Threads \ {t} : frame'[u] = frame[u]
    BY <1>2, <2>3, Zenon DEF Goto
  <2>6. \A u \in Threads : frame[u].pc # "idle" => frame[u].call \in 1 .. Len(made)
    BY Zenon DEF SlotInv, CallsDistinct, IsRunning
  <2>7. \A u \in Threads : frame[u].pc # "idle" => frame[u].call \in 1 .. n /\ frame[u].call # n
    BY <1>2, <2>6
  <2>8. CallsDistinct'
    <3>1. \A u \in Threads : frame'[u].pc # "idle" => frame'[u].call \in 1 .. n
      BY <1>2, <2>3, <2>5, <2>7
    <3>2. \A u, v \in Threads :
            u # v /\ frame'[u].pc # "idle" /\ frame'[v].pc # "idle"
              => frame'[u].call # frame'[v].call
      BY <2>3, <2>5, <2>7 DEF SlotInv, CallsDistinct, IsRunning
    <3> QED
      BY <2>2, <3>1, <3>2, Zenon DEF CallsDistinct, IsRunning
  <2>9. n \notin Running /\ n \in 1 .. MaxCalls
    BY <1>2, <2>1, <2>7 DEF Running
  <2>10. Running' = Running \cup {n}
    BY <2>1, <2>3, <2>4, <2>5 DEF Running
  <2>11. Shown' = Shown /\ ShownBy' = ShownBy /\ ResultHasCore'
    BY <2>1, Zenon DEF SlotInv, Shown, ShownBy, Authors, ResultHasCore
  <2>12. Slot!Begin(n)
    BY <2>9, <2>10, <2>11, Zenon DEF Slot!Begin
  <2> QED
    BY <1>1, <2>8, <2>9, <2>11, <2>12, Zenon DEF SlotInv, Slot!Next
<1>4. ASSUME Initialize(t) \/ Finalize(t)
      PROVE  SlotInv' /\ [Slot!Next]_(Slot!slot)
  <2>1. report' = Cleared /\ UNCHANGED <<frame, made>>
    BY <1>4, Zenon DEF Initialize, Finalize, ClearVerifyReport
  <2>2. Shown' = Cleared /\ ShownBy' = {} /\ ResultHasCore'
    BY <2>1, Zenon DEF Shown, ShownBy, Cleared, ResultHasCore
  <2>3. Running' = Running /\ CallsDistinct'
    BY <2>1, Zenon DEF Running, SlotInv, CallsDistinct, IsRunning
  <2>4. Slot!Clear
    BY <2>2, <2>3, Zenon DEF Slot!Clear
  <2> QED
    BY <1>1, <2>2, <2>3, <2>4, Zenon DEF SlotInv, Slot!Next
<1>5. ASSUME CommitElsewhere(t)
      PROVE  SlotInv' /\ [Slot!Next]_(Slot!slot)
  <2>1. UNCHANGED <<report, frame, made>>
    BY <1>5, Zenon DEF CommitElsewhere, session
  <2>2. Shown' = Shown /\ ShownBy' = ShownBy /\ ResultHasCore'
    BY <2>1, Zenon DEF SlotInv, Shown, ShownBy, Authors, ResultHasCore
  <2>3. Running' = Running /\ CallsDistinct'
    BY <2>1, Zenon DEF Running, SlotInv, CallsDistinct, IsRunning
  <2> QED
    BY <1>1, <2>2, <2>3, Zenon DEF SlotInv, Slot!slot
<1> QED
  BY <1>3, <1>4, <1>5, Zenon DEF Call

\* A step that changes nothing.
LEMMA StutterImplements ==
    ASSUME SlotInv, UNCHANGED vars
    PROVE  SlotInv' /\ [Slot!Next]_(Slot!slot)
<1>1. UNCHANGED <<report, frame, made, epoch, globalEpoch, lastCommit>>
  BY Zenon DEF vars
<1>2. Inv'
  BY Zenon DEF SlotInv, vars, Inv, TypeOK, EpochsBounded, OwnsReport, CommittedFirst,
     ReportOfOneCall, Authors
<1>3. CallsDistinct' /\ ResultHasCore' /\ Running' = Running
  BY <1>1, Zenon DEF SlotInv, CallsDistinct, IsRunning, ResultHasCore, Running
<1>4. Shown' = Shown /\ ShownBy' = ShownBy
  BY <1>1, Zenon DEF Shown, ShownBy, Authors
<1> QED
  BY <1>2, <1>3, <1>4, Zenon DEF SlotInv, Slot!slot

\* Initially no call runs and the slot is blank.
LEMMA InitImplements == Init => SlotInv /\ Slot!Init
<1> SUFFICES ASSUME Init PROVE SlotInv /\ Slot!Init
  BY Zenon
<1>1. Inv
  BY InitInv, Zenon
<1>2. \A t \in Threads : frame[t].pc = "idle"
  BY Zenon DEF Init, Idle
<1>3. CallsDistinct /\ Running = {}
  BY <1>2, Zenon DEF CallsDistinct, IsRunning, Running
<1>4. ResultHasCore /\ Shown = Cleared /\ ShownBy = {}
  BY Zenon DEF Init, Cleared, ResultHasCore, Shown, ShownBy
<1> QED
  BY <1>1, <1>3, <1>4, Zenon DEF SlotInv, Slot!Init

\* Whatever the number of threads and calls, every section of every Verify*,
\* Initialize and Finalize is a step of the abstract report slot or invisible to
\* a caller: only a running call writes, a write leaves the report that call's
\* alone, and the report of a call that has returned changes only as a whole.
\* The hypothesis excludes the two entry points that rename without asking who
\* owns the report.
THEOREM SessionImplementsSlot ==
    ASSUME Entries \cap StrEntries = {}
    PROVE  Spec => ImplementsReportSlot
<1>1. SlotInv /\ [Next]_vars => SlotInv' /\ [Slot!Next]_(Slot!slot)
  <2> SUFFICES ASSUME SlotInv, [Next]_vars
               PROVE  SlotInv' /\ [Slot!Next]_(Slot!slot)
    BY Zenon
  <2>1. CASE Next
    BY <2>1, StepImplements, CallImplements, Zenon DEF Next
  <2>2. CASE UNCHANGED vars
    BY <2>2, StutterImplements, Zenon
  <2> QED
    BY <2>1, <2>2, Zenon
<1> QED
  BY InitImplements, <1>1, PTL DEF Spec, ImplementsReportSlot, Slot!Spec

-----------------------------------------------------------------------------
(***************************************************************************)
(* The report of a call that has returned is complete: it has the name of  *)
(* the call's entry point and, for a container, its coverage, for any      *)
(* number of threads and calls, when the *Str entry points are not used.   *)
(*                                                                         *)
(* The invariant follows the report of a call through its sections: the    *)
(* call still owns it, the last of the pending names is the entry point's, *)
(* and past its last renaming the report has that name.  No other call can *)
(* touch it in between, because calls that run together are distinct.      *)
(***************************************************************************)
\* The pending names of a call end with the name of its entry point.
EndsWith(s, e) == s = << >> \/ s[Len(s)] = e

\* Before its first commit a call is at one of these sections.
Opening == {"record", "asic", "unpack", "xades", "load", "format", "parse"}

\* Which entry point can be at which section, and with which names pending.
Place(f) ==
    /\ EndsWith(f.todo, f.entry)
    /\ f.pc \in Opening => ~f.mine
    /\ f.pc = "record" => f.entry = "RecordVerifyFailure"
    /\ f.pc \in {"format", "parse"} => f.entry \in Formats
    /\ f.pc \in {"xades", "load"} => f.entry \in Containers
    /\ f.pc \in {"asic", "unpack", "stamp"} => f.entry \in {"VerifyFileAsicS", "VerifyFileAsicE"}
    /\ f.pc = "coverage" => f.entry = "VerifyFileAsicS"
    /\ f.pc \in {"copy", "next", "close", "facts"} => f.entry = "VerifyFileAsicE"
    /\ f.pc \in {"enter", "crypto"} =>
         /\ f.todo = << >> => f.entry \in {"VerifyData", "VerifyDataInternal", "VerifyFileAsicE"}
         /\ f.entry # "VerifyFileAsicEXades"
    /\ f.entry = "VerifyFileAsicE" => f.todo = << >>
    /\ f.entry = "VerifyFileAsicS" /\ f.pc \in {"enter", "crypto", "asic", "unpack"} => f.todo # << >>
    /\ f.pc = "rename" => f.todo # << >> /\ f.entry # "VerifyFileAsicEXades"

\* Where a call that owns the report has named it and declared its coverage;
\* at its end it has done both.
Settled(r, f, x) ==
    /\ x.pc # "idle" => x.mine
    /\ x.pc \in {"idle", "coverage", "stamp", "facts"} => r.operation \in FinalNames(f.entry)
    /\ x.pc = "stamp" => r.coverage = f.call
    /\ x.pc = "idle" /\ r.signature_valid /\ f.entry \in Containers => r.coverage = f.call

NamesItsReport(t) ==
    IsRunning(t) =>
        /\ Place(frame[t])
        /\ frame[t].entry = made[frame[t].call]
        /\ report.core = frame[t].call =>
             Settled(report, frame[t], frame[t]) /\ epoch # 0 /\ epoch = lastCommit[t]

NameInv ==
    /\ SlotInv
    /\ report.core \in 0 .. Len(made)
    /\ \A t \in Threads : NamesItsReport(t)
    /\ CompletedReportNamed
    /\ CoverageDeclared

\* What a section of the call of thread t leaves: a frame at one of its places
\* and, if the report is the call's own, a report that is settled so far.
Settling(t) ==
    /\ frame'[t].pc # "idle" => Place(frame'[t]) /\ frame'[t].entry = frame[t].entry
    /\ report'.core = frame[t].call => Settled(report', frame[t], frame'[t])

\* The last of the names that remain is the last of the names.
LEMMA LastOfRest ==
    ASSUME NEW S, NEW s \in Seq(S), NEW i \in DOMAIN s
    PROVE  LET o == SubSeq(s, i + 1, Len(s))
           IN  /\ o = << >> <=> i = Len(s)
               /\ o # << >> => o[Len(o)] = s[Len(s)]
<1> DEFINE n == Len(s)
           m == i + 1
           o == SubSeq(s, m, n)
<1>1. n \in Nat /\ i \in 1 .. n /\ m \in Nat \ {0} /\ n \in 0 .. n
  OBVIOUS
<1>2. /\ o \in Seq(S) /\ Len(o) = IF m <= n THEN n - m + 1 ELSE 0
      /\ \A j \in 1 .. n - m + 1 : o[j] = s[m + j - 1]
  BY <1>1, Slice, Zenon
<1>3. m = i + 1
  BY Zenon
<1> HIDE DEF n, m, o
<1>4. CASE i = n
  BY <1>1, <1>2, <1>3, <1>4, EmptyList DEF o, n, m
<1>5. CASE i # n
  <2>1. Len(o) = n - i /\ n - i \in 1 .. n - m + 1 /\ m + (n - i) - 1 = n
    BY <1>1, <1>2, <1>3, <1>5
  <2>2. o[n - i] = s[n] /\ o # << >>
    BY <1>2, <2>1, EmptyList
  <2> QED
    BY <1>5, <2>1, <2>2, Zenon DEF o, n, m
<1> QED
  BY <1>4, <1>5, Zenon

\* The same for the tail.
LEMMA LastOfTail ==
    ASSUME NEW S, NEW s \in Seq(S), Len(s) > 1
    PROVE  Tail(s)[Len(Tail(s))] = s[Len(s)]
<1>1. s # << >> /\ Len(s) \in Nat
  BY EmptyList
<1>2. Len(Tail(s)) = Len(s) - 1 /\ \A j \in 1 .. Len(Tail(s)) : Tail(s)[j] = s[j + 1]
  BY <1>1, HeadAndTail, Zenon
<1> QED
  BY <1>1, <1>2

\* A failure, or an empty result, that is committed under the name op.
LEMMA CommittedName ==
    ASSUME NEW t \in Threads, NEW op, NEW executed, NEW valid,
           SetVerifyReport(t, op, executed, valid)
    PROVE  /\ report'.operation = op /\ report'.signature_valid = valid
           /\ report'.core = frame[t].call
BY Zenon DEF SetVerifyReport, Outcome, Cleared

\* Going on after the core operation of the call in frame f has committed a
\* report r, with the names of y still to be put on it.
LEMMA ResumeSettles ==
    ASSUME NEW f, NEW y \in Frame, NEW ok \in BOOLEAN, NEW valid \in BOOLEAN, NEW r,
           y.entry = f.entry, EndsWith(y.todo, y.entry),
           y.entry = "VerifyFileAsicE" => y.todo = << >>,
           y.entry # "VerifyFileAsicEXades",
           y.todo = << >> /\ y.entry # "VerifyFileAsicE" =>
              r.operation = y.entry /\ y.entry # "VerifyFileAsicS"
    PROVE  LET x == Resume(y, ok, valid)
           IN  /\ x.pc # "idle" => Place(x) /\ x.entry = f.entry
               /\ Settled(r, f, x)
<1> DEFINE x == Resume(y, ok, valid)
           g == [y EXCEPT !.ok = ok, !.valid = valid, !.mine = TRUE]
<1>1. /\ g \in FrameRecord /\ g.todo = y.todo /\ g.entry = y.entry /\ g.mine = TRUE
  BY Zenon DEF Frame, FrameRecord
<1>2. CASE y.todo # << >>
  <2> DEFINE h == [g EXCEPT !.pc = "rename"]
  <2>1. x = h
    BY <1>1, <1>2, Zenon DEF Resume
  <2>2. h.pc = "rename" /\ h.todo = y.todo /\ h.entry = y.entry /\ h.mine = TRUE
    BY <1>1, Zenon DEF FrameRecord
  <2> HIDE DEF x, h
  <2>3. Place(h)
    BY <1>2, <2>2, Zenon DEF Place, Opening
  <2>4. Settled(r, f, h)
    BY <2>2, Zenon DEF Settled
  <2> QED
    BY <2>1, <2>2, <2>3, <2>4, Zenon DEF x
<1>3. CASE y.todo = << >> /\ y.entry = "VerifyFileAsicE"
  <2> DEFINE h == [g EXCEPT !.pc = "copy"]
  <2>1. x = h
    BY <1>1, <1>3, Zenon DEF Resume
  <2>2. h.pc = "copy" /\ h.todo = y.todo /\ h.entry = y.entry /\ h.mine = TRUE
    BY <1>1, Zenon DEF FrameRecord
  <2> HIDE DEF x, h
  <2>3. Place(h)
    BY <1>3, <2>2, Zenon DEF Place, Opening, EndsWith
  <2>4. Settled(r, f, h)
    BY <2>2, Zenon DEF Settled
  <2> QED
    BY <2>1, <2>2, <2>3, <2>4, Zenon DEF x
<1>4. CASE y.todo = << >> /\ y.entry # "VerifyFileAsicE"
  <2>1. x = Idle(ok)
    <3>1. ~(g.todo # << >>) /\ ~(g.todo = << >> /\ g.entry = "VerifyFileAsicE")
      BY <1>1, <1>4, Zenon
    <3> QED
      BY <3>1, Zenon DEF Resume
  <2> HIDE DEF x
  <2>2. x.pc = "idle"
    BY <2>1, Zenon DEF Idle
  <2>3. r.operation = f.entry /\ f.entry \notin Containers
    BY <1>4, Zenon DEF Containers
  <2>4. f.entry \in FinalNames(f.entry)
    BY Zenon DEF FinalNames
  <2>5. Settled(r, f, x)
    BY <2>2, <2>3, <2>4, Zenon DEF Settled
  <2> QED
    BY <2>2, <2>5, Zenon DEF x
<1> QED
  BY <1>2, <1>3, <1>4, Zenon

\* Going on after the first pending name has been put on the report r.
LEMMA RenamedSettles ==
    ASSUME NEW f \in Frame, f.pc = "rename", Place(f), f.mine = TRUE, NEW r,
           r.operation = Head(f.todo)
    PROVE  LET x == Renamed(f)
           IN  /\ x.pc # "idle" => Place(x) /\ x.entry = f.entry
               /\ Settled(r, f, x)
<1> DEFINE x == Renamed(f)
           n == Len(f.todo)
<1>1. /\ f \in FrameRecord /\ f.todo \in Seq(Names) /\ f.todo # << >> /\ n \in Nat
      /\ f.entry \notin {"VerifyFileAsicE", "VerifyFileAsicEXades"}
      /\ f.todo[n] = f.entry
  BY DEF Frame, FrameRecord, Place, EndsWith
<1>2. n # 0
  BY <1>1, EmptyList, Zenon
<1>3. CASE n > 1
  <2> DEFINE h == [f EXCEPT !.todo = Tail(f.todo)]
  <2>1. x = h
    BY <1>3 DEF Renamed
  <2>2. /\ Tail(f.todo) # << >> /\ Tail(f.todo)[Len(Tail(f.todo))] = f.entry
    BY <1>1, <1>3, TailType, LastOfTail, Zenon
  <2>3. h.pc = "rename" /\ h.todo = Tail(f.todo) /\ h.entry = f.entry /\ h.mine = TRUE
    BY <1>1, Zenon DEF FrameRecord
  <2> HIDE DEF x, h
  <2>4. Place(h)
    BY <1>1, <2>2, <2>3, Zenon DEF Place, Opening, EndsWith
  <2>5. Settled(r, f, h)
    BY <2>3, Zenon DEF Settled
  <2> QED
    BY <2>1, <2>3, <2>4, <2>5, Zenon DEF x
<1>4. ASSUME ~(n > 1) PROVE r.operation = f.entry /\ f.entry \in FinalNames(f.entry)
  <2>1. n = 1
    <3> HIDE DEF n
    <3> QED
      BY <1>1, <1>2, <1>4
  <2>2. Head(f.todo) = f.todo[1]
    BY <1>1
  <2> QED
    BY <1>1, <2>1, <2>2, Zenon DEF FinalNames
<1>5. CASE ~(n > 1) /\ f.entry = "VerifyFileAsicS"
  <2> DEFINE h == [f EXCEPT !.todo = << >>, !.pc = "coverage"]
  <2>1. x = h
    <3>1. n <= 1
      <4> HIDE DEF n
      <4> QED
        BY <1>1, <1>5
    <3> QED
      BY <1>5, <3>1, Zenon DEF Renamed
  <2>2. h.pc = "coverage" /\ h.todo = << >> /\ h.entry = f.entry /\ h.mine = TRUE
    BY <1>1, Zenon DEF FrameRecord
  <2> HIDE DEF x, h
  <2>3. Place(h)
    BY <1>5, <2>2, Zenon DEF Place, Opening, EndsWith
  <2>4. Settled(r, f, h)
    BY <1>4, <1>5, <2>2, Zenon DEF Settled
  <2> QED
    BY <2>1, <2>2, <2>3, <2>4, Zenon DEF x
<1>6. CASE ~(n > 1) /\ f.entry # "VerifyFileAsicS"
  <2>1. x = Idle(f.ok)
    BY <1>6, Zenon DEF Renamed
  <2> HIDE DEF x
  <2>2. x.pc = "idle"
    BY <2>1, Zenon DEF Idle
  <2>3. f.entry \notin Containers
    BY <1>1, <1>6, Zenon DEF Containers
  <2>4. Settled(r, f, x)
    BY <1>4, <1>6, <2>2, <2>3, Zenon DEF Settled
  <2> QED
    BY <2>2, <2>4, Zenon DEF x
<1> QED
  BY <1>3, <1>5, <1>6, Zenon

\* Every section of a call in progress leaves its report settled so far.
LEMMA StepSettles ==
    ASSUME NameInv, NEW t \in Threads, Step(t)
    PROVE  Settling(t)
<1> DEFINE f == frame[t]
<1>a. f.pc # "idle" /\ frame \in [Threads -> Frame] /\ f \in Frame
  <2>1. PICK x : Moving(t, x)
    BY StepKinds, Zenon DEF NameInv, SlotInv, Kinds, CommitStep, LocalStep, AmendStep
  <2> QED
    BY <2>1, Zenon DEF Moving, NameInv, SlotInv, Inv, TypeOK
<1>f. /\ f \in FrameRecord /\ Place(f) /\ f.todo \in Seq(Names) /\ f.mine \in BOOLEAN
      /\ f.entry \notin StrEntries /\ f.ok \in BOOLEAN
  BY <1>a, Zenon DEF NameInv, NamesItsReport, IsRunning, SlotInv, Inv, CommittedFirst, Frame,
     FrameRecord
<1>o. report.core = f.call => Settled(report, f, f) /\ StillOwned(t) /\ report.has_result
  <2>1. f.call # 0
    BY <1>a DEF NameInv, SlotInv, CallsDistinct, IsRunning
  <2> QED
    BY <1>a, <2>1, Zenon DEF NameInv, NamesItsReport, IsRunning, StillOwned, SlotInv, ResultHasCore
<1>m. /\ report.core = f.call => f.mine = TRUE
      /\ f.pc \in Opening => report.core # f.call
  BY <1>a, <1>f, <1>o, Zenon DEF Settled, Place
<1>i. \A ok : Idle(ok).pc = "idle"
  BY Zenon DEF Idle
<1>q. ASSUME NEW x, Goto(t, x), x.pc # "idle" => Place(x) /\ x.entry = f.entry,
             report'.core = f.call => Settled(report', f, x)
      PROVE  Settling(t)
  <2>1. frame'[t] = x
    BY <1>a, <1>q, Zenon DEF Goto
  <2> QED
    BY <1>q, <2>1, Zenon DEF Settling
\* The call ends with a failure under a name of its own,
<1>s. ASSUME NEW op \in FinalNames(f.entry), NEW executed, NEW ok,
             SetVerifyReport(t, op, executed, FALSE), Goto(t, Idle(ok))
      PROVE  Settling(t)
  <2>1. Settled(report', f, Idle(ok))
    BY <1>i, <1>s, CommittedName, Zenon DEF Settled
  <2> QED
    BY <1>i, <1>q, <1>s, <2>1, Zenon
\* or with a failure of its core operation,
<1>z. ASSUME NEW ok \in BOOLEAN, NEW valid \in BOOLEAN, f.pc \in {"enter", "crypto"},
             report'.operation = CoreOf(f.entry), Goto(t, Resume(f, ok, valid))
      PROVE  Settling(t)
  <2> DEFINE x == Resume(f, ok, valid)
  <2>1. /\ EndsWith(f.todo, f.entry) /\ f.entry # "VerifyFileAsicEXades"
        /\ f.entry = "VerifyFileAsicE" => f.todo = << >>
        /\ f.todo = << >> /\ f.entry # "VerifyFileAsicE" =>
              f.entry \in {"VerifyData", "VerifyDataInternal"}
    BY <1>f, <1>z, Zenon DEF Place
  <2>2. f.entry \in {"VerifyData", "VerifyDataInternal"} => CoreOf(f.entry) = f.entry
    BY Zenon DEF CoreOf, Attached, StrEntries
  <2>3. f.todo = << >> /\ f.entry # "VerifyFileAsicE" =>
          report'.operation = f.entry /\ f.entry # "VerifyFileAsicS"
    BY <1>z, <2>1, <2>2, Zenon
  <2>4. (x.pc # "idle" => Place(x) /\ x.entry = f.entry) /\ Settled(report', f, x)
    <3> DEFINE r == report'
    <3>1. f.todo = << >> /\ f.entry # "VerifyFileAsicE" =>
            r.operation = f.entry /\ f.entry # "VerifyFileAsicS"
      BY <2>3, Zenon
    <3> HIDE DEF r
    <3>2. (x.pc # "idle" => Place(x) /\ x.entry = f.entry) /\ Settled(r, f, x)
      BY <1>a, <2>1, <3>1, ResumeSettles
    <3> QED
      BY <3>2, Zenon DEF r
  <2> HIDE DEF x
  <2> QED
    BY <1>q, <1>z, <2>4, Zenon DEF x
\* or leaves the report alone and moves to another place.
<1>l. ASSUME NEW x, Goto(t, x), report' = report, x.pc # "idle" => Place(x),
             x.entry = f.entry, x.mine = f.mine, x.pc \notin {"idle", "coverage", "stamp", "facts"}
      PROVE  Settling(t)
  BY <1>l, <1>m, <1>q, Zenon DEF Settled
<1>u. ASSUME NEW ok, Goto(t, Idle(ok)), report' = report, f.pc \in Opening
      PROVE  Settling(t)
  BY <1>i, <1>m, <1>q, <1>u, Zenon
<1>1. CASE RecordVerifyFailure(t)
  <2>1. "RecordVerifyFailure" \in FinalNames(f.entry)
    BY <1>1, <1>f, Zenon DEF RecordVerifyFailure, At, Place, FinalNames
  <2> QED
    BY <1>1, <2>1, <1>s, ZenonT(60) DEF RecordVerifyFailure
<1>2. CASE InputFails(t)
  <2>1. PICK j \in DOMAIN f.todo :
          LET outer == SubSeq(f.todo, j + 1, Len(f.todo))
          IN  /\ f.todo[j] \in ReadsInput
              /\ SetVerifyReport(t, f.todo[j], FALSE, FALSE)
              /\ Goto(t, Resume([f EXCEPT !.todo = outer], FALSE, FALSE))
    BY <1>2, Zenon DEF InputFails
  <2> DEFINE outer == SubSeq(f.todo, j + 1, Len(f.todo))
             y == [f EXCEPT !.todo = outer]
             x == Resume(y, FALSE, FALSE)
  <2>2. /\ f.pc = "enter" /\ f.entry # "VerifyFileAsicEXades" /\ EndsWith(f.todo, f.entry)
        /\ f.entry = "VerifyFileAsicE" => f.todo = << >>
    BY <1>2, <1>f, Zenon DEF InputFails, At, Place
  <2>3. outer \in Seq(Names)
    BY <1>f
  <2>4. /\ outer = << >> <=> j = Len(f.todo)
        /\ outer # << >> => outer[Len(outer)] = f.todo[Len(f.todo)]
    BY <1>f, LastOfRest, Zenon
  <2>5. f.todo # << >> /\ f.todo[Len(f.todo)] = f.entry /\ f.entry # "VerifyFileAsicE"
    BY <2>1, <2>2 DEF EndsWith
  <2> HIDE DEF outer
  <2>6. y \in Frame /\ y.entry = f.entry /\ y.todo = outer
    BY <1>f, <2>2, <2>3, Zenon DEF Frame, FrameRecord
  <2>7. Goto(t, x) /\ SetVerifyReport(t, f.todo[j], FALSE, FALSE) /\ f.todo[j] \in ReadsInput
    BY <2>1, Zenon DEF outer
  <2>8. report'.operation = f.todo[j]
    BY <2>7, CommittedName, Zenon
  <2> HIDE DEF y
  <2>9. y.todo = << >> => report'.operation = y.entry /\ y.entry # "VerifyFileAsicS"
    BY <2>4, <2>5, <2>6, <2>7, <2>8, Zenon DEF ReadsInput
  <2>10. EndsWith(y.todo, y.entry)
    BY <2>4, <2>5, <2>6, Zenon DEF EndsWith
  <2>11. (x.pc # "idle" => Place(x) /\ x.entry = f.entry) /\ Settled(report', f, x)
    BY <2>2, <2>5, <2>6, <2>9, <2>10, ResumeSettles, Zenon
  <2> HIDE DEF x
  <2> QED
    BY <2>7, <2>11, <1>q, Zenon
<1>3. CASE Enter(t)
  <2>1. CASE initialized
    <3> DEFINE x == [f EXCEPT !.pc = "crypto"]
    <3>1. Goto(t, x) /\ report' = report /\ f.pc = "enter"
      BY <1>3, <2>1, Zenon DEF Enter, At, session
    <3>2. x.pc = "crypto" /\ x.todo = f.todo /\ x.entry = f.entry /\ x.mine = f.mine
      BY <1>f, Zenon DEF FrameRecord
    <3> HIDE DEF x
    <3>3. Place(x)
      BY <1>f, <3>1, <3>2, Zenon DEF Place, Opening
    <3> QED
      BY <3>1, <3>2, <3>3, <1>l, Zenon
  <2>2. CASE ~initialized
    <3>1. /\ SetVerifyReport(t, CoreOf(f.entry), FALSE, FALSE)
          /\ Goto(t, Resume(f, FALSE, FALSE)) /\ f.pc = "enter"
      BY <1>3, <2>2, Zenon DEF Enter, At
    <3> QED
      BY <3>1, <1>z, CommittedName, Zenon
  <2> QED
    BY <2>1, <2>2, Zenon
<1>4. CASE CryptoFails(t)
  BY <1>4, <1>z, CommittedName, Zenon DEF CryptoFails, At
<1>5. CASE Commit(t)
  <2>1. PICK valid \in BOOLEAN :
          /\ report' = Outcome(CoreOf(f.entry), TRUE, valid, f.call)
          /\ Goto(t, Resume(f, TRUE, valid))
    BY <1>5, Zenon DEF Commit
  <2>2. report'.operation = CoreOf(f.entry)
    BY <2>1, Zenon DEF Outcome, Cleared
  <2> QED
    BY <1>5, <2>1, <2>2, <1>z, Zenon DEF Commit, At
<1>6. CASE Rename(t)
  <2> DEFINE x == Renamed(f)
  <2>1. /\ Goto(t, x) /\ f.pc = "rename"
        /\ IF report.has_result /\ StillOwned(t)
           THEN report' = [report EXCEPT !.operation = Head(f.todo), !.named = f.call]
           ELSE report' = report
    BY <1>6, Zenon DEF Rename, At
  <2>2. f.mine = TRUE
    BY <1>f, <2>1, Zenon DEF NameInv, SlotInv, Inv, CommittedFirst, AmendPCs
  <2>3. /\ report.has_result /\ StillOwned(t) => report'.operation = Head(f.todo)
        /\ report'.core = report.core
    BY <2>1, Zenon DEF NameInv, SlotInv, Inv, TypeOK, Report
  <2>4. x.pc # "idle" => Place(x) /\ x.entry = f.entry
    <3> DEFINE r == [operation |-> Head(f.todo)]
    <3>1. r.operation = Head(f.todo)
      BY Zenon
    <3> HIDE DEF r, x
    <3> QED
      BY <1>a, <1>f, <2>1, <2>2, <3>1, RenamedSettles, Zenon DEF x
  <2>5. report'.operation = Head(f.todo) => Settled(report', f, x)
    BY <1>a, <1>f, <2>1, <2>2, RenamedSettles, Zenon
  <2> HIDE DEF x
  <2> QED
    BY <1>o, <2>1, <2>3, <2>4, <2>5, <1>q, Zenon
<1>7. CASE ForceName(t)
  BY <1>7, <1>f, Zenon DEF ForceName, ForcesName
<1>8. CASE FormatEnter(t)
  <2>1. CASE initialized
    <3> DEFINE x == [f EXCEPT !.pc = "parse"]
    <3>1. Goto(t, x) /\ report' = report /\ f.pc = "format"
      BY <1>8, <2>1, Zenon DEF FormatEnter, At, session
    <3>2. x.pc = "parse" /\ x.todo = f.todo /\ x.entry = f.entry /\ x.mine = f.mine
      BY <1>f, Zenon DEF FrameRecord
    <3> HIDE DEF x
    <3>3. Place(x)
      BY <1>f, <3>1, <3>2, Zenon DEF Place, Opening
    <3> QED
      BY <3>1, <3>2, <3>3, <1>l, Zenon
  <2>2. CASE ~initialized
    <3>1. Goto(t, Idle(FALSE)) /\ report' = report /\ f.pc = "format"
      BY <1>8, <2>2, Zenon DEF FormatEnter, At
    <3> QED
      BY <3>1, <1>u, Zenon DEF Opening
  <2> QED
    BY <2>1, <2>2, Zenon
<1>9. CASE FormatFails(t)
  BY <1>9, <1>u, Zenon DEF FormatFails, At, Opening
<1>10. CASE FormatCommit(t)
  <2>1. PICK valid \in BOOLEAN :
          report' = [Outcome(f.entry, TRUE, valid, f.call) EXCEPT !.coverage = Declares(f)]
    BY <1>10, Zenon DEF FormatCommit
  <2>2. report'.operation = f.entry /\ report'.coverage = Declares(f)
    BY <2>1, Zenon DEF Outcome, Cleared
  <2>3. f.entry \in FinalNames(f.entry)
    BY Zenon DEF FinalNames
  <2>4. f.entry \notin Containers
    BY <1>10, <1>f, Zenon DEF FormatCommit, At, Place, Formats, Containers
  <2>5. Settled(report', f, Idle(TRUE))
    BY <1>i, <2>2, <2>3, <2>4, ZenonT(60) DEF Settled
  <2> QED
    BY <1>10, <1>i, <2>5, <1>q, Zenon DEF FormatCommit
<1>x. f.pc \in {"xades", "load"} => "VerifyFileAsicEXades" \in FinalNames(f.entry)
  BY <1>f, Zenon DEF Place, Containers, FinalNames
<1>11. CASE XadesEnter(t)
  <2>1. CASE initialized
    <3> DEFINE x == [f EXCEPT !.pc = "load"]
    <3>1. Goto(t, x) /\ report' = report /\ f.pc = "xades"
      BY <1>11, <2>1, Zenon DEF XadesEnter, At, session
    <3>2. x.pc = "load" /\ x.todo = f.todo /\ x.entry = f.entry /\ x.mine = f.mine
      BY <1>f, Zenon DEF FrameRecord
    <3> HIDE DEF x
    <3>3. Place(x)
      BY <1>f, <3>1, <3>2, Zenon DEF Place, Opening
    <3> QED
      BY <3>1, <3>2, <3>3, <1>l, Zenon
  <2>2. CASE ~initialized
    <3>1. /\ SetVerifyReport(t, "VerifyFileAsicEXades", FALSE, FALSE)
          /\ Goto(t, Idle(FALSE)) /\ f.pc = "xades"
      BY <1>11, <2>2, Zenon DEF XadesEnter, At
    <3> QED
      BY <3>1, <1>x, <1>s, Zenon
  <2> QED
    BY <2>1, <2>2, Zenon
<1>12. CASE XadesFails(t)
  BY <1>12, <1>x, <1>s, Zenon DEF XadesFails, At
<1>13. CASE XadesMalformed(t)
  <2>1. report'.operation = "VerifyFileAsicEXades" /\ report'.signature_valid = FALSE
    BY <1>13, Zenon DEF XadesMalformed, Outcome, Cleared
  <2>2. Settled(report', f, Idle(TRUE))
    BY <1>13, <1>i, <1>x, <2>1, Zenon DEF Settled, XadesMalformed, At
  <2> QED
    BY <1>13, <1>i, <2>2, <1>q, Zenon DEF XadesMalformed
<1>14. CASE XadesEmpty(t)
  BY <1>14, <1>x, <1>s, Zenon DEF XadesEmpty, At
<1>15. CASE XadesCommit(t)
  <2>1. PICK listed, all :
          report' = [Outcome("VerifyFileAsicEXades", TRUE, all, f.call)
                        EXCEPT !.coverage = f.call, !.entries = listed]
    BY <1>15, Zenon DEF XadesCommit
  <2>2. report'.operation = "VerifyFileAsicEXades" /\ report'.coverage = f.call
    BY <2>1, Zenon DEF Outcome, Cleared
  <2>3. Settled(report', f, Idle(TRUE))
    BY <1>15, <1>i, <1>x, <2>2, Zenon DEF Settled, XadesCommit, At
  <2> QED
    BY <1>15, <1>i, <2>3, <1>q, Zenon DEF XadesCommit
<1>y. f.entry \in FinalNames(f.entry)
  BY Zenon DEF FinalNames
<1>16. CASE AsicEnter(t)
  <2>1. CASE initialized
    <3> DEFINE x == [f EXCEPT !.pc = "unpack"]
    <3>1. Goto(t, x) /\ report' = report /\ f.pc = "asic"
      BY <1>16, <2>1, Zenon DEF AsicEnter, At, session
    <3>2. x.pc = "unpack" /\ x.todo = f.todo /\ x.entry = f.entry /\ x.mine = f.mine
      BY <1>f, Zenon DEF FrameRecord
    <3> HIDE DEF x
    <3>3. Place(x)
      BY <1>f, <3>1, <3>2, Zenon DEF Place, Opening
    <3> QED
      BY <3>1, <3>2, <3>3, <1>l, Zenon
  <2>2. CASE ~initialized
    <3>1. SetVerifyReport(t, f.entry, FALSE, FALSE) /\ Goto(t, Idle(FALSE))
      BY <1>16, <2>2, Zenon DEF AsicEnter
    <3> QED
      BY <3>1, <1>y, <1>s, Zenon
  <2> QED
    BY <2>1, <2>2, Zenon
<1>17. CASE AsicUnpackFails(t)
  BY <1>17, <1>y, <1>s, Zenon DEF AsicUnpackFails
<1>18. CASE AsicIsXades(t)
  <2> DEFINE x == [f EXCEPT !.todo = << >>, !.pc = "xades"]
  <2>1. Goto(t, x) /\ report' = report /\ f.pc = "unpack"
    BY <1>18, Zenon DEF AsicIsXades, At, session
  <2>2. x.pc = "xades" /\ x.todo = << >> /\ x.entry = f.entry /\ x.mine = f.mine
    BY <1>f, Zenon DEF FrameRecord
  <2> HIDE DEF x
  <2>3. Place(x)
    BY <1>f, <2>1, <2>2, Zenon DEF Place, Opening, EndsWith, Containers
  <2> QED
    BY <2>1, <2>2, <2>3, <1>l, Zenon
<1>19. CASE AsicEEmpty(t)
  BY <1>19, <1>y, <1>s, Zenon DEF AsicEEmpty
<1>20. CASE AsicUnpacked(t)
  <2>1. PICK p, n :
          /\ Goto(t, [f EXCEPT !.pc = p, !.left = n])
          /\ \/ p = "enter" /\ f.entry = "VerifyFileAsicS"
             \/ p = "next" /\ f.entry = "VerifyFileAsicE"
    <3>1. CASE f.entry = "VerifyFileAsicS" /\ Goto(t, [f EXCEPT !.pc = "enter"])
      <4>1. [f EXCEPT !.pc = "enter"] = [f EXCEPT !.pc = "enter", !.left = f.left]
        BY <1>f, Zenon DEF FrameRecord
      <4> QED
        BY <3>1, <4>1, Zenon
    <3>2. CASE /\ f.entry = "VerifyFileAsicE"
               /\ \E n \in 1 .. MaxSigs : Goto(t, [f EXCEPT !.pc = "next", !.left = n])
      BY <3>2, Zenon
    <3> QED
      BY <1>20, <3>1, <3>2, Zenon DEF AsicUnpacked
  <2> DEFINE x == [f EXCEPT !.pc = p, !.left = n]
  <2>2. Goto(t, x) /\ report' = report /\ f.pc = "unpack"
    BY <1>20, <2>1, Zenon DEF AsicUnpacked, At, session
  <2>3. x.pc = p /\ x.todo = f.todo /\ x.entry = f.entry /\ x.mine = f.mine
    BY <1>f, Zenon DEF FrameRecord
  <2> HIDE DEF x
  <2>4. Place(x)
    BY <1>f, <2>1, <2>2, <2>3, Zenon DEF Place, Opening
  <2> QED
    BY <2>1, <2>2, <2>3, <2>4, <1>l, Zenon
<1>21. CASE AsicESkips(t)
  <2> DEFINE x == [f EXCEPT !.left = f.left - 1, !.malformed = TRUE,
                            !.entries = Append(f.entries,
                                               [valid |-> FALSE, kept |-> TRUE])]
  <2>2. Goto(t, x) /\ report' = report /\ f.pc = "next"
    BY <1>21, Zenon DEF AsicESkips, At, session
  <2>3. x.pc = "next" /\ x.todo = f.todo /\ x.entry = f.entry /\ x.mine = f.mine
    BY <1>f, <2>2, Zenon DEF FrameRecord
  <2> HIDE DEF x
  <2>4. Place(x)
    BY <1>f, <2>2, <2>3, Zenon DEF Place, Opening
  <2> QED
    BY <2>2, <2>3, <2>4, <1>l, Zenon
<1>22. CASE AsicEVerifies(t)
  <2> DEFINE x == [f EXCEPT !.left = f.left - 1, !.pc = "enter"]
  <2>2. Goto(t, x) /\ report' = report /\ f.pc = "next"
    BY <1>22, Zenon DEF AsicEVerifies, At, session
  <2>3. x.pc = "enter" /\ x.todo = f.todo /\ x.entry = f.entry /\ x.mine = f.mine
    BY <1>f, <2>2, Zenon DEF FrameRecord
  <2> HIDE DEF x
  <2>4. Place(x)
    BY <1>f, <2>2, <2>3, Zenon DEF Place, Opening
  <2> QED
    BY <2>2, <2>3, <2>4, <1>l, Zenon
<1>23. CASE AsicECopies(t)
  <2>1. PICK bad, listed : Goto(t, [f EXCEPT !.pc = "next", !.malformed = bad, !.entries = listed])
    BY <1>23, Zenon DEF AsicECopies
  <2> DEFINE x == [f EXCEPT !.pc = "next", !.malformed = bad, !.entries = listed]
  <2>2. Goto(t, x) /\ report' = report /\ f.pc = "copy"
    BY <1>23, <2>1, Zenon DEF AsicECopies, At, session
  <2>3. x.pc = "next" /\ x.todo = f.todo /\ x.entry = f.entry /\ x.mine = f.mine
    BY <1>f, <2>2, Zenon DEF FrameRecord
  <2> HIDE DEF x
  <2>4. Place(x)
    BY <1>f, <2>2, <2>3, Zenon DEF Place, Opening
  <2> QED
    BY <2>2, <2>3, <2>4, <1>l, Zenon
<1>24. CASE AsicELoopEnds(t)
  <2> DEFINE x == [f EXCEPT !.pc = "close", !.ok = TRUE]
  <2>2. Goto(t, x) /\ report' = report /\ f.pc = "next"
    BY <1>24, Zenon DEF AsicELoopEnds, At, session
  <2>3. x.pc = "close" /\ x.todo = f.todo /\ x.entry = f.entry /\ x.mine = f.mine
    BY <1>f, <2>2, Zenon DEF FrameRecord
  <2> HIDE DEF x
  <2>4. Place(x)
    BY <1>f, <2>2, <2>3, Zenon DEF Place, Opening
  <2> QED
    BY <2>2, <2>3, <2>4, <1>l, Zenon
<1>25. CASE AsicEMalformed(t)
  <2> DEFINE x == [f EXCEPT !.pc = "facts", !.mine = TRUE]
  <2>1. Goto(t, x) /\ f.pc = "close"
    BY <1>25, Zenon DEF AsicEMalformed, At
  <2>2. report'.operation = "VerifyFileAsicE"
    BY <1>25, Zenon DEF AsicEMalformed, Outcome, Cleared
  <2>3. x.pc = "facts" /\ x.todo = f.todo /\ x.entry = f.entry /\ x.mine = TRUE
    BY <1>f, Zenon DEF FrameRecord
  <2> HIDE DEF x
  <2>4. Place(x)
    BY <1>f, <2>1, <2>3, Zenon DEF Place, Opening
  <2>5. Settled(report', f, x)
    BY <1>f, <1>y, <2>1, <2>2, <2>3, Zenon DEF Settled, Place
  <2> QED
    BY <2>1, <2>3, <2>4, <2>5, <1>q, Zenon
<1>26. CASE AsicERenames(t)
  <2> DEFINE x == [f EXCEPT !.pc = "facts"]
  <2>1. /\ Goto(t, x) /\ f.pc = "close"
        /\ IF report.has_result /\ StillOwned(t)
           THEN report' = [report EXCEPT !.operation = "VerifyFileAsicE", !.named = f.call]
           ELSE report' = report
    BY <1>26, Zenon DEF AsicERenames, At
  <2>2. /\ report.has_result /\ StillOwned(t) => report'.operation = "VerifyFileAsicE"
        /\ report'.core = report.core
    BY <2>1, Zenon DEF NameInv, SlotInv, Inv, TypeOK, Report
  <2>3. x.pc = "facts" /\ x.todo = f.todo /\ x.entry = f.entry /\ x.mine = f.mine
    BY <1>f, Zenon DEF FrameRecord
  <2> HIDE DEF x
  <2>4. Place(x)
    BY <1>f, <2>1, <2>3, Zenon DEF Place, Opening
  <2>5. report'.core = f.call => Settled(report', f, x)
    BY <1>f, <1>m, <1>o, <1>y, <2>1, <2>2, <2>3, Zenon DEF Settled, Place
  <2> QED
    BY <2>1, <2>3, <2>4, <2>5, <1>q, Zenon
<1>27. CASE AsicEFacts(t)
  <2>1. /\ f.pc = "facts"
        /\ StillOwned(t) => report' = [report EXCEPT !.entries = f.entries, !.coverage = f.call]
        /\ ~StillOwned(t) => report' = report
    BY <1>27, Zenon DEF AsicEFacts, At
  <2>2. PICK x : Goto(t, x) /\ x \in {[f EXCEPT !.pc = "stamp"], Idle(TRUE), Idle(f.ok)}
    BY <1>27, Zenon DEF AsicEFacts
  <2>3. /\ x.pc = "idle" \/ (x.pc = "stamp" /\ x.todo = f.todo /\ x.entry = f.entry
                              /\ x.mine = f.mine)
    BY <1>f, <1>i, <2>2, Zenon DEF FrameRecord
  <2>4. x.pc # "idle" => Place(x) /\ x.entry = f.entry
    BY <1>f, <2>1, <2>3, Zenon DEF Place, Opening
  <2>5. /\ report'.core = report.core /\ report'.operation = report.operation
        /\ StillOwned(t) => report'.coverage = f.call
    BY <2>1, Zenon DEF NameInv, SlotInv, Inv, TypeOK, Report
  <2>6. report'.core = f.call => Settled(report', f, x)
    BY <1>m, <1>o, <2>1, <2>3, <2>5, Zenon DEF Settled
  <2> QED
    BY <2>2, <2>4, <2>6, <1>q, Zenon
<1>28. CASE AsicSCoverage(t)
  <2>1. /\ f.pc = "coverage"
        /\ StillOwned(t) => report' = [report EXCEPT !.coverage = f.call]
        /\ ~StillOwned(t) => report' = report
    BY <1>28, Zenon DEF AsicSCoverage, At
  <2>2. PICK x : Goto(t, x) /\ x \in {[f EXCEPT !.pc = "stamp"], Idle(TRUE), Idle(f.ok)}
    BY <1>28, Zenon DEF AsicSCoverage
  <2>3. /\ x.pc = "idle" \/ (x.pc = "stamp" /\ x.todo = f.todo /\ x.entry = f.entry
                              /\ x.mine = f.mine)
    BY <1>f, <1>i, <2>2, Zenon DEF FrameRecord
  <2>4. x.pc # "idle" => Place(x) /\ x.entry = f.entry
    BY <1>f, <2>1, <2>3, Zenon DEF Place, Opening
  <2>5. /\ report'.core = report.core /\ report'.operation = report.operation
        /\ StillOwned(t) => report'.coverage = f.call
    BY <2>1, Zenon DEF NameInv, SlotInv, Inv, TypeOK, Report
  <2>6. report'.core = f.call => Settled(report', f, x)
    BY <1>m, <1>o, <2>1, <2>3, <2>5, Zenon DEF Settled
  <2> QED
    BY <2>2, <2>4, <2>6, <1>q, Zenon
<1>29. CASE AsicStamp(t)
  <2>1. /\ f.pc = "stamp"
        /\ StillOwned(t) => report' = [report EXCEPT !.stamp = f.call]
        /\ ~StillOwned(t) => report' = report
    BY <1>29, Zenon DEF AsicStamp, At
  <2>2. PICK x : Goto(t, x) /\ x \in {[f EXCEPT !.pc = "stamp"], Idle(TRUE), Idle(f.ok)}
    BY <1>29, Zenon DEF AsicStamp
  <2>3. /\ x.pc = "idle" \/ (x.pc = "stamp" /\ x.todo = f.todo /\ x.entry = f.entry
                              /\ x.mine = f.mine)
    BY <1>f, <1>i, <2>2, Zenon DEF FrameRecord
  <2>4. x.pc # "idle" => Place(x) /\ x.entry = f.entry
    BY <1>f, <2>1, <2>3, Zenon DEF Place, Opening
  <2>5. /\ report'.core = report.core /\ report'.operation = report.operation
        /\ StillOwned(t) => report'.coverage = report.coverage
    BY <2>1, Zenon DEF NameInv, SlotInv, Inv, TypeOK, Report
  <2>6. report'.core = f.call => Settled(report', f, x)
    BY <1>m, <1>o, <2>1, <2>3, <2>5, Zenon DEF Settled
  <2> QED
    BY <2>2, <2>4, <2>6, <1>q, Zenon
<1> QED
  BY <1>1, <1>2, <1>3, <1>4, <1>5, <1>6, <1>7, <1>8, <1>9, <1>10, <1>11, <1>12, <1>13, <1>14, <1>15, <1>16, <1>17, <1>18, <1>19, <1>20, <1>21, <1>22, <1>23, <1>24, <1>25, <1>26, <1>27, <1>28, <1>29, Zenon
     DEF Step

\* Every section of a call in progress keeps the invariant.
LEMMA StepNames ==
    ASSUME NameInv, NEW t \in Threads, Step(t)
    PROVE  NameInv'
<1> DEFINE c == frame[t].call
<1>1. SlotInv' /\ Settling(t) /\ SlotInv
  BY StepImplements, StepSettles, Zenon DEF NameInv
<1>2. PICK x : CommitStep(t, x) \/ LocalStep(t, x) \/ AmendStep(t, x)
  BY <1>1, StepKinds, Zenon DEF Kinds, SlotInv
<1>3. Moving(t, x)
  BY <1>2, Zenon DEF CommitStep, LocalStep, AmendStep
<1>4. /\ frame[t].pc # "idle" /\ made' = made /\ frame'[t] = x
      /\ \A u \in Threads \ {t} : frame'[u] = frame[u]
      /\ x.pc # "idle" => x.call = c
  BY <1>1, <1>3, Zenon DEF Moving, Moves, Goto, SlotInv, Inv, TypeOK
<1>5. /\ c \in 1 .. Len(made) /\ c # 0
      /\ \A u \in Threads \ {t} : IsRunning(u) => frame[u].call # c /\ frame[u].call # 0
  BY <1>1, <1>4 DEF SlotInv, CallsDistinct, IsRunning
<1>6. Running' \in {Running, Running \ {c}}
  BY <1>1, <1>3, RunningAfter, Zenon
<1>7. NamesItsReport(t)
  BY Zenon DEF NameInv
<1>8. /\ CommitStep(t, x) => report'.core = c
      /\ LocalStep(t, x) => UNCHANGED <<report, epoch, lastCommit>>
      /\ AmendStep(t, x) => /\ UNCHANGED <<epoch, lastCommit>> /\ report'.core = report.core
                            /\ report.core \in {0, c}
  BY <1>1, Zenon DEF CommitStep, LocalStep, AmendStep, Of, ownership, SlotInv, Inv, OwnsReport,
     StillOwned
<1>9. CommitStep(t, x) => epoch' # 0 /\ epoch' = lastCommit'[t]
  BY <1>1 DEF CommitStep, MarkCommitted, SlotInv, Inv, TypeOK
<1>10. report'.core \in 0 .. Len(made')
  BY <1>2, <1>4, <1>5, <1>8 DEF NameInv
<1>11. NamesItsReport(t)'
  <2>1. report'.core = c => epoch' # 0 /\ epoch' = lastCommit'[t]
    BY <1>2, <1>4, <1>7, <1>8, <1>9, Zenon DEF NamesItsReport, IsRunning
  <2>2. x.pc # "idle" => Place(x) /\ x.entry = made'[x.call]
    BY <1>1, <1>4, <1>7, Zenon DEF NamesItsReport, IsRunning, Settling
  <2>3. x.pc # "idle" /\ report'.core = c => Settled(report', x, x)
    BY <1>1, <1>4, Zenon DEF Settling, Settled
  <2> QED
    BY <1>4, <2>1, <2>2, <2>3, Zenon DEF NamesItsReport, IsRunning
<1>12. ASSUME NEW u \in Threads \ {t} PROVE NamesItsReport(u)'
  <2>1. NamesItsReport(u) /\ frame'[u] = frame[u] /\ made' = made
    BY <1>4, Zenon DEF NameInv
  <2>2. ASSUME IsRunning(u), report'.core = frame[u].call
        PROVE  UNCHANGED <<report, epoch, lastCommit>>
    BY <1>2, <1>5, <1>8, <2>2, Zenon
  <2> QED
    BY <2>1, <2>2, Zenon DEF NamesItsReport, IsRunning
<1>13. ASSUME report'.core # 0, report'.core \notin Running'
       PROVE  /\ report'.operation \in FinalNames(made'[report'.core])
              /\ report'.signature_valid /\ made'[report'.core] \in Containers
                    => report'.coverage = report'.core
  <2>1. CASE report'.core = c
    <3>1. x.pc = "idle"
      BY <1>4, <1>13, <2>1, Zenon DEF Running
    <3>2. Settled(report', frame[t], x) /\ frame[t].entry = made[c]
      BY <1>1, <1>4, <1>7, <2>1, Zenon DEF Settling, NamesItsReport, IsRunning
    <3> QED
      BY <1>4, <2>1, <3>1, <3>2, Zenon DEF Settled
  <2>2. CASE report'.core # c
    <3>1. report' = report
      BY <1>2, <1>8, <1>13, <2>2, Zenon
    <3>2. report.core # 0 /\ report.core \notin Running
      BY <1>6, <1>13, <2>2, <3>1, Zenon
    <3> QED
      BY <1>4, <3>1, <3>2, Zenon DEF NameInv, CompletedReportNamed, CoverageDeclared
  <2> QED
    BY <2>1, <2>2, Zenon
<1>14. CompletedReportNamed' /\ CoverageDeclared'
  BY <1>13, Zenon DEF CompletedReportNamed, CoverageDeclared
<1> QED
  BY <1>1, <1>10, <1>11, <1>12, <1>14, Zenon DEF NameInv

\* The first section of a call of entry point e.
LEMMA FirstPlace ==
    ASSUME NEW e \in Verifying \ StrEntries, NEW x,
           x.pc = FirstSection(e), x.entry = e, x.todo = Renames(e), x.mine = FALSE
    PROVE  Place(x)
<1>1. EndsWith(Renames(e), e)
  <2>1. \A a, b : << a >>[Len(<< a >>)] = a /\ << a, b >>[Len(<< a, b >>)] = b
    BY Zenon
  <2>2. Renames(e) \in {<< >>, << e >>, << "VerifyFile", e >>, << "VerifyDataInternalBase64", e >>}
    BY Zenon DEF Renames
  <2> QED
    BY <2>1, <2>2 DEF EndsWith
<1>2. /\ e = "VerifyFileAsicE" => Renames(e) = << >>
      /\ e = "VerifyFileAsicS" => Renames(e) # << >>
      /\ e \in Detached \cup Attached /\ Renames(e) = << >> =>
            e \in {"VerifyData", "VerifyDataInternal"}
  BY Zenon DEF Renames, Detached, Attached, StrEntries
<1>3. /\ FirstSection(e) \in {"enter", "asic", "xades", "format", "record"}
      /\ FirstSection(e) = "enter" => e \in Detached \cup Attached
      /\ FirstSection(e) = "asic" => e \in {"VerifyFileAsicS", "VerifyFileAsicE"}
      /\ FirstSection(e) = "xades" => e = "VerifyFileAsicEXades"
      /\ FirstSection(e) = "format" => e \in Formats
      /\ FirstSection(e) = "record" => e = "RecordVerifyFailure"
  BY Zenon DEF FirstSection, Verifying, Containers
<1>4. e = "VerifyFileAsicEXades" => e \notin Detached \cup Attached
  BY Zenon DEF Detached, Attached
<1> QED
  BY <1>1, <1>2, <1>3, <1>4, Zenon DEF Place, Opening, Containers

\* Every call made of the session keeps the invariant.
LEMMA CallNames ==
    ASSUME NameInv, NEW t \in Threads, Call(t), Entries \cap StrEntries = {}
    PROVE  NameInv'
<1>1. SlotInv' /\ SlotInv
  BY CallImplements, Zenon DEF NameInv
<1>2. /\ frame \in [Threads -> Frame] /\ made \in Seq(Verifying) /\ Len(made) \in Nat
      /\ lastCommit \in [Threads -> Nat]
  BY DEF NameInv, SlotInv, Inv, TypeOK
<1>3. ASSUME NEW e \in Entries, Start(t, e) PROVE NameInv'
  <2> DEFINE n == Len(made) + 1
             x == [Idle(FALSE) EXCEPT !.pc = FirstSection(e), !.entry = e,
                                      !.call = Len(made) + 1, !.todo = Renames(e)]
  <2>1. /\ frame[t].pc = "idle" /\ UNCHANGED <<report, epoch, lastCommit>>
        /\ made' = Append(made, e) /\ e \in Verifying \ StrEntries /\ Goto(t, x)
    BY <1>3, SessionAssumption, Zenon DEF Start, At, session, ownership
  <2>2. /\ Len(made') = n /\ made'[n] = e
        /\ \A k \in 1 .. Len(made) : made'[k] = made[k]
    BY <1>2, <2>1, Appended
  <2>3. /\ x.call = n /\ x.pc = FirstSection(e) /\ x.entry = e
        /\ x.todo = Renames(e) /\ x.mine = FALSE
    BY Zenon DEF Idle
  <2> HIDE DEF x
  <2>4. Place(x)
    BY <2>1, <2>3, FirstPlace, Zenon
  <2>5. frame'[t] = x /\ \A u \in Threads \ {t} : frame'[u] = frame[u]
    BY <1>2, <2>1, Zenon DEF Goto
  <2>6. report.core \in 0 .. Len(made) /\ report.core # n /\ report'.core \in 0 .. Len(made')
    BY <1>2, <2>1, <2>2 DEF NameInv
  <2>7. NamesItsReport(t)'
    BY <2>1, <2>2, <2>3, <2>4, <2>5, <2>6, Zenon DEF NamesItsReport, IsRunning
  <2>8. ASSUME NEW u \in Threads \ {t} PROVE NamesItsReport(u)'
    <3>1. IsRunning(u) => made'[frame[u].call] = made[frame[u].call]
      BY <1>1, <2>2, Zenon DEF SlotInv, CallsDistinct
    <3>2. NamesItsReport(u)
      BY Zenon DEF NameInv
    <3> QED
      BY <2>1, <2>5, <3>1, <3>2, Zenon DEF NamesItsReport, IsRunning
  <2>9. Running \subseteq Running'
    BY <2>1, <2>5, Zenon DEF Running
  <2>10. report.core # 0 => made'[report.core] = made[report.core]
    BY <1>2, <2>2, <2>6
  <2>11. CompletedReportNamed'
    BY <2>1, <2>9, <2>10, Zenon DEF NameInv, CompletedReportNamed
  <2>12. CoverageDeclared'
    BY <2>1, <2>9, <2>10, Zenon DEF NameInv, CoverageDeclared
  <2> QED
    BY <1>1, <2>6, <2>7, <2>8, <2>11, <2>12, Zenon DEF NameInv
<1>4. ASSUME Initialize(t) \/ Finalize(t) PROVE NameInv'
  <2>1. report'.core = 0 /\ UNCHANGED <<frame, made>>
    <3>1. report' = Cleared /\ UNCHANGED <<frame, made>>
      BY <1>4, Zenon DEF Initialize, Finalize, ClearVerifyReport
    <3> QED
      BY <3>1, Zenon DEF Cleared
  <2>2. \A u \in Threads : IsRunning(u) => frame[u].call # 0
    BY <1>1 DEF SlotInv, CallsDistinct
  <2>3. \A u \in Threads : NamesItsReport(u)'
    BY <2>1, <2>2, Zenon DEF NameInv, NamesItsReport, IsRunning
  <2>4. CompletedReportNamed' /\ CoverageDeclared'
    BY <2>1, Zenon DEF CompletedReportNamed, CoverageDeclared
  <2>5. report'.core \in 0 .. Len(made')
    BY <1>2, <2>1
  <2> QED
    BY <1>1, <2>3, <2>4, <2>5, Zenon DEF NameInv
<1>5. ASSUME CommitElsewhere(t) PROVE NameInv'
  <2>1. /\ UNCHANGED <<report, frame, made, epoch>> /\ frame[t].pc = "idle"
        /\ \A u \in Threads \ {t} : lastCommit'[u] = lastCommit[u]
    BY <1>2, <1>5, Zenon DEF CommitElsewhere, session, At
  <2>2. \A u \in Threads : NamesItsReport(u)'
    BY <2>1, Zenon DEF NameInv, NamesItsReport, IsRunning
  <2>3. Running' = Running
    BY <2>1, Zenon DEF Running
  <2>4. CompletedReportNamed' /\ CoverageDeclared'
    BY <2>1, <2>3, Zenon DEF NameInv, CompletedReportNamed, CoverageDeclared
  <2>5. report'.core \in 0 .. Len(made')
    BY <2>1, Zenon DEF NameInv
  <2> QED
    BY <1>1, <2>2, <2>4, <2>5, Zenon DEF NameInv
<1> QED
  BY <1>3, <1>4, <1>5, Zenon DEF Call

\* A step that changes nothing.
LEMMA StutterNames ==
    ASSUME NameInv, UNCHANGED vars
    PROVE  NameInv'
<1>1. UNCHANGED <<report, frame, made, epoch, lastCommit>>
  BY Zenon DEF vars
<1>2. SlotInv'
  BY StutterImplements, Zenon DEF NameInv
<1>3. Running' = Running
  BY <1>1, Zenon DEF Running
<1>4. CompletedReportNamed' /\ CoverageDeclared'
  BY <1>1, <1>3, Zenon DEF NameInv, CompletedReportNamed, CoverageDeclared
<1>5. \A t \in Threads : NamesItsReport(t)'
  BY <1>1, Zenon DEF NameInv, NamesItsReport, IsRunning
<1> QED
  BY <1>1, <1>2, <1>4, <1>5, Zenon DEF NameInv

\* Initially there is no report and no call.
LEMMA InitNames == Init => NameInv
<1> SUFFICES ASSUME Init PROVE NameInv
  BY Zenon
<1>1. SlotInv
  BY InitImplements, Zenon
<1>2. report.core = 0 /\ Len(made) = 0 /\ \A t \in Threads : ~IsRunning(t)
  BY Zenon DEF Init, Cleared, Idle, IsRunning
<1>3. report.core \in 0 .. Len(made)
  BY <1>2
<1> QED
  BY <1>1, <1>2, <1>3, Zenon DEF NameInv, NamesItsReport, CompletedReportNamed, CoverageDeclared

\* NameInv is inductive.
LEMMA NamesKept ==
    ASSUME Entries \cap StrEntries = {}
    PROVE  Spec => []NameInv
<1>1. NameInv /\ [Next]_vars => NameInv'
  <2> SUFFICES ASSUME NameInv, [Next]_vars PROVE NameInv'
    BY Zenon
  <2>1. CASE Next
    BY <2>1, StepNames, CallNames, Zenon DEF Next
  <2>2. CASE UNCHANGED vars
    BY <2>2, StutterNames, Zenon
  <2> QED
    BY <2>1, <2>2, Zenon
<1> QED
  BY InitNames, <1>1, PTL DEF Spec

\* For any number of threads and calls: once the call that produced the report
\* has returned, the report carries the name of the entry point its caller used,
\* whatever inner operations committed it and whatever other calls did between
\* its commit and its renamings (OverrideVerifyReportOperation).
THEOREM CompletedReportsNamed ==
    ASSUME Entries \cap StrEntries = {}
    PROVE  Spec => []CompletedReportNamed
<1>1. NameInv => CompletedReportNamed
  BY Zenon DEF NameInv
<1> QED
  BY <1>1, NamesKept, PTL

\* For any number of threads and calls: a report of a container's Verify* that
\* has returned and says the signature is valid carries that call's own
\* statement of what the signature covers.
THEOREM CoverageIsDeclared ==
    ASSUME Entries \cap StrEntries = {}
    PROVE  Spec => []CoverageDeclared
<1>1. NameInv => CoverageDeclared
  BY Zenon DEF NameInv
<1> QED
  BY <1>1, NamesKept, PTL
=============================================================================
