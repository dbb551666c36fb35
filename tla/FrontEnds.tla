----------------------------- MODULE FrontEnds -----------------------------
(***************************************************************************)
(* The ways into the library: the C interface, the 1C add-in, the command  *)
(* line program, and a C++ caller of the session.  Each turns a request (a *)
(* format, a file or a buffer, a detached signature or none) into one call *)
(* of the session or refuses it, and turns what the session did into its   *)
(* own answer: a return code with a wrapper error, a value with a call     *)
(* status, an exit code.                                                   *)
(*                                                                         *)
(* The session is VerifySession with one thread; the keys are KeyLoading,  *)
(* which shares last_error_ with it.  What a Sign* operation does between  *)
(* preparing its signer and returning bytes is SignSession's; here it      *)
(* succeeds or fails.                                                      *)
(***************************************************************************)
EXTENDS VerifySession

CONSTANTS
    Fronts,         \* the front ends that are used
    Scripts,        \* the commands a session is given, in order
    CliScripts,     \* the commands one run of the program consists of
    Asks,           \* the verify requests: [via, format, sig, readable, evidence]
    NoKey, CertStore, Requests, Offers, Folders, Caches, KeySettings, Reissued

IsList(s) == s \in Seq({s[i] : i \in DOMAIN s})

\* A session has a thread to run in; the keys of a container, and the files
\* beside one, come in an order.
ASSUME FrontAssumption ==
    /\ Threads # {}
    /\ \A r \in Requests : IsList(r.container.keys)
    /\ \A f \in Folders : IsList(f)

VARIABLES
    front,          \* the front end in use
    script,         \* the commands still to come
    job,            \* the command in progress
    told,           \* what the last command answered
    apiError,       \* tamga_session_opaque::last_error_code
    facts,          \* the coverage and the policy verdict in the report
    output,         \* the signature in the output file
    key, load, folder, certCache, settings

Keys == INSTANCE KeyLoading

keyVars   == <<key, load, folder, certCache, settings>>
frontVars == <<front, script, job, told, apiError, facts, output>>
allVars   == <<vars, keyVars, frontVars>>

Self == CHOOSE t \in Threads : TRUE

NoJob == [pc |-> "idle", op |-> "", ask |-> {}, entry |-> "", call |-> 0,
          ok |-> FALSE, valid |-> FALSE]

Nothing == [op |-> "", ask |-> {}, entry |-> "", call |-> 0, ok |-> FALSE,
            valid |-> FALSE, code |-> 0, thrown |-> FALSE]

\* What the validation engine concluded about a valid signature, as far as the
\* exit codes tell it apart, and whether the signatures cover the document.
Policies == {"accepted", "expired", "revoked", "untrusted"}
Unjudged == [covered |-> TRUE, policy |-> "unjudged"]

\* A session that loads no key reads none of the files and settings that key
\* loading depends on: one choice of them stands for all.
KeysUnused ==
    /\ folder = CHOOSE f \in Folders : TRUE
    /\ certCache = CHOOSE c \in Caches : TRUE
    /\ settings = CHOOSE s \in KeySettings : TRUE

FrontInit ==
    /\ Init
    /\ Keys!KeyInit
    /\ front \in Fronts
    /\ script \in IF front = "cli" THEN CliScripts ELSE Scripts
    /\ (\A i \in DOMAIN script : script[i] # "load") => KeysUnused
    /\ job = [NoJob EXCEPT !.pc = IF front = "addin" THEN "idle" ELSE "closed"]
    /\ told = Nothing
    /\ apiError = "None"
    /\ facts = Unjudged
    /\ output = {}

Comes(command) == job.pc = "idle" /\ script # << >> /\ Head(script) = command

\* tamga_session_create and the program's ConfigureSession initialise the
\* session; the add-in leaves that to its user.
Open ==
    /\ job.pc = "closed"
    /\ Initialize(Self)
    /\ job' = NoJob
    /\ UNCHANGED <<keyVars, front, script, told, apiError, facts, output>>

\* tamga_session_configure, and the add-in's Initialize.
Configure ==
    /\ Comes("initialize")
    /\ Initialize(Self)
    /\ script' = Tail(script)
    /\ told' = Nothing
    /\ apiError' = "None"
    /\ facts' = Unjudged
    /\ UNCHANGED <<keyVars, front, job, output>>

\* The add-in's Finalize, which also forgets the key.
AddinFinalize ==
    /\ Comes("finalize")
    /\ front = "addin"
    /\ Finalize(Self)
    /\ key' = Keys!Unloaded
    /\ script' = Tail(script)
    /\ told' = Nothing
    /\ facts' = Unjudged
    /\ UNCHANGED <<load, folder, certCache, settings, front, job, apiError, output>>

-----------------------------------------------------------------------------
(* Which operation a verify request becomes. *)

Xml    == {"xades", "xades-t", "xmldsig"}
AsicOf == [f \in {"asic-s", "asic-e", "asic-e-xades"} |->
             CASE f = "asic-s" -> "VerifyFileAsicS"
               [] f = "asic-e" -> "VerifyFileAsicE"
               [] OTHER -> "VerifyFileAsicEXades"]

\* The operation for a format whose signature is inside the document.
Enclosed(f) ==
    CASE f \in Xml -> "VerifyXml"
      [] f = "pades" -> "VerifyPdf"
      [] f = "cms-attached" -> "VerifyDataInternal"
      [] f \in DOMAIN AsicOf -> AsicOf[f]
      [] OTHER -> "reject"

\* The formats whose file the front end reads itself.
ReadHere == Xml \cup {"pades", "cms-attached"}

\* tamga_session_verify_file.
CapiVerifyFile(q) ==
    CASE q.format = "cms" -> IF q.sig THEN "RawVerifyFile" ELSE "reject"
      [] q.format # "cms" /\ q.sig -> "reject"
      [] q.format \in ReadHere /\ ~q.readable -> "reject"
      [] OTHER -> Enclosed(q.format)

\* tamga_session_verify_data.
CapiVerifyData(q) ==
    CASE q.format = "cms" -> IF q.sig THEN "VerifyData" ELSE "reject"
      [] q.format # "cms" /\ q.sig -> "reject"
      [] q.format \in DOMAIN AsicOf \cup {"xades-t"} -> "reject"
      [] OTHER -> Enclosed(q.format)

\* The add-in's VerifyData, whose signature may be Base64 text.
AddinVerifyData(q) ==
    CASE ~q.readable -> "reject"
      [] q.readable /\ q.format = "cms" -> "VerifyData"
      [] q.readable /\ q.format = "cms-attached" -> "VerifyDataInternal"
      [] OTHER -> "reject"

\* The add-in's VerifyFile; q.sig tells a signature given as a path from one
\* given as a value.
AddinVerifyFile(q) ==
    CASE q.format = "cms" -> IF q.sig THEN "RawVerifyFile"
                             ELSE IF q.readable THEN "VerifyFile" ELSE "reject"
      [] q.format \in {"xades", "pades"} ->
            IF q.readable THEN Enclosed(q.format) ELSE "reject"
      [] q.format \in DOMAIN AsicOf -> AsicOf[q.format]
      [] OTHER -> "reject"

\* The add-in's VerifyXml and VerifyPdf.
AddinVerifyDocument(q) ==
    IF q.readable /\ q.format \in {"xades", "pades"} THEN Enclosed(q.format)
                                                   ELSE "reject"

\* The program's RunVerifyFile.
CliVerifyFile(q) ==
    CASE q.format = "cms" -> IF q.sig THEN "RawVerifyFile" ELSE "reject"
      [] q.format = "xades-t" -> "reject"
      [] q.format \in ReadHere /\ ~q.readable -> "reject"
      [] OTHER -> Enclosed(q.format)

Route(q) ==
    CASE front = "capi" /\ q.via = "file" -> CapiVerifyFile(q)
      [] front = "capi" /\ q.via = "data" -> CapiVerifyData(q)
      [] front = "addin" /\ q.via = "file" -> AddinVerifyFile(q)
      [] front = "addin" /\ q.via = "data" -> AddinVerifyData(q)
      [] front = "addin" /\ q.via = "document" -> AddinVerifyDocument(q)
      [] front = "cpp" -> q.format
      [] OTHER -> CliVerifyFile(q)

\* The requests each front end can be given: the add-in has VerifyXml and
\* VerifyPdf besides, a C++ caller names the operation, only the program
\* writes evidence.
Askable(q) ==
    /\ q.via = "data" => front \in {"capi", "addin"}
    /\ q.via = "document" => front = "addin"
    /\ (q.via = "call") = (front = "cpp")
    /\ q.evidence => front = "cli"

-----------------------------------------------------------------------------
(* Verifying. *)

\* A request becomes a call of the session.  The C interface and the add-in
\* put a refusal into the session's report; the program ends with 1.
BeginVerify(q) ==
    /\ Comes("verify")
    /\ Askable(q)
    /\ \/ /\ ~(front = "cli" /\ Route(q) = "reject")
          /\ LET e == IF Route(q) = "reject" THEN "RecordVerifyFailure" ELSE Route(q)
             IN  /\ Start(Self, e)
                 /\ job' = [NoJob EXCEPT !.pc = "call", !.op = "verify", !.ask = {q},
                                         !.entry = e, !.call = Len(made) + 1]
          /\ told' = Nothing
       \/ /\ front = "cli" /\ Route(q) = "reject"
          /\ told' = [Nothing EXCEPT !.op = "verify", !.ask = {q}, !.code = 1]
          /\ UNCHANGED <<vars, job>>
    /\ script' = Tail(script)
    /\ UNCHANGED <<keyVars, front, apiError, facts, output>>

\* The last sections of a container of CAdES signatures, and of a wrapper.
InAsicE(f) == f.entry = "VerifyFileAsicE" /\ f.pc \in {"facts", "stamp"}

InWrapper(f) == f.pc \in {"rename", "coverage", "stamp"} /\ ~InAsicE(f)

\* The coverage that a section of the call f declares: a data object that no
\* valid signature refers to, or bytes after the last signed revision, make it
\* incomplete; for ASiC-S it is complete by construction.
Coverages(f, stamps) ==
    CASE InAsicE(f) ->
            {c \in BOOLEAN : /\ c => \E i \in DOMAIN f.entries : f.entries[i].valid
                             /\ stamps => c}
      [] InWrapper(f) -> {TRUE}
      [] OTHER -> BOOLEAN

\* The facts follow the report: a commit brings the engine's verdict on a valid
\* signature, a declaration of coverage replaces the default.
Judge ==
    /\ facts' \in [covered : BOOLEAN, policy : Policies \cup {"unjudged"}]
    /\ IF epoch' = epoch
       THEN facts'.policy = facts.policy
       ELSE (facts'.policy = "unjudged") = ~report'.signature_valid
    /\ CASE report'.coverage # 0 /\ report'.coverage # report.coverage ->
               facts'.covered \in Coverages(frame[Self], frame'[Self].pc = "stamp")
         [] report'.coverage = 0 -> facts'.covered
         [] OTHER -> facts'.covered = facts.covered

\* Mutated OutValid: a container's answer is that of its last signature.
OutValidOfLast(f, r, x, ok) == ok /\ r.signature_valid

\* The is_valid that a call leaves in its out-parameter, from its own frame f
\* before its last section: the verdicts that VerifyFileAsicE counted, or what a
\* wrapper got from VerifyData.  A call whose last section commits puts the same
\* local into the report r; x is what that section declares of the coverage.
OutValid(f, r, x, ok) ==
    /\ ok
    /\ CASE InAsicE(f) -> AllValid(f.entries) /\ f.entries # << >> /\ x.covered
         [] InWrapper(f) -> f.valid
         [] ~InAsicE(f) /\ ~InWrapper(f)
               /\ r.operation \in {"VerifyFileAsicEXades", "VerifyPdf"} ->
               r.signature_valid /\ x.covered
         [] OTHER -> r.signature_valid

\* The session takes the next step of the call.
SessionStep ==
    /\ job.pc = "call" /\ job.op = "verify"
    /\ Step(Self)
    /\ Judge
    /\ job' = IF frame'[Self].pc # "idle" THEN job
              ELSE [job EXCEPT !.pc = "return", !.ok = frame'[Self].ok,
                               !.valid = OutValid(frame[Self], report', facts', frame'[Self].ok)]
    /\ UNCHANGED <<keyVars, front, script, told, apiError, output>>

Answer(code) ==
    /\ told' = [op |-> job.op, ask |-> job.ask, entry |-> job.entry, call |-> job.call,
                ok |-> job.ok, valid |-> job.valid, code |-> code, thrown |-> FALSE]
    /\ job' = NoJob

\* SetInternalErrorNoThrow; RejectVerify swallows the exception and reports the
\* refusal.
ThrowError(entry) ==
    IF entry = "RecordVerifyFailure" THEN "InvalidArgument" ELSE "InternalError"

\* An exception ends the call between two sections of the session.  The C
\* interface and the add-in catch it and answer, a C++ caller gets it, and the
\* program ends with it; none of them tells the session.
Throws ==
    /\ job.pc = "call" /\ job.op = "verify"
    /\ Goto(Self, Idle(FALSE))
    /\ told' = [Nothing EXCEPT !.op = "verify", !.ask = job.ask, !.entry = job.entry,
                                !.call = job.call, !.code = 1, !.thrown = TRUE]
    /\ job' = NoJob
    /\ apiError' = IF front = "capi" THEN ThrowError(job.entry) ELSE apiError
    /\ script' = IF front = "cli" THEN << >> ELSE script
    /\ UNCHANGED <<session, ownership, made, keyVars, front, facts, output>>

\* The end of tamga_session_verify_file and tamga_session_verify_data: the
\* wrapper's error is cleared, or copied from the session.
CapiVerified ==
    /\ job.pc = "return" /\ front = "capi"
    /\ apiError' = IF job.ok THEN "None" ELSE lastError.code
    /\ Answer(0)
    /\ UNCHANGED <<vars, keyVars, front, script, facts, output>>

\* The add-in's value (a refused call has none), and a C++ caller's.
AddinVerified ==
    /\ job.pc = "return" /\ front \in {"addin", "cpp"}
    /\ Answer(0)
    /\ UNCHANGED <<vars, keyVars, front, script, apiError, facts, output>>

\* VerificationFailureExitCode; no Verify* leaves one of the error codes that
\* it looks at first.
VerificationFailureExitCode(r, f) ==
    CASE ~r.signature_valid \/ ~f.covered -> 4
      [] r.signature_valid /\ f.covered /\ f.policy = "expired" -> 5
      [] r.signature_valid /\ f.covered /\ f.policy = "revoked" -> 6
      [] OTHER -> 7

MapVerificationExitCode(valid, r, f) ==
    IF valid THEN 0 ELSE VerificationFailureExitCode(r, f)

\* A requested evidence file that was not written overrides the verdict.
ApplyEvidenceOutcome(lost, code) == IF lost THEN 1 ELSE code

\* The end of RunVerifyFile: evidence first, then the exit code.
CliVerified ==
    /\ job.pc = "return" /\ front = "cli"
    /\ \E lost \in BOOLEAN :
          /\ lost => \E q \in job.ask : q.evidence
          /\ Answer(ApplyEvidenceOutcome(lost,
                        MapVerificationExitCode(job.valid, report, facts)))
    /\ UNCHANGED <<vars, keyVars, front, script, apiError, facts, output>>

-----------------------------------------------------------------------------
(* Loading a key and signing. *)

sessionButError == <<initialized, report, metadata, userReport, ownership, frame, made>>

\* tamga_session_read_key_file and _read_key_descriptor, the add-in's LoadKey,
\* the program's LoadKeyIfSpecified (which always gives a path).
BeginLoad(r) ==
    /\ Comes("load")
    /\ front = "cli" => r.onDisk
    /\ Keys!ReadPrivateKey(r)
    /\ job' = [NoJob EXCEPT !.pc = "call", !.op = "load"]
    /\ told' = Nothing
    /\ script' = Tail(script)
    /\ UNCHANGED <<sessionButError, front, apiError, facts, output>>

\* The program refuses two sources of one password, or a password file that it
\* cannot read, before it asks the session.
CliRefusesKey ==
    /\ Comes("load") /\ front = "cli"
    /\ told' = [Nothing EXCEPT !.op = "load", !.code = 2]
    /\ script' = << >>
    /\ UNCHANGED <<vars, keyVars, front, job, apiError, facts, output>>

LoadStep ==
    /\ job.pc = "call" /\ job.op = "load"
    /\ Keys!LoadStep
    /\ UNCHANGED <<sessionButError, frontVars>>

\* The program goes on to sign, or ends with 2.
Loaded ==
    /\ job.pc = "call" /\ job.op = "load" /\ load.pc = "rest"
    /\ told' = [Nothing EXCEPT !.op = "load", !.ok = load.ok,
                               !.code = IF load.ok THEN 0 ELSE 2]
    /\ job' = NoJob
    /\ apiError' = IF front = "capi" THEN lastError.code ELSE apiError
    /\ script' = IF front = "cli" /\ ~load.ok THEN << >> ELSE script
    /\ UNCHANGED <<vars, keyVars, front, facts, output>>

\* The add-in's ResetKey.
AddinResetKey ==
    /\ Comes("reset") /\ front = "addin"
    /\ Keys!ResetPrivateKey
    /\ told' = Nothing
    /\ script' = Tail(script)
    /\ UNCHANGED <<sessionButError, front, job, apiError, facts, output>>

CertificateReissued ==
    /\ Keys!Reissue
    /\ script # << >>
    /\ UNCHANGED <<vars, frontVars>>

\* SignFailureExitCode.
SignFailureExitCode(code, why) ==
    CASE code = "KeyNotLoaded" \/ why = "NoCertificate" -> 2
      [] code = "OnlineServiceUnavailable" /\ why # "NoCertificate" -> 3
      [] OTHER -> 1

SignFails(code, why) ==
    /\ told' = [Nothing EXCEPT !.op = "sign", !.code = SignFailureExitCode(code, why)]
    /\ apiError' = IF front = "capi" THEN code ELSE apiError
    /\ UNCHANGED job

\* A Sign* of the session is refused: the C interface and the program look for
\* the key themselves and leave the session alone.
SignRefused ==
    /\ Comes("sign")
    /\ \/ /\ front \in {"capi", "cli"} /\ ~key.loaded
          /\ SignFails("KeyNotLoaded", "")
          /\ UNCHANGED lastError
       \/ /\ front \notin {"capi", "cli"} /\ ~(initialized /\ key.loaded)
          /\ LET code == IF initialized THEN "KeyNotLoaded" ELSE "NotInitialized"
             IN  Keys!SetKeyError(code) /\ SignFails(code, "")
    /\ script' = Tail(script)
    /\ UNCHANGED <<sessionButError, keyVars, front, facts, output>>

\* A Sign* of the session: it fails to prepare its signer, it fails later (the
\* time-stamping service, a file), or it returns a signature.
Sign ==
    /\ Comes("sign")
    /\ initialized /\ key.loaded
    /\ \/ /\ ~Keys!Signer.ok
          /\ Keys!SetKeyError("InternalError")
          /\ SignFails("InternalError", Keys!Signer.why)
       \/ /\ Keys!Signer.ok
          /\ \E code \in {"OnlineServiceUnavailable", "InternalError"} :
                Keys!SetKeyError(code) /\ SignFails(code, "")
       \/ /\ Keys!Signer.ok
          /\ Keys!SetKeyError("None")
          /\ job' = [NoJob EXCEPT !.pc = "write", !.op = "sign"]
          /\ told' = Nothing
          /\ UNCHANGED apiError
    /\ script' = Tail(script)
    /\ UNCHANGED <<sessionButError, keyVars, front, facts, output>>

\* The signature is written (or returned), or the write fails.  The C interface
\* then copies the session's error, which is None.
WriteOutput ==
    /\ job.pc = "write"
    /\ \/ /\ output' = {[key |-> Keys!Signer.key, certificate |-> Keys!Signer.certificate]}
          /\ told' = [Nothing EXCEPT !.op = "sign", !.ok = TRUE]
       \/ /\ told' = [Nothing EXCEPT !.op = "sign",
                                     !.code = SignFailureExitCode(lastError.code, "")]
          /\ UNCHANGED output
    /\ apiError' = IF front = "capi" THEN lastError.code ELSE apiError
    /\ job' = NoJob
    /\ UNCHANGED <<vars, keyVars, front, script, facts>>

-----------------------------------------------------------------------------
FrontNext ==
    \/ Open \/ Configure \/ AddinFinalize
    \/ \E q \in Asks : BeginVerify(q)
    \/ SessionStep \/ Throws \/ CapiVerified \/ AddinVerified \/ CliVerified
    \/ \E r \in Requests : BeginLoad(r)
    \/ CliRefusesKey \/ LoadStep \/ Loaded \/ AddinResetKey \/ CertificateReissued
    \/ SignRefused \/ Sign \/ WriteOutput

FrontSpec == FrontInit /\ [][FrontNext]_allVars

-----------------------------------------------------------------------------
(* Properties. *)

Answered == job.pc = "idle" /\ told.op = "verify"

\* A front end says "valid" only of a verification that ran, whose report is
\* the session's report and says so too: the signature is valid, every
\* signature of a container is and has the time stamps found for it, and all of
\* the document is covered.
ValidIsEarned ==
    Answered /\ told.valid
        => /\ told.ok
           /\ report.core = told.call
           /\ report.signature_valid
           /\ AllValid(report.entries)
           /\ \A i \in DOMAIN report.entries : report.entries[i].kept
           /\ facts.covered

\* What a caller reads after a verification is about that verification.  The C
\* interface has an error exactly when it answers with one, exceptions included.
\* The report of a call that returned is of this request, and of one that was
\* refused or failed it says that nothing ran; the session's error is of this
\* request, or there is none; of a request that VerifyXml or VerifyPdf refused,
\* only the error is.  A call that an exception ended leaves what it had written
\* so far, or an earlier call's report and error.
AnswerIsOfRequest ==
    Answered /\ told.call # 0
        => /\ front = "capi" => told.ok = (apiError = "None")
           /\ ~told.thrown
                => /\ told.ok \/ told.entry \notin Formats => report.core = told.call
                   /\ report.core = told.call
                        => report.has_result /\ (report.executed => told.ok)
                   /\ lastError.code # "None" => lastError.by = told.call
                   /\ told.ok \/ lastError.code # "None"

\* A command that reports a signature has written one, made with the private
\* key that its certificate certifies, by a certificate that allows signing,
\* and by the named one unless the container brought its own.
SignedAsAsked ==
    told.op = "sign" /\ told.ok
        => \E s \in output : \E c \in s.certificate :
              /\ c.key = s.key /\ c.signs
              /\ key.named # {} /\ key.source # "container" => c \in key.named

\* The certificate that the resolver accepted can be signed with.
ResolvedSigns == Keys!ResolvedSigns

\* A certificate put beside the key is preferred to the cached one.
BesideIsPreferred == Keys!BesideIsPreferred

\* docs/cli.md, exit codes: 6 for a certificate that OCSP or a CRL revoked, 5
\* for an expired one; 0 only for a signature that is valid in full.
ExitCodeTellsPolicy ==
    Answered /\ front = "cli" /\ told.ok /\ told.code # 1 /\ facts.covered
        => /\ facts.policy = "expired" => told.code = 5
           /\ facts.policy = "revoked" => told.code = 6
=============================================================================
