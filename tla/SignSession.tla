---------------------------- MODULE SignSession ----------------------------
(***************************************************************************)
(* The signing side of tamga::core::Session shared by several threads: the *)
(* lifecycle and settings calls, the loading of a private key, and every   *)
(* Sign* entry point, down to the output file they leave.                  *)
(*                                                                         *)
(* One action is one section under Session::mutex_, or one stretch of work *)
(* between two sections (reading a file, asking the TSA, building a        *)
(* container), so that settings, the key and the shared last_error_ may    *)
(* change between any two of them.  WriteBytesAtomic is one step here;     *)
(* module AtomicFile shows why it may be.                                  *)
(*                                                                         *)
(* Documents are left out.  A signature is the key that made it and        *)
(* whether it carries a time stamp; a certificate is the key it certifies. *)
(***************************************************************************)
EXTENDS Naturals, FiniteSets

CONSTANTS
    Threads,        \* threads that share the session
    Keys,           \* private keys (and the certificates made for them)
    Urls,           \* addresses of time-stamping services
    IssuerUrl,      \* the address the issuer table knows for a key's issuer
    InContainer,    \* the certificates a key's container may bring, None for none
    Ops,            \* the Sign* and ReadPrivateKey* operations the threads call
    MaxCalls        \* bound: calls in a behaviour

Direct   == {"SignData", "SignDataInternal"}
Base64   == {"SignDataBase64", "SignDataInternalBase64"}
Cades    == {"SignFileAsicSCades", "SignFileAsicECades"}
Writing  == Cades \cup {"RawSignFile", "AddSignatureToAsicE", "SignFileAsicXades"}
Formats  == {"SignXml", "SignPdf", "SignPdfLT"}
Signing  == Direct \cup Base64 \cup Writing \cup Formats \cup {"SignFile"}
Loading  == {"ReadPrivateKey", "ReadPrivateKeyFile", "ReadPrivateKeyBinary"}
Calling  == Signing \cup Loading \cup {"SyncTrustList"}

\* The operations that take the key out of the session at entry.
Snapshots == Formats \cup {"SignFileAsicXades"}

None == ""          \* no key, no certificate, no address

ASSUME SignAssumption ==
    /\ None \notin Keys \cup Urls
    /\ IssuerUrl \in [Keys -> Urls \cup {None}]
    /\ InContainer \in [Keys -> SUBSET (Keys \cup {None})]
    /\ Ops \subseteq Signing \cup Loading
    /\ MaxCalls \in Nat

VARIABLES
    initialized,    \* is_initialized_
    loaded,         \* is_private_key_loaded_
    key,            \* loaded_key_, loaded_key_material_, loaded_key_password_
    cert,           \* loaded_certificate_
    offline,        \* settings_.offline_mode
    tsp,            \* tsp_settings_.url
    overwrite,      \* file_store_settings_.allow_overwrite
    lastError,      \* last_error_, with the call that set it
    tlUrl,          \* the TSA in policy/trust-store-metadata.json
    file,           \* the output file of the Sign*File operations
    frame,          \* what each thread is executing
    calls           \* calls made so far

keyVars == <<loaded, key, cert>>
setVars == <<offline, tsp, overwrite>>
vars    == <<initialized, loaded, key, cert, offline, tsp, overwrite, lastError,
             tlUrl, file, frame, calls>>

Modes == {"Disabled", "BestEffort", "Required"}
Codes == {"None", "NotInitialized", "KeyNotLoaded", "InvalidArgument",
          "InternalError", "OnlineServiceUnavailable", "NotSupported"}
PCs   == {"idle", "done", "parse", "resolveCert", "commit", "sync", "syncCommit",
          "exists", "input", "extract", "sign", "resolve", "memo", "tsp", "clear",
          "wrap", "capture", "ready", "build", "pack", "write", "trunc", "finish"}

NoSig     == [by |-> None, stamped |-> FALSE]
Signature == [by : Keys \cup {None}, stamped : BOOLEAN]
File      == [state : {"absent", "empty", "signed"}, call : 0 .. MaxCalls,
              stamped : BOOLEAN]

\* alone, online, failed and kept are observed by the properties only: no other
\* call overlapped this one; the session was online at some time during it; a
\* TSA was asked in vain; the older signature could not be emptied.
Frame == [pc : PCs, op : Calling \cup {""}, mode : Modes, call : 0 .. MaxCalls,
          key : Keys \cup {None}, cert : Keys \cup {None}, hint : BOOLEAN,
          conf : Urls \cup {None}, url : Urls \cup {None}, offline : BOOLEAN,
          over : BOOLEAN, existed : BOOLEAN, sig : Signature, saved : Codes,
          ok : BOOLEAN, alone : BOOLEAN, online : BOOLEAN, failed : BOOLEAN,
          kept : BOOLEAN]

Idle == [pc |-> "idle", op |-> "", mode |-> "Disabled", call |-> 0, key |-> None,
         cert |-> None, hint |-> FALSE, conf |-> None, url |-> None,
         offline |-> FALSE, over |-> FALSE, existed |-> FALSE, sig |-> NoSig,
         saved |-> "None", ok |-> FALSE, alone |-> FALSE, online |-> FALSE,
         failed |-> FALSE, kept |-> FALSE]

At(t, pc) == frame[t].pc = pc

Goto(t, f) == frame' = [frame EXCEPT ![t] = f]

SetError(code, c) == lastError' = [code |-> code, by |-> c]

ClearError == lastError' = [code |-> "None", by |-> 0]

\* Thread t starts a call whose frame is f.
Enter(t, f) ==
    /\ At(t, "idle")
    /\ calls < MaxCalls
    /\ calls' = calls + 1
    /\ frame' = [u \in Threads |->
                    IF u = t
                    THEN [f EXCEPT !.call = calls + 1, !.online = ~offline,
                                   !.alone = \A v \in Threads \ {t} : At(v, "idle")]
                    ELSE [frame[u] EXCEPT !.alone = FALSE]]

\* The call returns ok; its locals are gone, its output is empty on failure.
Done(f, ok) ==
    [Idle EXCEPT !.pc = "done", !.op = f.op, !.mode = f.mode, !.call = f.call, !.ok = ok,
                 !.sig = IF ok THEN f.sig ELSE NoSig, !.existed = f.existed,
                 !.alone = f.alone, !.online = f.online, !.failed = f.failed]

\* The call of t fails with an error, its output cleared.
Fail(t, code) ==
    /\ SetError(code, frame[t].call)
    /\ Goto(t, Done(frame[t], FALSE))

-----------------------------------------------------------------------------
(* Lifecycle and settings: one section each. *)

\* A call that is a single section, over as soon as it is made.
Atomic(t) ==
    /\ At(t, "idle")
    /\ calls < MaxCalls
    /\ calls' = calls + 1
    /\ frame' = [u \in Threads |->
                    [frame[u] EXCEPT !.alone = FALSE,
                        !.online = @ \/ (~At(u, "idle") /\ ~offline')]]

Initialize(t) ==
    /\ initialized' = TRUE
    /\ ClearError
    /\ UNCHANGED <<keyVars, setVars, tlUrl, file>>
    /\ Atomic(t)

\* SecureClearLoadedKey with is_private_key_loaded_ = false.
ForgetKey ==
    /\ loaded' = FALSE
    /\ key' = None
    /\ cert' = None

Finalize(t) ==
    /\ ForgetKey
    /\ initialized' = FALSE
    /\ ClearError
    /\ UNCHANGED <<setVars, tlUrl, file>>
    /\ Atomic(t)

ResetPrivateKey(t) ==
    /\ ForgetKey
    /\ ClearError
    /\ UNCHANGED <<initialized, setVars, tlUrl, file>>
    /\ Atomic(t)

\* A setter refuses its argument, or the feature: SetSettings, SetOcspSettings,
\* SetTspSettings, SetLdapSettings, SetCmpSettings, SetTrustListSettings.
SettingsRefused(t) ==
    /\ \E code \in {"InvalidArgument", "NotSupported"} : SetError(code, calls + 1)
    /\ UNCHANGED <<initialized, keyVars, setVars, tlUrl, file>>
    /\ Atomic(t)

SetSettings(t) ==
    /\ offline' \in BOOLEAN
    /\ Atomic(t)
    /\ ClearError
    /\ UNCHANGED <<initialized, keyVars, tsp, overwrite, tlUrl, file>>

SetTspSettings(t) ==
    /\ tsp' \in Urls \cup {None}
    /\ ClearError
    /\ UNCHANGED <<initialized, keyVars, offline, overwrite, tlUrl, file>>
    /\ Atomic(t)

SetFileStoreSettings(t) ==
    /\ overwrite' \in BOOLEAN
    /\ ClearError
    /\ UNCHANGED <<initialized, keyVars, offline, tsp, tlUrl, file>>
    /\ Atomic(t)

SyncStart(t) ==
    /\ Enter(t, [Idle EXCEPT !.op = "SyncTrustList", !.offline = offline,
                             !.pc = IF initialized THEN "sync" ELSE "done"])
    /\ IF initialized THEN UNCHANGED lastError ELSE SetError("NotInitialized", calls + 1)
    /\ UNCHANGED <<initialized, keyVars, setVars, tlUrl, file>>

\* TrustListSync::Sync (module PolicyCache) on local copies.
SyncRun(t) ==
    /\ At(t, "sync")
    /\ ~frame[t].offline
    /\ \E ok \in BOOLEAN :
         /\ Goto(t, [frame[t] EXCEPT !.pc = "syncCommit", !.ok = ok])
         /\ IF ok THEN tlUrl' \in Urls \cup {None} ELSE UNCHANGED tlUrl
    /\ UNCHANGED <<initialized, keyVars, setVars, lastError, file, calls>>

SyncCommit(t) ==
    /\ \/ /\ At(t, "sync")
          /\ frame[t].offline
          /\ Fail(t, "OnlineServiceUnavailable")
       \/ /\ At(t, "syncCommit")
          /\ Goto(t, Done(frame[t], frame[t].ok))
          /\ IF frame[t].ok THEN ClearError
             ELSE SetError("OnlineServiceUnavailable", frame[t].call)
    /\ UNCHANGED <<initialized, keyVars, setVars, tlUrl, file, calls>>

-----------------------------------------------------------------------------
(* Loading a private key: none of these calls asks for an initialized      *)
(* session.                                                                *)

ReadPrivateKey(t) ==
    /\ \E op \in Ops \cap Loading, k \in Keys, h \in BOOLEAN :
         /\ h => op = "ReadPrivateKey"
         /\ Enter(t, [Idle EXCEPT !.op = op, !.pc = "parse", !.key = k, !.hint = h])
    /\ UNCHANGED <<initialized, keyVars, setVars, lastError, tlUrl, file>>

Brought(k) == IF k \in Keys THEN InContainer[k] ELSE {}

\* The container is read and normalised.  A certificate it brings need not be
\* one of the key: JKS falls back to the entry's own, PEM takes its first.
NormalizeKeyContainer(t) ==
    /\ At(t, "parse")
    /\ \/ Fail(t, "InvalidArgument")
       \/ /\ \E c \in Brought(frame[t].key) :
               Goto(t, [frame[t] EXCEPT !.pc = IF c = None THEN "resolveCert" ELSE "commit",
                                        !.cert = c])
          /\ UNCHANGED lastError
    /\ UNCHANGED <<initialized, keyVars, setVars, tlUrl, file, calls>>

\* CertificateResolver answers only with a certificate of this very key.  A
\* miss is an error when the caller named the certificate.
ResolveMissingCertificate(t) ==
    /\ At(t, "resolveCert")
    /\ \/ /\ Goto(t, [frame[t] EXCEPT !.pc = "commit", !.cert = frame[t].key])
          /\ UNCHANGED lastError
       \/ /\ ~frame[t].hint
          /\ Goto(t, [frame[t] EXCEPT !.pc = "commit"])
          /\ UNCHANGED lastError
       \/ /\ frame[t].hint
          /\ Fail(t, "InvalidArgument")
    /\ UNCHANGED <<initialized, keyVars, setVars, tlUrl, file, calls>>

\* Mutated CommitLoadedKey: a key without a certificate keeps the old one.
CommitKeepsCertificate(t) ==
    /\ At(t, "commit")
    /\ key' = frame[t].key
    /\ cert' = IF frame[t].cert = None THEN cert ELSE frame[t].cert
    /\ loaded' = TRUE
    /\ ClearError
    /\ Goto(t, Done(frame[t], TRUE))
    /\ UNCHANGED <<initialized, setVars, tlUrl, file, calls>>

CommitLoadedKey(t) ==
    /\ At(t, "commit")
    /\ key' = frame[t].key
    /\ cert' = frame[t].cert
    /\ loaded' = TRUE
    /\ ClearError
    /\ Goto(t, Done(frame[t], TRUE))
    /\ UNCHANGED <<initialized, setVars, tlUrl, file, calls>>

-----------------------------------------------------------------------------
(* Entering a Sign* operation. *)

\* The signer refuses a certificate of another key.
Corresponds(k, c) == c \in {None, k}

\* SignData and its wrappers take no section of their own before signing;
\* SignFile and RawSignFile first copy the file settings.
StartUnchecked(t) ==
    /\ \E op \in Ops \cap (Direct \cup Base64 \cup {"SignFile", "RawSignFile"}),
          mode \in Modes :
         /\ op \in Base64 => mode = "BestEffort"
         /\ Enter(t, [Idle EXCEPT !.op = op, !.mode = mode,
                        !.over = op \in {"SignFile", "RawSignFile"} /\ overwrite,
                        !.pc = CASE op = "SignFile"    -> "input"
                                 [] op = "RawSignFile" -> "exists"
                                 [] OTHER              -> "sign"])
    /\ UNCHANGED <<initialized, keyVars, setVars, lastError, tlUrl, file>>

\* The other operations check the state first.  SignXml and SignPdf are
\* Disabled without a time stamp (xades-bes, pades-b) and Required with one.
StartChecked(t) ==
    /\ \E op \in Ops \cap (Cades \cup Snapshots \cup {"AddSignatureToAsicE"}),
          mode \in Modes :
         LET f == [Idle EXCEPT !.op = op, !.mode = mode,
                              !.over = op \notin Formats /\ overwrite]
             taken == [f EXCEPT !.key = key, !.cert = cert, !.conf = tsp,
                                !.offline = offline]
         IN /\ mode = "BestEffort" <=> op \notin Formats
            /\ op = "SignPdfLT" => mode = "Required"
            /\ \/ /\ ~initialized
                  /\ SetError("NotInitialized", calls + 1)
                  /\ Enter(t, Done(f, FALSE))
               \/ /\ initialized /\ ~loaded
                  /\ SetError("KeyNotLoaded", calls + 1)
                  /\ Enter(t, Done(f, FALSE))
               \/ /\ initialized /\ loaded
                  /\ Enter(t, IF op \in Snapshots THEN [taken EXCEPT !.pc = "extract"]
                              ELSE [f EXCEPT !.pc = "input"])
                  /\ UNCHANGED lastError
    /\ UNCHANGED <<initialized, keyVars, setVars, tlUrl, file>>

\* Plain XMLDSIG: SignXml runs in one section.
SignXmlPlain(t) ==
    /\ "SignXml" \in Ops
    /\ \E ok \in BOOLEAN :
         /\ ok => initialized /\ loaded /\ Corresponds(key, cert)
         /\ Enter(t, Done([Idle EXCEPT !.op = "SignXml", !.key = key, !.cert = cert,
                                       !.sig = [by |-> key, stamped |-> FALSE]], ok))
         /\ CASE ~initialized -> SetError("NotInitialized", calls + 1)
              [] initialized /\ ~loaded -> SetError("KeyNotLoaded", calls + 1)
              [] initialized /\ loaded /\ ~ok -> SetError("InternalError", calls + 1)
              [] ok -> ClearError
    /\ UNCHANGED <<initialized, keyVars, setVars, tlUrl, file>>

-----------------------------------------------------------------------------
(* SignData and SignDataInternal, whoever calls them. *)

\* The signing part of a call fails: SignData or SignFile returns false.  The
\* operations built on them return false too; RawSignFile first looks at the
\* file of an earlier signature.
SigningFails(t, code) ==
    /\ SetError(code, frame[t].call)
    /\ Goto(t, IF frame[t].op = "RawSignFile"
               THEN [frame[t] EXCEPT !.pc = "trunc", !.sig = NoSig]
               ELSE Done(frame[t], FALSE))

\* Where the caller of SignData goes on with the signature f.sig.
Signed(f) ==
    CASE f.op \in Direct \cup {"SignFile"}  -> Done(f, TRUE)
      [] f.op \in Base64                    -> [f EXCEPT !.pc = "wrap"]
      [] f.op = "RawSignFile"               -> [f EXCEPT !.pc = "write"]
      [] f.op \in Cades                     -> [f EXCEPT !.pc = "capture"]
      [] f.op = "AddSignatureToAsicE"       -> [f EXCEPT !.pc = "pack"]

\* Reading the input file or container and, for ASiC-E, digesting its documents
\* into the manifest that will be signed.
ReadInput(t) ==
    /\ At(t, "input")
    /\ \/ /\ UNCHANGED lastError
          /\ Goto(t, [frame[t] EXCEPT !.pc = IF frame[t].op \in Snapshots THEN "resolve"
                                            ELSE "sign"])
       \/ SigningFails(t, "InvalidArgument")
       \/ /\ frame[t].op \in {"SignFileAsicECades", "AddSignatureToAsicE"}
          /\ SigningFails(t, "InternalError")
    /\ UNCHANGED <<initialized, keyVars, setVars, tlUrl, file, calls>>

\* The first section: the state is checked, the signature is made with the
\* session's key, and the time-stamping settings are copied.
Sign(t) ==
    /\ At(t, "sign")
    /\ \/ ~initialized /\ SigningFails(t, "NotInitialized")
       \/ initialized /\ ~loaded /\ SigningFails(t, "KeyNotLoaded")
       \/ initialized /\ loaded /\ SigningFails(t, "InternalError")
       \/ /\ initialized /\ loaded /\ Corresponds(key, cert)
          /\ Goto(t, [frame[t] EXCEPT
                        !.pc = IF frame[t].mode = "Disabled" THEN "clear" ELSE "resolve",
                        !.sig = [by |-> key, stamped |-> FALSE], !.key = key,
                        !.cert = cert, !.conf = tsp, !.offline = offline])
          /\ UNCHANGED lastError
    /\ UNCHANGED <<initialized, keyVars, setVars, tlUrl, file, calls>>

\* ResolveDefaultTspUrlCombined: the synchronised trust list, then the table.
Default(c) ==
    IF tlUrl # None THEN tlUrl ELSE IF c = None THEN None ELSE IssuerUrl[c]

ResolveTspUrl(t) ==
    /\ At(t, "resolve")
    /\ LET f == frame[t]
       IN Goto(t, [f EXCEPT !.url = IF f.conf # None THEN f.conf ELSE Default(f.cert),
                            !.pc = CASE f.op \in Formats -> "ready"
                                     [] f.op = "SignFileAsicXades" -> "build"
                                     [] OTHER -> "memo"])
    /\ UNCHANGED <<initialized, keyVars, setVars, lastError, tlUrl, file, calls>>

\* The resolved address becomes the session's, unless one has been set since.
RememberTspUrl(t) ==
    /\ At(t, "memo")
    /\ Goto(t, [frame[t] EXCEPT !.pc = "tsp"])
    /\ tsp' = IF /\ frame[t].url # None /\ frame[t].conf = None /\ ~frame[t].offline
                 /\ tsp = None
              THEN frame[t].url ELSE tsp
    /\ UNCHANGED <<initialized, keyVars, offline, overwrite, lastError, tlUrl, file, calls>>

\* There is an address to ask and the session may ask it.
CanStamp(f) == f.url # None /\ ~f.offline

\* GetTimestamp answers and AppendTspToken takes the token.
Stamped(t) ==
    /\ At(t, "tsp")
    /\ CanStamp(frame[t])
    /\ Goto(t, Signed([frame[t] EXCEPT !.sig = [by |-> @.by, stamped |-> TRUE]]))
    /\ ClearError
    /\ UNCHANGED <<initialized, keyVars, setVars, tlUrl, file, calls>>

\* Mutated NotStamped: a failed request is forgiven in every mode.
NotStampedForgiven(t) ==
    /\ At(t, "tsp")
    /\ \/ /\ CanStamp(frame[t])
          /\ SetError("OnlineServiceUnavailable", frame[t].call)
       \/ /\ ~CanStamp(frame[t])
          /\ ClearError
    /\ Goto(t, [frame[t] EXCEPT !.pc = "clear", !.failed = CanStamp(frame[t])])
    /\ UNCHANGED <<initialized, keyVars, setVars, tlUrl, file, calls>>

\* The TSA cannot be asked, does not answer, or its token does not fit.  Only
\* TimestampMode::Required makes that a failure.
NotStamped(t) ==
    /\ At(t, "tsp")
    /\ \/ /\ frame[t].mode = "Required"
          /\ SigningFails(t, "OnlineServiceUnavailable")
       \/ /\ frame[t].mode = "BestEffort"
          /\ CanStamp(frame[t])
          /\ SetError("OnlineServiceUnavailable", frame[t].call)
          /\ Goto(t, [frame[t] EXCEPT !.pc = "clear", !.failed = TRUE])
       \/ /\ frame[t].mode = "BestEffort"
          /\ ~CanStamp(frame[t])
          /\ ClearError
          /\ Goto(t, [frame[t] EXCEPT !.pc = "clear"])
       \/ /\ frame[t].mode = "BestEffort"
          /\ CanStamp(frame[t])
          /\ ClearError
          /\ Goto(t, Signed([frame[t] EXCEPT !.failed = TRUE]))
    /\ UNCHANGED <<initialized, keyVars, setVars, tlUrl, file, calls>>

\* Mutated ClearAfterSigning: the error of the attempt stays.
SignedWithError(t) ==
    /\ At(t, "clear")
    /\ Goto(t, Signed(frame[t]))
    /\ UNCHANGED <<initialized, keyVars, setVars, lastError, tlUrl, file, calls>>

\* The last section of SignData.
ClearAfterSigning(t) ==
    /\ At(t, "clear")
    /\ ClearError
    /\ Goto(t, Signed(frame[t]))
    /\ UNCHANGED <<initialized, keyVars, setVars, tlUrl, file, calls>>

\* The section of SignDataBase64 and SignDataInternalBase64.
Base64Wrap(t) ==
    /\ At(t, "wrap")
    /\ ClearError
    /\ Goto(t, Done(frame[t], TRUE))
    /\ UNCHANGED <<initialized, keyVars, setVars, tlUrl, file, calls>>

-----------------------------------------------------------------------------
(* XAdES and PAdES, which work on their own copy of the key. *)

\* ExtractSignerCertificate looks into the container when there is no
\* certificate beside it.
ExtractCertificate(t) ==
    /\ At(t, "extract")
    /\ \E c \in IF frame[t].cert = None THEN {None, frame[t].key} ELSE {frame[t].cert} :
         Goto(t, [frame[t] EXCEPT !.cert = c,
                    !.pc = CASE frame[t].op = "SignFileAsicXades" -> "input"
                             [] frame[t].op # "SignFileAsicXades" /\ frame[t].mode = "Required"
                                  -> "resolve"
                             [] OTHER -> "build"])
    /\ UNCHANGED <<initialized, keyVars, setVars, lastError, tlUrl, file, calls>>

\* Profiles with a time stamp need a TSA, and pades-lt revocation evidence.
PrepareFormat(t) ==
    /\ At(t, "ready")
    /\ \/ /\ ~CanStamp(frame[t])
          /\ Fail(t, "OnlineServiceUnavailable")
       \/ /\ CanStamp(frame[t])
          /\ Goto(t, [frame[t] EXCEPT !.pc = "build"])
          /\ UNCHANGED lastError
       \/ /\ CanStamp(frame[t])
          /\ frame[t].op = "SignPdfLT"
          /\ Fail(t, "OnlineServiceUnavailable")
    /\ UNCHANGED <<initialized, keyVars, setVars, tlUrl, file, calls>>

\* XadesBuilder::Sign and PadesBuilder::SignPdf: without the time stamp their
\* profile asks for they fail.
BuildFormat(t) ==
    /\ At(t, "build")
    /\ frame[t].op \in Formats
    /\ \/ Fail(t, "InternalError")
       \/ /\ Corresponds(frame[t].key, frame[t].cert)
          /\ ClearError
          /\ Goto(t, Done([frame[t] EXCEPT !.sig = [by |-> frame[t].key,
                                stamped |-> frame[t].mode = "Required"]], TRUE))
    /\ UNCHANGED <<initialized, keyVars, setVars, tlUrl, file, calls>>

\* SignFileAsicXades signs with a time stamp when it can; when that fails it
\* signs again without.
BuildXades(t) ==
    /\ At(t, "build")
    /\ frame[t].op = "SignFileAsicXades"
    /\ \/ Fail(t, "InternalError")
       \/ /\ Corresponds(frame[t].key, frame[t].cert)
          /\ \E stamped \in {TRUE, FALSE} :
               /\ stamped => CanStamp(frame[t])
               /\ Goto(t, [frame[t] EXCEPT !.pc = "pack",
                            !.sig = [by |-> frame[t].key, stamped |-> stamped],
                            !.failed = ~stamped /\ CanStamp(frame[t])])
          /\ UNCHANGED lastError
    /\ UNCHANGED <<initialized, keyVars, setVars, tlUrl, file, calls>>

-----------------------------------------------------------------------------
(* Containers and output files. *)

\* SignFileAsicSCades and SignFileAsicECades look at how SignData ended.
CaptureError(t) ==
    /\ At(t, "capture")
    /\ Goto(t, [frame[t] EXCEPT !.pc = "pack", !.saved = lastError.code])
    /\ UNCHANGED <<initialized, keyVars, setVars, lastError, tlUrl, file, calls>>

Pack(t) ==
    /\ At(t, "pack")
    /\ \/ Fail(t, "InternalError")
       \/ /\ Goto(t, [frame[t] EXCEPT !.pc = "exists"])
          /\ UNCHANGED lastError
    /\ UNCHANGED <<initialized, keyVars, setVars, tlUrl, file, calls>>

\* Without allow_overwrite an existing output file is refused: by RawSignFile
\* before it signs, by the containers before they write.
CheckOutput(t) ==
    /\ At(t, "exists")
    /\ LET f == frame[t]
           exists == file.state # "absent"
       IN IF ~f.over /\ exists
          THEN Fail(t, "InvalidArgument")
          ELSE /\ Goto(t, [f EXCEPT !.existed = exists,
                            !.pc = IF f.op = "RawSignFile" THEN "input" ELSE "write"])
               /\ UNCHANGED lastError
    /\ UNCHANGED <<initialized, keyVars, setVars, tlUrl, file, calls>>

Write(t) ==
    /\ At(t, "write")
    /\ file' = [state |-> "signed", call |-> frame[t].call, stamped |-> frame[t].sig.stamped]
    /\ Goto(t, [frame[t] EXCEPT !.pc = "finish"])
    /\ UNCHANGED <<initialized, keyVars, setVars, lastError, tlUrl, calls>>

\* Mutated WriteFails: the target was opened for writing before it failed.
WriteFailsInPlace(t) ==
    /\ At(t, "write")
    /\ Fail(t, "InternalError")
    /\ file' = [state |-> "signed", call |-> frame[t].call, stamped |-> FALSE]
    /\ UNCHANGED <<initialized, keyVars, setVars, tlUrl, calls>>

\* AtomicWriteStatus::TargetUnusable or WriteFailed: the file is untouched.
WriteFails(t) ==
    /\ At(t, "write")
    /\ \/ Fail(t, "InternalError")
       \/ frame[t].op # "RawSignFile" /\ Fail(t, "InvalidArgument")
    /\ UNCHANGED <<initialized, keyVars, setVars, tlUrl, file, calls>>

Stale(f) == f.mode = "Required" /\ f.existed

\* RawSignFile with a required time stamp empties the signature it found, if
\* the file can be opened: the outcome of the stream is not looked at.
ClearStaleOutput(t) ==
    /\ At(t, "trunc")
    /\ \/ /\ Stale(frame[t])
          /\ file' = [state |-> "empty", call |-> 0, stamped |-> FALSE]
          /\ Goto(t, Done(frame[t], FALSE))
       \/ /\ file' = file
          /\ Goto(t, [Done(frame[t], FALSE) EXCEPT !.kept = Stale(frame[t])])
    /\ UNCHANGED <<initialized, keyVars, setVars, lastError, tlUrl, calls>>

\* The file is written.  A container that asked for a time stamp in vain says so.
Finish(t) ==
    /\ At(t, "finish")
    /\ IF \/ frame[t].op \in Cades /\ frame[t].saved = "OnlineServiceUnavailable"
          \/ frame[t].op = "SignFileAsicXades" /\ frame[t].failed
       THEN SetError("OnlineServiceUnavailable", frame[t].call)
       ELSE ClearError
    /\ Goto(t, Done(frame[t], TRUE))
    /\ UNCHANGED <<initialized, keyVars, setVars, tlUrl, file, calls>>

Return(t) ==
    /\ At(t, "done")
    /\ Goto(t, Idle)
    /\ UNCHANGED <<initialized, keyVars, setVars, lastError, tlUrl, file, calls>>

-----------------------------------------------------------------------------
\* The certificates that loading k can put beside it: none, the resolver's,
\* which is one of k, or what k's own container brought.
Found(k) == {None, k} \cup Brought(k)

\* An initialized session on which settings calls and key loads have been made
\* and have returned; the output path may hold an older signature.
Init ==
    /\ initialized = TRUE
    /\ key \in Keys \cup {None}
    /\ loaded = (key # None)
    /\ cert \in Found(key)
    /\ offline \in BOOLEAN
    /\ tsp = None
    /\ overwrite \in BOOLEAN
    /\ lastError = [code |-> "None", by |-> 0]
    /\ tlUrl = None
    /\ file \in {[state |-> "absent", call |-> 0, stamped |-> FALSE],
                 [state |-> "signed", call |-> 0, stamped |-> TRUE]}
    /\ frame = [t \in Threads |-> Idle]
    /\ calls = 0

\* Settings, key loading and signing: the calls a thread may make between two
\* others, and the steps of those that take more than one.
Call(t) ==
    /\ At(t, "idle") /\ calls < MaxCalls
    /\ \/ Initialize(t) \/ Finalize(t) \/ ResetPrivateKey(t) \/ SettingsRefused(t)
       \/ SetSettings(t) \/ SetTspSettings(t) \/ SetFileStoreSettings(t)
       \/ SyncStart(t) \/ ReadPrivateKey(t)
       \/ StartUnchecked(t) \/ StartChecked(t) \/ SignXmlPlain(t)

LoadKey(t) ==
    NormalizeKeyContainer(t) \/ ResolveMissingCertificate(t) \/ CommitLoadedKey(t)

SignOn(t) ==
    \/ ReadInput(t) \/ Sign(t) \/ ResolveTspUrl(t) \/ RememberTspUrl(t)
    \/ Stamped(t) \/ NotStamped(t) \/ ClearAfterSigning(t) \/ Base64Wrap(t)
    \/ ExtractCertificate(t) \/ PrepareFormat(t) \/ BuildFormat(t) \/ BuildXades(t)
    \/ CaptureError(t) \/ Pack(t) \/ CheckOutput(t) \/ Write(t) \/ WriteFails(t)
    \/ ClearStaleOutput(t) \/ Finish(t)

Next ==
    \E t \in Threads :
        \/ Call(t)
        \/ SyncRun(t) \/ SyncCommit(t)
        \/ LoadKey(t)
        \/ SignOn(t)
        \/ Return(t)

Spec == Init /\ [][Next]_vars

-----------------------------------------------------------------------------
(* Properties. *)

\* The session's key, settings, error and file, and the frames of the calls,
\* have the values the code gives them.
TypeOK ==
    /\ initialized \in BOOLEAN
    /\ loaded \in BOOLEAN
    /\ key \in Keys \cup {None}
    /\ cert \in Keys \cup {None}
    /\ offline \in BOOLEAN
    /\ tsp \in Urls \cup {None}
    /\ overwrite \in BOOLEAN
    /\ lastError \in [code : Codes, by : 0 .. MaxCalls]
    /\ tlUrl \in Urls \cup {None}
    /\ file \in File
    /\ frame \in [Threads -> Frame]
    /\ calls \in 0 .. MaxCalls

Returning(t, ok) == At(t, "done") /\ frame[t].op \in Signing /\ frame[t].ok = ok

\* A call made with TimestampMode::Required (or an xades-t, pades-t or pades-lt
\* profile) succeeds only with a time stamp, whatever other threads do to the
\* settings meanwhile, and so does the file it wrote.
RequiredIsStamped ==
    \A t \in Threads :
        Returning(t, TRUE) /\ frame[t].mode = "Required" =>
            /\ frame[t].sig.stamped
            /\ file.call = frame[t].call => file.stamped

\* A call that returns false hands out no signature and has left no file of
\* its own behind.
FailureDeliversNothing ==
    \A t \in Threads :
        Returning(t, FALSE) => frame[t].sig = NoSig /\ file.call # frame[t].call

\* A call during which the session was offline throughout carries no time
\* stamp: offline_mode is a boundary, not a hint.
OfflineNeverStamps ==
    \A t \in Threads : ~frame[t].online => ~frame[t].sig.stamped

\* The certificate beside a key, in the session and in every call's copy, is
\* one that loading this very key found, never one of a key loaded before it or
\* by another thread meanwhile: loading a key without one drops the previous one.
CertificateOfKey ==
    /\ cert \in Found(key)
    /\ \A t \in Threads : frame[t].cert \in Found(frame[t].key)

\* When a call that nobody overlapped returns, GetLastError speaks of it: an
\* error of its own if it failed and none if it succeeded, except for the
\* missing time stamp of a container.
ErrorSpeaksOfCall ==
    \A t \in Threads :
        At(t, "done") /\ frame[t].alone =>
            IF frame[t].ok
            THEN lastError.code # "None" =>
                    /\ frame[t].op \in Cades \cup {"SignFileAsicXades"}
                    /\ lastError = [code |-> "OnlineServiceUnavailable", by |-> frame[t].call]
            ELSE lastError.code # "None" /\ lastError.by = frame[t].call

\* A XAdES container whose time stamp was asked for and not obtained is
\* delivered with OnlineServiceUnavailable as the last error.
XadesDowngradeReported ==
    \A t \in Threads :
        Returning(t, TRUE) /\ frame[t].alone /\ frame[t].op = "SignFileAsicXades"
          /\ frame[t].failed => lastError.code = "OnlineServiceUnavailable"

\* After RawSignFile with a required time stamp has failed over an existing
\* file for want of input, key or time stamp, that file holds no signature the
\* caller could take for the new one, or it could not be opened to empty it.
StaleSignatureCleared ==
    \A t \in Threads :
        Returning(t, FALSE) /\ frame[t].alone /\ frame[t].op = "RawSignFile"
          /\ frame[t].mode = "Required" /\ frame[t].existed /\ file.call = 0
          /\ lastError.code # "InternalError" /\ ~frame[t].kept
            => file.state # "signed"

\* The time stamp is what the caller asked for: always there when required,
\* never when the session was offline throughout.
StampedAsAsked == RequiredIsStamped /\ OfflineNeverStamps

\* A failed call leaves nothing that could be taken for its signature, neither
\* its own nor an older one that could be emptied.
FailureLeavesNothing == FailureDeliversNothing /\ StaleSignatureCleared

\* What GetLastError says after a call is about that call, a time stamp that a
\* container had to do without included.
ErrorIsOfCall == ErrorSpeaksOfCall /\ XadesDowngradeReported
=============================================================================
