----------------------------- MODULE Validation -----------------------------
(***************************************************************************)
(* ValidationEngine::Validate and the report made of its verdict.          *)
(*                                                                         *)
(* One validation is a fixed sequence of engines: the policy of the        *)
(* profile and level, the trust stores, the time stamp (TimestampEngine),  *)
(* the time the signature is judged at (SigningTimeResolver), the trust    *)
(* path (PathEngine), the service record (TrustServiceEvaluator), the      *)
(* revocation of the signer (RevocationEngine), the decision               *)
(* (SynthesizeDecision) and the public report (ProjectVerifyReport).       *)
(*                                                                         *)
(* The chain search and the revocation engine are represented by what      *)
(* they promise (ChainVerdict, RevocationVerdict), which                   *)
(* CertificateChain.tla and Revocation.tla show of them.  A fact about the *)
(* signature is chosen by the step that first reads it.                    *)
(***************************************************************************)
EXTENDS PathSelection, RevocationVerdict, SignerAggregation

CONSTANTS
    Contexts,       \* the profiles and levels that are considered
    CoSigned,       \* those under which documents with several signatures are
    MaxSigners      \* bounds the signatures of such a document

Profiles == {"Strict", "Compatibility", "UkraineLegal", "Offline", "Forensic"}
Levels == {"Basic", "Standard", "Extended", "Forensic"}

ASSUME ContextsAssumption == Contexts \subseteq [profile : Profiles, level : Levels]
ASSUME CoSignedAssumption == CoSigned \subseteq Contexts /\ MaxSigners \in Nat

VARIABLES
    pc,
    context,        \* the profile and level of ValidationContext
    policy,         \* ValidationPolicy
    stores,         \* which trust stores hold a certificate
    timestamp,      \* TimestampEngineResult
    time,           \* SigningTimeResolution, as validation_time_source names it
    signer,         \* the signer's certificate as the chain search finds it
    path,           \* the selected result of PathSelection
    archived,       \* has_historical_trust_match
    service,        \* TrustServiceDecision: service_trusted
    revocation,     \* RevocationEngineResult of the signer
    decision,       \* ValidationDecision
    report          \* VerifyReport

vars == <<pc, context, policy, stores, timestamp, time, signer, path, archived, service,
          revocation, decision, report>>

NotStamped ==
    [status |-> "NotChecked", reason |-> "", valid |-> FALSE, acceptable |-> FALSE,
     historical |-> FALSE]

NoDecision ==
    [overall |-> "Indeterminate", signatureValid |-> FALSE, trustValid |-> FALSE,
     trustStatus |-> "", qualified |-> FALSE, ltv |-> FALSE]

NoReport ==
    ProjectVerifyReport(NoDecision, NoPath, NotRevocationChecked, FALSE, NotStamped, TRUE)

\* timestamp_attempted: there is a CMS and its token is not simply absent.
TimestampAttempted == timestamp.status \notin {"NotChecked", "Missing"}

-----------------------------------------------------------------------------
StandardOrHigher == {"Standard", "Extended", "Forensic"}
ExtendedOrHigher == {"Extended", "Forensic"}

\* Mutated HardFailLevels: the threshold of the strict profiles is one level up.
HardFailLevelsOffByOne(profile) == ExtendedOrHigher

\* revocation_hard_fail by profile.
HardFailLevels(profile) ==
    IF profile = "Compatibility" THEN ExtendedOrHigher ELSE StandardOrHigher

TrustAnchorPolicy(profile) ==
    CASE profile = "Strict"        -> "CurrentTLOnly"
      [] profile = "Compatibility" -> "ExplicitLegacyAnchorBundle"
      [] profile = "UkraineLegal"  -> "HistoricalAtSigningTime"
      [] profile = "Offline"       -> "CustomTrustStore"
      [] profile = "Forensic"      -> "ForensicAllPossible"

\* PolicyResolver::Resolve.
Resolve(c) ==
    LET legal == c.profile = "UkraineLegal" /\ c.level \in ExtendedOrHigher IN
    [anchors             |-> TrustAnchorPolicy(c.profile),
     allowHistorical     |-> c.profile \in {"Compatibility", "UkraineLegal"},
     hardFail            |-> c.level \in HardFailLevels(c.profile),
     requireTrustedTime  |-> legal,
     requireServiceTrust |-> legal]

\* network_allowed of the plan.
NetworkAllowed(offline) == ~offline /\ context.profile # "Offline"

ResolvePolicy ==
    /\ pc = "resolve"
    /\ policy' = Resolve(context)
    /\ pc' = "load"
    /\ UNCHANGED <<context, stores, timestamp, time, signer, path, archived, service, revocation,
                   decision, report>>

\* The stores are read once; without a work directory they are all empty.
LoadStores ==
    /\ pc = "load"
    /\ stores' \in [current : BOOLEAN, historical : BOOLEAN]
    /\ pc' = "token"
    /\ UNCHANGED <<context, policy, timestamp, time, signer, path, archived, service, revocation,
                   decision, report>>

-----------------------------------------------------------------------------
\* The time stamp (TimestampEngine::Validate).

StampStep(next, ts) ==
    /\ pc' = next
    /\ timestamp' = ts
    /\ UNCHANGED <<context, policy, stores, time, signer, path, archived, service, revocation,
                   decision, report>>

\* A result of the engine, which keeps the kind of anchor found so far.
Stamp(status, reason, valid, acceptable) ==
    [status |-> status, reason |-> reason, valid |-> valid, acceptable |-> acceptable,
     historical |-> timestamp.historical]

Refused(status, reason) == Stamp(status, reason, FALSE, FALSE)

\* What ExtractTimestampToken and ValidateTimestampToken may say of a token.
TokenFailures ==
    {[status |-> "Missing",          reason |-> "TIMESTAMP_MISSING"],
     [status |-> "InvalidSignature", reason |-> "TIMESTAMP_SIGNATURE_INVALID"],
     [status |-> "InvalidImprint",   reason |-> "TIMESTAMP_IMPRINT_MISMATCH"],
     [status |-> "Unsupported",      reason |-> "TIMESTAMP_UNSUPPORTED"],
     [status |-> "UntrustedTsa",     reason |-> "TSA_CERTIFICATE_MISSING"]}

\* A signature without CMS carries no token for this engine; a token that is
\* missing, damaged or unreadable ends the check.
CheckToken ==
    /\ pc = "token"
    /\ \/ StampStep("time", timestamp)
       \/ \E f \in TokenFailures : StampStep("time", Refused(f.status, f.reason))
       \/ StampStep("genTime", timestamp)

\* genTime must be readable and the authority's certificate valid at it.
CheckGenTime ==
    /\ pc = "genTime"
    /\ \/ StampStep("time", Refused("InvalidSignature", "TIMESTAMP_TIME_INVALID"))
       \/ StampStep("time", Refused("TsaExpired", "TSA_CERTIFICATE_TIME_INVALID"))
       \/ StampStep("tsaTrust", timestamp)

\* A store of time stamp authorities: without certificates, with others, or
\* with the very certificate that signed the token.
TsaStore == {"empty", "others", "listed"}

\* A direct match with the list's endpoint needs no chain; otherwise a chain is
\* wanted to the union of the authorities' and the CA anchors.
CheckTsaTrust ==
    /\ pc = "tsaTrust"
    /\ \E tsa \in [current : TsaStore, historical : TsaStore] :
          LET anchors == [current    |-> stores.current \/ tsa.current # "empty",
                          historical |-> stores.historical \/ tsa.historical # "empty"]
              endpoints == policy.anchors # "CustomTrustStore"
              inCurrent == endpoints /\ tsa.current = "listed"
              inArchive == /\ endpoints
                           /\ ~inCurrent
                           /\ policy.allowHistorical
                           /\ tsa.historical = "listed"
              direct == inCurrent \/ inArchive
          IN  \/ /\ direct
                 /\ StampStep("tsaRights", [NotStamped EXCEPT !.historical = inArchive])
              \/ /\ ~direct
                 /\ \E results \in AllPathResults(Build(policy, anchors), "good") :
                      LET selected == Select(results, policy) IN
                      \/ /\ selected.status = "Expired"
                         /\ StampStep("time", Refused("TsaExpired", "TSA_CHAIN_TIME_INVALID"))
                      \/ /\ selected.status # "Expired"
                         /\ ~Trusted(selected)
                         /\ StampStep("time", Refused("UntrustedTsa", "TSA_UNTRUSTED"))
                      \/ /\ Trusted(selected)
                         /\ StampStep("tsaRights",
                                [NotStamped EXCEPT !.historical = selected.historical])

\* The policy bears with an authority whose revocation is not known.
SoftPolicy == ~policy.hardFail /\ ~policy.requireTrustedTime

Unproved(reason) == Stamp("UntrustedTsa", reason, FALSE, SoftPolicy)

\* The right to stamp (the EKU), then the issuer the revocation check needs.
CheckTsaRights ==
    /\ pc = "tsaRights"
    /\ \/ StampStep("time", Refused("UntrustedTsa", "TSA_EKU_INVALID"))
       \/ StampStep("time", Unproved("TSA_ISSUER_MISSING"))
       \/ StampStep("tsaLocal", timestamp)

\* The end of the engine, by the result of the authority's revocation check.
TsaVerdict(r) ==
    CASE r.overall = "Invalid" -> Refused("UntrustedTsa", "TSA_REVOKED")
      [] r.overall = "Indeterminate" -> Unproved("TSA_REVOCATION_UNKNOWN")
      [] r.overall = "Valid" -> Stamp("Valid", "TIMESTAMP_VALID", TRUE, TRUE)

\* Local evidence first; the network, if it is allowed, only when that settles
\* nothing.
CheckTsaRevocation ==
    /\ pc \in {"tsaLocal", "tsaOnline"}
    /\ \E r \in RevocationResults(TRUE), offline \in BOOLEAN :
          LET retry == pc = "tsaLocal" /\ r.overall = "Indeterminate" /\ NetworkAllowed(offline)
          IN  \/ retry /\ StampStep("tsaOnline", timestamp)
              \/ ~retry /\ StampStep("time", TsaVerdict(r))

-----------------------------------------------------------------------------
\* SigningTimeResolver: a validated time stamp, else what the signer claims,
\* else the time of the verification.
ResolveSigningTime ==
    /\ pc = "time"
    /\ time' \in IF TimestampAttempted /\ timestamp.valid THEN {"trustedTimestamp"}
                 ELSE {"signingTime", "currentTime"}
    /\ pc' = "paths"
    /\ UNCHANGED <<context, policy, stores, timestamp, signer, path, archived, service, revocation,
                   decision, report>>

TrustedTime == time = "trustedTimestamp"

\* Does a path to an anchor of the archived list exist?
InArchive(results) ==
    \E i \in DOMAIN results : results[i].id = "historical-tl" /\ Trusted(results[i])

\* The candidates are built, each is validated, one is selected.
SelectPath ==
    /\ pc = "paths"
    /\ signer' \in Presented
    /\ \E results \in AllPathResults(Build(policy, stores), signer') :
          /\ path' = Select(results, policy)
          /\ archived' = InArchive(results)
    /\ pc' = "service"
    /\ UNCHANGED <<context, policy, stores, timestamp, time, service, revocation, decision, report>>

\* TrustServiceEvaluator: is the certificate that of a granted service in the
\* list of the day?  Not so without a list or a certificate.
EvaluateService ==
    /\ pc = "service"
    /\ service' \in IF signer = "missing" THEN {FALSE} ELSE BOOLEAN
    /\ pc' = "revocation"
    /\ UNCHANGED <<context, policy, stores, timestamp, time, signer, path, archived, revocation,
                   decision, report>>

\* The issuer handed to the revocation engine is that of the selected chain,
\* known only when it is trusted.
SignerRevocation(presented, chosen) ==
    CASE presented = "missing" -> {NotRevocationChecked}
      [] presented = "undecodable" ->
            {r \in RevocationResults(FALSE) : r.status \in {"NotChecked", "Invalid"}}
      [] OTHER -> RevocationResults(Trusted(chosen))

CheckRevocation ==
    /\ pc = "revocation"
    /\ revocation' \in SignerRevocation(signer, path)
    /\ pc' = "decide"
    /\ UNCHANGED <<context, policy, stores, timestamp, time, signer, path, archived, service,
                   decision, report>>

-----------------------------------------------------------------------------
\* The decision (SynthesizeDecision).

\* What the engines found out about one signature.
Gathered(signatureValid) ==
    [signatureValid |-> signatureValid, path |-> path, archived |-> archived, service |-> service,
     revocation |-> revocation, stamped |-> TimestampAttempted, stampValid |-> timestamp.valid,
     trustedTime |-> TrustedTime]

TrustValid(e) == Trusted(e.path) /\ (policy.requireServiceTrust => e.service)

TrustStatus(e) ==
    CASE TrustValid(e) -> "trusted-anchor-validated"
      [] ~TrustValid(e) /\ e.archived -> "legacy-anchor-not-in-current-tl"
      [] ~TrustValid(e) /\ ~e.archived ->
            CASE e.path.status = "Incomplete"       -> "certificate-chain-incomplete"
              [] e.path.status = "Expired"          -> "certificate-chain-time-invalid"
              [] e.path.status = "InvalidSignature" -> "certificate-chain-invalid"
              [] e.path.status = "Untrusted" /\ ~e.path.anchors -> "trust-store-empty"
              [] OTHER                              -> "untrusted-chain"

\* IsLongTermValidationValid.
LongTermValid(e) ==
    TrustValid(e) /\ e.revocation.status = "Good" /\ e.stamped /\ e.stampValid

\* The early returns of SynthesizeDecision after the trust of the chain is known.
Undecided(e) ==
    \/ ~TrustValid(e) /\ context.profile = "Strict"
    \/ e.revocation.overall = "Indeterminate" /\ policy.hardFail
    \/ e.stamped /\ ~e.stampValid /\ policy.requireTrustedTime

Decision(e) ==
    LET base == [NoDecision EXCEPT !.signatureValid = e.signatureValid]
        judged == [base EXCEPT !.trustValid = TrustValid(e), !.trustStatus = TrustStatus(e)]
    IN  IF ~e.signatureValid THEN [base EXCEPT !.overall = "Invalid"]
        ELSE IF context.level = "Basic" THEN [base EXCEPT !.overall = "IntegrityOnly"]
        ELSE IF e.revocation.status = "Revoked" /\ e.revocation.overall = "Invalid"
            THEN [base EXCEPT !.overall = "Invalid"]
        ELSE IF Undecided(e) THEN judged
        ELSE [judged EXCEPT !.overall = IF TrustValid(e) THEN "Valid" ELSE "Indeterminate",
                            !.qualified = TrustValid(e) /\ e.trustedTime,
                            !.ltv = LongTermValid(e)]

\* The caller checked the signature itself before it called the engine.
SynthesizeDecision ==
    /\ pc = "decide"
    /\ \E signatureValid \in BOOLEAN : decision' = Decision(Gathered(signatureValid))
    /\ pc' = "project"
    /\ UNCHANGED <<context, policy, stores, timestamp, time, signer, path, archived, service,
                   revocation, report>>

\* The report; whether the signatures cover the whole document is known from
\* its format.
Project ==
    /\ pc = "project"
    /\ \E coverage \in BOOLEAN :
          report' = NameTrustFailure(ProjectVerifyReport(decision, path, revocation,
                                        TimestampAttempted, timestamp, coverage))
    /\ pc' = "done"
    /\ UNCHANGED <<context, policy, stores, timestamp, time, signer, path, archived, service,
                   revocation, decision>>

-----------------------------------------------------------------------------
\* Documents with several signatures (VerifyXml, VerifyFileAsicEXades).

\* The reports the engine makes for one of the signatures.  It is called
\* without a CMS, hence without a time stamp, and this is a whole run of the
\* pipeline above, from the stores to the projection.
GatheredAlone(presented, results) ==
    LET chosen == Select(results, policy) IN
    [signatureValid : BOOLEAN, path : {chosen}, archived : {InArchive(results)}, service : BOOLEAN,
     revocation : SignerRevocation(presented, chosen), stamped : {FALSE}, stampValid : {FALSE},
     trustedTime : {FALSE}]

AloneReports ==
    {ProjectVerifyReport(Decision(e), e.path, e.revocation, FALSE, NotStamped, TRUE) :
        e \in UNION {UNION {GatheredAlone(presented, results) :
                                results \in AllPathResults(Build(policy, stores), presented)} :
                        presented \in Presented \ {"missing"}}}

\* The time stamp of a signature: none, evidence that is missing or does not
\* fit, or what the engine says of a token that fits.
StampDetails ==
    {{}} \cup
    {{ProjectTimestampResult(ts)} :
        ts \in {Refused("InvalidImprint", "TIMESTAMP_IMPRINT_MISMATCH"),
                Refused("UntrustedTsa", "TSA_UNTRUSTED"),
                Unproved("TSA_REVOCATION_UNKNOWN"),
                TsaVerdict(Result("Good", "Valid", TRUE))}}

SignerEntries ==
    {EntryWithoutCertificate} \cup
    {SignerEntry(alone, details) : alone \in AloneReports, details \in StampDetails}

SignerStep(next, rep) ==
    /\ pc' = next
    /\ report' = rep
    /\ UNCHANGED <<context, policy, stores, timestamp, time, signer, path, archived, service,
                   revocation, decision>>

\* The next signature of the document is validated.
ValidateSigner ==
    /\ pc \in {"token", "signers"}
    /\ context \in CoSigned
    /\ Len(report.signatures) < MaxSigners
    /\ \E entry \in SignerEntries :
          SignerStep("signers", [report EXCEPT !.signatures = Append(@, entry)])

\* The report of them all.
AggregateSigners ==
    /\ pc = "signers"
    /\ \E coverage \in BOOLEAN :
          SignerStep("aggregated", Aggregate(report.signatures, coverage))

-----------------------------------------------------------------------------
Init ==
    /\ pc = "resolve"
    /\ context \in Contexts
    /\ policy = Resolve([profile |-> "Strict", level |-> "Basic"])
    /\ stores = [current |-> FALSE, historical |-> FALSE]
    /\ timestamp = NotStamped
    /\ time = "currentTime"
    /\ signer = "missing"
    /\ path = NoPath
    /\ archived = FALSE
    /\ service = FALSE
    /\ revocation = NotRevocationChecked
    /\ decision = NoDecision
    /\ report = NoReport

Next ==
    \/ ResolvePolicy
    \/ LoadStores
    \/ CheckToken
    \/ CheckGenTime
    \/ CheckTsaTrust
    \/ CheckTsaRights
    \/ CheckTsaRevocation
    \/ ResolveSigningTime
    \/ SelectPath
    \/ EvaluateService
    \/ CheckRevocation
    \/ SynthesizeDecision
    \/ Project
    \/ ValidateSigner
    \/ AggregateSigners

Spec == Init /\ [][Next]_vars

-----------------------------------------------------------------------------
Policy ==
    [anchors : AnchorPolicies, allowHistorical : BOOLEAN, hardFail : BOOLEAN,
     requireTrustedTime : BOOLEAN, requireServiceTrust : BOOLEAN]

Timestamp ==
    [status : {"NotChecked", "Missing", "InvalidSignature", "InvalidImprint", "Unsupported",
               "UntrustedTsa", "TsaExpired", "Valid"},
     reason : STRING, valid : BOOLEAN, acceptable : BOOLEAN, historical : BOOLEAN]

\* The variables have their types.
TypeOK ==
    /\ pc \in {"resolve", "load", "token", "genTime", "tsaTrust", "tsaRights", "tsaLocal",
               "tsaOnline", "time", "paths", "service", "revocation", "decide", "project", "done",
               "signers", "aggregated"}
    /\ context \in [profile : Profiles, level : Levels]
    /\ policy \in Policy
    /\ stores \in [current : BOOLEAN, historical : BOOLEAN]
    /\ timestamp \in Timestamp
    /\ time \in {"trustedTimestamp", "signingTime", "currentTime"}
    /\ signer \in Presented
    /\ path \in PathResult
    /\ archived \in BOOLEAN
    /\ service \in BOOLEAN
    /\ revocation \in RevocationResult
    /\ decision.overall \in {"Valid", "IntegrityOnly", "Indeterminate", "Invalid"}
    /\ DOMAIN report = DOMAIN NoReport

Reported == pc = "done"
Summary == SummaryCheck(report)

\* The report never claims more than the engine decided: a signature that is
\* reported as valid, with or without warnings, was judged valid, its signer's
\* certificate is known not to be revoked, a damaged or refused time stamp was
\* not passed over, and no error is named beside it (SummaryCheck reads only
\* the projected fields, ProjectVerifyReport and SynthesizeDecision fill them).
AcceptedIsJustified ==
    (Reported /\ Accepted(Summary)) =>
        /\ decision.overall = "Valid"
        /\ revocation.status = "Good"
        /\ TimestampAttempted =>
              \/ timestamp.valid
              \/ SoftPolicy /\ timestamp.reason \in {"TSA_ISSUER_MISSING", "TSA_REVOCATION_UNKNOWN"}
        /\ report.error = "None"

\* What the engine rejects, the report rejects: Invalid is never softened to a
\* warning, and it comes with an error code (SummaryCheck after the policy
\* decision, error_code of ProjectVerifyReport).
InvalidIsReported ==
    (Reported /\ decision.overall = "Invalid") =>
        /\ Summary.status = "invalid"
        /\ report.error # "None"
        /\ ~report.trustValid

\* What each profile and level demands of a Valid verdict, from the first
\* standard level on (PolicyResolver::Resolve and SynthesizeDecision).
ValidIsJustified ==
    decision.overall = "Valid" =>
        /\ decision.signatureValid
        /\ context.level # "Basic"
        /\ Trusted(path)
        /\ context.profile # "Offline"
        /\ (context.profile # "Compatibility" \/ context.level # "Standard")
              => revocation.overall = "Valid"
        /\ ~(revocation.status = "Revoked" /\ revocation.overall = "Invalid")
        /\ (context.profile = "UkraineLegal" /\ context.level \in {"Extended", "Forensic"})
              => service /\ (TimestampAttempted => timestamp.valid)

\* Certificates of archived lists settle a verdict, or a time stamp, only in the
\* two profiles that allow it, and the report always says so
\* (IsAuthoritativeCandidateAllowed, historical_trust_used).
HistoricalIsAllowed ==
    /\ (timestamp.valid /\ timestamp.historical) \/ (decision.trustValid /\ path.historical)
          => context.profile \in {"Compatibility", "UkraineLegal"}
    /\ (Reported /\ decision.trustValid /\ path.historical)
          => report.historical /\ Summary.status # "valid"

\* The strongest claims imply the weaker ones: a signature that is valid for
\* the long term is qualified, a qualified one is valid at a proved time, and
\* the report accepts the first (qualified_valid, IsLongTermValidationValid).
StrongerClaims ==
    /\ decision.ltv => decision.qualified
    /\ decision.qualified => decision.overall = "Valid" /\ timestamp.valid
    /\ (Reported /\ decision.ltv /\ report.coverage) => Accepted(Summary)

\* The two summaries derived separately from one report do not contradict each
\* other, whether it is about one signature or several: a summary code that
\* claims trust and revocation goes with an accepted signature, and a plainly
\* valid signature has one of those codes
\* (ComputeVerifySummary, SummaryCheck).
SummariesAgree ==
    (Reported \/ pc = "aggregated") =>
        LET confirmed == ComputeVerifySummary(report) \in
                {"integrity-trust-and-revocation", "integrity-trust-revocation-and-timestamp"}
        IN  /\ confirmed => Accepted(Summary)
            /\ Summary.status = "valid" => confirmed

\* One report for several signatures accepts a document only if every signature
\* would be accepted alone: whole, trusted, its certificate known not to be
\* revoked, its time stamp, if there is one, not passed over.  It calls the
\* document invalid if one signature is broken, it takes trust away if one time
\* stamp is refused, and it is never trusted beside the error of a signer
\* (ApplyPerSignerTrustAggregation, AggregatePerSignerTimestamps).
AggregateIsJustified ==
    pc = "aggregated" =>
        \A i \in DOMAIN report.signatures :
            LET e == report.signatures[i] IN
            /\ Accepted(Summary) =>
                  /\ e.signatureValid
                  /\ e.trustValid
                  /\ e.revocationChecked /\ RevocationGood(e)
                  /\ \A d \in e.details : d.valid \/ d.acceptable
            /\ ~e.signatureValid => Summary.status = "invalid"
            /\ AnyDetailInvalid(e.details) => ~report.trustValid /\ ~report.timestampValid
            /\ report.trustValid => report.error = "None" /\ e.error = "None"

\* The report says what the engines decided: it accepts only what they accepted
\* and rejects all they rejected, for one signature and for several.
ReportIsFaithful == AcceptedIsJustified /\ InvalidIsReported /\ AggregateIsJustified

\* Every verdict stays within the policy of the caller's profile and level.
VerdictWithinPolicy == ValidIsJustified /\ HistoricalIsAllowed

\* The several claims of one report agree: flags with flags, the summary code
\* with the summary status.
ClaimsAgree == StrongerClaims /\ SummariesAgree

\* A certificate revoked after the moment the signature is judged at leaves the
\* verdict of the engine valid, and the report must not turn it into an error
\* (ValidationReportProjection.cpp, V-01).
RevokedLaterIsNoError ==
    (Reported /\ decision.overall = "Valid" /\ revocation.status = "Revoked")
        => Summary.code # "CERTIFICATE_REVOKED"
=============================================================================
