-------------------------- MODULE ReportProjection --------------------------
(***************************************************************************)
(* How the engine's verdict becomes the report a caller reads:             *)
(* ProjectVerifyReport turns a ValidationReport into the fields of a       *)
(* VerifyReport, and VerifySummary and VerifyChecks derive the summary     *)
(* code, the policy decision and the summary check from those fields       *)
(* alone.  Messages, debug text and the fields only shown are left out.    *)
(***************************************************************************)
EXTENDS Naturals, Sequences

CanonicalRevocationStatusString(status) ==
    CASE status = "Good"                 -> "valid"
      [] status = "Revoked"              -> "revoked"
      [] status = "Invalid"              -> "invalid"
      [] status = "ResponderUnavailable" -> "temporarily-unavailable"
      [] status = "Stale"                -> "stale"
      [] status = "NotChecked"           -> "not-checked"
      [] OTHER                           -> "unknown"

\* A refusal that is proved, not a proof that is missing.
ProvedRefusals ==
    {"TSA_REVOKED", "TSA_EKU_INVALID", "TIMESTAMP_TIME_INVALID",
     "TSA_CERTIFICATE_TIME_INVALID", "TSA_CHAIN_TIME_INVALID"}

TimestampStatusString(ts) ==
    CASE ts.reason \in ProvedRefusals                  -> "timestamp-invalid"
      [] ts.reason = "TSA_CERTIFICATE_MISSING"         -> "timestamp-partial"
      [] ts.status = "Valid"                           -> "timestamp-valid"
      [] ts.status \in {"Missing", "NotChecked"}       -> "timestamp-not-validated"
      [] ts.status \in {"InvalidImprint", "InvalidSignature", "Unsupported"} -> "timestamp-invalid"
      [] OTHER                                         -> "timestamp-partial"

ProjectTimestampResult(ts) ==
    [valid |-> ts.valid, acceptable |-> ts.acceptable, status |-> TimestampStatusString(ts)]

\* ApplyTimestampDetailsVerdict, which has the last word on the report's
\* timestamp_valid and timestamp_status when there are details.  Their order is
\* never read, so they are a set.
AllDetailsValid(details) == \A d \in details : d.valid /\ d.status = "timestamp-valid"
AnyDetailInvalid(details) == \E d \in details : d.status = "timestamp-invalid"

TimestampDetailsVerdict(details) ==
    LET valid == AllDetailsValid(details) /\ ~AnyDetailInvalid(details) IN
    IF details = {}
    THEN [checked |-> FALSE, valid |-> FALSE, status |-> "timestamp-not-validated"]
    ELSE [checked |-> TRUE, valid |-> valid,
          status |-> IF AnyDetailInvalid(details) THEN "timestamp-invalid"
                     ELSE IF valid THEN "timestamp-valid" ELSE "timestamp-partial"]

TrustFailureErrorCode(trustStatus) ==
    IF trustStatus \in {"certificate-revoked", "revocation-check-invalid", "ocsp-response-invalid"}
        THEN "RevocationCheckFailed"
    ELSE IF trustStatus \in {"ocsp-responder-unavailable", "tsp-responder-unavailable"}
        THEN "OnlineServiceUnavailable"
    ELSE IF trustStatus = "timestamp-invalid" THEN "TimestampValidationFailed"
    ELSE "TrustValidationFailed"

\* The trust fields: a revocation defeats trust unless the engine judged the
\* state valid, that is, revoked after the moment the signature is judged at.
TrustFields(decision, revocation) ==
    LET defeats == revocation.overall # "Valid" /\ revocation.status \in {"Invalid", "Revoked"} IN
    [valid  |-> ~defeats /\ decision.trustValid,
     status |-> IF ~defeats THEN decision.trustStatus
                ELSE IF revocation.status = "Revoked" THEN "certificate-revoked"
                ELSE "revocation-check-invalid",
     error  |-> IF defeats THEN "RevocationCheckFailed" ELSE "None"]

\* The error code the decision adds.
ProjectedError(decision, revocation, trust) ==
    IF decision.overall = "Invalid" /\ revocation.status = "Revoked" THEN "RevocationCheckFailed"
    ELSE IF trust.error # "None" THEN trust.error
    ELSE IF decision.overall = "Invalid" THEN "InvalidArgument"
    ELSE IF decision.overall = "Indeterminate" /\ ~decision.trustValid
        THEN TrustFailureErrorCode(trust.status)
    ELSE "None"

\* ProjectVerifyReport and ApplyValidationEngineReport; coverage comes from the
\* format of the document, trust_checked is always set.
ProjectVerifyReport(decision, path, revocation, attempted, ts, coverage) ==
    LET trust == TrustFields(decision, revocation)
        details == IF attempted THEN {ProjectTimestampResult(ts)} ELSE {}
        stamp == TimestampDetailsVerdict(details)
    IN  [signatureValid    |-> decision.signatureValid,
         coverage          |-> coverage,
         trustValid        |-> trust.valid,
         trustStatus       |-> trust.status,
         historical        |-> path.status = "Trusted" /\ path.historical,
         certificateTime   |-> path.timeValid,
         revocationChecked |-> revocation.checked,
         revocationStatus  |-> CanonicalRevocationStatusString(revocation.status),
         timestampChecked  |-> stamp.checked,
         timestampValid    |-> stamp.valid,
         timestampStatus   |-> stamp.status,
         details           |-> details,
         signatures        |-> <<>>,
         error             |-> ProjectedError(decision, revocation, trust)]

\* VerifyDetached names the failure of trust over the error of the projection
\* whenever the signature is whole and trust is missing.
NameTrustFailure(report) ==
    IF report.signatureValid /\ ~report.trustValid
    THEN [report EXCEPT !.error = TrustFailureErrorCode(report.trustStatus)]
    ELSE report
=============================================================================
