---------------------------- MODULE VerifySummary ---------------------------
(***************************************************************************)
(* VerifySummary and VerifyChecks: the three answers a caller derives from *)
(* a VerifyReport of a finished verification, each from the fields alone:  *)
(* the summary code, the policy decision and the summary check.            *)
(***************************************************************************)
EXTENDS ReportProjection

RevocationGood(report) == report.revocationStatus \in {"good", "valid"}

ServiceOutage == {"ocsp-responder-unavailable", "tsp-responder-unavailable"}

TimestampPartial(report) ==
    \/ report.trustStatus = "timestamp-not-fully-validated"
    \/ report.timestampStatus = "timestamp-partial"

TimestampRefused(report) ==
    \/ report.trustStatus = "timestamp-invalid"
    \/ report.timestampStatus = "timestamp-invalid"

\* The branch of ComputeVerifySummary for a report whose trust is missing.
UntrustedSummary(trustStatus) ==
    CASE trustStatus = "certificate-revoked" -> "integrity-but-revoked"
      [] trustStatus \in {"certificate-time-invalid", "certificate-chain-time-invalid"} ->
            "integrity-but-certificate-expired"
      [] trustStatus \in {"certificate-chain-incomplete", "certificate-chain-cycle",
                          "signer-certificate-missing", "legacy-anchor-not-in-current-tl"} ->
            "integrity-but-chain-incomplete"
      [] trustStatus \in {"trust-store-empty", "no-trust-store-configured"} ->
            "integrity-without-trust-store"
      [] trustStatus \in {"revocation-check-invalid", "ocsp-response-invalid"} ->
            "integrity-but-revocation-check-invalid"
      [] OTHER -> "integrity-but-untrusted-chain"

\* Mutated ComputeVerifySummary: an incomplete time stamp is not looked at.
SummaryWithoutPartial(report) ==
    IF ~report.signatureValid THEN "integrity-failed"
    ELSE IF ~report.coverage THEN "content-not-fully-signed"
    ELSE IF ~report.trustValid THEN UntrustedSummary(report.trustStatus)
    ELSE IF report.revocationChecked /\ RevocationGood(report) THEN "integrity-trust-and-revocation"
    ELSE "integrity-and-trust"

\* ComputeVerifySummary: the first case that applies.
ComputeVerifySummary(report) ==
    LET trustedAnd(status) ==
            report.trustValid /\ report.revocationChecked /\ report.revocationStatus = status
    IN  IF ~report.signatureValid THEN "integrity-failed"
        ELSE IF ~report.coverage THEN "content-not-fully-signed"
        ELSE IF trustedAnd("temporarily-unavailable") THEN "integrity-but-revocation-unknown"
        ELSE IF report.trustStatus \in ServiceOutage THEN "integrity-but-online-service-unavailable"
        ELSE IF TimestampPartial(report) THEN "integrity-but-timestamp-not-fully-validated"
        ELSE IF report.timestampChecked /\ ~report.timestampValid /\ TimestampRefused(report)
            THEN "integrity-but-timestamp-invalid"
        ELSE IF trustedAnd("unknown") THEN "integrity-but-revocation-unknown"
        ELSE IF /\ report.trustValid /\ report.revocationChecked /\ RevocationGood(report)
                /\ report.timestampChecked /\ report.timestampValid
            THEN "integrity-trust-revocation-and-timestamp"
        ELSE IF ~report.trustValid THEN UntrustedSummary(report.trustStatus)
        ELSE IF report.revocationChecked /\ RevocationGood(report) THEN "integrity-trust-and-revocation"
        ELSE "integrity-and-trust"

\* ComputeVerifyPolicyDecision: the valid field of the decision.
PolicyValid(report) ==
    /\ report.signatureValid
    /\ report.trustValid
    /\ report.revocationChecked
    /\ RevocationGood(report)
    /\ ~TimestampRefused(report)
    /\ \A d \in report.details : d.valid \/ d.acceptable
    /\ report.trustStatus # "timestamp-not-fully-validated"
    /\ report.trustStatus \notin ServiceOutage

HasPolicyWarning(report) ==
    \/ report.historical
    \/ TimestampPartial(report)
    \/ report.trustStatus \in ServiceOutage
    \/ /\ report.revocationChecked
       /\ report.revocationStatus \notin {"valid", "good", "revoked", "invalid"}

Check(status, code) == [status |-> status, code |-> code]

\* SummaryCheck, after the branches for a report that has no result.
SummaryCheck(report) ==
    IF ~report.signatureValid THEN Check("invalid", "SIGNATURE_INVALID")
    ELSE IF ~report.coverage THEN Check("invalid", "CONTAINER_COVERAGE_INCOMPLETE")
    ELSE IF PolicyValid(report)
        THEN IF HasPolicyWarning(report)
             THEN Check("warning", "SIGNATURE_VALID_WITH_WARNINGS")
             ELSE Check("valid", "SIGNATURE_VALID")
    ELSE IF report.revocationStatus = "revoked" \/ report.trustStatus = "certificate-revoked"
        THEN Check("invalid", "CERTIFICATE_REVOKED")
    ELSE IF report.trustStatus \in {"certificate-time-invalid", "certificate-chain-time-invalid"}
        THEN Check("invalid", "CERTIFICATE_INVALID_AT_VALIDATION_TIME")
    ELSE IF report.trustStatus \in {"revocation-check-invalid", "ocsp-response-invalid"}
        THEN Check("invalid", "REVOCATION_INVALID")
    ELSE IF TimestampRefused(report) THEN Check("invalid", "TIMESTAMP_INVALID")
    ELSE Check("warning", "SIGNATURE_INTEGRITY_ONLY")

Accepted(summary) == summary.code \in {"SIGNATURE_VALID", "SIGNATURE_VALID_WITH_WARNINGS"}
=============================================================================
