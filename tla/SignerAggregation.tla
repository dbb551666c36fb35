------------------------- MODULE SignerAggregation --------------------------
(***************************************************************************)
(* One report of several signatures: VerifyXml and VerifyFileAsicEXades    *)
(* validate every signature of the document on its own, keep an entry for  *)
(* each in report.signatures, and then fold the entries into the fields a  *)
(* caller of a single signature reads.  Flags are conjunctions; status     *)
(* words and the error come from one entry, the representative.            *)
(***************************************************************************)
EXTENDS VerifySummary, FiniteSetsExt

\* ApplyPerSignerTrustValidation and ApplyPerSignerXadesTimestampValidation:
\* what an entry keeps of a report made for its signature alone, and the
\* result of its time stamp, if it has one.
SignerEntry(alone, details) ==
    [signatureValid    |-> alone.signatureValid,
     trustValid        |-> alone.trustValid,
     trustStatus       |-> alone.trustStatus,
     historical        |-> alone.historical,
     certificateTime   |-> alone.certificateTime,
     revocationChecked |-> alone.revocationChecked,
     revocationStatus  |-> alone.revocationStatus,
     error             |-> alone.error,
     details           |-> details]

\* The entry of a signature that carries no certificate: it cannot have been
\* verified, and RunFormatTrustValidationOn returns before it asks the engine.
EntryWithoutCertificate ==
    [signatureValid |-> FALSE, trustValid |-> FALSE, trustStatus |-> "not-implemented",
     historical |-> FALSE, certificateTime |-> FALSE, revocationChecked |-> FALSE,
     revocationStatus |-> "not-checked", error |-> "None", details |-> {}]

\* Mutated Representative: always the first signer.
RepresentativeFirst(entries) == 1

\* The "worst" signer: the first that is not trusted, else the first whose
\* revocation is not confirmed, else the first.
Representative(entries) ==
    LET untrusted == {i \in DOMAIN entries : ~entries[i].trustValid}
        unconfirmed == {i \in DOMAIN entries : ~RevocationGood(entries[i])}
    IN  IF untrusted # {} THEN Min(untrusted)
        ELSE IF unconfirmed # {} THEN Min(unconfirmed) ELSE 1

\* A refused time stamp takes away the trust that was there.
ApplyTimestampFailureToTrust(report) ==
    IF report.trustValid /\ report.timestampStatus = "timestamp-invalid"
    THEN [report EXCEPT !.trustValid = FALSE, !.trustStatus = "timestamp-invalid",
                        !.error = "TimestampValidationFailed"]
    ELSE report

\* ApplyPerSignerTrustAggregation and AggregatePerSignerTimestamps, for a
\* document that has a signature.
Aggregate(entries, coverage) ==
    LET worst == entries[Representative(entries)]
        Every(flag) == \A i \in DOMAIN entries : entries[i][flag]
        details == UNION {entries[i].details : i \in DOMAIN entries}
        stamp == TimestampDetailsVerdict(details)
    IN  ApplyTimestampFailureToTrust(
          [signatureValid    |-> Every("signatureValid"),
           coverage          |-> coverage,
           trustValid        |-> Every("trustValid"),
           trustStatus       |-> worst.trustStatus,
           historical        |-> worst.historical,
           certificateTime   |-> Every("certificateTime"),
           revocationChecked |-> Every("revocationChecked"),
           revocationStatus  |-> worst.revocationStatus,
           timestampChecked  |-> stamp.checked,
           timestampValid    |-> stamp.valid,
           timestampStatus   |-> stamp.status,
           details           |-> details,
           signatures        |-> entries,
           error             |-> worst.error])
=============================================================================
