------------------------- MODULE RevocationVerdict --------------------------
(***************************************************************************)
(* What RevocationEngine::Validate may return to its two callers, the      *)
(* validation of the signer (ValidationEngine) and that of a time stamp's  *)
(* authority (TimestampEngine).  Revocation.tla shows that it returns no   *)
(* other result; Validation.tla uses the results without their evidence.   *)
(***************************************************************************)

Result(s, o, c) == [status |-> s, overall |-> o, checked |-> c]

\* The part of RevocationEngineResult that the callers read; checked is
\* ocsp_attempted or crl_attempted.
RevocationResult ==
    [status  : {"NotChecked", "Good", "Revoked", "Unknown", "Invalid", "Stale",
                "ResponderUnavailable"},
     overall : {"Indeterminate", "Valid", "Invalid"},
     checked : BOOLEAN]

NotRevocationChecked == Result("NotChecked", "Indeterminate", FALSE)

\* The results for a certificate whose issuer's certificate is known or not:
\* an unknown issuer leaves only what a CRL can say without its signature.
RevocationResults(issuer) ==
    {NotRevocationChecked,
     Result("Unknown", "Indeterminate", FALSE),
     Result("Invalid", "Indeterminate", TRUE),
     Result("Stale", "Indeterminate", TRUE),
     Result("Revoked", "Invalid", TRUE),
     Result("Revoked", "Valid", TRUE)}
    \cup IF issuer
         THEN {Result("Good", "Valid", TRUE),
               Result("Unknown", "Indeterminate", TRUE),
               Result("ResponderUnavailable", "Indeterminate", TRUE)}
         ELSE {}
=============================================================================
