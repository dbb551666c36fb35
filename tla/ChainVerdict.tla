---------------------------- MODULE ChainVerdict ----------------------------
(***************************************************************************)
(* What CertificateChainValidator::Validate may return to PathValidator,   *)
(* by what is presented to it: CertificateChain.tla shows that it returns  *)
(* nothing else, Validation.tla uses the results without the search.       *)
(***************************************************************************)

ChainStatuses ==
    {"NotChecked", "SignerMissing", "InvalidSignature", "Expired", "Untrusted",
     "Incomplete", "Trusted"}

\* The part of CertificateChainResult that PathSelector and the verdict read;
\* timeValid is signer_certificate_time_valid.
Chain(s, t) == [status |-> s, timeValid |-> t]

\* The certificate a chain is wanted for: absent, not a certificate, outside its
\* validity window at the validation time, or good.
Presented == {"missing", "undecodable", "outOfWindow", "good"}

ChainVerdicts(presented, anchorsGiven) ==
    CASE presented = "missing"     -> {Chain("SignerMissing", FALSE)}
      [] presented = "undecodable" -> {Chain("InvalidSignature", FALSE)}
      [] presented = "outOfWindow" -> {Chain("Expired", FALSE)}
      [] presented = "good" /\ ~anchorsGiven -> {Chain("Untrusted", TRUE)}
      [] OTHER -> {Chain(s, TRUE) : s \in {"Expired", "Untrusted", "Incomplete", "Trusted"}}
=============================================================================
