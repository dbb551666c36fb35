----------------------------- MODULE Revocation -----------------------------
(***************************************************************************)
(* RevocationEngine::Validate with the two validators it calls,            *)
(* OcspValidator::Validate and CrlValidator::Validate: was a certificate   *)
(* revoked at the time its signature is evaluated?                         *)
(*                                                                         *)
(* The evidence is consulted in a fixed order: the OCSP responses embedded *)
(* in the signature until one is decisive, then the CRLs, then a live OCSP *)
(* request if the policy plan allows the network.  An OCSP response and a  *)
(* CRL are records of what the decoder and the signature check say of      *)
(* them.  Times are natural numbers and 0 is a time the evidence does not  *)
(* give.                                                                   *)
(***************************************************************************)
EXTENDS Naturals, Sequences, RevocationVerdict

CONSTANTS
    EmbeddedMaxAge,     \* kEmbeddedEvidenceMaxAgeMinutes: 366 days in the code
    LiveMaxAge,         \* timeout_ms, in minutes
    Inputs              \* the inputs of Validate that are considered

ASSUME AgeAssumption == EmbeddedMaxAge \in Nat /\ LiveMaxAge \in Nat

\* A SingleResponse: whose status it gives (the certificate asked for or some
\* other one), the status and the time of a revocation.
Single == [about : {"cert", "other"}, status : {"good", "revoked", "unknown"}, time : Nat]

\* An OCSP response.  The body is undecodable, says that the responder refused,
\* or is successful; "unreachable" is a live request without an HTTP answer.
\* verified: the signature is the issuer's or a delegated responder's.
Response ==
    [body       : {"undecodable", "refused", "successful", "unreachable"},
     producedAt : Nat,
     nextUpdate : Nat,
     verified   : BOOLEAN,
     entries    : Seq(Single)]

\* A CRL.  verified: its signature is the issuer's; listed: it lists the
\* certificate's serial number, revoked at the time given.
Crl ==
    [sameIssuer : BOOLEAN,
     readable   : BOOLEAN,
     verified   : BOOLEAN,
     thisUpdate : Nat,
     nextUpdate : Nat,
     listed     : BOOLEAN,
     time       : Nat]

\* RevocationEngineInput: is there a certificate, and its issuer's; the
\* validation time; the evidence; may the network be used and is a URL known;
\* what the responder behind the URL would answer.
Input ==
    [certificate : BOOLEAN,
     issuer      : BOOLEAN,
     time        : Nat,
     ocsp        : Seq(Response),
     crls        : Seq(Crl),
     network     : BOOLEAN,
     url         : BOOLEAN,
     live        : Response]

ASSUME InputsAssumption == Inputs \subseteq Input

VARIABLES
    input,
    pc,                 \* the part of Validate that is running
    k,                  \* position in the list that is being scanned
    status,             \* final_status
    time,               \* final_revocation_time
    seen,               \* CrlValidator: the outcomes of the CRLs so far
    ocspAttempted,
    crlAttempted,
    overall             \* overall_status

vars == <<input, pc, k, status, time, seen, ocspAttempted, crlAttempted, overall>>

Decisive == {"Good", "Revoked"}

\* DiagnosticRank.
DiagnosticRank(s) ==
    CASE s = "Invalid"              -> 4
      [] s = "Stale"                -> 3
      [] s = "ResponderUnavailable" -> 2
      [] s = "Unknown"              -> 1
      [] OTHER                      -> 0

\* KeepMoreSpecificFailure.
KeepMoreSpecificFailure(s) == IF DiagnosticRank(s) > DiagnosticRank(status) THEN s ELSE status

\* The library's eocspreq_validate_resp on the response and the validation time.
WithinWindow(r, limit) ==
    /\ input.time <= r.producedAt + limit
    /\ r.nextUpdate = 0 \/ input.time <= r.nextUpdate

Verdict(s, t) == [status |-> s, time |-> t]

\* MapOcspStatusForRequestedCertId: the first entry about the certificate.
MapOcspStatus(entries) ==
    IF \E i \in DOMAIN entries : entries[i].about = "cert"
    THEN LET e == entries[CHOOSE i \in DOMAIN entries :
                             /\ entries[i].about = "cert"
                             /\ \A j \in 1..(i - 1) : entries[j].about # "cert"]
         IN CASE e.status = "revoked" -> Verdict("Revoked", e.time)
              [] e.status = "good"    -> Verdict("Good", 0)
              [] OTHER                -> Verdict("Unknown", 0)
    ELSE Verdict("Unknown", 0)

\* DecodeAndMapResponse.
DecodeAndMapResponse(r, limit) ==
    CASE r.body = "undecodable"                                   -> Verdict("Invalid", 0)
      [] r.body = "refused"                                       -> Verdict("ResponderUnavailable", 0)
      [] r.body = "unreachable"                                   -> Verdict("ResponderUnavailable", 0)
      [] r.body = "successful" /\ ~WithinWindow(r, limit)         -> Verdict("Invalid", 0)
      [] r.body = "successful" /\ WithinWindow(r, limit)
           /\ ~r.verified                                         -> Verdict("Invalid", 0)
      [] OTHER                                                    -> MapOcspStatus(r.entries)

\* OcspValidator::Validate on a response: without the issuer's certificate no
\* request can be built and nothing is checked.
OcspValidate(r, limit) ==
    IF input.issuer THEN DecodeAndMapResponse(r, limit) ELSE Verdict("NotChecked", 0)

\* The freshness of a CRL at the validation time.
CrlFresh(c) ==
    /\ input.time >= c.thisUpdate
    /\ c.nextUpdate = 0 \/ input.time <= c.nextUpdate

\* Mutated CrlOutcome: a CRL that nobody can verify proves the absence.
CrlOutcomeUnverified(c) ==
    CASE ~c.sameIssuer                        -> "unrelated"
      [] c.sameIssuer /\ ~c.readable          -> "invalid"
      [] c.sameIssuer /\ c.readable /\ input.issuer /\ ~c.verified -> "invalid"
      [] OTHER -> IF c.listed THEN "revoked" ELSE IF CrlFresh(c) THEN "good" ELSE "stale"

\* The body of CrlValidator's loop: what one CRL says of the certificate.
CrlOutcome(c) ==
    CASE ~c.sameIssuer                        -> "unrelated"
      [] c.sameIssuer /\ ~c.readable          -> "invalid"
      [] c.sameIssuer /\ c.readable /\ input.issuer /\ ~c.verified -> "invalid"
      [] OTHER -> IF c.listed THEN "revoked"
                  ELSE IF ~CrlFresh(c) THEN "stale"
                  ELSE IF ~input.issuer THEN "unverifiable" ELSE "good"

\* The end of CrlValidator's loop, without a revocation: the strongest outcome.
CrlStatus(outcomes) ==
    IF "good" \in outcomes THEN "Good"
    ELSE IF "invalid" \in outcomes THEN "Invalid"
    ELSE IF "stale" \in outcomes THEN "Stale"
    ELSE "Unknown"

CrlChecked(outcomes) == outcomes \cap {"good", "invalid", "stale"} # {}

-----------------------------------------------------------------------------
\* Without a certificate Validate returns at once.
Start ==
    /\ pc = "start"
    /\ pc' = IF input.certificate THEN "ocsp" ELSE "done"
    /\ overall' = "Indeterminate"
    /\ UNCHANGED <<input, k, status, time, seen, ocspAttempted, crlAttempted>>

\* One embedded OCSP response; the first decisive one ends the scan.
TryEmbedded ==
    /\ pc = "ocsp"
    /\ k <= Len(input.ocsp)
    /\ LET v == OcspValidate(input.ocsp[k], EmbeddedMaxAge) IN
          /\ ocspAttempted' = (ocspAttempted \/ input.issuer)
          /\ IF v.status \in Decisive
             THEN /\ status' = v.status
                  /\ time' = v.time
                  /\ pc' = "verdict"
                  /\ UNCHANGED k
             ELSE /\ status' = KeepMoreSpecificFailure(v.status)
                  /\ k' = k + 1
                  /\ UNCHANGED <<time, pc>>
    /\ UNCHANGED <<input, seen, crlAttempted, overall>>

\* No embedded response was decisive: the CRLs, if there are any.
EmbeddedTried ==
    /\ pc = "ocsp"
    /\ k > Len(input.ocsp)
    /\ k' = 1
    /\ pc' = IF input.crls = <<>> THEN "live" ELSE "crl"
    /\ UNCHANGED <<input, status, time, seen, ocspAttempted, crlAttempted, overall>>

\* Mutated TryCrl: the first CRL that answers ends the scan.
TryCrlFirstAnswer ==
    /\ pc = "crl"
    /\ k <= Len(input.crls)
    /\ LET o == CrlOutcome(input.crls[k]) IN
          IF o = "revoked"
          THEN /\ status' = "Revoked"
               /\ time' = input.crls[k].time
               /\ crlAttempted' = TRUE
               /\ pc' = "verdict"
               /\ UNCHANGED <<k, seen>>
          ELSE /\ seen' = seen \cup {o}
               /\ k' = IF o = "good" THEN Len(input.crls) + 1 ELSE k + 1
               /\ UNCHANGED <<status, time, crlAttempted, pc>>
    /\ UNCHANGED <<input, ocspAttempted, overall>>

\* One CRL; a listed serial number ends the scan.
TryCrl ==
    /\ pc = "crl"
    /\ k <= Len(input.crls)
    /\ LET o == CrlOutcome(input.crls[k]) IN
          IF o = "revoked"
          THEN /\ status' = "Revoked"
               /\ time' = input.crls[k].time
               /\ crlAttempted' = TRUE
               /\ pc' = "verdict"
               /\ UNCHANGED <<k, seen>>
          ELSE /\ seen' = seen \cup {o}
               /\ k' = k + 1
               /\ UNCHANGED <<status, time, crlAttempted, pc>>
    /\ UNCHANGED <<input, ocspAttempted, overall>>

\* All the CRLs were looked at.
CrlsTried ==
    /\ pc = "crl"
    /\ k > Len(input.crls)
    /\ crlAttempted' = CrlChecked(seen)
    /\ IF CrlStatus(seen) = "Good"
       THEN /\ status' = "Good"
            /\ pc' = "verdict"
       ELSE /\ status' = KeepMoreSpecificFailure(CrlStatus(seen))
            /\ pc' = "live"
    /\ UNCHANGED <<input, k, time, seen, ocspAttempted, overall>>

\* The live request, if the network may be used and a responder is known.
AskResponder ==
    /\ pc = "live"
    /\ input.network /\ input.url
    /\ LET v == OcspValidate(input.live, LiveMaxAge) IN
          /\ ocspAttempted' = (ocspAttempted \/ input.issuer)
          /\ IF v.status \in Decisive
             THEN /\ status' = v.status
                  /\ time' = v.time
             ELSE /\ status' = KeepMoreSpecificFailure(v.status)
                  /\ UNCHANGED time
    /\ pc' = "verdict"
    /\ UNCHANGED <<input, k, seen, crlAttempted, overall>>

DoNotAsk ==
    /\ pc = "live"
    /\ ~(input.network /\ input.url)
    /\ pc' = "verdict"
    /\ UNCHANGED <<input, k, status, time, seen, ocspAttempted, crlAttempted, overall>>

\* Mutated Evaluate: a revocation at the validation time itself is too late.
EvaluateAtTime ==
    /\ pc = "verdict"
    /\ pc' = "done"
    /\ overall' = CASE status = "Good" -> "Valid"
                    [] status = "Revoked" -> IF time # 0 /\ time >= input.time THEN "Valid"
                                             ELSE "Invalid"
                    [] OTHER -> "Indeterminate"
    /\ UNCHANGED <<input, k, status, time, seen, ocspAttempted, crlAttempted>>

\* Mutated Evaluate: evidence that does not check out condemns the certificate.
EvaluateBadEvidence ==
    /\ pc = "verdict"
    /\ pc' = "done"
    /\ overall' = CASE status = "Good" -> "Valid"
                    [] status = "Revoked" -> IF time # 0 /\ time > input.time THEN "Valid"
                                             ELSE "Invalid"
                    [] status = "Invalid" -> "Invalid"
                    [] OTHER -> "Indeterminate"
    /\ UNCHANGED <<input, k, status, time, seen, ocspAttempted, crlAttempted>>

\* The assessment of the status found.
Evaluate ==
    /\ pc = "verdict"
    /\ pc' = "done"
    /\ overall' = CASE status = "Good" -> "Valid"
                    [] status = "Revoked" -> IF time # 0 /\ time > input.time THEN "Valid"
                                             ELSE "Invalid"
                    [] OTHER -> "Indeterminate"
    /\ UNCHANGED <<input, k, status, time, seen, ocspAttempted, crlAttempted>>

Init ==
    /\ input \in Inputs
    /\ pc = "start"
    /\ k = 1
    /\ status = "NotChecked"
    /\ time = 0
    /\ seen = {}
    /\ ocspAttempted = FALSE
    /\ crlAttempted = FALSE
    /\ overall = "Indeterminate"

Next ==
    \/ Start
    \/ TryEmbedded
    \/ EmbeddedTried
    \/ TryCrl
    \/ CrlsTried
    \/ AskResponder
    \/ DoNotAsk
    \/ Evaluate

Spec == Init /\ [][Next]_vars /\ WF_vars(Next)

-----------------------------------------------------------------------------
Statuses ==
    {"NotChecked", "Good", "Revoked", "Unknown", "Invalid", "Stale", "ResponderUnavailable"}
Outcomes == {"unrelated", "invalid", "stale", "unverifiable", "good"}

\* The variables hold values of their types (RevocationEngineResult and the
\* locals of Validate).
TypeOK ==
    /\ input \in Input
    /\ pc \in {"start", "ocsp", "crl", "live", "verdict", "done"}
    /\ k \in Nat
    /\ status \in Statuses
    /\ time \in Nat
    /\ seen \subseteq Outcomes
    /\ ocspAttempted \in BOOLEAN
    /\ crlAttempted \in BOOLEAN
    /\ overall \in {"Indeterminate", "Valid", "Invalid"}

\* The response is signed under the issuer, in its window, and its first word
\* about the certificate is s.
Says(r, limit, s) ==
    /\ r.body = "successful"
    /\ r.verified
    /\ input.time <= r.producedAt + limit
    /\ r.nextUpdate = 0 \/ input.time <= r.nextUpdate
    /\ \E i \in DOMAIN r.entries :
          /\ r.entries[i].about = "cert"
          /\ r.entries[i].status = s
          /\ \A j \in 1..(i - 1) : r.entries[j].about # "cert"

\* The CRL is the issuer's, signed by it, in its window, and does not list
\* the certificate.
ProvesAbsence(c) ==
    /\ c.sameIssuer /\ c.readable /\ c.verified /\ ~c.listed
    /\ c.thisUpdate <= input.time
    /\ c.nextUpdate = 0 \/ input.time <= c.nextUpdate

\* "Not revoked" is only reported on evidence: with the issuer's certificate at
\* hand, from a signed OCSP response in its window that says so of this
\* certificate, from a signed CRL in its window without it, or from the live
\* responder when the plan allows to ask it (RevocationEngine::Validate; the
\* fail-open case В-02 of CrlValidator is excluded).
GoodIsProved ==
    status = "Good" =>
        /\ input.issuer
        /\ \/ \E i \in DOMAIN input.ocsp : Says(input.ocsp[i], EmbeddedMaxAge, "good")
           \/ \E i \in DOMAIN input.crls : ProvesAbsence(input.crls[i])
           \/ /\ input.network /\ input.url
              /\ Says(input.live, LiveMaxAge, "good")

\* A CRL that lists the certificate is not masked by another CRL, whatever
\* their order and however old it is: the verdict is Revoked unless an OCSP
\* response of the signature decided before the CRLs were read
\* (CrlValidator::Validate, the loop and its early return).
ListedIsReported ==
    (/\ pc = "done"
     /\ input.certificate
     /\ \E i \in DOMAIN input.crls :
           LET c == input.crls[i] IN
              c.sameIssuer /\ c.readable /\ c.listed /\ (input.issuer => c.verified))
    => \/ status = "Revoked"
       \/ input.issuer /\ \E i \in DOMAIN input.ocsp : Says(input.ocsp[i], EmbeddedMaxAge, "good")

\* Signed evidence tells the truth: the certificate was revoked at t (0: never).
RevokedBy(t, moment) == t # 0 /\ t <= moment

TruthfulResponse(r, t) ==
    r.verified => \A i \in DOMAIN r.entries :
        r.entries[i].about = "cert" =>
            /\ r.entries[i].status = "good" => ~RevokedBy(t, r.producedAt)
            /\ r.entries[i].status = "revoked" => RevokedBy(t, r.producedAt) /\ r.entries[i].time = t

TruthfulCrl(c, t) ==
    c.verified /\ c.sameIssuer => /\ c.listed <=> RevokedBy(t, c.thisUpdate)
                                  /\ c.listed => c.time = t

Truthful(t) ==
    /\ \A i \in DOMAIN input.ocsp : TruthfulResponse(input.ocsp[i], t)
    /\ \A i \in DOMAIN input.crls : TruthfulCrl(input.crls[i], t)
    /\ TruthfulResponse(input.live, t)

\* With truthful signers the verdict agrees with the history of the
\* certificate, an issuer being known: without one, unsigned lists count.
\* Invalid means that it was revoked at the validation time.  Valid means that
\* it was not, or that the evidence which is still in its window was issued
\* before the revocation: the freshness limits bound the error.
AgreesWithHistory ==
    pc = "done" /\ input.issuer => \A t \in 0..(input.time + 1) : Truthful(t) =>
        /\ overall = "Invalid" => RevokedBy(t, input.time)
        /\ overall = "Valid" /\ RevokedBy(t, input.time) =>
              \/ \E i \in DOMAIN input.ocsp :
                    LET r == input.ocsp[i] IN
                       Says(r, EmbeddedMaxAge, "good") /\ r.producedAt < t
              \/ \E i \in DOMAIN input.crls :
                    ProvesAbsence(input.crls[i]) /\ input.crls[i].thisUpdate < t
              \/ Says(input.live, LiveMaxAge, "good") /\ input.live.producedAt < t

Promised ==
    LET r == Result(status, overall, ocspAttempted \/ crlAttempted) IN
       IF input.certificate THEN r \in RevocationResults(input.issuer)
       ELSE r = NotRevocationChecked

\* The validator returns, whatever evidence it has to go through, and the
\* callers see no other result than the ones they are validated against
\* (RevocationVerdict): without the issuer's certificate never "not revoked"
\* and never a status of OCSP.
ResultIsPromised == [](pc = "done" => Promised) /\ <>(pc = "done")

=============================================================================
