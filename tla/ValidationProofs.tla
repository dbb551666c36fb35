-------------------------- MODULE ValidationProofs --------------------------
(***************************************************************************)
(* The report is faithful to the verdicts of the engines, every verdict    *)
(* stays within the policy, and the claims of a report agree: for every    *)
(* profile and level, for one signature, and for documents with any number *)
(* of signatures.                                                          *)
(***************************************************************************)
EXTENDS Validation, WellFoundedInduction, TLAPS

\* Adding an entry at the end of a list.
LEMMA Appended ==
    ASSUME NEW S, NEW s \in Seq(S), NEW e \in S
    PROVE  /\ Append(s, e) \in Seq(S) /\ Append(s, e) # << >> /\ Len(Append(s, e)) = Len(s) + 1
           /\ \A i \in 1 .. Len(s) : Append(s, e)[i] = s[i]
           /\ Append(s, e)[Len(s) + 1] = e
OBVIOUS

\* Joining two lists.
LEMMA Joined ==
    ASSUME NEW S, NEW s \in Seq(S), NEW t \in Seq(S)
    PROVE  /\ s \o t \in Seq(S) /\ Len(s \o t) = Len(s) + Len(t)
           /\ \A i \in 1 .. Len(s) + Len(t) : (s \o t)[i] = IF i <= Len(s) THEN s[i] ELSE t[i - Len(s)]
OBVIOUS

\* A set of positions that is not empty has a least one, and Min finds it.
LEMMA MinIsMember ==
    ASSUME NEW S \in SUBSET Nat, S # {}
    PROVE  Min(S) \in S
<1> DEFINE Less == {p \in Nat \X Nat : p[1] < p[2]}
<1>1. OpToRel(<, Nat) = Less
  BY Zenon DEF OpToRel
<1>2. IsWellFoundedOn(Less, Nat)
  BY <1>1, NatLessThanWellFounded, Zenon
<1>3. \A y, z \in Nat : y < z => <<y, z>> \in Less
  <2> TAKE y, z \in Nat
  <2> HAVE y < z
  <2> DEFINE p == <<y, z>>
  <2>1. p[1] = y /\ p[2] = z /\ p \in Nat \X Nat
    BY Zenon
  <2> HIDE DEF p
  <2>2. p[1] < p[2]
    BY <2>1, Zenon
  <2> QED
    BY <2>1, <2>2, Zenon DEF Less, p
<1> HIDE DEF Less
<1>4. PICK x \in S : \A y \in S : ~(<<y, x>> \in Less)
  BY <1>2, WFMin, Zenon
<1>5. \A y \in S : x =< y
  <2> TAKE y \in S
  <2>1. x \in Nat /\ y \in Nat
    BY Zenon
  <2>2. ~(y < x)
    BY <1>3, <1>4, <2>1, Zenon
  <2> QED
    BY <2>1, <2>2
<1> QED
  BY <1>5, Zenon DEF Min

\* What is accepted passed the policy, whole and covered (SummaryCheck).
LEMMA AcceptedPasses ==
    ASSUME NEW r, Accepted(SummaryCheck(r))
    PROVE  r.signatureValid /\ PolicyValid(r)
BY Zenon DEF Accepted, SummaryCheck, Check

\* The representative is a signer, and if its revocation is confirmed and all
\* are trusted, so is everyone's.
LEMMA RepresentativeIsWorst ==
    ASSUME NEW s \in Seq(SignerEntries), s # <<>>
    PROVE  /\ Representative(s) \in DOMAIN s
           /\ (\A i \in DOMAIN s : s[i].trustValid) /\ RevocationGood(s[Representative(s)])
                 => \A i \in DOMAIN s : RevocationGood(s[i])
           /\ (\E i \in DOMAIN s : ~s[i].trustValid) => ~s[Representative(s)].trustValid
<1> DEFINE untrusted == {i \in DOMAIN s : ~s[i].trustValid}
           unconfirmed == {i \in DOMAIN s : ~RevocationGood(s[i])}
<1>1. DOMAIN s = 1 .. Len(s) /\ Len(s) \in Nat /\ 1 \in DOMAIN s
  OBVIOUS
<1>2. untrusted \in SUBSET Nat /\ unconfirmed \in SUBSET Nat
  BY <1>1
<1>3. untrusted # {} => Min(untrusted) \in untrusted
  BY <1>2, MinIsMember, Zenon
<1>4. unconfirmed # {} => Min(unconfirmed) \in unconfirmed
  BY <1>2, MinIsMember, Zenon
<1>5. Representative(s) = IF untrusted # {} THEN Min(untrusted)
                          ELSE IF unconfirmed # {} THEN Min(unconfirmed) ELSE 1
  BY Zenon DEF Representative
<1> HIDE DEF RevocationGood
<1> QED
  BY <1>1, <1>3, <1>4, <1>5, Zenon

\* The fields of the report of several signatures that the verdict reads.
LEMMA AggregateFields ==
    ASSUME NEW s \in Seq(SignerEntries), NEW c \in BOOLEAN
    PROVE  LET r == Aggregate(s, c)
               worst == s[Representative(s)]
               details == UNION {s[i].details : i \in DOMAIN s}
               refused == AnyDetailInvalid(details)
           IN  /\ r.signatures = s
               /\ r.details = details
               /\ r.signatureValid <=> \A i \in DOMAIN s : s[i].signatureValid
               /\ r.trustValid <=> ((\A i \in DOMAIN s : s[i].trustValid) /\ ~refused)
               /\ r.revocationChecked <=> \A i \in DOMAIN s : s[i].revocationChecked
               /\ r.revocationStatus = worst.revocationStatus
               /\ r.timestampValid => ~refused
               /\ r.trustValid => r.error = worst.error
<1> DEFINE details == UNION {s[i].details : i \in DOMAIN s}
           refused == AnyDetailInvalid(details)
           stamp == TimestampDetailsVerdict(details)
<1>1. /\ refused => details # {}
      /\ stamp.status = "timestamp-invalid" <=> refused
      /\ stamp.valid => ~refused
  BY Zenon DEF TimestampDetailsVerdict, AnyDetailInvalid
<1> HIDE DEF details, refused, stamp
<1> QED
  BY <1>1, Zenon DEF Aggregate, ApplyTimestampFailureToTrust, details, refused, stamp

\* A report of any number of signatures is justified.
LEMMA AggregateJustified ==
    ASSUME \A e \in SignerEntries : e.trustValid => e.error = "None",
           NEW s \in Seq(SignerEntries), s # <<>>, NEW c \in BOOLEAN, report = Aggregate(s, c)
    PROVE  AggregateIsJustified
<1> DEFINE worst == s[Representative(s)]
           details == UNION {s[i].details : i \in DOMAIN s}
<1>1. /\ report.signatures = s
      /\ report.details = details
      /\ report.signatureValid <=> \A i \in DOMAIN s : s[i].signatureValid
      /\ report.trustValid <=> ((\A i \in DOMAIN s : s[i].trustValid) /\ ~AnyDetailInvalid(details))
      /\ report.revocationChecked <=> \A i \in DOMAIN s : s[i].revocationChecked
      /\ report.revocationStatus = worst.revocationStatus
      /\ report.timestampValid => ~AnyDetailInvalid(details)
      /\ report.trustValid => report.error = worst.error
  BY AggregateFields, ZenonT(60)
<1>2. \A i \in DOMAIN s : s[i] \in SignerEntries /\ s[i].details \subseteq details
  OBVIOUS
<1>3. \A i \in DOMAIN s : AnyDetailInvalid(s[i].details) => AnyDetailInvalid(details)
  BY <1>2, Zenon DEF AnyDetailInvalid
<1> HIDE DEF details
<1> SUFFICES ASSUME NEW i \in DOMAIN s
             PROVE  /\ Accepted(Summary) =>
                          /\ s[i].signatureValid
                          /\ s[i].trustValid
                          /\ s[i].revocationChecked /\ RevocationGood(s[i])
                          /\ \A d \in s[i].details : d.valid \/ d.acceptable
                    /\ ~s[i].signatureValid => Summary.status = "invalid"
                    /\ AnyDetailInvalid(s[i].details) => ~report.trustValid /\ ~report.timestampValid
                    /\ report.trustValid => report.error = "None" /\ s[i].error = "None"
  BY <1>1, Zenon DEF AggregateIsJustified
<1>4. ASSUME Accepted(Summary)
      PROVE  /\ s[i].signatureValid
             /\ s[i].trustValid
             /\ s[i].revocationChecked /\ RevocationGood(s[i])
             /\ \A d \in s[i].details : d.valid \/ d.acceptable
  <2>1. report.signatureValid /\ PolicyValid(report)
    BY <1>4, AcceptedPasses, Zenon DEF Summary
  <2>2. /\ report.trustValid /\ report.revocationChecked /\ RevocationGood(report)
        /\ \A d \in report.details : d.valid \/ d.acceptable
    BY <2>1, Zenon DEF PolicyValid
  <2>3. RevocationGood(worst)
    BY <1>1, <2>2, Zenon DEF RevocationGood
  <2>4. \A j \in DOMAIN s : RevocationGood(s[j])
    BY <1>1, <2>2, <2>3, RepresentativeIsWorst, Zenon
  <2> QED
    BY <1>1, <1>2, <2>1, <2>2, <2>4, Zenon
<1>5. ~s[i].signatureValid => Summary.status = "invalid"
  BY <1>1, Zenon DEF Summary, SummaryCheck, Check
<1>6. report.trustValid => report.error = "None" /\ s[i].error = "None"
  BY <1>1, <1>2, RepresentativeIsWorst, Zenon
<1> QED
  BY <1>1, <1>3, <1>4, <1>5, <1>6, Zenon

-----------------------------------------------------------------------------
\* The report of one signature.

\* The time stamp the policy bears with although it is not valid.
Unsettled == {"TSA_ISSUER_MISSING", "TSA_REVOCATION_UNKNOWN"}

StampOK(t) == t.acceptable => t.valid \/ (SoftPolicy /\ t.reason \in Unsettled)

\* What a decision that finds trust, or is Invalid, was made of.
LEMMA DecisionCases ==
    ASSUME NEW e
    PROVE  /\ Decision(e).signatureValid = e.signatureValid
           /\ Decision(e).trustValid =>
                 /\ Decision(e).overall \in {"Valid", "Indeterminate"}
                 /\ ~Undecided(e) => Decision(e).overall = "Valid"
                 /\ TrustValid(e)
           /\ Decision(e).overall = "Invalid" =>
                 /\ ~Decision(e).trustValid
                 /\ \/ ~e.signatureValid
                    \/ e.revocation.status = "Revoked" /\ e.revocation.overall = "Invalid"
<1> HIDE DEF TrustValid, TrustStatus, LongTermValid, Undecided
<1> QED
  BY Zenon DEF Decision, NoDecision

\* A trusted signer comes without an error, one that is Invalid with one
\* (ProjectVerifyReport).
LEMMA ProjectedErrors ==
    ASSUME NEW e, NEW attempted \in BOOLEAN, NEW ts, NEW c \in BOOLEAN
    PROVE  LET d == Decision(e)
               r == ProjectVerifyReport(d, e.path, e.revocation, attempted, ts, c)
           IN  /\ r.trustValid => d.trustValid /\ r.error = "None"
               /\ d.overall = "Invalid" => ~r.trustValid /\ r.error # "None"
<1> DEFINE d == Decision(e)
           trust == TrustFields(d, e.revocation)
<1>1. /\ d.trustValid => d.overall \in {"Valid", "Indeterminate"}
      /\ d.overall = "Invalid" => ~d.trustValid
  BY DecisionCases, Zenon
<1> HIDE DEF d
<1>2. /\ trust.valid => d.trustValid /\ trust.error = "None"
      /\ trust.error \in {"None", "RevocationCheckFailed"}
  BY Zenon DEF TrustFields
<1> HIDE DEF trust
<1>3. /\ trust.valid => ProjectedError(d, e.revocation, trust) = "None"
      /\ d.overall = "Invalid" => ~trust.valid /\ ProjectedError(d, e.revocation, trust) # "None"
  BY <1>1, <1>2, Zenon DEF ProjectedError
<1> QED
  BY <1>2, <1>3, Zenon DEF ProjectVerifyReport, d, trust

\* A trusted entry has no error, so a report never trusts beside one.
LEMMA EntriesWithoutError == \A e \in SignerEntries : e.trustValid => e.error = "None"
<1> SUFFICES ASSUME NEW e \in SignerEntries, e.trustValid
             PROVE  e.error = "None"
  BY Zenon
<1>1. CASE e = EntryWithoutCertificate
  BY <1>1, Zenon DEF EntryWithoutCertificate
<1>2. CASE \E alone \in AloneReports, details \in StampDetails : e = SignerEntry(alone, details)
  <2>1. PICK alone \in AloneReports, details \in StampDetails : e = SignerEntry(alone, details)
    BY <1>2, Zenon
  <2>2. e.trustValid = alone.trustValid /\ e.error = alone.error
    BY <2>1, Zenon DEF SignerEntry
  <2>3. PICK g : alone = ProjectVerifyReport(Decision(g), g.path, g.revocation, FALSE, NotStamped, TRUE)
    BY Zenon DEF AloneReports
  <2>4. alone.trustValid => alone.error = "None"
    BY <2>3, ProjectedErrors, Zenon
  <2> QED
    BY <2>2, <2>4, Zenon
<1> QED
  BY <1>1, <1>2 DEF SignerEntries

\* The report VerifyDetached commits for one signature.
ReportOf(c) ==
    NameTrustFailure(ProjectVerifyReport(decision, path, revocation, TimestampAttempted, timestamp, c))

LEMMA DoneIsFaithful ==
    ASSUME NEW b \in BOOLEAN, decision = Decision(Gathered(b)),
           NEW c \in BOOLEAN, report = ReportOf(c),
           StampOK(timestamp), revocation \in RevocationResults(TRUE)
    PROVE  AcceptedIsJustified /\ InvalidIsReported
<1> DEFINE g == Gathered(b)
           r == ProjectVerifyReport(decision, path, revocation, TimestampAttempted, timestamp, c)
<1>1. /\ g.signatureValid = b /\ g.path = path /\ g.revocation = revocation
      /\ g.stamped = TimestampAttempted /\ g.stampValid = timestamp.valid
  BY Zenon DEF Gathered
<1> HIDE DEF g
<1>2. /\ decision.signatureValid = b
      /\ decision.trustValid => /\ TrustValid(g)
                                /\ ~Undecided(g) => decision.overall = "Valid"
      /\ decision.overall = "Invalid" =>
            \/ ~b
            \/ revocation.status = "Revoked" /\ revocation.overall = "Invalid"
  BY <1>1, DecisionCases, Zenon DEF g
<1>3. /\ r.trustValid => decision.trustValid /\ r.error = "None"
      /\ decision.overall = "Invalid" => ~r.trustValid /\ r.error # "None"
  BY <1>1, ProjectedErrors, ZenonT(60) DEF g, TimestampAttempted
<1>4. /\ r.signatureValid = decision.signatureValid
      /\ r.coverage = c
      /\ r.revocationStatus = CanonicalRevocationStatusString(revocation.status)
      /\ r.details = IF TimestampAttempted THEN {ProjectTimestampResult(timestamp)} ELSE {}
  BY Zenon DEF ProjectVerifyReport
<1>5. /\ report.signatureValid = r.signatureValid
      /\ report.coverage = r.coverage
      /\ report.trustValid = r.trustValid
      /\ report.revocationStatus = r.revocationStatus
      /\ report.details = r.details
      /\ r.trustValid => report.error = r.error
      /\ report.error = r.error \/ report.error = TrustFailureErrorCode(r.trustStatus)
  BY DEF ReportOf, NameTrustFailure, ProjectVerifyReport
<1> HIDE DEF r
<1>6. revocation.status = "Good" => revocation.overall = "Valid"
  BY DEF RevocationResults, NotRevocationChecked, Result
<1>7. ASSUME Accepted(Summary)
      PROVE  /\ decision.overall = "Valid"
             /\ revocation.status = "Good"
             /\ TimestampAttempted =>
                   \/ timestamp.valid
                   \/ SoftPolicy /\ timestamp.reason \in Unsettled
             /\ report.error = "None"
  <2>1. report.signatureValid /\ PolicyValid(report)
    BY <1>7, AcceptedPasses, Zenon DEF Summary
  <2>2. /\ report.trustValid /\ RevocationGood(report)
        /\ \A d \in report.details : d.valid \/ d.acceptable
    BY <2>1, Zenon DEF PolicyValid
  <2>3. revocation.status = "Good"
    BY <1>4, <1>5, <2>2, Zenon DEF RevocationGood, CanonicalRevocationStatusString
  <2>4. TimestampAttempted => timestamp.valid \/ timestamp.acceptable
    <3> DEFINE d == ProjectTimestampResult(timestamp)
    <3>1. d.valid = timestamp.valid /\ d.acceptable = timestamp.acceptable
      BY Zenon DEF ProjectTimestampResult
    <3> HIDE DEF d
    <3>2. TimestampAttempted => d \in report.details
      BY <1>4, <1>5, Zenon DEF d
    <3> QED
      BY <2>2, <3>1, <3>2, Zenon
  <2>5. TimestampAttempted => timestamp.valid \/ (SoftPolicy /\ timestamp.reason \in Unsettled)
    BY <2>4, Zenon DEF StampOK
  <2>6. TrustValid(g) /\ ~Undecided(g)
    BY <1>1, <1>2, <1>3, <1>5, <1>6, <2>2, <2>3, <2>5, Zenon DEF Undecided, SoftPolicy
  <2> QED
    BY <1>2, <1>3, <1>5, <2>2, <2>3, <2>5, <2>6, Zenon
<1>8. ASSUME decision.overall = "Invalid"
      PROVE  Summary.status = "invalid" /\ report.error # "None" /\ ~report.trustValid
  <2>1. ~report.trustValid /\ report.error # "None"
    BY <1>3, <1>5, <1>8, Zenon DEF TrustFailureErrorCode
  <2>2. ~PolicyValid(report)
    BY <2>1, Zenon DEF PolicyValid
  <2>3. revocation.status = "Revoked" => report.revocationStatus = "revoked"
    BY <1>4, <1>5, Zenon DEF CanonicalRevocationStatusString
  <2>4. ~report.signatureValid \/ report.revocationStatus = "revoked"
    BY <1>2, <1>4, <1>5, <1>8, <2>3, Zenon
  <2> QED
    BY <2>1, <2>2, <2>4, Zenon DEF Summary, SummaryCheck, Check
<1> QED
  BY <1>7, <1>8, Zenon DEF AcceptedIsJustified, InvalidIsReported, Unsettled

-----------------------------------------------------------------------------
\* The steps of the time stamp engine.
Stamping == {"token", "genTime", "tsaTrust", "tsaRights", "tsaLocal", "tsaOnline"}

\* The inductive invariant: what each step adds to the time stamp, the verdict
\* and the report is still there, in the form it was computed, when the report
\* is made of it.
ReportInv ==
    /\ StampOK(timestamp)
    /\ pc \in {"resolve", "load"} \cup Stamping => ~timestamp.acceptable
    /\ revocation \in RevocationResults(TRUE)
    /\ pc \in {"project", "done"} => \E b \in BOOLEAN : decision = Decision(Gathered(b))
    /\ pc \notin {"done", "signers", "aggregated"} => report = NoReport
    /\ pc = "done" => \E c \in BOOLEAN : report = ReportOf(c)
    /\ pc = "signers" => \E s \in Seq(SignerEntries) :
                            s # <<>> /\ report = [NoReport EXCEPT !.signatures = s]
    /\ pc = "aggregated" => \E s \in Seq(SignerEntries), c \in BOOLEAN :
                               s # <<>> /\ report = Aggregate(s, c)

\* Every state of the invariant has a faithful report.
LEMMA InvIsFaithful == ReportInv => ReportIsFaithful
<1> SUFFICES ASSUME ReportInv
             PROVE  ReportIsFaithful
  BY Zenon
<1>1. CASE pc = "done"
  <2>1. AcceptedIsJustified /\ InvalidIsReported
    BY <1>1, DoneIsFaithful, Zenon DEF ReportInv
  <2> QED
    BY <1>1, <2>1, Zenon DEF ReportIsFaithful, AggregateIsJustified
<1>2. CASE pc = "aggregated"
  <2>1. AggregateIsJustified
    BY <1>2, AggregateJustified, EntriesWithoutError, Zenon DEF ReportInv
  <2> QED
    BY <1>2, <2>1, Zenon DEF ReportIsFaithful, AcceptedIsJustified, InvalidIsReported, Reported
<1>3. CASE pc \notin {"done", "aggregated"}
  BY <1>3, Zenon DEF ReportIsFaithful, AcceptedIsJustified, InvalidIsReported, Reported,
              AggregateIsJustified
<1> QED
  BY <1>1, <1>2, <1>3, Zenon

\* A step of the time stamp engine that leaves the stamp in order.
LEMMA StampStepKeeps ==
    ASSUME ReportInv, pc \in Stamping, pc' \in {"time"} \cup Stamping,
           StampOK(timestamp'), pc' # "time" => ~timestamp'.acceptable,
           UNCHANGED <<context, policy, stores, time, signer, path, archived, service, revocation,
                       decision, report>>
    PROVE  ReportInv'
BY Zenon DEF ReportInv, StampOK, SoftPolicy, Stamping

\* The steps of the time stamp engine.
LEMMA StampEngineKeeps ==
    ASSUME ReportInv,
           CheckToken \/ CheckGenTime \/ CheckTsaTrust \/ CheckTsaRights \/ CheckTsaRevocation
    PROVE  ReportInv'
<1>1. pc \in Stamping
  BY Zenon DEF Stamping, CheckToken, CheckGenTime, CheckTsaTrust, CheckTsaRights, CheckTsaRevocation
<1>2. StampOK(timestamp) /\ ~timestamp.acceptable
  BY <1>1, Zenon DEF ReportInv
<1>3. CASE CheckToken
  <2>1. StampOK(timestamp') /\ (pc' # "time" => ~timestamp'.acceptable) /\ pc' \in {"time"} \cup Stamping
    BY <1>2, <1>3 DEF CheckToken, TokenFailures, StampStep, Stamping, Refused, Stamp, StampOK
  <2> QED
    BY <1>1, <1>3, <2>1, StampStepKeeps, Zenon DEF CheckToken, StampStep
<1>4. CASE CheckGenTime
  <2>1. StampOK(timestamp') /\ (pc' # "time" => ~timestamp'.acceptable) /\ pc' \in {"time"} \cup Stamping
    BY <1>2, <1>4 DEF CheckGenTime, StampStep, Stamping, Refused, Stamp, StampOK
  <2> QED
    BY <1>1, <1>4, <2>1, StampStepKeeps, Zenon DEF CheckGenTime, StampStep
<1>5. CASE CheckTsaTrust
  <2> DEFINE t(h) == [NotStamped EXCEPT !.historical = h]
  <2>1. PICK h : \/ StampStep("tsaRights", t(h))
                 \/ StampStep("time", Refused("TsaExpired", "TSA_CHAIN_TIME_INVALID"))
                 \/ StampStep("time", Refused("UntrustedTsa", "TSA_UNTRUSTED"))
    BY <1>5, Zenon DEF CheckTsaTrust
  <2>2. ~t(h).acceptable
    BY Zenon DEF NotStamped
  <2> HIDE DEF t
  <2>3. StampOK(timestamp') /\ (pc' # "time" => ~timestamp'.acceptable) /\ pc' \in {"time"} \cup Stamping
    BY <2>1, <2>2 DEF StampStep, Stamping, Refused, Stamp, StampOK
  <2> QED
    BY <1>1, <2>1, <2>3, StampStepKeeps, Zenon DEF StampStep
<1>6. CASE CheckTsaRights
  <2>1. StampOK(timestamp') /\ (pc' # "time" => ~timestamp'.acceptable) /\ pc' \in {"time"} \cup Stamping
    BY <1>2, <1>6 DEF CheckTsaRights, StampStep, Stamping, Unsettled, Unproved, Refused, Stamp, StampOK
  <2> QED
    BY <1>1, <1>6, <2>1, StampStepKeeps, Zenon DEF CheckTsaRights, StampStep
<1>7. CASE CheckTsaRevocation
  <2>1. PICK r \in RevocationResults(TRUE) :
                \/ StampStep("tsaOnline", timestamp)
                \/ StampStep("time", TsaVerdict(r))
    BY <1>7, Zenon DEF CheckTsaRevocation
  <2>2. r.overall \in {"Invalid", "Indeterminate", "Valid"}
    BY DEF RevocationResults, NotRevocationChecked, Result
  <2>3. StampOK(TsaVerdict(r))
    BY <2>2, Zenon DEF TsaVerdict, Unproved, Refused, Stamp, StampOK, Unsettled
  <2>4. StampOK(timestamp') /\ (pc' # "time" => ~timestamp'.acceptable) /\ pc' \in {"time"} \cup Stamping
    BY <1>2, <2>1, <2>3, Zenon DEF StampStep, Stamping
  <2> QED
    BY <1>1, <2>1, <2>4, StampStepKeeps, Zenon DEF StampStep
<1> QED
  BY <1>3, <1>4, <1>5, <1>6, <1>7, Zenon

\* Nothing is claimed before the first step.
LEMMA InitHolds == Init => ReportInv
<1> SUFFICES ASSUME Init
             PROVE  ReportInv
  BY Zenon
<1>1. revocation \in RevocationResults(TRUE)
  BY Zenon DEF Init, RevocationResults
<1>2. StampOK(timestamp) /\ ~timestamp.acceptable
  BY Zenon DEF Init, NotStamped, StampOK
<1> QED
  BY <1>1, <1>2, Zenon DEF Init, ReportInv

\* The decision is a function of what was gathered and of the policy.
LEMMA DecisionKept ==
    ASSUME UNCHANGED <<context, policy, timestamp, time, path, archived, service, revocation>>,
           NEW b \in BOOLEAN
    PROVE  Decision(Gathered(b))' = Decision(Gathered(b))
<1> DEFINE g == Gathered(b)
<1>1. g' = g
  BY Zenon DEF Gathered, TimestampAttempted, TrustedTime
<1>2. TrustValid(g)' = TrustValid(g)
  BY <1>1, Zenon DEF TrustValid, Trusted
<1>3. TrustStatus(g)' = TrustStatus(g)
  BY <1>1, <1>2, Zenon DEF TrustStatus
<1>4. LongTermValid(g)' = LongTermValid(g) /\ Undecided(g)' = Undecided(g)
  BY <1>1, <1>2, Zenon DEF LongTermValid, Undecided
<1> HIDE DEF g
<1> QED
  BY <1>1, <1>2, <1>3, <1>4, Zenon DEF Decision, g

\* The other steps.
LEMMA PipelineKeeps ==
    ASSUME ReportInv,
           \/ ResolvePolicy \/ LoadStores \/ ResolveSigningTime \/ SelectPath \/ EvaluateService
           \/ CheckRevocation \/ SynthesizeDecision \/ Project
    PROVE  ReportInv'
<1>1. CASE ResolvePolicy
  BY <1>1, Zenon DEF ReportInv, ResolvePolicy, StampOK, Stamping
<1>2. CASE LoadStores
  BY <1>2, Zenon DEF ReportInv, LoadStores, StampOK, SoftPolicy, Stamping
<1>3. CASE ResolveSigningTime
  BY <1>3, Zenon DEF ReportInv, ResolveSigningTime, StampOK, SoftPolicy, Stamping
<1>4. CASE SelectPath
  BY <1>4, Zenon DEF ReportInv, SelectPath, StampOK, SoftPolicy, Stamping
<1>5. CASE EvaluateService
  BY <1>5, Zenon DEF ReportInv, EvaluateService, StampOK, SoftPolicy, Stamping
<1>6. CASE CheckRevocation
  <2>1. revocation' \in RevocationResults(TRUE)
    BY <1>6, Zenon DEF CheckRevocation, SignerRevocation, RevocationResults
  <2> QED
    BY <1>6, <2>1, Zenon DEF ReportInv, CheckRevocation, StampOK, SoftPolicy, Stamping
<1>7. CASE SynthesizeDecision
  <2>1. (\E b \in BOOLEAN : decision = Decision(Gathered(b)))'
    BY <1>7, DecisionKept, Zenon DEF SynthesizeDecision
  <2> QED
    BY <1>7, <2>1, Zenon DEF ReportInv, SynthesizeDecision, StampOK, SoftPolicy, Stamping
<1>8. CASE Project
  <2>1. (\E b \in BOOLEAN : decision = Decision(Gathered(b)))'
    BY <1>8, DecisionKept, Zenon DEF Project, ReportInv
  <2>2. (\E c \in BOOLEAN : report = ReportOf(c))'
    BY <1>8, Zenon DEF Project, ReportOf, TimestampAttempted
  <2> QED
    BY <1>8, <2>1, <2>2, Zenon DEF ReportInv, Project, StampOK, SoftPolicy, Stamping
<1> QED
  BY <1>1, <1>2, <1>3, <1>4, <1>5, <1>6, <1>7, <1>8, Zenon

\* The same signatures can be met as long as the policy and the stores stay.
LEMMA EntriesKept ==
    ASSUME UNCHANGED <<context, policy, stores, timestamp>>
    PROVE  SignerEntries' = SignerEntries
<1>1. StampDetails' = StampDetails
  BY Zenon DEF StampDetails, Refused, Unproved, TsaVerdict, Stamp, SoftPolicy
<1>2. AloneReports' = AloneReports
  BY DEF AloneReports, GatheredAlone, Decision, Undecided, LongTermValid, TrustStatus, TrustValid
<1> QED
  BY <1>1, <1>2 DEF SignerEntries

\* The signatures of a document are collected one by one, then folded.
LEMMA SignersKeep ==
    ASSUME ReportInv, ValidateSigner \/ AggregateSigners
    PROVE  ReportInv'
<1>1. UNCHANGED <<context, policy, stores, timestamp, time, path, archived, service, revocation, decision>>
  BY Zenon DEF ValidateSigner, AggregateSigners, SignerStep
<1>2. SignerEntries' = SignerEntries
  BY <1>1, EntriesKept, Zenon
<1>3. CASE ValidateSigner
  <2>1. PICK e \in SignerEntries : report' = [report EXCEPT !.signatures = Append(@, e)]
    BY <1>3, Zenon DEF ValidateSigner, SignerStep
  <2>2. PICK s \in Seq(SignerEntries) : report = [NoReport EXCEPT !.signatures = s]
    <3>1. CASE pc = "token"
      <4>1. NoReport = [f \in DOMAIN NoReport |-> NoReport[f]] /\ NoReport["signatures"] = <<>>
        BY Zenon DEF NoReport, ProjectVerifyReport
      <4>2. NoReport = [NoReport EXCEPT !.signatures = <<>>]
        BY <4>1, Zenon
      <4> QED
        BY <3>1, <4>2, <<>> \in Seq(SignerEntries), Zenon DEF ReportInv
    <3>2. CASE pc = "signers"
      BY <3>2, Zenon DEF ReportInv
    <3> QED
      BY <1>3, <3>1, <3>2, Zenon DEF ValidateSigner
  <2>3. report' = [NoReport EXCEPT !.signatures = Append(s, e)]
    BY <2>1, <2>2, ZenonT(60) DEF NoReport, ProjectVerifyReport
  <2>4. Append(s, e) \in Seq(SignerEntries) /\ Append(s, e) # <<>>
    BY Appended
  <2>5. (\E t \in Seq(SignerEntries) : t # <<>> /\ report = [NoReport EXCEPT !.signatures = t])'
    BY <1>2, <2>3, <2>4, Zenon
  <2> QED
    BY <1>1, <1>3, <2>5, Zenon DEF ReportInv, ValidateSigner, SignerStep, StampOK, SoftPolicy, Stamping
<1>4. CASE AggregateSigners
  <2>1. PICK c \in BOOLEAN : report' = Aggregate(report.signatures, c)
    BY <1>4, Zenon DEF AggregateSigners, SignerStep
  <2>2. PICK s \in Seq(SignerEntries) : s # <<>> /\ report = [NoReport EXCEPT !.signatures = s]
    BY <1>4, Zenon DEF AggregateSigners, ReportInv
  <2>3. report' = Aggregate(s, c)
    BY <2>1, <2>2, Zenon DEF NoReport, ProjectVerifyReport
  <2>4. (\E t \in Seq(SignerEntries), d \in BOOLEAN : t # <<>> /\ report = Aggregate(t, d))'
    BY <1>2, <2>2, <2>3, Zenon
  <2> QED
    BY <1>1, <1>4, <2>4, Zenon DEF ReportInv, AggregateSigners, SignerStep, StampOK, SoftPolicy, Stamping
<1> QED
  BY <1>3, <1>4, Zenon

\* ReportInv is inductive.
LEMMA ReportKept == ReportInv /\ [Next]_vars => ReportInv'
<1> SUFFICES ASSUME ReportInv, [Next]_vars
             PROVE  ReportInv'
  BY Zenon
<1>1. CASE UNCHANGED vars
  <2>1. SignerEntries' = SignerEntries
    BY <1>1, EntriesKept, Zenon DEF vars
  <2>2. pc \in {"project", "done"} => (\E b \in BOOLEAN : decision = Decision(Gathered(b)))'
    BY <1>1, DecisionKept, Zenon DEF vars, ReportInv
  <2>3. pc = "done" => (\E c \in BOOLEAN : report = ReportOf(c))'
    BY <1>1, Zenon DEF vars, ReportInv, ReportOf, TimestampAttempted
  <2> QED
    BY <1>1, <2>1, <2>2, <2>3, Zenon DEF vars, ReportInv, StampOK, SoftPolicy, Stamping
<1>2. CASE Next
  BY <1>2, StampEngineKeeps, PipelineKeeps, SignersKeep, Zenon DEF Next
<1> QED
  BY <1>1, <1>2, Zenon

\* For every profile and level, and for documents with any number of
\* signatures: the report accepts only what every engine accepted, and says so
\* of all they rejected (ProjectVerifyReport, ApplyPerSignerTrustAggregation,
\* SummaryCheck).
THEOREM ReportFaithful == Spec => []ReportIsFaithful
BY ReportKept, InitHolds, InvIsFaithful, PTL DEF Spec

-----------------------------------------------------------------------------
\* Every verdict stays within the policy, and its claims agree.

\* The profiles that rely on archived lists.
Archives == {"Compatibility", "UkraineLegal"}

\* The steps between the choice of the time and the report of one signature.
Judging == {"paths", "service", "revocation", "decide", "project", "done"}

StampJudged(t) ==
    /\ t.valid => t.status = "Valid" /\ t.reason = "TIMESTAMP_VALID" /\ t.acceptable
    /\ t.historical => context.profile \in Archives

PathJudged(p) ==
    /\ p.historical => context.profile \in Archives
    /\ Trusted(p) => context.profile # "Offline"

\* What the steps have established of the policy, the time stamp and the path
\* when the decision is made, in addition to ReportInv.
JudgedInv ==
    /\ ReportInv
    /\ context \in [profile : Profiles, level : Levels]
    /\ stores \in [current : BOOLEAN, historical : BOOLEAN]
    /\ pc # "resolve" => policy = Resolve(context)
    /\ pc \notin {"project", "done"} => decision = NoDecision
    /\ StampJudged(timestamp) /\ PathJudged(path)
    /\ pc \in Judging => (TrustedTime <=> TimestampAttempted /\ timestamp.valid)

\* The policy of each profile and level (PolicyResolver::Resolve).
LEMMA ResolvedPolicy ==
    ASSUME context \in [profile : Profiles, level : Levels], policy = Resolve(context)
    PROVE  /\ policy \in Policy
           /\ policy.allowHistorical <=> context.profile \in Archives
           /\ context.profile = "Offline" => policy.anchors = "CustomTrustStore"
           /\ context.level # "Basic" /\ (context.profile # "Compatibility" \/ context.level # "Standard")
                 => policy.hardFail
           /\ context.profile = "UkraineLegal" /\ context.level \in {"Extended", "Forensic"}
                 => policy.requireServiceTrust /\ policy.requireTrustedTime
<1>1. context.level \in Levels /\ context.profile \in Profiles
  BY Zenon
<1>2. /\ policy.allowHistorical <=> context.profile \in Archives
      /\ policy.anchors = TrustAnchorPolicy(context.profile)
      /\ policy.hardFail <=> context.level \in HardFailLevels(context.profile)
      /\ policy.requireServiceTrust <=> context.profile = "UkraineLegal" /\ context.level \in ExtendedOrHigher
      /\ policy.requireTrustedTime <=> context.profile = "UkraineLegal" /\ context.level \in ExtendedOrHigher
  BY Zenon DEF Resolve, Archives
<1>3. context.profile = "Offline" => TrustAnchorPolicy(context.profile) = "CustomTrustStore"
  BY Zenon DEF TrustAnchorPolicy
<1>4. policy \in Policy
  <2>1. TrustAnchorPolicy(context.profile) \in AnchorPolicies
    BY <1>1, Zenon DEF TrustAnchorPolicy, AnchorPolicies, Profiles
  <2> QED
    BY <2>1 DEF Policy, Resolve
<1> QED
  BY <1>1, <1>2, <1>3, <1>4, Zenon DEF HardFailLevels, StandardOrHigher, ExtendedOrHigher, Levels

\* What is selected is a result that may decide, or none (PathSelector).
LEMMA SelectedMayDecide ==
    ASSUME NEW n \in Nat, NEW rs, DOMAIN rs = 1 .. n, NEW p
    PROVE  LET s == Select(rs, p)
           IN  \/ s = NoPath
               \/ \E i \in DOMAIN rs : s = rs[i] /\ IsAuthoritativeCandidateAllowed(rs[i], p)
<1> DEFINE allowed == {i \in DOMAIN rs : IsAuthoritativeCandidateAllowed(rs[i], p)}
           trusted == {i \in allowed : Trusted(rs[i])}
<1>1. allowed \in SUBSET Nat /\ trusted \in SUBSET Nat
  OBVIOUS
<1>2. /\ trusted # {} => Min(trusted) \in trusted
      /\ allowed # {} => Min(allowed) \in allowed
  BY <1>1, MinIsMember, Zenon
<1>3. Select(rs, p) = IF trusted # {} THEN rs[Min(trusted)]
                      ELSE IF allowed # {} THEN rs[Min(allowed)] ELSE NoPath
  BY Zenon DEF Select
<1>4. CASE trusted # {}
  BY <1>2, <1>3, <1>4, Zenon
<1>5. CASE trusted = {} /\ allowed # {}
  BY <1>2, <1>3, <1>5, Zenon
<1>6. CASE trusted = {} /\ allowed = {}
  BY <1>3, <1>6, Zenon
<1> QED
  BY <1>4, <1>5, <1>6, Zenon

CandidateIds ==
    {"current-tl", "historical-tl", "custom-trust-store", "forensic-current-tl",
     "forensic-historical-tl"}

\* The candidates are a sequence; without anchors of a list none can be trusted
\* (PathBuilder, PathValidator).
LEMMA BuiltCandidates ==
    ASSUME NEW p \in Policy, NEW st \in [current : BOOLEAN, historical : BOOLEAN]
    PROVE  /\ Build(p, st) \in Seq([id : CandidateIds, anchors : BOOLEAN, historical : BOOLEAN])
           /\ p.anchors = "CustomTrustStore" =>
                 Build(p, st) = <<MakeCandidate("custom-trust-store", FALSE, FALSE)>>
<1> DEFINE C == [id : CandidateIds, anchors : BOOLEAN, historical : BOOLEAN]
<1>1. \A id \in CandidateIds, a, h \in BOOLEAN : MakeCandidate(id, a, h) \in C
  BY Zenon DEF MakeCandidate
<1> HIDE DEF C
<1>2. ASSUME NEW id \in CandidateIds, NEW a \in BOOLEAN, NEW h \in BOOLEAN
      PROVE  <<MakeCandidate(id, a, h)>> \in Seq(C)
  <2> DEFINE c == MakeCandidate(id, a, h)
  <2>1. c \in C
    BY <1>1, Zenon
  <2>2. \A x \in C : <<x>> \in Seq(C)
    OBVIOUS
  <2> QED
    BY <2>1, <2>2, Zenon
<1>3. <<>> \in Seq(C) /\ \A a, b \in Seq(C) : a \o b \in Seq(C)
  BY Joined
<1>4. p.anchors \in AnchorPolicies /\ st.current \in BOOLEAN
  BY Zenon DEF Policy
<1>5. /\ <<MakeCandidate("current-tl", st.current, FALSE)>> \in Seq(C)
      /\ <<MakeCandidate("forensic-current-tl", st.current, FALSE)>> \in Seq(C)
      /\ <<MakeCandidate("historical-tl", TRUE, TRUE)>> \in Seq(C)
      /\ <<MakeCandidate("forensic-historical-tl", TRUE, TRUE)>> \in Seq(C)
      /\ <<MakeCandidate("custom-trust-store", FALSE, FALSE)>> \in Seq(C)
  BY <1>2, <1>4, Zenon DEF CandidateIds
<1>6. AddHistoricalCandidateIfAllowed(p, st) \in Seq(C)
  BY <1>3, <1>5, Zenon DEF AddHistoricalCandidateIfAllowed
<1>7. CASE p.anchors = "CurrentTLOnly"
  BY <1>5, <1>7, Zenon DEF Build, C
<1>8. CASE p.anchors \in {"ExplicitLegacyAnchorBundle", "HistoricalAtSigningTime"}
  <2>1. Build(p, st) = <<MakeCandidate("current-tl", st.current, FALSE)>>
                          \o AddHistoricalCandidateIfAllowed(p, st)
    BY <1>8, Zenon DEF Build
  <2> QED
    BY <1>3, <1>5, <1>6, <1>8, <2>1, ZenonT(60) DEF C
<1>9. CASE p.anchors = "CustomTrustStore"
  <2>1. Build(p, st) = <<MakeCandidate("custom-trust-store", FALSE, FALSE)>>
    BY <1>9, Zenon DEF Build
  <2> QED
    BY <1>5, <2>1, Zenon DEF C
<1>10. CASE p.anchors = "ForensicAllPossible"
  <2> DEFINE a == IF st.current \/ ~st.historical
                  THEN <<MakeCandidate("forensic-current-tl", st.current, FALSE)>> ELSE <<>>
             b == IF st.historical
                  THEN <<MakeCandidate("forensic-historical-tl", TRUE, TRUE)>> ELSE <<>>
  <2>1. Build(p, st) = a \o b
    BY <1>10, Zenon DEF Build
  <2>2. a \in Seq(C) /\ b \in Seq(C)
    BY <1>3, <1>5, Zenon
  <2> HIDE DEF a, b
  <2> QED
    BY <1>3, <1>10, <2>1, <2>2, Zenon DEF C
<1> QED
  BY <1>4, <1>7, <1>8, <1>9, <1>10, Zenon DEF AnchorPolicies

\* The path a verdict rests on is one the profile lets decide.
LEMMA SelectedIsJudged ==
    ASSUME context \in [profile : Profiles, level : Levels], policy = Resolve(context),
           NEW st \in [current : BOOLEAN, historical : BOOLEAN],
           NEW presented \in Presented, NEW rs \in AllPathResults(Build(policy, st), presented)
    PROVE  PathJudged(Select(rs, policy))
<1> DEFINE cs == Build(policy, st)
           s == Select(rs, policy)
<1>p. policy \in Policy
  BY ResolvedPolicy, Zenon
<1>1. cs \in Seq([id : CandidateIds, anchors : BOOLEAN, historical : BOOLEAN])
  BY <1>p, BuiltCandidates, Zenon
<1>2. /\ DOMAIN rs = 1 .. Len(cs) /\ Len(cs) \in Nat
      /\ \A i \in 1 .. Len(cs) : rs[i] \in PathResults(cs[i], presented)
  <2> HIDE DEF cs
  <2>1. DOMAIN cs = 1 .. Len(cs) /\ Len(cs) \in Nat
    BY <1>1
  <2> QED
    BY <2>1, Zenon DEF AllPathResults, cs
<1>3. NoPath.historical = FALSE /\ ~Trusted(NoPath)
  BY Zenon DEF NoPath, Trusted
<1>4. CASE s = NoPath
  BY <1>3, <1>4, Zenon DEF PathJudged
<1>5. CASE \E i \in DOMAIN rs : s = rs[i] /\ IsAuthoritativeCandidateAllowed(rs[i], policy)
  <2>1. PICK i \in DOMAIN rs : s = rs[i] /\ IsAuthoritativeCandidateAllowed(rs[i], policy)
    BY <1>5, Zenon
  <2> HIDE DEF s
  <2>2. s.historical => context.profile \in Archives
    BY <2>1, ResolvedPolicy, Zenon DEF IsAuthoritativeCandidateAllowed
  <2>3. ASSUME context.profile = "Offline" PROVE ~Trusted(s)
    <3>1. cs = <<MakeCandidate("custom-trust-store", FALSE, FALSE)>>
      BY <1>p, <2>3, ResolvedPolicy, BuiltCandidates, Zenon
    <3>2. cs[i].anchors = FALSE
      BY <1>2, <2>1, <3>1 DEF MakeCandidate
    <3> HIDE DEF cs
    <3>3. PICK v \in ChainVerdicts(presented, cs[i].anchors) : rs[i].status = v.status
      BY <1>2, <2>1 DEF PathResults
    <3>4. v.status # "Trusted"
      BY <3>2, <3>3 DEF ChainVerdicts, Chain, Presented
    <3> QED
      BY <2>1, <3>3, <3>4, Zenon DEF Trusted
  <2> QED
    BY <2>2, <2>3, Zenon DEF PathJudged, s
<1> QED
  BY <1>2, <1>4, <1>5, SelectedMayDecide, Zenon

\* The two summaries of one report agree when its time stamp fields come from
\* its details and trust does not stand beside a refused time stamp.
LEMMA TwoSummaries ==
    ASSUME NEW r,
           [checked |-> r.timestampChecked, valid |-> r.timestampValid, status |-> r.timestampStatus]
              = TimestampDetailsVerdict(r.details),
           r.trustValid => r.trustStatus = "trusted-anchor-validated"
    PROVE  LET confirmed == ComputeVerifySummary(r) \in
                   {"integrity-trust-and-revocation", "integrity-trust-revocation-and-timestamp"}
           IN  /\ confirmed => Accepted(SummaryCheck(r))
               /\ SummaryCheck(r).status = "valid" => confirmed
<1> DEFINE v == TimestampDetailsVerdict(r.details)
<1>1. r.timestampChecked = v.checked /\ r.timestampValid = v.valid /\ r.timestampStatus = v.status
  <2> DEFINE w == [checked |-> r.timestampChecked, valid |-> r.timestampValid,
                   status |-> r.timestampStatus]
  <2>1. w.checked = r.timestampChecked /\ w.valid = r.timestampValid /\ w.status = r.timestampStatus
    BY Zenon
  <2>2. w = v
    BY Zenon
  <2> HIDE DEF v, w
  <2> QED
    BY <2>1, <2>2, Zenon
<1>2. /\ v.status = "timestamp-invalid" => v.checked /\ ~v.valid
      /\ v.status \notin {"timestamp-invalid", "timestamp-partial"} =>
            \A d \in r.details : d.valid \/ d.acceptable
  BY Zenon DEF TimestampDetailsVerdict, AllDetailsValid
<1> HIDE DEF v
<1>3. \A s : UntrustedSummary(s) \notin
             {"integrity-trust-and-revocation", "integrity-trust-revocation-and-timestamp"}
  BY Zenon DEF UntrustedSummary
<1>4. ASSUME ComputeVerifySummary(r) \in
               {"integrity-trust-and-revocation", "integrity-trust-revocation-and-timestamp"}
      PROVE  Accepted(SummaryCheck(r))
  <2>1. /\ r.signatureValid /\ r.coverage /\ r.trustStatus \notin ServiceOutage
        /\ ~TimestampPartial(r) /\ r.trustValid /\ r.revocationChecked /\ RevocationGood(r)
        /\ ~(r.timestampChecked /\ ~r.timestampValid /\ TimestampRefused(r))
    BY <1>3, <1>4, Zenon DEF ComputeVerifySummary
  <2>2. ~TimestampRefused(r)
    BY <1>1, <1>2, <2>1, Zenon DEF TimestampRefused
  <2>3. PolicyValid(r)
    BY <1>1, <1>2, <2>1, <2>2, Zenon DEF PolicyValid, TimestampPartial, TimestampRefused
  <2> QED
    BY <2>1, <2>3, Zenon DEF SummaryCheck, Check, Accepted
<1>5. ASSUME SummaryCheck(r).status = "valid"
      PROVE  ComputeVerifySummary(r) \in
               {"integrity-trust-and-revocation", "integrity-trust-revocation-and-timestamp"}
  <2>1. r.signatureValid /\ r.coverage /\ PolicyValid(r) /\ ~HasPolicyWarning(r)
    BY <1>5, Zenon DEF SummaryCheck, Check
  <2> QED
    BY <2>1, Zenon DEF PolicyValid, HasPolicyWarning, RevocationGood, ComputeVerifySummary
<1> QED
  BY <1>4, <1>5, Zenon

\* A decision that is Valid, or claims more, and what it was made of.
LEMMA ValidDecision ==
    ASSUME NEW e
    PROVE  /\ Decision(e).overall = "Valid" =>
                 /\ e.signatureValid /\ context.level # "Basic" /\ TrustValid(e) /\ ~Undecided(e)
                 /\ ~(e.revocation.status = "Revoked" /\ e.revocation.overall = "Invalid")
           /\ Decision(e).qualified => e.trustedTime /\ Decision(e).overall = "Valid"
           /\ Decision(e).ltv => /\ LongTermValid(e) /\ Decision(e).overall = "Valid"
                                 /\ Decision(e).qualified <=> e.trustedTime
                                 /\ Decision(e).trustValid
           /\ Decision(e).trustValid =>
                 TrustValid(e) /\ Decision(e).trustStatus = "trusted-anchor-validated"
<1>1. TrustValid(e) => TrustStatus(e) = "trusted-anchor-validated"
  BY Zenon DEF TrustStatus
<1>2. LongTermValid(e) => TrustValid(e)
  BY Zenon DEF LongTermValid
<1> DEFINE base == [NoDecision EXCEPT !.signatureValid = e.signatureValid]
           judged == [base EXCEPT !.trustValid = TrustValid(e), !.trustStatus = TrustStatus(e)]
           d == [judged EXCEPT !.overall = IF TrustValid(e) THEN "Valid" ELSE "Indeterminate",
                               !.qualified = TrustValid(e) /\ e.trustedTime,
                               !.ltv = LongTermValid(e)]
<1>3. /\ base.overall = "Indeterminate" /\ base.trustValid = FALSE /\ base.qualified = FALSE
      /\ base.ltv = FALSE
  BY Zenon DEF NoDecision
<1>4. /\ judged.overall = "Indeterminate" /\ judged.qualified = FALSE /\ judged.ltv = FALSE
      /\ judged.trustValid = TrustValid(e) /\ judged.trustStatus = TrustStatus(e)
  BY Zenon DEF NoDecision
<1>5. /\ d.overall = IF TrustValid(e) THEN "Valid" ELSE "Indeterminate"
      /\ d.qualified <=> TrustValid(e) /\ e.trustedTime
      /\ d.ltv = LongTermValid(e)
      /\ d.trustValid = TrustValid(e) /\ d.trustStatus = TrustStatus(e)
  BY Zenon DEF NoDecision
<1>6. \A o : LET x == [base EXCEPT !.overall = o]
            IN  x.overall = o /\ x.trustValid = FALSE /\ x.qualified = FALSE /\ x.ltv = FALSE
  BY Zenon DEF NoDecision
<1>7. \/ Decision(e) \in {[base EXCEPT !.overall = o] : o \in {"Invalid", "IntegrityOnly"}}
      \/ Decision(e) = judged
      \/ /\ Decision(e) = d /\ e.signatureValid /\ context.level # "Basic" /\ ~Undecided(e)
         /\ ~(e.revocation.status = "Revoked" /\ e.revocation.overall = "Invalid")
  BY Zenon DEF Decision
<1> HIDE DEF base, judged, d
<1>8. CASE Decision(e) \in {[base EXCEPT !.overall = o] : o \in {"Invalid", "IntegrityOnly"}}
  BY <1>6, <1>8, ZenonT(60)
<1>9. CASE Decision(e) = judged
  BY <1>1, <1>4, <1>9, Zenon
<1>10. CASE /\ Decision(e) = d /\ e.signatureValid /\ context.level # "Basic" /\ ~Undecided(e)
            /\ ~(e.revocation.status = "Revoked" /\ e.revocation.overall = "Invalid")
  BY <1>1, <1>2, <1>5, <1>10, Zenon
<1> QED
  BY <1>7, <1>8, <1>9, <1>10, Zenon

\* The verdict of one signature keeps to the policy and claims nothing it does
\* not have.
LEMMA JudgedDecision ==
    ASSUME JudgedInv, NEW b \in BOOLEAN, decision = Decision(Gathered(b)),
           pc \in {"project", "done"}
    PROVE  /\ ValidIsJustified
           /\ decision.trustValid => Trusted(path) /\ decision.trustStatus = "trusted-anchor-validated"
           /\ decision.ltv => decision.qualified
           /\ decision.qualified => decision.overall = "Valid" /\ timestamp.valid
           /\ decision.ltv => /\ revocation.status = "Good" /\ timestamp.valid /\ TimestampAttempted
                              /\ decision.signatureValid /\ decision.trustValid
<1> DEFINE g == Gathered(b)
<1>1. /\ g.signatureValid = b /\ g.path = path /\ g.service = service /\ g.revocation = revocation
      /\ g.stamped = TimestampAttempted /\ g.stampValid = timestamp.valid
      /\ g.trustedTime = TrustedTime
  BY Zenon DEF Gathered
<1> HIDE DEF g
<1>2. decision = Decision(g)
  BY Zenon DEF g
<1>3. /\ TrustValid(g) <=> Trusted(path) /\ (policy.requireServiceTrust => service)
      /\ ~Undecided(g) => /\ ~(revocation.overall = "Indeterminate" /\ policy.hardFail)
                          /\ ~(TimestampAttempted /\ ~timestamp.valid /\ policy.requireTrustedTime)
      /\ LongTermValid(g) => /\ revocation.status = "Good" /\ TimestampAttempted /\ timestamp.valid
  BY <1>1, Zenon DEF TrustValid, Undecided, LongTermValid
<1>4. /\ context \in [profile : Profiles, level : Levels] /\ policy = Resolve(context)
      /\ Trusted(path) => context.profile # "Offline"
      /\ TrustedTime <=> TimestampAttempted /\ timestamp.valid
  BY Zenon DEF JudgedInv, PathJudged, Judging
<1>5. revocation.overall \in {"Indeterminate", "Valid", "Invalid"} /\
      (revocation.overall = "Invalid" => revocation.status = "Revoked")
  BY DEF JudgedInv, ReportInv, RevocationResults, NotRevocationChecked, Result
<1>6. decision.overall = "Valid" =>
        /\ decision.signatureValid /\ context.level # "Basic" /\ TrustValid(g) /\ ~Undecided(g)
        /\ ~(revocation.status = "Revoked" /\ revocation.overall = "Invalid")
  BY <1>1, <1>2, ValidDecision, DecisionCases
<1>7. ValidIsJustified
  BY <1>3, <1>4, <1>5, <1>6, ResolvedPolicy, Zenon DEF ValidIsJustified
<1>8. /\ decision.trustValid => TrustValid(g) /\ decision.trustStatus = "trusted-anchor-validated"
      /\ decision.qualified => TrustedTime /\ decision.overall = "Valid"
      /\ decision.ltv => /\ LongTermValid(g) /\ decision.overall = "Valid"
                         /\ decision.qualified <=> TrustedTime
                         /\ decision.trustValid
  BY <1>1, <1>2, ValidDecision, Zenon
<1> QED
  BY <1>3, <1>4, <1>6, <1>7, <1>8, Zenon

\* The report of one signature says no more and no less than its verdict.
LEMMA JudgedReport ==
    ASSUME JudgedInv, pc = "done"
    PROVE  /\ decision.trustValid /\ path.historical => report.historical /\ Summary.status # "valid"
           /\ decision.ltv /\ report.coverage => Accepted(Summary)
           /\ SummariesAgree
<1>1. PICK b \in BOOLEAN, c \in BOOLEAN : decision = Decision(Gathered(b)) /\ report = ReportOf(c)
  BY Zenon DEF JudgedInv, ReportInv
<1> DEFINE trust == TrustFields(decision, revocation)
           details == IF TimestampAttempted THEN {ProjectTimestampResult(timestamp)} ELSE {}
           stamp == TimestampDetailsVerdict(details)
           r == ProjectVerifyReport(decision, path, revocation, TimestampAttempted, timestamp, c)
<1>2. /\ r.signatureValid = decision.signatureValid /\ r.coverage = c
      /\ r.trustValid = trust.valid /\ r.trustStatus = trust.status
      /\ r.historical <=> path.status = "Trusted" /\ path.historical
      /\ r.revocationChecked = revocation.checked
      /\ r.revocationStatus = CanonicalRevocationStatusString(revocation.status)
      /\ r.timestampChecked = stamp.checked /\ r.timestampValid = stamp.valid
      /\ r.timestampStatus = stamp.status /\ r.details = details
  BY Zenon DEF ProjectVerifyReport
<1>3. /\ report.signatureValid = r.signatureValid /\ report.coverage = r.coverage
      /\ report.trustValid = r.trustValid /\ report.trustStatus = r.trustStatus
      /\ report.historical = r.historical /\ report.revocationChecked = r.revocationChecked
      /\ report.revocationStatus = r.revocationStatus
      /\ report.timestampChecked = r.timestampChecked /\ report.timestampValid = r.timestampValid
      /\ report.timestampStatus = r.timestampStatus /\ report.details = r.details
  <2>1. report = NameTrustFailure(r)
    BY <1>1, Zenon DEF ReportOf
  <2>2. report = r \/ report = [r EXCEPT !.error = TrustFailureErrorCode(r.trustStatus)]
    BY <2>1, Zenon DEF NameTrustFailure
  <2> DEFINE x == [r EXCEPT !.error = TrustFailureErrorCode(r.trustStatus)]
  <2>3. /\ x.signatureValid = r.signatureValid /\ x.coverage = r.coverage
        /\ x.trustValid = r.trustValid /\ x.trustStatus = r.trustStatus
        /\ x.historical = r.historical /\ x.revocationChecked = r.revocationChecked
        /\ x.revocationStatus = r.revocationStatus
        /\ x.timestampChecked = r.timestampChecked /\ x.timestampValid = r.timestampValid
        /\ x.timestampStatus = r.timestampStatus /\ x.details = r.details
    BY DEF ProjectVerifyReport
  <2> HIDE DEF x, r
  <2> QED
    BY <2>2, <2>3, Zenon DEF x
<1> HIDE DEF r
<1>4. /\ decision.trustValid => Trusted(path) /\ decision.trustStatus = "trusted-anchor-validated"
      /\ decision.ltv => /\ revocation.status = "Good" /\ timestamp.valid /\ TimestampAttempted
                         /\ decision.signatureValid /\ decision.trustValid
  BY <1>1, JudgedDecision, Zenon
<1>5. trust.valid => decision.trustValid /\ trust.status = decision.trustStatus
  BY Zenon DEF TrustFields
<1>6. ASSUME decision.trustValid, path.historical
      PROVE  report.historical /\ Summary.status # "valid"
  <2>1. report.historical
    BY <1>2, <1>3, <1>4, <1>6, Zenon DEF Trusted
  <2> QED
    BY <2>1, Zenon DEF Summary, SummaryCheck, Check, HasPolicyWarning
<1>7. ASSUME decision.ltv, report.coverage
      PROVE  Accepted(Summary)
  <2>1. revocation.checked = TRUE /\ revocation.overall = "Valid"
    BY <1>4, <1>7 DEF JudgedInv, ReportInv, RevocationResults, NotRevocationChecked, Result
  <2>2. /\ trust.valid = TRUE \/ trust.valid = decision.trustValid
        /\ trust.status = "trusted-anchor-validated"
    BY <1>4, <1>7, <2>1, Zenon DEF TrustFields
  <2>3. CanonicalRevocationStatusString(revocation.status) = "valid"
    BY <1>4, <1>7, Zenon DEF CanonicalRevocationStatusString
  <2>4. /\ details = {ProjectTimestampResult(timestamp)}
        /\ ProjectTimestampResult(timestamp).valid
        /\ ProjectTimestampResult(timestamp).status = "timestamp-valid"
    <3>1. timestamp.status = "Valid" /\ timestamp.reason = "TIMESTAMP_VALID"
      BY <1>4, <1>7, Zenon DEF JudgedInv, StampJudged
    <3>2. TimestampStatusString(timestamp) = "timestamp-valid"
      BY <3>1, Zenon DEF TimestampStatusString, ProvedRefusals
    <3> QED
      BY <1>4, <1>7, <3>2, Zenon DEF ProjectTimestampResult
  <2>5. stamp.status = "timestamp-valid"
    <3> HIDE DEF details
    <3> QED
      BY <2>4, Zenon DEF TimestampDetailsVerdict, AllDetailsValid, AnyDetailInvalid
  <2>6. PolicyValid(report) /\ report.signatureValid
    <3> HIDE DEF details, stamp, trust
    <3> QED
      BY <1>2, <1>3, <1>4, <1>7, <2>1, <2>2, <2>3, <2>4, <2>5
      DEF PolicyValid, RevocationGood, TimestampRefused, ServiceOutage
  <2> QED
    BY <1>7, <2>6, Zenon DEF Summary, SummaryCheck, Check, Accepted
<1>8. SummariesAgree
  <2>1. [checked |-> report.timestampChecked, valid |-> report.timestampValid,
         status |-> report.timestampStatus] = TimestampDetailsVerdict(report.details)
    <3>1. stamp = [checked |-> stamp.checked, valid |-> stamp.valid, status |-> stamp.status]
      BY Zenon DEF TimestampDetailsVerdict
    <3> HIDE DEF stamp, details
    <3> QED
      BY <1>2, <1>3, <3>1, Zenon DEF stamp
  <2>2. report.trustValid => report.trustStatus = "trusted-anchor-validated"
    BY <1>2, <1>3, <1>4, <1>5, Zenon
  <2> QED
    BY <2>1, <2>2, TwoSummaries, Zenon DEF SummariesAgree, Summary
<1> QED
  BY <1>6, <1>7, <1>8, Zenon

\* A trusted entry says what its trust rests on.
LEMMA EntriesWithStatus ==
    \A e \in SignerEntries : e.trustValid => e.trustStatus = "trusted-anchor-validated"
<1> SUFFICES ASSUME NEW e \in SignerEntries, e.trustValid
             PROVE  e.trustStatus = "trusted-anchor-validated"
  BY Zenon
<1>1. CASE e = EntryWithoutCertificate
  BY <1>1, Zenon DEF EntryWithoutCertificate
<1>2. CASE \E alone \in AloneReports, details \in StampDetails : e = SignerEntry(alone, details)
  <2>1. PICK alone \in AloneReports, details \in StampDetails : e = SignerEntry(alone, details)
    BY <1>2, Zenon
  <2>2. e.trustValid = alone.trustValid /\ e.trustStatus = alone.trustStatus
    BY <2>1, Zenon DEF SignerEntry
  <2>3. PICK g : alone = ProjectVerifyReport(Decision(g), g.path, g.revocation, FALSE, NotStamped, TRUE)
    BY Zenon DEF AloneReports
  <2> DEFINE d == Decision(g)
             trust == TrustFields(d, g.revocation)
  <2>4. d.trustValid => d.trustStatus = "trusted-anchor-validated"
    BY ValidDecision, Zenon
  <2> HIDE DEF d
  <2>5. trust.valid => d.trustValid /\ trust.status = d.trustStatus
    BY ZenonT(60) DEF TrustFields
  <2>6. alone.trustValid = trust.valid /\ alone.trustStatus = trust.status
    BY <2>3, Zenon DEF ProjectVerifyReport, d
  <2> QED
    BY <2>2, <2>4, <2>5, <2>6, Zenon
<1> QED
  BY <1>1, <1>2 DEF SignerEntries

\* The report of several signatures agrees with itself.
LEMMA AggregateAgrees ==
    ASSUME NEW s \in Seq(SignerEntries), s # <<>>, NEW c \in BOOLEAN, report = Aggregate(s, c)
    PROVE  SummariesAgree
<1> DEFINE details == UNION {s[i].details : i \in DOMAIN s}
           worst == s[Representative(s)]
           stamp == TimestampDetailsVerdict(details)
<1>1. /\ report.timestampChecked = stamp.checked /\ report.timestampValid = stamp.valid
      /\ report.timestampStatus = stamp.status /\ report.details = details
      /\ report.trustValid => report.trustStatus = worst.trustStatus
  <2> HIDE DEF details, stamp, worst
  <2> QED
    BY Zenon DEF Aggregate, ApplyTimestampFailureToTrust, details, stamp, worst
<1>2. stamp = [checked |-> stamp.checked, valid |-> stamp.valid, status |-> stamp.status]
  BY Zenon DEF TimestampDetailsVerdict
<1>3. report.trustValid => report.trustStatus = "trusted-anchor-validated"
  <2>1. report.trustValid => \A i \in DOMAIN s : s[i].trustValid
    BY AggregateFields, Zenon
  <2>2. Representative(s) \in DOMAIN s /\ \A i \in DOMAIN s : s[i] \in SignerEntries
    BY RepresentativeIsWorst
  <2> QED
    BY <1>1, <2>1, <2>2, EntriesWithStatus, Zenon
<1> HIDE DEF details, stamp
<1>4. [checked |-> report.timestampChecked, valid |-> report.timestampValid,
       status |-> report.timestampStatus] = TimestampDetailsVerdict(report.details)
  BY <1>1, <1>2, Zenon DEF stamp
<1> QED
  BY <1>3, <1>4, TwoSummaries, Zenon DEF SummariesAgree, Summary

\* Every state of the invariant keeps to the policy, and its claims agree.
LEMMA JudgedIsSound == JudgedInv => VerdictWithinPolicy /\ ClaimsAgree
<1> SUFFICES ASSUME JudgedInv
             PROVE  VerdictWithinPolicy /\ ClaimsAgree
  BY Zenon
<1>1. CASE pc \in {"project", "done"}
  <2>1. PICK b \in BOOLEAN : decision = Decision(Gathered(b))
    BY <1>1, Zenon DEF JudgedInv, ReportInv
  <2>2. /\ ValidIsJustified
        /\ decision.trustValid => Trusted(path)
        /\ decision.ltv => decision.qualified
        /\ decision.qualified => decision.overall = "Valid" /\ timestamp.valid
    BY <1>1, <2>1, JudgedDecision, Zenon
  <2>3. Reported =>
           /\ decision.trustValid /\ path.historical => report.historical /\ Summary.status # "valid"
           /\ decision.ltv /\ report.coverage => Accepted(Summary)
           /\ SummariesAgree
    BY JudgedReport, Zenon DEF Reported
  <2>4. pc = "project" => SummariesAgree
    BY Zenon DEF SummariesAgree, Reported
  <2>5. HistoricalIsAllowed
    BY <2>2, <2>3, Zenon DEF HistoricalIsAllowed, JudgedInv, StampJudged, PathJudged, Archives
  <2> QED
    BY <1>1, <2>2, <2>3, <2>4, <2>5, Zenon DEF VerdictWithinPolicy, ClaimsAgree, StrongerClaims, Reported
<1>2. CASE pc \notin {"project", "done"}
  <2>1. decision.overall = "Indeterminate" /\ ~decision.trustValid /\ ~decision.ltv /\ ~decision.qualified
    <3>1. decision = NoDecision
      BY <1>2, Zenon DEF JudgedInv
    <3> QED
      BY <3>1, Zenon DEF NoDecision
  <2>2. pc = "aggregated" => SummariesAgree
    BY AggregateAgrees, Zenon DEF JudgedInv, ReportInv
  <2>3. pc # "aggregated" => SummariesAgree
    BY <1>2, Zenon DEF SummariesAgree, Reported
  <2>4. HistoricalIsAllowed /\ ValidIsJustified /\ StrongerClaims
    BY <2>1, Zenon DEF HistoricalIsAllowed, ValidIsJustified, StrongerClaims, JudgedInv, StampJudged, Archives
  <2> QED
    BY <2>2, <2>3, <2>4, Zenon DEF VerdictWithinPolicy, ClaimsAgree
<1> QED
  BY <1>1, <1>2, Zenon

\* A step of the time stamp engine that keeps the stamp within the policy.
LEMMA StampStepJudged ==
    ASSUME JudgedInv, pc \in Stamping, pc' \in {"time"} \cup Stamping, ReportInv',
           StampJudged(timestamp'),
           UNCHANGED <<context, policy, stores, time, signer, path, archived, service, revocation,
                       decision, report>>
    PROVE  JudgedInv'
BY Zenon DEF JudgedInv, StampJudged, PathJudged, Stamping, Judging

\* The steps of the time stamp engine.
LEMMA StampEngineJudges ==
    ASSUME JudgedInv,
           CheckToken \/ CheckGenTime \/ CheckTsaTrust \/ CheckTsaRights \/ CheckTsaRevocation
    PROVE  JudgedInv'
<1>r. ReportInv'
  BY StampEngineKeeps, Zenon DEF JudgedInv
<1>1. pc \in Stamping
  BY Zenon DEF Stamping, CheckToken, CheckGenTime, CheckTsaTrust, CheckTsaRights, CheckTsaRevocation
<1>2. /\ StampJudged(timestamp) /\ policy = Resolve(context)
      /\ context \in [profile : Profiles, level : Levels]
      /\ stores \in [current : BOOLEAN, historical : BOOLEAN]
  BY <1>1, Zenon DEF JudgedInv, Stamping
<1>3. \A status, reason, acceptable : StampJudged(Stamp(status, reason, FALSE, acceptable))
  BY <1>2, Zenon DEF StampJudged, Stamp
<1>4. CASE CheckToken
  <2>1. StampJudged(timestamp') /\ pc' \in {"time"} \cup Stamping
    BY <1>2, <1>4 DEF CheckToken, StampStep, Stamping, Refused, Stamp, StampJudged
  <2> QED
    BY <1>r, <1>1, <1>4, <2>1, StampStepJudged, Zenon DEF CheckToken, StampStep
<1>5. CASE CheckGenTime
  <2>1. StampJudged(timestamp') /\ pc' \in {"time"} \cup Stamping
    BY <1>2, <1>5 DEF CheckGenTime, StampStep, Stamping, Refused, Stamp, StampJudged
  <2> QED
    BY <1>r, <1>1, <1>5, <2>1, StampStepJudged, Zenon DEF CheckGenTime, StampStep
<1>6. CASE CheckTsaTrust
  <2> DEFINE t(h) == [NotStamped EXCEPT !.historical = h]
  <2>1. \/ \E h : StampStep("tsaRights", t(h)) /\ (h => context.profile \in Archives)
        \/ StampStep("time", Refused("TsaExpired", "TSA_CHAIN_TIME_INVALID"))
        \/ StampStep("time", Refused("UntrustedTsa", "TSA_UNTRUSTED"))
    <3>1. PICK tsa \in [current : TsaStore, historical : TsaStore] :
            LET anchors == [current    |-> stores.current \/ tsa.current # "empty",
                            historical |-> stores.historical \/ tsa.historical # "empty"]
                endpoints == policy.anchors # "CustomTrustStore"
                inCurrent == endpoints /\ tsa.current = "listed"
                inArchive == /\ endpoints
                             /\ ~inCurrent
                             /\ policy.allowHistorical
                             /\ tsa.historical = "listed"
            IN  \/ StampStep("tsaRights", t(inArchive))
                \/ \E results \in AllPathResults(Build(policy, anchors), "good") :
                      LET selected == Select(results, policy) IN
                      \/ StampStep("time", Refused("TsaExpired", "TSA_CHAIN_TIME_INVALID"))
                      \/ StampStep("time", Refused("UntrustedTsa", "TSA_UNTRUSTED"))
                      \/ StampStep("tsaRights", t(selected.historical))
      BY <1>6, Zenon DEF CheckTsaTrust
    <3> DEFINE anchors == [current    |-> stores.current \/ tsa.current # "empty",
                           historical |-> stores.historical \/ tsa.historical # "empty"]
               inCurrent == policy.anchors # "CustomTrustStore" /\ tsa.current = "listed"
               inArchive == /\ policy.anchors # "CustomTrustStore"
                            /\ ~inCurrent
                            /\ policy.allowHistorical
                            /\ tsa.historical = "listed"
    <3>2. anchors \in [current : BOOLEAN, historical : BOOLEAN]
      BY Zenon
    <3>3. inArchive => context.profile \in Archives
      BY <1>2, ResolvedPolicy, Zenon
    <3>4. ASSUME NEW results \in AllPathResults(Build(policy, anchors), "good")
          PROVE  Select(results, policy).historical => context.profile \in Archives
      <4>1. PathJudged(Select(results, policy))
        BY <1>2, <3>2, SelectedIsJudged, Zenon DEF Presented
      <4> QED
        BY <4>1, Zenon DEF PathJudged
    <3> HIDE DEF anchors, inArchive, t
    <3>5. \/ StampStep("tsaRights", t(inArchive))
          \/ \E results \in AllPathResults(Build(policy, anchors), "good") :
                  \/ StampStep("time", Refused("TsaExpired", "TSA_CHAIN_TIME_INVALID"))
                  \/ StampStep("time", Refused("UntrustedTsa", "TSA_UNTRUSTED"))
                  \/ StampStep("tsaRights", t(Select(results, policy).historical))
      BY <3>1, Zenon DEF anchors, inArchive
    <3>6. CASE StampStep("tsaRights", t(inArchive))
      BY <3>3, <3>6, Zenon
    <3>7. ASSUME NEW results \in AllPathResults(Build(policy, anchors), "good"),
                 StampStep("tsaRights", t(Select(results, policy).historical))
          PROVE  \E h : StampStep("tsaRights", t(h)) /\ (h => context.profile \in Archives)
      BY <3>4, <3>7
    <3> QED
      BY <3>5, <3>6, <3>7, Zenon
  <2>2. \A h : (h => context.profile \in Archives) => StampJudged(t(h))
    BY Zenon DEF StampJudged, NotStamped
  <2> HIDE DEF t
  <2>3. StampJudged(timestamp') /\ pc' \in {"time"} \cup Stamping
    BY <1>3, <2>1, <2>2, Zenon DEF StampStep, Stamping, Refused
  <2> QED
    BY <1>r, <1>1, <2>1, <2>3, StampStepJudged, Zenon DEF StampStep
<1>7. CASE CheckTsaRights
  <2>1. StampJudged(timestamp') /\ pc' \in {"time"} \cup Stamping
    BY <1>2, <1>7 DEF CheckTsaRights, StampStep, Stamping, Refused, Unproved, Stamp, StampJudged
  <2> QED
    BY <1>r, <1>1, <1>7, <2>1, StampStepJudged, Zenon DEF CheckTsaRights, StampStep
<1>8. CASE CheckTsaRevocation
  <2>1. PICK r \in RevocationResults(TRUE) :
                \/ StampStep("tsaOnline", timestamp)
                \/ StampStep("time", TsaVerdict(r))
    BY <1>8, Zenon DEF CheckTsaRevocation
  <2>2. r.overall \in {"Invalid", "Indeterminate", "Valid"}
    BY DEF RevocationResults, NotRevocationChecked, Result
  <2>3. StampJudged(TsaVerdict(r))
    <3>1. StampJudged(Stamp("Valid", "TIMESTAMP_VALID", TRUE, TRUE))
      BY <1>2, Zenon DEF StampJudged, Stamp
    <3> QED
      BY <1>3, <2>2, <3>1, Zenon DEF TsaVerdict, Unproved, Refused
  <2>4. StampJudged(timestamp') /\ pc' \in {"time"} \cup Stamping
    BY <1>2, <2>1, <2>3, Zenon DEF StampStep, Stamping
  <2> QED
    BY <1>r, <1>1, <2>1, <2>4, StampStepJudged, Zenon DEF StampStep
<1> QED
  BY <1>4, <1>5, <1>6, <1>7, <1>8, Zenon

\* The other steps.
LEMMA PipelineJudges ==
    ASSUME JudgedInv,
           \/ ResolvePolicy \/ LoadStores \/ ResolveSigningTime \/ SelectPath \/ EvaluateService
           \/ CheckRevocation \/ SynthesizeDecision \/ Project
    PROVE  JudgedInv'
<1>r. ReportInv'
  BY PipelineKeeps, Zenon DEF JudgedInv
<1>1. CASE ResolvePolicy
  BY <1>r, <1>1, Zenon DEF JudgedInv, ResolvePolicy, StampJudged, PathJudged, Judging
<1>2. CASE LoadStores
  BY <1>r, <1>2, Zenon DEF JudgedInv, LoadStores, StampJudged, PathJudged, Judging
<1>3. CASE ResolveSigningTime
  BY <1>r, <1>3, Zenon DEF JudgedInv, ResolveSigningTime, StampJudged, PathJudged, Judging, TrustedTime,
     TimestampAttempted
<1>4. CASE SelectPath
  <2>1. PICK results \in AllPathResults(Build(policy, stores), signer') : path' = Select(results, policy)
    BY <1>4, Zenon DEF SelectPath
  <2>2. /\ context \in [profile : Profiles, level : Levels] /\ policy = Resolve(context)
        /\ stores \in [current : BOOLEAN, historical : BOOLEAN] /\ signer' \in Presented
    BY <1>4, Zenon DEF JudgedInv, SelectPath
  <2>3. PathJudged(path')
    BY <2>1, <2>2, SelectedIsJudged, Zenon
  <2> QED
    BY <1>r, <1>4, <2>3, Zenon DEF JudgedInv, SelectPath, StampJudged, PathJudged, Judging, TrustedTime,
       TimestampAttempted
<1>5. CASE EvaluateService
  BY <1>r, <1>5, Zenon DEF JudgedInv, EvaluateService, StampJudged, PathJudged, Judging, TrustedTime,
     TimestampAttempted
<1>6. CASE CheckRevocation
  BY <1>r, <1>6, Zenon DEF JudgedInv, CheckRevocation, StampJudged, PathJudged, Judging, TrustedTime,
     TimestampAttempted
<1>7. CASE SynthesizeDecision
  BY <1>r, <1>7, Zenon DEF JudgedInv, SynthesizeDecision, StampJudged, PathJudged, Judging, TrustedTime,
     TimestampAttempted
<1>8. CASE Project
  BY <1>r, <1>8, Zenon DEF JudgedInv, Project, StampJudged, PathJudged, Judging, TrustedTime,
     TimestampAttempted
<1> QED
  BY <1>1, <1>2, <1>3, <1>4, <1>5, <1>6, <1>7, <1>8, Zenon

\* The steps of a document with several signatures.
LEMMA SignersJudge ==
    ASSUME JudgedInv, ValidateSigner \/ AggregateSigners
    PROVE  JudgedInv'
<1>1. ReportInv'
  BY SignersKeep, Zenon DEF JudgedInv
<1>2. /\ UNCHANGED <<context, policy, stores, timestamp, time, path, decision>>
      /\ pc' \in {"signers", "aggregated"} /\ pc \in {"token", "signers"}
  BY Zenon DEF ValidateSigner, AggregateSigners, SignerStep
<1> QED
  BY <1>1, <1>2, Zenon DEF JudgedInv, StampJudged, PathJudged, Judging

\* Nothing is judged before the first step.
LEMMA InitJudged == Init => JudgedInv
<1> SUFFICES ASSUME Init PROVE JudgedInv
  BY Zenon
<1>1. ReportInv
  BY InitHolds, Zenon
<1>2. StampJudged(timestamp) /\ PathJudged(path)
  BY Zenon DEF Init, StampJudged, PathJudged, NotStamped, NoPath, Trusted
<1> QED
  BY <1>1, <1>2, ContextsAssumption, Zenon DEF Init, JudgedInv, Judging

\* JudgedInv is inductive.
LEMMA JudgedKept == Spec => []JudgedInv
<1>1. JudgedInv /\ [Next]_vars => JudgedInv'
  <2> SUFFICES ASSUME JudgedInv, [Next]_vars
               PROVE  JudgedInv'
    BY Zenon
  <2>1. CASE UNCHANGED vars
    <3>1. ReportInv'
      BY <2>1, ReportKept, Zenon DEF JudgedInv
    <3> QED
      BY <2>1, <3>1, Zenon DEF vars, JudgedInv, StampJudged, PathJudged, Judging, TrustedTime, TimestampAttempted
  <2>2. CASE Next
    BY <2>2, StampEngineJudges, PipelineJudges, SignersJudge, Zenon DEF Next
  <2> QED
    BY <2>1, <2>2, Zenon
<1> QED
  BY <1>1, InitJudged, PTL DEF Spec

\* For every profile and level: a Valid verdict has all that its policy demands,
\* and archived lists settle a verdict only where the profile allows it, and
\* never unseen (PolicyResolver::Resolve, PathSelector, SynthesizeDecision).
THEOREM VerdictsWithinPolicy == Spec => []VerdictWithinPolicy
<1>1. JudgedInv => VerdictWithinPolicy
  BY JudgedIsSound, Zenon
<1> QED
  BY <1>1, JudgedKept, PTL

\* For every profile and level, for one signature and for any number: the
\* stronger claims of a report imply the weaker ones, and its two summaries,
\* derived separately, do not contradict each other (IsLongTermValidationValid,
\* ComputeVerifySummary, SummaryCheck).
THEOREM ClaimsOfReportAgree == Spec => []ClaimsAgree
<1>1. JudgedInv => ClaimsAgree
  BY JudgedIsSound, Zenon
<1> QED
  BY <1>1, JudgedKept, PTL
=============================================================================
