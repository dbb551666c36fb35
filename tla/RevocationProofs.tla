-------------------------- MODULE RevocationProofs --------------------------
(***************************************************************************)
(* What RevocationEngine::Validate concludes rests on evidence, for lists  *)
(* of evidence of any length, any times and any freshness limits.          *)
(***************************************************************************)
EXTENDS Revocation, WellFoundedInduction, TLAPS

\* The entry of a response that MapOcspStatus reads: the first about the
\* certificate.
IsFirst(entries, i) ==
    /\ i \in DOMAIN entries
    /\ entries[i].about = "cert"
    /\ \A j \in 1..(i - 1) : entries[j].about # "cert"

\* A response of the issuer that says the certificate was revoked at moment.
SaysRevoked(r, moment) ==
    /\ r.verified
    /\ \E i \in DOMAIN r.entries :
          /\ r.entries[i].about = "cert"
          /\ r.entries[i].status = "revoked"
          /\ r.entries[i].time = moment

\* A CRL that counts against the certificate.
Lists(c) ==
    c.sameIssuer /\ c.readable /\ c.listed /\ (input.issuer => c.verified)

\* What a status "Revoked" rests on when the issuer is known.
RevokedIsProved ==
    status = "Revoked" /\ input.issuer =>
        \/ \E i \in DOMAIN input.ocsp : SaysRevoked(input.ocsp[i], time)
        \/ \E i \in DOMAIN input.crls : Lists(input.crls[i]) /\ input.crls[i].time = time
        \/ SaysRevoked(input.live, time)

\* A CRL outcome "good" is an absence that is proved.
SeenIsProved ==
    "good" \in seen => input.issuer /\ \E i \in DOMAIN input.crls : ProvesAbsence(input.crls[i])

\* No CRL looked at so far lists the certificate.
NoneListed ==
    /\ pc = "crl" => \A i \in DOMAIN input.crls : i < k => ~Lists(input.crls[i])
    /\ pc = "live" => \A i \in DOMAIN input.crls : ~Lists(input.crls[i])

\* What the verdict owes to a CRL that lists the certificate.
ListedCounts ==
    (\E i \in DOMAIN input.crls : Lists(input.crls[i]))
    => \/ status = "Revoked"
       \/ input.issuer /\ \E i \in DOMAIN input.ocsp : Says(input.ocsp[i], EmbeddedMaxAge, "good")

\* Until the verdict nothing decisive was found; at the end the assessment is
\* that of the status.
Undecided == pc \in {"start", "ocsp", "crl", "live"} => status \notin Decisive

Assessed ==
    pc = "done" =>
        /\ overall = "Valid" => status = "Good" \/ (status = "Revoked" /\ time > input.time)
        /\ overall = "Invalid" => status = "Revoked" /\ ~(time # 0 /\ time > input.time)

EvidenceInv ==
    /\ TypeOK
    /\ k # 0
    /\ Undecided
    /\ GoodIsProved
    /\ RevokedIsProved
    /\ SeenIsProved
    /\ NoneListed
    /\ pc = "verdict" \/ (pc = "done" /\ input.certificate) => ListedCounts
    /\ Assessed

\* If some entry is about the certificate there is a first one.
LEMMA FirstExists ==
    ASSUME NEW entries \in Seq(Single), NEW n \in DOMAIN entries, entries[n].about = "cert"
    PROVE  \E i \in DOMAIN entries : IsFirst(entries, i)
<1> DEFINE S == {i \in DOMAIN entries : entries[i].about = "cert"}
           Less == {p \in Nat \X Nat : p[1] < p[2]}
<1>1. S \subseteq Nat /\ S # {} /\ DOMAIN entries = 1 .. Len(entries) /\ Len(entries) \in Nat
  OBVIOUS
<1>2. IsWellFoundedOn(Less, Nat)
  <2>1. OpToRel(<, Nat) = Less
    BY Zenon DEF OpToRel
  <2> QED
    BY <2>1, NatLessThanWellFounded, Zenon
<1>3. \A y, z \in Nat : y < z => <<y, z>> \in Less
  <2> TAKE y, z \in Nat
  <2> HAVE y < z
  <2> DEFINE p == <<y, z>>
  <2>1. p[1] = y /\ p[2] = z /\ p \in Nat \X Nat
    BY Zenon
  <2> HIDE DEF p
  <2>2. p[1] < p[2]
    BY <2>1, Zenon
  <2> QED
    BY <2>1, <2>2, Zenon DEF Less, p
<1> HIDE DEF Less
<1>4. PICK x \in S : \A y \in S : ~(<<y, x>> \in Less)
  <2> HIDE DEF S
  <2> QED
    BY <1>1, <1>2, WFMin, Zenon
<1>5. \A y \in S : ~(y < x)
  <2> HIDE DEF S
  <2> QED
    BY <1>1, <1>3, <1>4, Zenon
<1>6. \A j \in 1 .. (x - 1) : j \in DOMAIN entries /\ j < x
  BY <1>1
<1>7. IsFirst(entries, x)
  BY <1>5, <1>6, Zenon DEF IsFirst
<1> QED
  BY <1>7, Zenon

\* What MapOcspStatus makes of the entries of a response.
LEMMA MapSays ==
    ASSUME NEW entries \in Seq(Single)
    PROVE  LET v == MapOcspStatus(entries) IN
           /\ v.status \in {"Good", "Revoked", "Unknown"} /\ v.time \in Nat
           /\ v.status = "Good" =>
                \E i \in DOMAIN entries : IsFirst(entries, i) /\ entries[i].status = "good"
           /\ v.status = "Revoked" =>
                \E i \in DOMAIN entries :
                    /\ entries[i].about = "cert" /\ entries[i].status = "revoked"
                    /\ entries[i].time = v.time
<1>1. CASE \E n \in DOMAIN entries : entries[n].about = "cert"
  <2> DEFINE i == CHOOSE i \in DOMAIN entries :
                      /\ entries[i].about = "cert"
                      /\ \A j \in 1..(i - 1) : entries[j].about # "cert"
             e == entries[i]
  <2>1. IsFirst(entries, i)
    BY <1>1, FirstExists, Zenon DEF IsFirst
  <2>2. MapOcspStatus(entries) =
          CASE e.status = "revoked" -> Verdict("Revoked", e.time)
            [] e.status = "good"    -> Verdict("Good", 0)
            [] OTHER                -> Verdict("Unknown", 0)
    BY <1>1, Zenon DEF MapOcspStatus
  <2> HIDE DEF i
  <2>3. /\ e.status = "revoked" => MapOcspStatus(entries) = Verdict("Revoked", e.time)
        /\ e.status = "good" => MapOcspStatus(entries) = Verdict("Good", 0)
        /\ e.status \notin {"good", "revoked"} => MapOcspStatus(entries) = Verdict("Unknown", 0)
    BY <2>2, Zenon
  <2>4. e \in Single
    BY <2>1 DEF IsFirst
  <2> QED
    BY <2>1, <2>3, <2>4 DEF IsFirst, Verdict, Single
<1>2. CASE ~\E n \in DOMAIN entries : entries[n].about = "cert"
  <2>1. MapOcspStatus(entries) = Verdict("Unknown", 0)
    BY <1>2, Zenon DEF MapOcspStatus
  <2> QED
    BY <2>1 DEF Verdict
<1> QED
  BY <1>1, <1>2, Zenon

\* What the engine makes of one response: a decisive status rests on what a
\* verified response says.
LEMMA OcspSays ==
    ASSUME NEW r \in Response, NEW limit \in Nat, input \in Input
    PROVE  LET v == OcspValidate(r, limit) IN
           /\ v.status \in Statuses /\ v.time \in Nat
           /\ v.status = "Good" => input.issuer /\ Says(r, limit, "good")
           /\ v.status = "Revoked" => input.issuer /\ SaysRevoked(r, v.time)
<1> DEFINE v == OcspValidate(r, limit)
<1>1. r.entries \in Seq(Single)
  BY Zenon DEF Response
<1>2. \/ v = Verdict("NotChecked", 0)
      \/ v \in {Verdict("Invalid", 0), Verdict("ResponderUnavailable", 0)}
      \/ /\ input.issuer /\ r.body = "successful" /\ WithinWindow(r, limit) /\ r.verified
         /\ v = MapOcspStatus(r.entries)
  <2>1. r.body \in {"undecodable", "refused", "successful", "unreachable"} /\ r.verified \in BOOLEAN
    BY Zenon DEF Response
  <2> HIDE DEF Verdict
  <2> QED
    BY <2>1, Zenon DEF OcspValidate, DecodeAndMapResponse
<1>3. CASE v \in {Verdict("NotChecked", 0), Verdict("Invalid", 0),
                  Verdict("ResponderUnavailable", 0)}
  <2>1. v.status \in {"NotChecked", "Invalid", "ResponderUnavailable"} /\ v.time = 0
    BY <1>3 DEF Verdict
  <2> QED
    BY <2>1 DEF Statuses
<1>4. CASE /\ input.issuer /\ r.body = "successful" /\ WithinWindow(r, limit) /\ r.verified
           /\ v = MapOcspStatus(r.entries)
  <2> HIDE DEF v
  <2>1. /\ v.status \in {"Good", "Revoked", "Unknown"} /\ v.time \in Nat
        /\ v.status = "Good" =>
             \E i \in DOMAIN r.entries : IsFirst(r.entries, i) /\ r.entries[i].status = "good"
        /\ v.status = "Revoked" =>
             \E i \in DOMAIN r.entries :
                 /\ r.entries[i].about = "cert" /\ r.entries[i].status = "revoked"
                 /\ r.entries[i].time = v.time
    BY <1>1, <1>4, MapSays, Zenon
  <2>2. v.status = "Good" => Says(r, limit, "good")
    BY <1>4, <2>1, Zenon DEF Says, WithinWindow, IsFirst
  <2>3. v.status = "Revoked" => SaysRevoked(r, v.time)
    BY <1>4, <2>1, Zenon DEF SaysRevoked
  <2> QED
    BY <1>4, <2>1, <2>2, <2>3, Zenon DEF Statuses, v
<1> QED
  BY <1>2, <1>3, <1>4, Zenon

\* What the loop makes of one CRL.
LEMMA CrlSays ==
    ASSUME NEW c \in Crl, input \in Input
    PROVE  LET o == CrlOutcome(c) IN
           /\ o \in Outcomes \cup {"revoked"}
           /\ o = "revoked" <=> Lists(c)
           /\ o = "good" => input.issuer /\ ProvesAbsence(c)
<1>1. /\ c.sameIssuer \in BOOLEAN /\ c.readable \in BOOLEAN /\ c.verified \in BOOLEAN
      /\ c.listed \in BOOLEAN /\ input.issuer \in BOOLEAN
  BY Zenon DEF Crl, Input
<1>2. \/ CrlOutcome(c) \in {"unrelated", "invalid"} /\ ~Lists(c)
      \/ /\ c.sameIssuer /\ c.readable /\ (input.issuer => c.verified)
         /\ CrlOutcome(c) = IF c.listed THEN "revoked"
                            ELSE IF ~CrlFresh(c) THEN "stale"
                            ELSE IF ~input.issuer THEN "unverifiable" ELSE "good"
  BY <1>1, Zenon DEF CrlOutcome, Lists
<1> QED
  BY <1>1, <1>2, Zenon DEF Lists, Outcomes, ProvesAbsence, CrlFresh, Crl, Input

\* A failure replaces a failure: nothing decisive comes of keeping one.
LEMMA FailureKept ==
    ASSUME NEW s \in Statuses \ Decisive, status \in Statuses \ Decisive
    PROVE  KeepMoreSpecificFailure(s) \in Statuses \ Decisive
BY Zenon DEF KeepMoreSpecificFailure

\* The status of the CRLs together.
LEMMA CrlStatusIs ==
    ASSUME NEW o
    PROVE  /\ CrlStatus(o) \in Statuses \ {"Revoked"}
           /\ CrlStatus(o) = "Good" => "good" \in o
BY Zenon DEF CrlStatus, Statuses

\* The conjuncts that speak of the evidence alone follow the status, the
\* time and the outcomes seen.
LEMMA InputStays ==
    ASSUME input' = input
    PROVE  /\ \A c : Lists(c)' = Lists(c)
           /\ \A c : ProvesAbsence(c)' = ProvesAbsence(c)
           /\ \A r, l, s : Says(r, l, s)' = Says(r, l, s)
BY Zenon DEF Lists, ProvesAbsence, Says

\* The list elements that the scans read are of their types.
LEMMA EvidenceTyped ==
    ASSUME TypeOK
    PROVE  /\ \A i \in DOMAIN input.ocsp : input.ocsp[i] \in Response
           /\ \A i \in DOMAIN input.crls : input.crls[i] \in Crl
           /\ input.live \in Response /\ input.time \in Nat
           /\ DOMAIN input.ocsp = 1 .. Len(input.ocsp) /\ Len(input.ocsp) \in Nat
           /\ DOMAIN input.crls = 1 .. Len(input.crls) /\ Len(input.crls) \in Nat
<1>1. /\ input.ocsp \in Seq(Response) /\ input.crls \in Seq(Crl)
      /\ input.live \in Response /\ input.time \in Nat
  BY Zenon DEF TypeOK, Input
<1> QED
  BY <1>1

\* A step that finds nothing decisive: the status is a failure, before and
\* after, and no more is claimed than before.
LEMMA UndecidedStep ==
    ASSUME input' = input, status' \in Statuses \ Decisive
    PROVE  GoodIsProved' /\ RevokedIsProved'
BY Zenon DEF GoodIsProved, RevokedIsProved, Decisive

\* The early return without a certificate.
LEMMA StartKeeps == ASSUME EvidenceInv, Start PROVE EvidenceInv'
<1>1. TypeOK' /\ (k # 0)'
  BY Zenon DEF EvidenceInv, TypeOK, Start
<1>2. /\ UNCHANGED <<input, k, status, time, seen>> /\ pc = "start"
      /\ pc' \in {"ocsp", "done"} /\ (pc' = "done" => ~input.certificate)
      /\ overall' = "Indeterminate"
  BY Zenon DEF Start, EvidenceInv, TypeOK, Input
<1>3. Undecided' /\ NoneListed' /\ Assessed'
  BY <1>2, Zenon DEF EvidenceInv, Undecided, NoneListed, Assessed
<1>4. GoodIsProved' /\ RevokedIsProved' /\ SeenIsProved'
  BY <1>2, InputStays, Zenon DEF EvidenceInv, GoodIsProved, RevokedIsProved, SeenIsProved
<1> QED
  BY <1>1, <1>2, <1>3, <1>4, Zenon DEF EvidenceInv

\* One embedded response.
LEMMA TryEmbeddedKeeps == ASSUME EvidenceInv, TryEmbedded PROVE EvidenceInv'
<1> DEFINE v == OcspValidate(input.ocsp[k], EmbeddedMaxAge)
<1>0. TypeOK /\ pc = "ocsp" /\ status \in Statuses \ Decisive
  BY Zenon DEF EvidenceInv, TypeOK, Undecided, TryEmbedded
<1>1. k \in DOMAIN input.ocsp /\ k + 1 \in Nat /\ k + 1 # 0 /\ k \in Nat /\ k # 0
  BY <1>0, EvidenceTyped DEF EvidenceInv, TypeOK, TryEmbedded
<1>2. /\ v.status \in Statuses /\ v.time \in Nat
      /\ v.status = "Good" => input.issuer /\ Says(input.ocsp[k], EmbeddedMaxAge, "good")
      /\ v.status = "Revoked" => input.issuer /\ SaysRevoked(input.ocsp[k], v.time)
  BY <1>0, <1>1, EvidenceTyped, OcspSays, AgeAssumption, Zenon DEF TypeOK
<1>3. /\ UNCHANGED <<input, seen, crlAttempted, overall>>
      /\ ocspAttempted' = (ocspAttempted \/ input.issuer)
      /\ IF v.status \in Decisive
         THEN status' = v.status /\ time' = v.time /\ pc' = "verdict" /\ UNCHANGED k
         ELSE /\ status' = KeepMoreSpecificFailure(v.status)
              /\ k' = k + 1
              /\ UNCHANGED <<time, pc>>
  BY Zenon DEF TryEmbedded
<1> HIDE DEF v
<1>4. SeenIsProved'
  BY <1>3, InputStays, Zenon DEF EvidenceInv, SeenIsProved
<1>5. CASE v.status \in Decisive
  <2>1. TypeOK' /\ (k # 0)'
    BY <1>0, <1>1, <1>2, <1>3, <1>5, Zenon DEF TypeOK, Input
  <2>2. pc' = "verdict" /\ status' = v.status /\ time' = v.time
    BY <1>3, <1>5, Zenon
  <2>3. Undecided' /\ NoneListed' /\ Assessed'
    BY <2>2, Zenon DEF Undecided, NoneListed, Assessed
  <2>4. GoodIsProved' /\ RevokedIsProved' /\ ListedCounts'
    <3>1. CASE v.status = "Good"
      BY <1>1, <1>2, <1>3, <2>2, <3>1, InputStays, Zenon
         DEF GoodIsProved, RevokedIsProved, ListedCounts
    <3>2. CASE v.status = "Revoked"
      BY <1>1, <1>2, <1>3, <2>2, <3>2, InputStays, Zenon
         DEF GoodIsProved, RevokedIsProved, ListedCounts
    <3> QED
      BY <1>5, <3>1, <3>2, Zenon DEF Decisive
  <2> QED
    BY <1>4, <2>1, <2>3, <2>4, Zenon DEF EvidenceInv
<1>6. CASE v.status \notin Decisive
  <2>1. status' \in Statuses \ Decisive /\ pc' = "ocsp" /\ k' = k + 1 /\ time' = time
    BY <1>0, <1>2, <1>3, <1>6, FailureKept, Zenon
  <2>2. TypeOK' /\ (k # 0)'
    BY <1>0, <1>1, <1>3, <2>1, Zenon DEF TypeOK, Input
  <2>3. Undecided' /\ NoneListed' /\ Assessed'
    BY <2>1, Zenon DEF Undecided, NoneListed, Assessed
  <2>4. GoodIsProved' /\ RevokedIsProved'
    BY <1>3, <2>1, UndecidedStep, Zenon
  <2> QED
    BY <1>4, <2>1, <2>2, <2>3, <2>4, Zenon DEF EvidenceInv
<1> QED
  BY <1>5, <1>6, Zenon

\* The end of the embedded responses.
LEMMA EmbeddedTriedKeeps == ASSUME EvidenceInv, EmbeddedTried PROVE EvidenceInv'
<1>0. TypeOK
  BY Zenon DEF EvidenceInv
<1>1. /\ UNCHANGED <<input, status, time, seen, ocspAttempted, crlAttempted, overall>>
      /\ pc = "ocsp" /\ k' = 1
      /\ pc' = IF input.crls = <<>> THEN "live" ELSE "crl"
  BY Zenon DEF EmbeddedTried
<1>2. TypeOK' /\ (k # 0)'
  BY <1>0, <1>1 DEF TypeOK
<1>3. pc' \in {"live", "crl"} /\ (pc' = "live" => DOMAIN input.crls = {})
  BY <1>0, <1>1, EvidenceTyped
<1>4. NoneListed'
  BY <1>0, <1>1, <1>3, EvidenceTyped DEF NoneListed
<1>5. Undecided' /\ Assessed'
  BY <1>1, <1>3, Zenon DEF EvidenceInv, Undecided, Assessed
<1>6. GoodIsProved' /\ RevokedIsProved' /\ SeenIsProved'
  BY <1>1, InputStays, Zenon DEF EvidenceInv, GoodIsProved, RevokedIsProved, SeenIsProved
<1> QED
  BY <1>2, <1>3, <1>4, <1>5, <1>6, Zenon DEF EvidenceInv

\* One CRL.
LEMMA TryCrlKeeps == ASSUME EvidenceInv, TryCrl PROVE EvidenceInv'
<1> DEFINE c == input.crls[k]
           o == CrlOutcome(c)
<1>0. TypeOK /\ pc = "crl" /\ status \in Statuses \ Decisive
  BY Zenon DEF EvidenceInv, TypeOK, Undecided, TryCrl
<1>1. k \in DOMAIN input.crls /\ k + 1 \in Nat /\ k + 1 # 0 /\ k \in Nat /\ k # 0
  BY <1>0, EvidenceTyped DEF EvidenceInv, TypeOK, TryCrl
<1>2. c \in Crl
  BY <1>0, <1>1, EvidenceTyped, Zenon
<1>3. /\ o \in Outcomes \cup {"revoked"}
      /\ o = "revoked" <=> Lists(c)
      /\ o = "good" => input.issuer /\ ProvesAbsence(c)
  <2> HIDE DEF c
  <2> QED
    BY <1>0, <1>2, CrlSays, Zenon DEF TypeOK
<1>4. /\ UNCHANGED <<input, ocspAttempted, overall>>
      /\ IF o = "revoked"
         THEN /\ status' = "Revoked" /\ time' = c.time /\ crlAttempted' = TRUE
              /\ pc' = "verdict" /\ UNCHANGED <<k, seen>>
         ELSE /\ seen' = seen \cup {o} /\ k' = k + 1
              /\ UNCHANGED <<status, time, crlAttempted, pc>>
  BY Zenon DEF TryCrl
<1>5. c.time \in Nat
  BY <1>2, Zenon DEF Crl
<1> HIDE DEF o
<1>6. CASE o = "revoked"
  <2>1. TypeOK' /\ (k # 0)'
    BY <1>0, <1>1, <1>4, <1>5, <1>6, Zenon DEF TypeOK, Statuses
  <2>2. pc' = "verdict" /\ status' = "Revoked" /\ time' = c.time /\ seen' = seen
    BY <1>4, <1>6, Zenon
  <2>3. Undecided' /\ NoneListed' /\ Assessed' /\ ListedCounts' /\ GoodIsProved'
    BY <2>2, Zenon DEF Undecided, NoneListed, Assessed, ListedCounts, GoodIsProved
  <2>4. RevokedIsProved'
    BY <1>1, <1>3, <1>4, <1>6, <2>2, InputStays, Zenon DEF RevokedIsProved
  <2>5. SeenIsProved'
    BY <1>4, <2>2, InputStays, Zenon DEF EvidenceInv, SeenIsProved
  <2> QED
    BY <2>1, <2>3, <2>4, <2>5, Zenon DEF EvidenceInv
<1>7. CASE o # "revoked"
  <2>1. /\ seen' = seen \cup {o} /\ k' = k + 1 /\ pc' = "crl"
        /\ UNCHANGED <<input, status, time, crlAttempted>>
    BY <1>0, <1>4, <1>7, Zenon
  <2>2. TypeOK' /\ (k # 0)'
    BY <1>0, <1>1, <1>3, <1>4, <1>7, <2>1, Zenon DEF TypeOK
  <2>3. NoneListed'
    <3>1. \A i \in DOMAIN input.crls : i < k + 1 => i < k \/ i = k
      BY <1>0, <1>1, EvidenceTyped
    <3> QED
      BY <1>0, <1>3, <1>7, <2>1, <3>1, InputStays, Zenon DEF EvidenceInv, NoneListed
  <2>4. SeenIsProved'
    BY <1>1, <1>3, <2>1, InputStays, Zenon DEF EvidenceInv, SeenIsProved
  <2>5. Undecided' /\ Assessed'
    BY <1>0, <2>1, Zenon DEF Undecided, Assessed
  <2>6. GoodIsProved' /\ RevokedIsProved'
    BY <1>0, <2>1, UndecidedStep, Zenon
  <2> QED
    BY <2>1, <2>2, <2>3, <2>4, <2>5, <2>6, Zenon DEF EvidenceInv
<1> QED
  BY <1>6, <1>7, Zenon

\* The end of the CRLs.
LEMMA CrlsTriedKeeps == ASSUME EvidenceInv, CrlsTried PROVE EvidenceInv'
<1>0. TypeOK /\ pc = "crl" /\ status \in Statuses \ Decisive
  BY Zenon DEF EvidenceInv, TypeOK, Undecided, CrlsTried
<1>1. /\ UNCHANGED <<input, k, time, seen, ocspAttempted, overall>>
      /\ crlAttempted' = CrlChecked(seen) /\ k > Len(input.crls)
      /\ IF CrlStatus(seen) = "Good"
         THEN status' = "Good" /\ pc' = "verdict"
         ELSE status' = KeepMoreSpecificFailure(CrlStatus(seen)) /\ pc' = "live"
  BY Zenon DEF CrlsTried
<1>2. crlAttempted' \in BOOLEAN
  BY <1>1, Zenon DEF CrlChecked
<1>3. \A i \in DOMAIN input.crls : ~Lists(input.crls[i])
  <2>1. \A i \in DOMAIN input.crls : i < k
    BY <1>0, <1>1, EvidenceTyped DEF TypeOK
  <2> QED
    BY <1>0, <2>1, Zenon DEF EvidenceInv, NoneListed
<1>4. (\A i \in DOMAIN input.crls : ~Lists(input.crls[i]))'
  BY <1>1, <1>3, InputStays, Zenon
<1>5. SeenIsProved'
  BY <1>1, InputStays, Zenon DEF EvidenceInv, SeenIsProved
<1>6. CASE CrlStatus(seen) = "Good"
  <2>1. status' = "Good" /\ pc' = "verdict"
    BY <1>1, <1>6, Zenon
  <2>2. TypeOK' /\ (k # 0)'
    BY <1>0, <1>1, <1>2, <2>1, Zenon DEF EvidenceInv, TypeOK, Statuses
  <2>3. Undecided' /\ NoneListed' /\ Assessed' /\ RevokedIsProved'
    BY <2>1, Zenon DEF Undecided, NoneListed, Assessed, RevokedIsProved
  <2>4. GoodIsProved'
    BY <1>1, <1>6, CrlStatusIs, InputStays, Zenon DEF EvidenceInv, SeenIsProved, GoodIsProved
  <2>5. ListedCounts'
    BY <1>4, Zenon DEF ListedCounts
  <2> QED
    BY <1>5, <2>2, <2>3, <2>4, <2>5, Zenon DEF EvidenceInv
<1>7. CASE CrlStatus(seen) # "Good"
  <2>1. CrlStatus(seen) \in Statuses \ Decisive
    BY <1>7, CrlStatusIs, Zenon DEF Decisive
  <2>2. status' \in Statuses \ Decisive /\ pc' = "live"
    BY <1>0, <1>1, <1>7, <2>1, FailureKept, Zenon
  <2>3. TypeOK' /\ (k # 0)'
    BY <1>0, <1>1, <1>2, <2>2, Zenon DEF EvidenceInv, TypeOK
  <2>4. Undecided' /\ NoneListed' /\ Assessed'
    BY <1>4, <2>2, Zenon DEF Undecided, NoneListed, Assessed
  <2>5. GoodIsProved' /\ RevokedIsProved'
    BY <1>1, <2>2, UndecidedStep, Zenon
  <2> QED
    BY <1>5, <2>2, <2>3, <2>4, <2>5, Zenon DEF EvidenceInv
<1> QED
  BY <1>6, <1>7, Zenon

\* The live request.
LEMMA AskResponderKeeps == ASSUME EvidenceInv, AskResponder PROVE EvidenceInv'
<1> DEFINE v == OcspValidate(input.live, LiveMaxAge)
<1>0. TypeOK /\ pc = "live" /\ status \in Statuses \ Decisive
  BY Zenon DEF EvidenceInv, TypeOK, Undecided, AskResponder
<1>1. /\ v.status \in Statuses /\ v.time \in Nat
      /\ v.status = "Good" => input.issuer /\ Says(input.live, LiveMaxAge, "good")
      /\ v.status = "Revoked" => input.issuer /\ SaysRevoked(input.live, v.time)
  BY <1>0, EvidenceTyped, OcspSays, AgeAssumption, Zenon DEF TypeOK
<1>2. /\ UNCHANGED <<input, k, seen, crlAttempted, overall>> /\ pc' = "verdict"
      /\ input.network /\ input.url
      /\ ocspAttempted' = (ocspAttempted \/ input.issuer)
      /\ IF v.status \in Decisive
         THEN status' = v.status /\ time' = v.time
         ELSE status' = KeepMoreSpecificFailure(v.status) /\ UNCHANGED time
  BY Zenon DEF AskResponder
<1> HIDE DEF v
<1>3. (\A i \in DOMAIN input.crls : ~Lists(input.crls[i]))'
  BY <1>0, <1>2, InputStays, Zenon DEF EvidenceInv, NoneListed
<1>4. ListedCounts' /\ Undecided' /\ NoneListed' /\ Assessed'
  BY <1>2, <1>3, Zenon DEF ListedCounts, Undecided, NoneListed, Assessed
<1>5. SeenIsProved'
  BY <1>2, InputStays, Zenon DEF EvidenceInv, SeenIsProved
<1>6. CASE v.status \in Decisive
  <2>1. status' = v.status /\ time' = v.time
    BY <1>2, <1>6, Zenon
  <2>2. TypeOK' /\ (k # 0)'
    BY <1>0, <1>1, <1>2, <2>1, Zenon DEF EvidenceInv, TypeOK, Input
  <2>3. GoodIsProved'
    BY <1>1, <1>2, <2>1, InputStays, Zenon DEF GoodIsProved
  <2>4. RevokedIsProved'
    BY <1>1, <1>2, <2>1, Zenon DEF RevokedIsProved
  <2> QED
    BY <1>4, <1>5, <2>2, <2>3, <2>4, Zenon DEF EvidenceInv
<1>7. CASE v.status \notin Decisive
  <2>1. status' \in Statuses \ Decisive /\ time' = time
    BY <1>0, <1>1, <1>2, <1>7, FailureKept, Zenon
  <2>2. TypeOK' /\ (k # 0)'
    BY <1>0, <1>2, <2>1, Zenon DEF EvidenceInv, TypeOK, Input
  <2>3. GoodIsProved' /\ RevokedIsProved'
    BY <1>2, <2>1, UndecidedStep, Zenon
  <2> QED
    BY <1>4, <1>5, <2>2, <2>3, Zenon DEF EvidenceInv
<1> QED
  BY <1>6, <1>7, Zenon

\* No live request.
LEMMA DoNotAskKeeps == ASSUME EvidenceInv, DoNotAsk PROVE EvidenceInv'
<1>1. /\ UNCHANGED <<input, k, status, time, seen, ocspAttempted, crlAttempted, overall>>
      /\ pc = "live" /\ pc' = "verdict"
  BY Zenon DEF DoNotAsk
<1>2. TypeOK' /\ (k # 0)'
  BY <1>1, Zenon DEF EvidenceInv, TypeOK
<1>3. (\A i \in DOMAIN input.crls : ~Lists(input.crls[i]))'
  BY <1>1, InputStays, Zenon DEF EvidenceInv, NoneListed
<1>4. ListedCounts' /\ Undecided' /\ NoneListed' /\ Assessed'
  BY <1>1, <1>3, Zenon DEF ListedCounts, Undecided, NoneListed, Assessed
<1>5. GoodIsProved' /\ RevokedIsProved' /\ SeenIsProved'
  BY <1>1, InputStays, Zenon DEF EvidenceInv, GoodIsProved, RevokedIsProved, SeenIsProved
<1> QED
  BY <1>2, <1>4, <1>5, Zenon DEF EvidenceInv

\* The assessment.
LEMMA EvaluateKeeps == ASSUME EvidenceInv, Evaluate PROVE EvidenceInv'
<1>1. /\ UNCHANGED <<input, k, status, time, seen, ocspAttempted, crlAttempted>>
      /\ pc = "verdict" /\ pc' = "done"
      /\ overall' = CASE status = "Good" -> "Valid"
                      [] status = "Revoked" -> IF time # 0 /\ time > input.time THEN "Valid"
                                               ELSE "Invalid"
                      [] OTHER -> "Indeterminate"
  BY Zenon DEF Evaluate
<1>2. \/ overall' = "Valid" /\ status = "Good"
      \/ overall' = "Valid" /\ status = "Revoked" /\ time # 0 /\ time > input.time
      \/ overall' = "Invalid" /\ status = "Revoked" /\ ~(time # 0 /\ time > input.time)
      \/ overall' = "Indeterminate"
  BY <1>1, Zenon
<1>3. TypeOK' /\ (k # 0)'
  BY <1>1, <1>2, Zenon DEF EvidenceInv, TypeOK
<1>4. Undecided' /\ NoneListed' /\ Assessed'
  BY <1>1, <1>2, Zenon DEF Undecided, NoneListed, Assessed
<1>5. GoodIsProved' /\ RevokedIsProved' /\ SeenIsProved' /\ ListedCounts'
  BY <1>1, InputStays, Zenon
     DEF EvidenceInv, GoodIsProved, RevokedIsProved, SeenIsProved, ListedCounts
<1> QED
  BY <1>3, <1>4, <1>5, Zenon DEF EvidenceInv

\* A step that changes nothing.
LEMMA StutterKeeps == ASSUME EvidenceInv, UNCHANGED vars PROVE EvidenceInv'
<1>1. UNCHANGED <<input, pc, k, status, time, seen, ocspAttempted, crlAttempted, overall>>
  BY Zenon DEF vars
<1>2. TypeOK' /\ (k # 0)' /\ Undecided' /\ Assessed'
  BY <1>1, Zenon DEF EvidenceInv, TypeOK, Undecided, Assessed
<1>3. NoneListed' /\ (ListedCounts' = ListedCounts)
  BY <1>1, InputStays DEF EvidenceInv, NoneListed, ListedCounts
<1>4. GoodIsProved' /\ RevokedIsProved' /\ SeenIsProved'
  BY <1>1, InputStays, Zenon DEF EvidenceInv, GoodIsProved, RevokedIsProved, SeenIsProved
<1> QED
  BY <1>1, <1>2, <1>3, <1>4, Zenon DEF EvidenceInv

\* The invariant holds of every state of every call of Validate.
THEOREM EvidenceCounts == Spec => []EvidenceInv
<1>1. Init => EvidenceInv
  <2> SUFFICES ASSUME Init PROVE EvidenceInv
    BY Zenon
  <2>1. TypeOK /\ k # 0
    <3>1. input \in Input
      BY InputsAssumption, Zenon DEF Init
    <3>2. ocspAttempted \in BOOLEAN /\ crlAttempted \in BOOLEAN
      BY Zenon DEF Init
    <3>3. /\ pc = "start" /\ k = 1 /\ status = "NotChecked" /\ time = 0
          /\ seen = {} /\ overall = "Indeterminate"
      BY Zenon DEF Init
    <3> QED
      BY <3>1, <3>2, <3>3 DEF TypeOK, Statuses
  <2>2. Undecided /\ NoneListed /\ Assessed
    BY Zenon DEF Init, Undecided, Decisive, NoneListed, Assessed
  <2>3. GoodIsProved /\ RevokedIsProved /\ SeenIsProved
    BY Zenon DEF Init, GoodIsProved, RevokedIsProved, SeenIsProved
  <2> QED
    BY <2>1, <2>2, <2>3, Zenon DEF Init, EvidenceInv
<1>2. EvidenceInv /\ [Next]_vars => EvidenceInv'
  BY StartKeeps, TryEmbeddedKeeps, EmbeddedTriedKeeps, TryCrlKeeps, CrlsTriedKeeps,
     AskResponderKeeps, DoNotAskKeeps, EvaluateKeeps, StutterKeeps, Zenon DEF Next
<1> QED
  BY <1>1, <1>2, PTL DEF Spec

\* "Not revoked" is reported only on evidence that proves it, whatever the
\* number, the order and the times of the responses and CRLs
\* (RevocationEngine::Validate).
THEOREM GoodRestsOnEvidence == Spec => []GoodIsProved
<1>1. EvidenceInv => GoodIsProved
  BY Zenon DEF EvidenceInv
<1> QED
  BY <1>1, EvidenceCounts, PTL

\* A CRL that lists the certificate decides, at whatever place of however long
\* a list, unless an embedded OCSP response decided before the CRLs were read
\* (CrlValidator::Validate).
THEOREM ListedIsNotMasked == Spec => []ListedIsReported
<1>1. EvidenceInv => ListedIsReported
  BY Zenon DEF EvidenceInv, ListedIsReported, ListedCounts, Lists
<1> QED
  BY <1>1, EvidenceCounts, PTL

\* With truthful signers the verdict agrees with the certificate's history, up
\* to the freshness limits, whatever these are and however much evidence there
\* is (RevocationEngine::Validate).
THEOREM VerdictAgreesWithHistory == Spec => []AgreesWithHistory
<1>1. EvidenceInv => AgreesWithHistory
  <2> SUFFICES ASSUME EvidenceInv, pc = "done", input.issuer = TRUE,
                      NEW t \in 0..(input.time + 1), Truthful(t)
               PROVE  /\ overall = "Invalid" => RevokedBy(t, input.time)
                      /\ overall = "Valid" /\ RevokedBy(t, input.time) =>
                           \/ \E i \in DOMAIN input.ocsp :
                                /\ Says(input.ocsp[i], EmbeddedMaxAge, "good")
                                /\ input.ocsp[i].producedAt < t
                           \/ \E i \in DOMAIN input.crls :
                                /\ ProvesAbsence(input.crls[i])
                                /\ input.crls[i].thisUpdate < t
                           \/ /\ Says(input.live, LiveMaxAge, "good")
                              /\ input.live.producedAt < t
    BY Zenon DEF AgreesWithHistory, EvidenceInv, TypeOK, Input
  <2>0. /\ TypeOK /\ input.time \in Nat /\ t \in Nat /\ time \in Nat
    BY EvidenceTyped DEF EvidenceInv, TypeOK
  <2>1. ASSUME NEW r \in Response, TruthfulResponse(r, t), SaysRevoked(r, time)
        PROVE  t # 0 /\ time = t
    BY <2>1, Zenon DEF TruthfulResponse, SaysRevoked, RevokedBy
  <2>2. ASSUME NEW r \in Response, NEW limit, TruthfulResponse(r, t), Says(r, limit, "good"),
               t # 0
        PROVE  r.producedAt < t
    <3>1. r.producedAt \in Nat
      BY Zenon DEF Response
    <3>2. ~RevokedBy(t, r.producedAt)
      BY <2>2, Zenon DEF TruthfulResponse, Says
    <3> QED
      BY <2>0, <2>2, <3>1, <3>2 DEF RevokedBy
  <2>3. ASSUME status = "Revoked"
        PROVE  t # 0 /\ time = t
    <3>1. CASE \E i \in DOMAIN input.ocsp : SaysRevoked(input.ocsp[i], time)
      BY <2>0, <2>1, <3>1, EvidenceTyped, Zenon DEF Truthful
    <3>2. CASE \E i \in DOMAIN input.crls : Lists(input.crls[i]) /\ input.crls[i].time = time
      BY <3>2, Zenon DEF Truthful, TruthfulCrl, Lists, RevokedBy
    <3>3. CASE SaysRevoked(input.live, time)
      BY <2>0, <2>1, <3>3, EvidenceTyped, Zenon DEF Truthful
    <3> QED
      BY <2>3, <3>1, <3>2, <3>3, Zenon DEF EvidenceInv, RevokedIsProved
  <2>4. overall = "Invalid" => RevokedBy(t, input.time)
    BY <2>0, <2>3 DEF EvidenceInv, Assessed, RevokedBy
  <2>5. ASSUME overall = "Valid", RevokedBy(t, input.time)
        PROVE  \/ \E i \in DOMAIN input.ocsp :
                    /\ Says(input.ocsp[i], EmbeddedMaxAge, "good")
                    /\ input.ocsp[i].producedAt < t
               \/ \E i \in DOMAIN input.crls :
                    /\ ProvesAbsence(input.crls[i])
                    /\ input.crls[i].thisUpdate < t
               \/ /\ Says(input.live, LiveMaxAge, "good")
                  /\ input.live.producedAt < t
    <3>1. t # 0 /\ t <= input.time
      BY <2>5, Zenon DEF RevokedBy
    <3>2. status = "Good"
      BY <2>0, <2>3, <2>5, <3>1 DEF EvidenceInv, Assessed
    <3>3. CASE \E i \in DOMAIN input.ocsp : Says(input.ocsp[i], EmbeddedMaxAge, "good")
      BY <2>0, <2>2, <3>1, <3>3, EvidenceTyped, Zenon DEF Truthful
    <3>4. CASE \E i \in DOMAIN input.crls : ProvesAbsence(input.crls[i])
      <4>1. PICK i \in DOMAIN input.crls : ProvesAbsence(input.crls[i])
        BY <3>4, Zenon
      <4>2. input.crls[i].thisUpdate \in Nat
        BY <2>0, EvidenceTyped, Zenon DEF Crl
      <4>3. ~RevokedBy(t, input.crls[i].thisUpdate)
        BY <4>1, Zenon DEF Truthful, TruthfulCrl, ProvesAbsence
      <4> QED
        BY <2>0, <3>1, <4>1, <4>2, <4>3 DEF RevokedBy
    <3>5. CASE Says(input.live, LiveMaxAge, "good")
      BY <2>0, <2>2, <3>1, <3>5, EvidenceTyped, Zenon DEF Truthful
    <3> QED
      BY <3>2, <3>3, <3>4, <3>5, Zenon DEF EvidenceInv, GoodIsProved
  <2> QED
    BY <2>4, <2>5, Zenon
<1> QED
  BY <1>1, EvidenceCounts, PTL
=============================================================================
