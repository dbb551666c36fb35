----------------------- MODULE CertificateChainProofs -----------------------
(***************************************************************************)
(* The chain search is sound and complete for any certificates,            *)
(* signatures, candidate lists and budget.                                 *)
(***************************************************************************)
EXTENDS CertificateChain, FiniteSetTheorems, WellFoundedInduction, TLAPS

\* The inductive invariant: every queued entry carries a path the standard
\* accepts, and the anchors of the search are configured ones.
SearchInv ==
    /\ \A i \in 1 .. Len(queue) : EntryOK(queue[i])
    /\ EntryOK(node)
    /\ \A i \in 1 .. Len(anchors) : anchors[i] \in Range(input.anchors) \cap input.decodable
    /\ pc \notin {"start", "done"} => input.presented = "decoded" /\ IsValidAt(Signer)
    /\ pc # "done" => result.status = "NotChecked"

\* The signer's certificate, with nothing above it, is a good entry.
LEMMA RootOK == Root \in Entry /\ EntryOK(Root)
<1>1. <<>> \in Seq(Cert) /\ Len(<<>>) = 0
  OBVIOUS
<1> QED
  BY <1>1, SignerAssumption DEF Root, Entry, EntryOK, ValidPath, IssuedBy

\* A path grows by an issuer that may issue its last certificate.
LEMMA ExtendOK ==
    ASSUME TypeOK, EntryOK(node), NEW c \in Cert,
           VerifyByIssuer(node.cert, c), IsValidAt(c), AcceptableCa(c, Len(node.path))
    PROVE  LET e == [cert |-> c, path |-> Append(node.path, c)]
           IN  e \in Entry /\ EntryOK(e)
<1> DEFINE p == node.path
           q == Append(p, c)
           n == Len(p)
<1>1. p \in Seq(Cert) /\ n \in Nat /\ node.cert = IssuedBy(p, n + 1)
  BY DEF TypeOK, Entry, EntryOK
<1>2. /\ q \in Seq(Cert) /\ Len(q) = n + 1 /\ q[n + 1] = c
      /\ \A i \in 1 .. n : q[i] = p[i]
  BY <1>1
<1> HIDE DEF q, n
<1>3. \A i \in 1 .. n + 1 : IssuedBy(q, i) = IssuedBy(p, i)
  BY <1>1, <1>2 DEF IssuedBy
<1>4. ASSUME NEW i \in 1 .. n + 1
      PROVE  /\ VerifyByIssuer(IssuedBy(q, i), q[i])
             /\ IsValidAt(q[i])
             /\ q[i] \in input.ca \cap input.certSign
             /\ input.pathLen[q[i]] # Unlimited => i - 1 <= input.pathLen[q[i]]
  <2>1. CASE i = n + 1
    BY <1>1, <1>2, <1>3, <2>1 DEF AcceptableCa, n
  <2>2. CASE i \in 1 .. n
    BY <1>1, <1>2, <1>3, <2>2, Zenon DEF EntryOK, ValidPath, n
  <2> QED
    BY <1>1, <2>1, <2>2
<1>5. ValidPath(q)
  BY <1>2, <1>4, Zenon DEF ValidPath
<1>6. IssuedBy(q, Len(q) + 1) = c
  BY <1>1, <1>2 DEF IssuedBy
<1> QED
  BY <1>2, <1>5, <1>6, Zenon DEF Entry, EntryOK, q

Result ==
    [status : ChainStatuses, timeValid : BOOLEAN,
     issuer : Cert \cup {NoCert}, signerIssuer : Cert \cup {NoCert}]

\* Every value returned is a result.
LEMMA ResultType ==
    ASSUME NEW r \in Result, NEW st \in ChainStatuses, NEW i \in Cert, NEW j \in Cert
    PROVE  /\ NoResult \in Result
           /\ [NoResult EXCEPT !.status = st] \in Result
           /\ [NoResult EXCEPT !.timeValid = TRUE] \in Result
           /\ [NoResult EXCEPT !.status = st, !.timeValid = TRUE] \in Result
           /\ [r EXCEPT !.status = st] \in Result
           /\ [r EXCEPT !.status = st, !.issuer = i, !.signerIssuer = j] \in Result
BY ZenonT(60) DEF Result, NoResult, ChainStatuses

\* The issuer reported beside a path is a certificate.
LEMMA SignerIssuerType ==
    ASSUME TypeOK, NEW a \in Cert
    PROVE  (IF node.path = <<>> THEN a ELSE node.path[1]) \in Cert
<1>1. node.path \in Seq(Cert)
  BY Zenon DEF TypeOK, Entry
<1> QED
  BY <1>1

\* A list keeps its type when a certificate is decoded into it.
LEMMA DecodeType ==
    ASSUME NEW q \in Seq(Cert), NEW c \in Cert
    PROVE  DecodeSourceCandidate(q, c) \in Seq(Cert)
BY DEF DecodeSourceCandidate

\* Returning a result keeps the types.
LEMMA ReturnType ==
    ASSUME TypeOK, NEW r \in Result, Return(r) PROVE TypeOK'
BY DEF TypeOK, Return, search, progress, Result

\* Every step keeps the types.
LEMMA NextType == TypeOK /\ [Next]_vars => TypeOK'
<1> SUFFICES ASSUME TypeOK, [Next]_vars PROVE TypeOK'
  BY Zenon
<1> USE DEF TypeOK
<1>0. result \in Result /\ NoResult \in Result /\ Root \in Entry /\ Signer \in Cert
  BY ResultType, RootOK, SignerAssumption, Zenon DEF Result, NoResult, ChainStatuses
<1>1. CASE StartEarly
  <2>1. \A st \in ChainStatuses : /\ [NoResult EXCEPT !.status = st] \in Result
                             /\ [NoResult EXCEPT !.status = st, !.timeValid = TRUE] \in Result
    BY <1>0, ResultType, Zenon
  <2>2. {"SignerMissing", "InvalidSignature", "Expired", "Untrusted"} \subseteq ChainStatuses
    BY Zenon DEF ChainStatuses
  <2> QED
    BY <1>1, <2>1, <2>2, ReturnType, Zenon DEF StartEarly
<1>2. CASE StartDecoding
  BY <1>0, <1>2, ResultType, Zenon DEF StartDecoding, search, progress, Result
<1>3. CASE DecodeAnchor
  <2>1. input.anchors \in Seq(Cert) /\ k \in 1 .. Len(input.anchors)
    BY <1>3 DEF DecodeAnchor, Input
  <2>2. input.anchors[k] \in Cert
    BY <2>1
  <2>3. anchors' \in Seq(Cert)
    BY <1>3, <2>2, DecodeType, Zenon DEF DecodeAnchor
  <2> QED
    BY <1>3, <2>3 DEF DecodeAnchor, progress
<1>4. CASE AnchorsDecoded
  <2>1. CASE anchors = <<>>
    <3>1. [result EXCEPT !.status = "Untrusted"] \in Result
      BY <1>0, ResultType, Zenon DEF ChainStatuses
    <3> QED
      BY <1>4, <2>1, <3>1, ReturnType, Zenon DEF AnchorsDecoded
  <2>2. CASE anchors # <<>>
    BY <1>4, <2>2 DEF AnchorsDecoded, progress
  <2> QED
    BY <2>1, <2>2, Zenon
<1>5. CASE DecodeIssuer
  <2>1. Offered \in Seq(Cert)
    BY DEF Offered, Input
  <2>2. Offered[k] \in Cert
    BY <1>5, <2>1 DEF DecodeIssuer
  <2>3. pool' \in Seq(Cert)
    BY <1>5, <2>2, DecodeType, Zenon DEF DecodeIssuer
  <2> QED
    BY <1>5, <2>3 DEF DecodeIssuer, progress
<1>6. CASE StartSearch
  <2>1. WithinBudget(pool) \in Seq(Cert)
    BY BudgetAssumption DEF WithinBudget
  <2>2. <<Root>> \in Seq(Entry)
    BY <1>0
  <2> QED
    BY <1>0, <1>6, <2>1, <2>2, Zenon DEF StartSearch
<1>7. CASE Pop
  <2>1. Head(queue) \in Entry /\ Tail(queue) \in Seq(Entry)
    BY <1>7 DEF Pop
  <2> QED
    BY <1>7, <2>1 DEF Pop
<1>8. CASE TryAnchor
  <2>1. anchors[k] \in Cert
    BY <1>8 DEF TryAnchor
  <2>2. CASE IsValidAt(anchors[k]) /\ VerifyByIssuer(node.cert, anchors[k])
    <3> DEFINE j == IF node.path = <<>> THEN anchors[k] ELSE node.path[1]
    <3>1. j \in Cert
      BY <2>1, SignerIssuerType, Zenon
    <3>2. result' = [result EXCEPT !.status = "Trusted", !.issuer = anchors[k], !.signerIssuer = j]
      BY <1>8, <2>2, Zenon DEF TryAnchor, Return
    <3> HIDE DEF j
    <3>3. result' \in Result
      BY <1>0, <2>1, <3>1, <3>2, ResultType, Zenon DEF ChainStatuses
    <3>4. Return(result')
      BY <1>8, <2>2, Zenon DEF TryAnchor, Return
    <3> QED
      BY <3>3, <3>4, ReturnType, Zenon
  <2>3. CASE ~(IsValidAt(anchors[k]) /\ VerifyByIssuer(node.cert, anchors[k]))
    BY <1>8, <2>3 DEF TryAnchor, progress
  <2> QED
    BY <2>2, <2>3, Zenon
<1>9. CASE AnchorsTried
  BY <1>9 DEF AnchorsTried, progress
<1>10. CASE TryIssuer
  <2>1. pool[k] \in Cert
    BY <1>10 DEF TryIssuer
  <2>2. Append(queue, [cert |-> pool[k], path |-> Append(node.path, pool[k])]) \in Seq(Entry)
    BY <2>1 DEF Entry
  <2>3. /\ queue' \in Seq(Entry) /\ visited' \subseteq Cert
        /\ foundIssuer' \in BOOLEAN /\ foundExpired' \in BOOLEAN
    BY <1>10, <2>1, <2>2, Zenon DEF TryIssuer, Enqueue
  <2> QED
    BY <1>10, <2>3 DEF TryIssuer
<1>11. CASE IssuersTried
  BY <1>11, Zenon DEF IssuersTried, search, progress
<1>12. CASE Exhausted
  <2>1. \A st \in ChainStatuses : [result EXCEPT !.status = st] \in Result
    BY <1>0, ResultType, Zenon
  <2>2. {"Incomplete", "Expired", "Untrusted"} \subseteq ChainStatuses
    BY Zenon DEF ChainStatuses
  <2> QED
    BY <1>12, <2>1, <2>2, ReturnType, Zenon DEF Exhausted
<1>13. CASE UNCHANGED vars
  BY <1>13, Zenon DEF vars, search, progress
<1> QED
  BY <1>1, <1>2, <1>3, <1>4, <1>5, <1>6, <1>7, <1>8, <1>9, <1>10, <1>11, <1>12, <1>13, Zenon DEF Next

\* Every search has correctly typed state.
THEOREM ChainTypeCorrect == Spec => []TypeOK
<1>1. Init => TypeOK
  <2> SUFFICES ASSUME Init PROVE TypeOK
    BY Zenon
  <2>1. NoResult \in Result /\ Root \in Entry
    BY RootOK, Zenon DEF NoResult, Result, ChainStatuses
  <2>2. input \in Input
    BY InputsAssumption, Zenon DEF Init
  <2>3. <<>> \in Seq(Entry) /\ <<>> \in Seq(Cert) /\ 1 \in Nat \ {0}
    OBVIOUS
  <2> QED
    BY <2>1, <2>2, <2>3, Zenon DEF Init, TypeOK, Result
<1> QED
  BY <1>1, NextType, PTL DEF Spec

\* A step that adds nothing to the queue or the anchors keeps the invariant.
LEMMA QuietKeeps ==
    ASSUME TypeOK, SearchInv, UNCHANGED <<input, anchors, queue>>,
           node' = node,
           pc' \notin {"start", "done"} => input.presented = "decoded" /\ IsValidAt(Signer),
           pc' # "done" => result'.status = "NotChecked"
    PROVE  SearchInv'
BY Zenon DEF SearchInv, EntryOK, ValidPath, IssuedBy, VerifyByIssuer, IsValidAt, AcceptableCa

\* An anchor that was decoded is a configured one.
LEMMA DecodedAnchor ==
    ASSUME TypeOK, SearchInv, DecodeAnchor
    PROVE  \A i \in 1 .. Len(anchors') : anchors'[i] \in Range(input.anchors) \cap input.decodable
<1> DEFINE c == input.anchors[k]
<1>1. anchors \in Seq(Cert) /\ input.anchors \in Seq(Cert) /\ k \in 1 .. Len(input.anchors)
  BY DEF TypeOK, Input, DecodeAnchor
<1>2. c \in Range(input.anchors) /\ c \in Cert
  BY <1>1 DEF Range
<1>3. CASE c \in input.decodable
  <2>1. anchors' = Append(anchors, c)
    BY <1>3, Zenon DEF DecodeAnchor, DecodeSourceCandidate
  <2> HIDE DEF c
  <2>2. \A i \in 1 .. Len(anchors') :
           anchors'[i] = IF i = Len(anchors) + 1 THEN c ELSE anchors[i]
    BY <1>1, <1>2, <2>1
  <2>3. \A i \in 1 .. Len(anchors') : i # Len(anchors) + 1 => i \in 1 .. Len(anchors)
    BY <1>1, <1>2, <2>1
  <2> QED
    BY <1>2, <1>3, <2>2, <2>3, Zenon DEF SearchInv
<1>4. CASE c \notin input.decodable
  BY <1>4, Zenon DEF DecodeAnchor, DecodeSourceCandidate, SearchInv
<1> QED
  BY <1>3, <1>4, Zenon

\* Every step of the search keeps the invariant.
LEMMA NextSearchInv == TypeOK /\ SearchInv /\ [Next]_vars => SearchInv'
<1> SUFFICES ASSUME TypeOK, SearchInv, [Next]_vars PROVE SearchInv'
  BY Zenon
<1>0. UNCHANGED input => \A e : EntryOK(e)' <=> EntryOK(e)
  BY Zenon DEF EntryOK, ValidPath, IssuedBy, VerifyByIssuer, IsValidAt
<1>1. CASE StartEarly
  BY <1>1, QuietKeeps, Zenon DEF StartEarly, Return, search, progress
<1>2. CASE StartDecoding
  <2>1. result'.status = "NotChecked"
    BY <1>2, Zenon DEF StartDecoding, NoResult
  <2> QED
    BY <1>2, <2>1, QuietKeeps, Zenon DEF StartDecoding, search, progress
<1>3. CASE DecodeAnchor
  <2>1. UNCHANGED <<input, pc, queue, node, result>>
    BY <1>3, Zenon DEF DecodeAnchor, progress
  <2> QED
    BY <1>0, <1>3, <2>1, DecodedAnchor, Zenon DEF SearchInv, IsValidAt
<1>4. CASE AnchorsDecoded
  <2>1. CASE anchors = <<>>
    BY <1>4, <2>1, QuietKeeps, Zenon DEF AnchorsDecoded, Return, search, progress
  <2>2. CASE anchors # <<>>
    BY <1>4, <2>2, QuietKeeps, Zenon DEF AnchorsDecoded, progress, SearchInv
  <2> QED
    BY <2>1, <2>2, Zenon
<1>5. CASE DecodeIssuer
  BY <1>5, QuietKeeps, Zenon DEF DecodeIssuer, progress, SearchInv
<1>6. CASE StartSearch
  <2>1. UNCHANGED <<input, anchors, node, result>> /\ queue' = <<Root>> /\ pc' = "pop" /\ pc = "decodeIssuers"
    BY <1>6, Zenon DEF StartSearch
  <2>2. \A i \in 1 .. Len(queue') : queue'[i] = Root
    BY <2>1
  <2> QED
    BY <1>0, <2>1, <2>2, RootOK, Zenon DEF SearchInv, IsValidAt
<1>7. CASE Pop
  <2>1. queue \in Seq(Entry) /\ queue # <<>>
    BY <1>7, Zenon DEF Pop, TypeOK
  <2>2. /\ Head(queue) = queue[1] /\ 1 \in 1 .. Len(queue)
        /\ \A i \in 1 .. Len(Tail(queue)) : Tail(queue)[i] = queue[i + 1] /\ i + 1 \in 1 .. Len(queue)
    BY <2>1
  <2>3. EntryOK(node') /\ \A i \in 1 .. Len(queue') : EntryOK(queue'[i])
    BY <1>7, <2>2, Zenon DEF Pop, SearchInv
  <2>4. UNCHANGED <<input, anchors, result>> /\ pc = "pop" /\ pc' \in {"pop", "anchor"}
    BY <1>7, Zenon DEF Pop
  <2> QED
    BY <1>0, <2>3, <2>4, Zenon DEF SearchInv, IsValidAt
<1>8. CASE TryAnchor
  <2>1. CASE IsValidAt(anchors[k]) /\ VerifyByIssuer(node.cert, anchors[k])
    BY <1>8, <2>1, QuietKeeps, Zenon DEF TryAnchor, Return, search, progress
  <2>2. CASE ~(IsValidAt(anchors[k]) /\ VerifyByIssuer(node.cert, anchors[k]))
    BY <1>8, <2>2, QuietKeeps, Zenon DEF TryAnchor, progress, SearchInv
  <2> QED
    BY <2>1, <2>2, Zenon
<1>9. CASE AnchorsTried
  BY <1>9, QuietKeeps, Zenon DEF AnchorsTried, progress, SearchInv
<1>10. CASE TryIssuer
  <2> DEFINE c == pool[k]
             e == [cert |-> c, path |-> Append(node.path, c)]
  <2>1. UNCHANGED <<input, pc, anchors, node, result>> /\ pc = "issuer" /\ c \in Cert /\ queue \in Seq(Entry)
    BY <1>10 DEF TryIssuer, TypeOK
  <2>2. CASE queue' = queue
    BY <2>1, <2>2, QuietKeeps, Zenon DEF SearchInv
  <2>3. CASE queue' # queue
    <3>1. /\ VerifyByIssuer(node.cert, c) /\ IsValidAt(c) /\ AcceptableCa(c, Len(node.path))
          /\ queue' = Append(queue, e)
      BY <1>10, <2>3, Zenon DEF TryIssuer, Enqueue
    <3>2. e \in Entry /\ EntryOK(e)
      BY <2>1, <3>1, ExtendOK, Zenon DEF SearchInv
    <3> HIDE DEF e
    <3>3. \A i \in 1 .. Len(queue') : queue'[i] = e \/ (i \in 1 .. Len(queue) /\ queue'[i] = queue[i])
      BY <2>1, <3>1, <3>2
    <3> QED
      BY <1>0, <2>1, <3>2, <3>3, Zenon DEF SearchInv, IsValidAt
  <2> QED
    BY <2>2, <2>3, Zenon
<1>11. CASE IssuersTried
  BY <1>11, QuietKeeps, Zenon DEF IssuersTried, search, progress, SearchInv
<1>12. CASE Exhausted
  BY <1>12, QuietKeeps, Zenon DEF Exhausted, Return, search, progress
<1>13. CASE UNCHANGED vars
  BY <1>13, QuietKeeps, Zenon DEF vars, search, progress, SearchInv
<1> QED
  BY <1>1, <1>2, <1>3, <1>4, <1>5, <1>6, <1>7, <1>8, <1>9, <1>10, <1>11, <1>12, <1>13, Zenon DEF Next

\* The step that finds an anchor returns a sound result.
LEMMA AnchorSound ==
    ASSUME TypeOK, SearchInv, TryAnchor, result'.status = "Trusted"
    PROVE  TrustedIsSound'
<1> DEFINE a == anchors[k]
           p == node.path
           j == IF p = <<>> THEN a ELSE p[1]
<1>1. result.status = "NotChecked" /\ input.presented = "decoded" /\ IsValidAt(Signer)
  BY Zenon DEF TryAnchor, SearchInv
<1>2. IsValidAt(a) /\ VerifyByIssuer(node.cert, a)
  BY <1>1, Zenon DEF TryAnchor
<1>3. /\ result' = [result EXCEPT !.status = "Trusted", !.issuer = a, !.signerIssuer = j]
      /\ UNCHANGED <<input, node>>
  BY <1>2, Zenon DEF TryAnchor, Return, search, progress
<1>4. result'.issuer = a /\ result'.signerIssuer = j
  BY <1>3, Zenon DEF TypeOK
<1>5. a \in Range(input.anchors) \cap input.decodable
  <2>1. k \in 1 .. Len(anchors)
    BY DEF TypeOK, TryAnchor
  <2> QED
    BY <2>1, Zenon DEF SearchInv
<1>6. p \in Seq(Cert) /\ ValidPath(p) /\ node.cert = IssuedBy(p, Len(p) + 1)
  BY Zenon DEF TypeOK, Entry, SearchInv, EntryOK
<1>7. VerifyByIssuer(Signer, j)
  <2>1. CASE p = <<>>
    BY <1>2, <1>6, <2>1 DEF IssuedBy
  <2>2. CASE p # <<>>
    <3>1. 1 \in 1 .. Len(p)
      BY <1>6, <2>2
    <3> QED
      BY <1>6, <2>2, <3>1, Zenon DEF ValidPath, IssuedBy
  <2> QED
    BY <2>1, <2>2, Zenon
<1> QED
  BY <1>1, <1>2, <1>3, <1>4, <1>5, <1>6, <1>7, Zenon
     DEF TrustedIsSound, ValidPath, IssuedBy, VerifyByIssuer, IsValidAt

\* Only that step reports Trusted, and nothing follows a result.
LEMMA NextSound ==
    TypeOK /\ SearchInv /\ TrustedIsSound /\ [Next]_vars => TrustedIsSound'
<1> SUFFICES ASSUME TypeOK, SearchInv, TrustedIsSound, [Next]_vars, result'.status = "Trusted"
             PROVE  TrustedIsSound'
  BY Zenon DEF TrustedIsSound
<1>1. CASE Next
  <2>1. pc # "done" /\ result.status = "NotChecked"
    BY <1>1, Zenon DEF Next, StartEarly, StartDecoding, DecodeAnchor, AnchorsDecoded, DecodeIssuer,
                StartSearch, Pop, TryAnchor, AnchorsTried, TryIssuer, IssuersTried, Exhausted,
                SearchInv
  <2>2. result.status # "Trusted" /\ NoResult.status = "NotChecked"
    BY <2>1, Zenon DEF NoResult
  <2>3. \A st : [result EXCEPT !.status = st].status = st
    BY Zenon DEF TypeOK
  <2>4. \A st : /\ [NoResult EXCEPT !.status = st].status = st
                /\ [NoResult EXCEPT !.status = st, !.timeValid = TRUE].status = st
    BY Zenon DEF NoResult
  <2>5. [NoResult EXCEPT !.timeValid = TRUE].status = "NotChecked"
    BY Zenon DEF NoResult
  <2>6. ~StartEarly
    <3>1. StartEarly => \/ \E st \in {"SignerMissing", "InvalidSignature", "Expired"} :
                             result' = [NoResult EXCEPT !.status = st]
                        \/ result' = [NoResult EXCEPT !.status = "Untrusted", !.timeValid = TRUE]
      BY Zenon DEF StartEarly, Return
    <3> QED
      BY <2>4, <3>1, Zenon
  <2>7. ~StartDecoding
    BY <2>5, Zenon DEF StartDecoding
  <2>8. ~AnchorsDecoded /\ ~Exhausted
    BY <2>1, <2>3, ZenonT(60) DEF AnchorsDecoded, Exhausted, Return
  <2>9. UNCHANGED result => FALSE
    BY <2>2, Zenon
  <2>10. TryAnchor
    BY <1>1, <2>6, <2>7, <2>8, <2>9, Zenon DEF Next, DecodeAnchor, DecodeIssuer, StartSearch, Pop, AnchorsTried, TryIssuer, IssuersTried
  <2> QED
    BY <2>10, AnchorSound, Zenon
<1>2. CASE UNCHANGED vars
  BY <1>2, Zenon DEF vars, search, progress, TrustedIsSound, ValidPath, IssuedBy, VerifyByIssuer, IsValidAt
<1> QED
  BY <1>1, <1>2, Zenon

\* Whatever certificates are offered, in whatever order and however they sign
\* each other, CertificateChainValidator::Validate reports Trusted only for a
\* chain of issuers the standard accepts that ends at a configured anchor, and
\* the issuer it hands to the revocation check issued the signer.
THEOREM ChainIsSound == Spec => []TrustedIsSound
<1>1. Init => SearchInv /\ TrustedIsSound
  <2> SUFFICES ASSUME Init PROVE SearchInv /\ TrustedIsSound
    BY Zenon
  <2>1. result.status = "NotChecked" /\ EntryOK(node)
    BY RootOK, Zenon DEF Init, NoResult
  <2>2. Len(queue) = 0 /\ Len(anchors) = 0
    BY Zenon DEF Init
  <2> QED
    BY <2>1, <2>2 DEF Init, SearchInv, TrustedIsSound
<1>2. SearchInv /\ TrustedIsSound /\ TypeOK /\ [Next]_vars => SearchInv' /\ TrustedIsSound'
  BY NextSearchInv, NextSound, Zenon
<1> QED
  BY <1>1, <1>2, ChainTypeCorrect, PTL DEF Spec
-----------------------------------------------------------------------------
(* Completeness.  A level d[c] is given to every certificate c visited: the *)
(* length of the path it was first reached by.  The queue is ordered by     *)
(* level, so no certificate is first reached by a path longer than any      *)
(* acceptable one, and a path length constraint never hides a chain.        *)

\* Entry c was tried with candidate x: x lies at most one level above it.
Reaches(d, c, x) ==
    VerifyByIssuer(c, x) /\ IsValidAt(x) /\ AcceptableCa(x, d[c])
        => x \in visited /\ d[x] <= d[c] + 1

\* None of the anchors before the m-th ends a chain at c.
Unanchored(c, m) ==
    \A i \in 1 .. Len(anchors) : i < m => ~(IsValidAt(anchors[i]) /\ VerifyByIssuer(c, anchors[i]))

\* Entry c was tried with the candidates before the m-th, and with everything.
Tried(d, c, m) == \A i \in 1 .. Len(pool) : i < m => Reaches(d, c, pool[i])
Finished(d, c) == Unanchored(c, Len(anchors) + 1) /\ Tried(d, c, Len(pool) + 1)

Searching == {"pop", "anchor", "issuer"}
Visiting == IF pc = "pop" THEN {} ELSE {node.cert}

\* d gives every certificate visited its level: the queue is ordered by it, no
\* level is skipped, and whatever is not waiting any more is finished.
Levels(d) ==
    /\ Signer \in visited /\ d[Signer] = 0
    /\ visited \subseteq {Signer} \cup Range(pool)
    /\ \A c \in visited : d[c] < Cardinality(visited)
    /\ \A i \in 1 .. Len(queue) : queue[i].cert \in visited /\ d[queue[i].cert] = Len(queue[i].path)
    /\ \A i, j \in 1 .. Len(queue) : i <= j => Len(queue[i].path) <= Len(queue[j].path)
    /\ pc = "pop" /\ queue # <<>> => \A c \in visited : d[c] <= Len(queue[1].path) + 1
    /\ pc # "pop" =>
         /\ node.cert \in visited /\ d[node.cert] = Len(node.path)
         /\ \A c \in visited : d[c] <= Len(node.path) + 1
         /\ \A i \in 1 .. Len(queue) : Len(node.path) <= Len(queue[i].path)
    /\ pc = "anchor" => Unanchored(node.cert, k)
    /\ pc = "issuer" => Unanchored(node.cert, Len(anchors) + 1) /\ Tried(d, node.cert, k)
    /\ \A c \in visited :
         c \in Visiting \/ (\E i \in 1 .. Len(queue) : queue[i].cert = c) \/ Finished(d, c)

\* The search is breadth first.
BreadthFirst == pc \in Searching => \E d \in [visited -> Nat] : Levels(d)

\* What the lists hold of the certificates that were offered.
Gathered ==
    /\ pc = "start" => anchors = <<>> /\ k = 1
    /\ pc \in {"start", "decodeAnchors"} => pool = <<>>
    /\ pc = "decodeAnchors" =>
         \A i \in 1 .. Len(input.anchors) :
            i < k /\ input.anchors[i] \in input.decodable => input.anchors[i] \in Range(anchors)
    /\ pc \in Searching \cup {"decodeIssuers"} => Range(input.anchors) \cap input.decodable \subseteq Range(anchors)
    /\ pc = "decodeIssuers" =>
         /\ k <= Len(Offered) + 1
         /\ Len(pool) = Cardinality(Candidates(k - 1))
         /\ \A i \in Candidates(k - 1) :
              Cardinality(Candidates(i)) \in 1 .. Len(pool) /\ pool[Cardinality(Candidates(i))] = Offered[i]
         /\ \A j \in 1 .. Len(pool) : \E i \in Candidates(k - 1) : Cardinality(Candidates(i)) = j
    /\ pc \in Searching => Range(pool) = Usable

\* What the search noted of the issuers of the signer.
Noted ==
    /\ pc \in {"start", "decodeAnchors", "decodeIssuers"} => ~foundIssuer /\ ~foundExpired
    /\ pc \in Searching =>
         /\ foundIssuer => AbleIssuers # {}
         /\ ~foundIssuer => visited = {Signer}
         /\ ~foundIssuer /\ foundExpired => \E c \in SignerIssuers : ~IsValidAt(c)

\* A set of positions that is not empty has a least one.
LEMMA LeastPosition ==
    ASSUME NEW S \in SUBSET Nat, S # {}
    PROVE  \E x \in S : \A y \in S : x <= y
<1> DEFINE Less == {p \in Nat \X Nat : p[1] < p[2]}
<1>1. OpToRel(<, Nat) = Less
  BY Zenon DEF OpToRel
<1>2. IsWellFoundedOn(Less, Nat)
  BY <1>1, NatLessThanWellFounded, Zenon
<1>3. \A y, z \in Nat : y < z => <<y, z>> \in Less
  <2> TAKE y, z \in Nat
  <2> HAVE y < z
  <2> DEFINE p == <<y, z>>
  <2>1. p[1] = y /\ p[2] = z /\ p \in Nat \X Nat
    BY Zenon
  <2> HIDE DEF p
  <2>2. p[1] < p[2]
    BY <2>1, Zenon
  <2> QED
    BY <2>1, <2>2, Zenon DEF Less, p
<1> HIDE DEF Less
<1>4. PICK x \in S : \A y \in S : ~(<<y, x>> \in Less)
  BY <1>2, WFMin, Zenon
<1>5. \A y \in S : x <= y
  <2> TAKE y \in S
  <2>1. x \in Nat /\ y \in Nat
    BY Zenon
  <2>2. ~(y < x)
    BY <1>3, <1>4, <2>1, Zenon
  <2> QED
    BY <2>1, <2>2
<1> QED
  BY <1>5, Zenon

\* When the queue is empty every certificate visited was tried with every
\* candidate, so along any acceptable path each certificate was visited, and no
\* deeper than the path has it: none of them ends at an anchor.
LEMMA ExhaustedIsComplete ==
    ASSUME TypeOK, pc = "pop", queue = <<>>, NEW d \in [visited -> Nat], Levels(d), Gathered
    PROVE  ~ChainExists
<1> SUFFICES ASSUME NEW n \in 0 .. MaxIssuerCandidates, NEW p \in [1 .. n -> Usable],
                    ValidPath(p), Anchored(p)
             PROVE  FALSE
  BY Zenon DEF ChainExists
<1>1. /\ Range(pool) = Usable /\ pool \in Seq(Cert) /\ anchors \in Seq(Cert)
      /\ Range(input.anchors) \cap input.decodable \subseteq Range(anchors)
      /\ input.pathLen \in [Cert -> Nat \cup {Unlimited}]
  BY Zenon DEF Gathered, Searching, TypeOK, Input
<1>2. n \in Nat /\ p \in Seq(Usable) /\ Len(p) = n
  BY BudgetAssumption
<1>3. \A c \in visited : Finished(d, c)
  BY DEF Levels, Visiting
<1>4. Signer \in visited /\ d[Signer] = 0 /\ visited \subseteq Cert
  BY Zenon DEF Levels, TypeOK
<1> DEFINE Above(i) == IssuedBy(p, i)
           Missed == {i \in 1 .. n + 1 : ~(Above(i) \in visited /\ d[Above(i)] <= i - 1)}
<1>5. Missed = {}
  <2> SUFFICES ASSUME Missed # {} PROVE FALSE
    BY Zenon
  <2>1. Missed \in SUBSET Nat
    BY <1>2
  <2>2. PICK i \in Missed : \A y \in Missed : i <= y
    BY <2>1, LeastPosition, Zenon
  <2>3. i \in 1 .. n + 1 /\ ~(Above(i) \in visited /\ d[Above(i)] <= i - 1)
    BY Zenon
  <2>4. i # 1
    BY <1>4, <2>3 DEF IssuedBy
  <2> DEFINE j == i - 1
             c == Above(j)
             x == p[j]
  <2>5. j \in 1 .. n /\ Above(i) = x /\ j \notin Missed
    BY <1>2, <2>2, <2>3, <2>4 DEF IssuedBy
  <2>6. c \in visited /\ d[c] <= j - 1
    BY <1>2, <2>5
  <2>7. /\ VerifyByIssuer(c, x) /\ IsValidAt(x) /\ x \in input.ca \cap input.certSign
        /\ input.pathLen[x] # Unlimited => j - 1 <= input.pathLen[x]
    BY <1>2, <2>5, Zenon DEF ValidPath
  <2>8. x \in Usable
    BY <2>5, Zenon
  <2> HIDE DEF x, c, Missed
  <2>9. PICK m \in 1 .. Len(pool) : pool[m] = x
    BY <1>1, <2>8 DEF Range
  <2>10. x \in Cert /\ d[c] \in Nat /\ j \in Nat /\ Len(pool) \in Nat
    BY <1>1, <1>2, <2>5, <2>6, <2>9
  <2>11. AcceptableCa(x, d[c])
    BY <1>1, <2>6, <2>7, <2>10 DEF AcceptableCa
  <2>12. Tried(d, c, Len(pool) + 1) /\ m < Len(pool) + 1
    BY <1>3, <2>6, <2>9, <2>10 DEF Finished
  <2>13. Reaches(d, c, x)
    BY <2>9, <2>12, Zenon DEF Tried
  <2>14. x \in visited /\ d[x] <= d[c] + 1
    BY <2>7, <2>11, <2>13, Zenon DEF Reaches
  <2>15. d[x] \in Nat /\ i = j + 1
    BY <2>3, <2>14
  <2>16. d[x] <= i - 1
    BY <2>6, <2>10, <2>14, <2>15
  <2> QED
    BY <2>3, <2>5, <2>14, <2>16, Zenon
<1> DEFINE c == Above(n + 1)
<1>6. c \in visited
  BY <1>2, <1>5
<1>7. PICK a \in Range(anchors) : IsValidAt(a) /\ VerifyByIssuer(c, a)
  BY <1>1, <1>2, Zenon DEF Anchored
<1>8. PICK i \in 1 .. Len(anchors) : anchors[i] = a
  BY <1>1, <1>7 DEF Range
<1> HIDE DEF c
<1>9. Unanchored(c, Len(anchors) + 1) /\ i < Len(anchors) + 1
  BY <1>1, <1>3, <1>6, <1>8 DEF Finished
<1> QED
  BY <1>7, <1>8, <1>9, Zenon DEF Unanchored

\* No certificate lies deeper than there are candidates, so the limit on the
\* depth cuts nothing off.
LEMMA DepthIsBounded ==
    ASSUME TypeOK, NEW d \in [visited -> Nat], Levels(d), NEW c \in visited
    PROVE  /\ d[c] \in Nat /\ d[c] < MaxDepth
           /\ IsFiniteSet(visited) /\ Cardinality(visited) \in Nat
<1> DEFINE S == Range(pool)
           n == Len(pool)
<1>1. pool \in Seq(Cert) /\ n \in Nat /\ Len(anchors) \in Nat
  BY DEF TypeOK
<1>2. pool \in Surjection(1 .. n, S)
  <2>1. pool \in [1 .. n -> S] /\ \A t \in S : \E i \in 1 .. n : pool[i] = t
    BY <1>1 DEF Range
  <2> QED
    BY <2>1, Zenon DEF Surjection
<1>3. IsFiniteSet(1 .. n) /\ Cardinality(1 .. n) = n
  <2>1. 1 \in Int /\ n \in Int
    BY <1>1
  <2>2. IsFiniteSet(1 .. n) /\ Cardinality(1 .. n) = IF 1 > n THEN 0 ELSE n - 1 + 1
    BY <2>1, FS_Interval, Zenon
  <2> QED
    BY <1>1, <2>2
<1> HIDE DEF n, S
<1>4. IsFiniteSet(S) /\ Cardinality(S) <= n
  BY <1>2, <1>3, FS_Surjection
<1>5. Cardinality(S) \in Nat
  BY <1>4, FS_CardinalityType, Zenon
<1>6. IsFiniteSet(S \cup {Signer}) /\ Cardinality(S \cup {Signer}) <= n + 1
  <2>1. /\ IsFiniteSet(S \cup {Signer})
        /\ Cardinality(S \cup {Signer}) = IF Signer \in S THEN Cardinality(S) ELSE Cardinality(S) + 1
    BY <1>4, FS_AddElement, Zenon
  <2> QED
    BY <1>1, <1>4, <1>5, <2>1
<1>7. Cardinality(S \cup {Signer}) \in Nat
  BY <1>6, FS_CardinalityType, Zenon
<1>8. visited \in SUBSET (S \cup {Signer})
  BY Zenon DEF Levels, S
<1>9. IsFiniteSet(visited) /\ Cardinality(visited) <= Cardinality(S \cup {Signer})
  BY <1>6, <1>8, FS_Subset, Zenon
<1>10. Cardinality(visited) \in Nat
  BY <1>9, FS_CardinalityType, Zenon
<1>11. d[c] \in Nat /\ d[c] < Cardinality(visited)
  BY Zenon DEF Levels
<1>12. d[c] < n + Len(anchors) + 1
  BY <1>1, <1>6, <1>7, <1>9, <1>10, <1>11
<1> QED
  BY <1>9, <1>10, <1>11, <1>12, Zenon DEF MaxDepth, n

\* Taking the first entry off the queue keeps the levels.
LEMMA PopLevels ==
    ASSUME TypeOK, NEW d \in [visited -> Nat], Levels(d), Pop
    PROVE  pc' = "anchor" /\ Levels(d)'
<1>1. queue \in Seq(Entry) /\ queue # <<>> /\ pc = "pop"
  BY Zenon DEF Pop, TypeOK
<1>2. /\ Head(queue) = queue[1] /\ 1 \in 1 .. Len(queue) /\ Len(queue) \in Nat
      /\ Len(Tail(queue)) = Len(queue) - 1
      /\ \A i \in 1 .. Len(queue) - 1 : Tail(queue)[i] = queue[i + 1] /\ i + 1 \in 1 .. Len(queue)
  BY <1>1
<1>3. /\ node' = queue[1] /\ queue' = Tail(queue) /\ k' = 1
      /\ UNCHANGED <<input, anchors, pool, visited>>
  BY <1>2, Zenon DEF Pop
<1>4. \A i \in 1 .. Len(queue) : Len(queue[i].path) \in Nat
  BY <1>1 DEF Entry
<1>5. queue[1].cert \in visited /\ d[queue[1].cert] = Len(queue[1].path)
  BY <1>2, Zenon DEF Levels
<1>6. pc' = "anchor"
  <2>1. d[queue[1].cert] \in Nat /\ d[queue[1].cert] < MaxDepth
    BY <1>5, DepthIsBounded, Zenon
  <2>2. MaxDepth \in Nat
    BY DEF MaxDepth, TypeOK
  <2> QED
    BY <1>2, <1>5, <2>1, <2>2 DEF Pop
<1>7. /\ Len(queue') = Len(queue) - 1
      /\ \A i \in 1 .. Len(queue') : queue'[i] = queue[i + 1] /\ i + 1 \in 1 .. Len(queue)
  BY <1>2, <1>3, Zenon
<1>8. \A i \in 1 .. Len(queue') : queue'[i].cert \in visited /\ d[queue'[i].cert] = Len(queue'[i].path)
  <2>1. \A i \in 1 .. Len(queue) : queue[i].cert \in visited /\ d[queue[i].cert] = Len(queue[i].path)
    BY Zenon DEF Levels
  <2> QED
    BY <1>7, <2>1, Zenon
<1>9. \A i, j \in 1 .. Len(queue') : i <= j => Len(queue'[i].path) <= Len(queue'[j].path)
  <2> TAKE i, j \in 1 .. Len(queue')
  <2> HAVE i <= j
  <2>1. i + 1 <= j + 1
    BY <1>2, <1>7
  <2> QED
    BY <1>7, <2>1, Zenon DEF Levels
<1>10. \A c \in visited : d[c] <= Len(node'.path) + 1
  BY <1>1, <1>3, Zenon DEF Levels
<1>11. \A i \in 1 .. Len(queue') : Len(node'.path) <= Len(queue'[i].path)
  <2> TAKE i \in 1 .. Len(queue')
  <2>1. 1 <= i + 1
    BY <1>2, <1>7
  <2> QED
    BY <1>2, <1>3, <1>7, <2>1, Zenon DEF Levels
<1>12. Unanchored(node.cert, k)'
  BY <1>3 DEF Unanchored
<1>13. \A c \in visited : Finished(d, c)' <=> Finished(d, c)
  BY <1>3 DEF Finished, Tried, Reaches, Unanchored, VerifyByIssuer, IsValidAt, AcceptableCa
<1>14. ASSUME NEW c \in visited
       PROVE  c \in Visiting' \/ (\E i \in 1 .. Len(queue') : queue'[i].cert = c) \/ Finished(d, c)'
  <2>1. CASE Finished(d, c)
    BY <1>13, <2>1, Zenon
  <2>2. ASSUME NEW i \in 1 .. Len(queue), queue[i].cert = c
        PROVE  c \in Visiting' \/ \E j \in 1 .. Len(queue') : queue'[j].cert = c
    <3>1. CASE i = 1
      BY <1>3, <1>6, <2>2, <3>1, Zenon DEF Visiting
    <3>2. CASE i # 1
      <4>1. i - 1 \in 1 .. Len(queue') /\ (i - 1) + 1 = i
        BY <1>2, <1>7, <3>2
      <4> QED
        BY <1>7, <2>2, <4>1, Zenon
    <3> QED
      BY <3>1, <3>2, Zenon
  <2> QED
    BY <1>1, <2>1, <2>2, Zenon DEF Levels, Visiting
<1>15. /\ (Signer \in visited /\ d[Signer] = 0)'
       /\ (visited \subseteq {Signer} \cup Range(pool))'
       /\ \A c \in visited' : d[c] < Cardinality(visited')
  BY <1>3, Zenon DEF Levels
<1> QED
  BY <1>3, <1>5, <1>6, <1>8, <1>9, <1>10, <1>11, <1>12, <1>14, <1>15, Zenon DEF Levels

\* A step that leaves the queue, the visited certificates and the lists alone
\* and moves no loop to another one.
LEMMA ScanLevels ==
    ASSUME TypeOK, NEW d \in [visited -> Nat], Levels(d), pc \in {"anchor", "issuer"},
           UNCHANGED <<input, anchors, pool, queue, visited, node>>,
           pc' \in {"anchor", "issuer"},
           pc' = "anchor" => Unanchored(node.cert, k)',
           pc' = "issuer" => Unanchored(node.cert, Len(anchors) + 1)' /\ Tried(d, node.cert, k)'
    PROVE  Levels(d)'
<1>1. \A c \in visited : Finished(d, c)' <=> Finished(d, c)
  BY DEF Finished, Tried, Reaches, Unanchored, VerifyByIssuer, IsValidAt, AcceptableCa
<1>2. Visiting' = Visiting
  BY Zenon DEF Visiting
<1> QED
  BY <1>1, <1>2, Zenon DEF Levels

\* An anchor that does not verify the entry is passed over.
LEMMA TryAnchorLevels ==
    ASSUME TypeOK, NEW d \in [visited -> Nat], Levels(d), TryAnchor, pc' # "done"
    PROVE  UNCHANGED visited /\ pc' = "anchor" /\ Levels(d)'
<1>1. /\ UNCHANGED <<input, pc, anchors, pool, queue, visited, node>> /\ pc = "anchor"
      /\ k' = k + 1 /\ ~(IsValidAt(anchors[k]) /\ VerifyByIssuer(node.cert, anchors[k]))
  BY Zenon DEF TryAnchor, Return, progress
<1>2. k \in Nat /\ Len(anchors) \in Nat
  BY DEF TypeOK
<1>3. Unanchored(node.cert, k)
  BY <1>1, Zenon DEF Levels
<1>4. ASSUME NEW i \in 1 .. Len(anchors), i < k + 1
      PROVE  ~(IsValidAt(anchors[i]) /\ VerifyByIssuer(node.cert, anchors[i]))
  <2>1. i < k \/ i = k
    BY <1>2, <1>4
  <2> QED
    BY <1>1, <1>3, <2>1, Zenon DEF Unanchored
<1>5. Unanchored(node.cert, k)'
  BY <1>1, <1>4, Zenon DEF Unanchored, IsValidAt, VerifyByIssuer
<1> QED
  BY <1>1, <1>5, ScanLevels, Zenon

\* When no anchor verifies the entry, its candidate issuers are next.
LEMMA AnchorsTriedLevels ==
    ASSUME TypeOK, NEW d \in [visited -> Nat], Levels(d), AnchorsTried
    PROVE  UNCHANGED visited /\ pc' = "issuer" /\ Levels(d)'
<1>1. /\ UNCHANGED <<input, anchors, pool, queue, visited, node>> /\ pc = "anchor"
      /\ k' = 1 /\ k > Len(anchors) /\ k \in Nat /\ Len(anchors) \in Nat
  BY DEF AnchorsTried, progress, TypeOK
<1>2. node.cert \in visited /\ d[node.cert] = Len(node.path)
  BY <1>1, Zenon DEF Levels
<1>3. MaxDepth \in Nat /\ d[node.cert] < MaxDepth /\ d[node.cert] \in Nat
  BY <1>2, DepthIsBounded DEF MaxDepth, TypeOK
<1>4. pc' = "issuer"
  BY <1>2, <1>3 DEF AnchorsTried
<1>5. Unanchored(node.cert, k)
  BY <1>1, Zenon DEF Levels
<1>6. Unanchored(node.cert, Len(anchors) + 1)'
  BY <1>1, <1>5 DEF Unanchored, IsValidAt, VerifyByIssuer
<1>7. Tried(d, node.cert, k)'
  BY <1>1 DEF Tried
<1> QED
  BY <1>1, <1>4, <1>6, <1>7, ScanLevels, Zenon

\* An entry tried with every candidate is finished.
LEMMA IssuersTriedLevels ==
    ASSUME TypeOK, NEW d \in [visited -> Nat], Levels(d), IssuersTried
    PROVE  UNCHANGED visited /\ pc' = "pop" /\ Levels(d)'
<1>1. /\ UNCHANGED <<input, anchors, pool, queue, visited, node>> /\ pc = "issuer" /\ pc' = "pop"
      /\ k > Len(pool) /\ k \in Nat /\ Len(pool) \in Nat
  BY DEF IssuersTried, search, progress, TypeOK
<1>2. /\ Unanchored(node.cert, Len(anchors) + 1) /\ Tried(d, node.cert, k)
      /\ \A c \in visited : d[c] <= Len(node.path) + 1
      /\ \A i \in 1 .. Len(queue) : Len(node.path) <= Len(queue[i].path)
  BY <1>1, Zenon DEF Levels
<1>3. Finished(d, node.cert)
  BY <1>1, <1>2 DEF Finished, Tried
<1>4. \A c \in visited : Finished(d, c)' <=> Finished(d, c)
  BY <1>1, Zenon DEF Finished, Tried, Reaches, Unanchored, VerifyByIssuer, IsValidAt, AcceptableCa
<1>5. \A c \in visited : (\E i \in 1 .. Len(queue) : queue[i].cert = c) \/ Finished(d, c)
  BY <1>1, <1>3, Zenon DEF Levels, Visiting
<1>6. ASSUME queue # <<>> PROVE \A c \in visited : d[c] <= Len(queue[1].path) + 1
  <2>1. queue \in Seq(Entry) /\ node \in Entry
    BY Zenon DEF TypeOK
  <2>2. 1 \in 1 .. Len(queue) /\ queue[1] \in Entry
    BY <1>6, <2>1
  <2>3. Len(queue[1].path) \in Nat /\ Len(node.path) \in Nat /\ Len(node.path) <= Len(queue[1].path)
    BY <1>2, <2>1, <2>2 DEF Entry
  <2> QED
    BY <1>2, <2>3
<1>7. Visiting' = {}
  BY <1>1, Zenon DEF Visiting
<1> QED
  BY <1>1, <1>4, <1>5, <1>6, <1>7, Zenon DEF Levels

\* A candidate that is not queued was visited before, no deeper than one above
\* the entry, or may not issue it.
LEMMA SkipLevels ==
    ASSUME TypeOK, NEW d \in [visited -> Nat], Levels(d), TryIssuer, UNCHANGED <<queue, visited>>,
           pool[k] \notin visited => 
              ~(VerifyByIssuer(node.cert, pool[k]) /\ IsValidAt(pool[k])
                /\ AcceptableCa(pool[k], Len(node.path)))
    PROVE  Levels(d)'
<1>1. /\ UNCHANGED <<input, pc, anchors, pool, queue, visited, node>> /\ pc = "issuer"
      /\ k' = k + 1 /\ k \in Nat /\ Len(pool) \in Nat
  BY DEF TryIssuer, TypeOK
<1>2. /\ Unanchored(node.cert, Len(anchors) + 1) /\ Tried(d, node.cert, k)
      /\ \A c \in visited : d[c] <= Len(node.path) + 1
      /\ d[node.cert] = Len(node.path)
  BY <1>1, Zenon DEF Levels
<1>3. Reaches(d, node.cert, pool[k])
  BY <1>2, Zenon DEF Reaches
<1>4. ASSUME NEW i \in 1 .. Len(pool), i < k + 1 PROVE Reaches(d, node.cert, pool[i])
  <2>1. i < k \/ i = k
    BY <1>1, <1>4
  <2> QED
    BY <1>2, <1>3, <2>1, Zenon DEF Tried
<1>5. Tried(d, node.cert, k)'
  BY <1>1, <1>4, Zenon DEF Tried, Reaches, VerifyByIssuer, IsValidAt, AcceptableCa
<1>6. Unanchored(node.cert, Len(anchors) + 1)'
  BY <1>1, <1>2, Zenon DEF Unanchored, VerifyByIssuer, IsValidAt
<1> QED
  BY <1>1, <1>5, <1>6, ScanLevels, Zenon

\* A candidate that is queued lies one above the entry, behind all others.
LEMMA EnqueueLevels ==
    ASSUME TypeOK, NEW d \in [visited -> Nat], Levels(d), TryIssuer,
           pool[k] \notin visited, Enqueue(pool[k])
    PROVE  \E e \in [visited' -> Nat] : Levels(e)'
<1> DEFINE c == pool[k]
           new == [cert |-> c, path |-> Append(node.path, c)]
           m == Len(node.path)
<1>1. /\ UNCHANGED <<input, pc, anchors, pool, node>> /\ pc = "issuer" /\ pc' = "issuer"
      /\ k' = k + 1 /\ k \in 1 .. Len(pool) /\ Len(pool) \in Nat /\ k \in Nat
  BY DEF TryIssuer, TypeOK
<1>2. queue' = Append(queue, new) /\ visited' = visited \cup {c} /\ c \notin visited
  BY Zenon DEF Enqueue
<1>3. c \in Range(pool) /\ c \in Cert
  BY <1>1 DEF Range, TypeOK
<1>4. /\ node \in Entry /\ m \in Nat /\ new \in Entry /\ new.cert = c /\ Len(new.path) = m + 1
      /\ queue \in Seq(Entry) /\ Len(queue) \in Nat
      /\ \A i \in 1 .. Len(queue) : Len(queue[i].path) \in Nat
  BY <1>3 DEF TypeOK, Entry
<1> HIDE DEF c, new, m
<1>5. /\ Len(queue') = Len(queue) + 1 /\ queue'[Len(queue) + 1] = new
      /\ \A i \in 1 .. Len(queue) : queue'[i] = queue[i]
  BY <1>2, <1>4
<1>6. PICK e \in [visited' -> Nat] : e[c] = m + 1 /\ \A x \in visited : e[x] = d[x]
  <2> DEFINE f == [x \in visited' |-> IF x = c THEN m + 1 ELSE d[x]]
  <2>1. f \in [visited' -> Nat] /\ f[c] = m + 1 /\ \A x \in visited : f[x] = d[x]
    BY <1>2, <1>4
  <2> QED
    BY <2>1, Zenon
<1>7. /\ Signer \in visited /\ d[Signer] = 0 /\ visited \subseteq {Signer} \cup Range(pool)
      /\ \A x \in visited : d[x] < Cardinality(visited)
      /\ \A i \in 1 .. Len(queue) : queue[i].cert \in visited /\ d[queue[i].cert] = Len(queue[i].path)
      /\ \A i, j \in 1 .. Len(queue) : i <= j => Len(queue[i].path) <= Len(queue[j].path)
  BY Zenon DEF Levels
<1>8. /\ node.cert \in visited /\ d[node.cert] = m
      /\ \A x \in visited : d[x] <= m + 1
      /\ \A i \in 1 .. Len(queue) : m <= Len(queue[i].path)
      /\ Unanchored(node.cert, Len(anchors) + 1) /\ Tried(d, node.cert, k)
  BY <1>1, Zenon DEF Levels, m
<1>9. \A x \in visited : x = node.cert \/ (\E i \in 1 .. Len(queue) : queue[i].cert = x) \/ Finished(d, x)
  BY <1>1, Zenon DEF Levels, Visiting
<1>10. (Signer \in visited /\ e[Signer] = 0)' /\ (visited \subseteq {Signer} \cup Range(pool))'
  BY <1>1, <1>2, <1>3, <1>6, <1>7, Zenon
<1>11. \A x \in visited' : e[x] < Cardinality(visited')
  <2>1. IsFiniteSet(visited) /\ Cardinality(visited) \in Nat
    BY <1>8, DepthIsBounded, Zenon
  <2>2. Cardinality(visited') = Cardinality(visited) + 1
    BY <1>2, <2>1, FS_AddElement, Zenon
  <2>3. m < Cardinality(visited)
    BY <1>7, <1>8, Zenon
  <2>4. \A x \in visited : d[x] \in Nat /\ d[x] < Cardinality(visited)
    BY <1>7, Zenon
  <2> QED
    BY <1>2, <1>4, <1>6, <2>1, <2>2, <2>3, <2>4
<1>12. \A i \in 1 .. Len(queue') : queue'[i].cert \in visited' /\ e[queue'[i].cert] = Len(queue'[i].path)
  <2> TAKE i \in 1 .. Len(queue')
  <2>1. CASE i = Len(queue) + 1
    BY <1>2, <1>4, <1>5, <1>6, <2>1, Zenon
  <2>2. CASE i \in 1 .. Len(queue)
    BY <1>2, <1>5, <1>6, <1>7, <2>2
  <2> QED
    BY <1>4, <1>5, <2>1, <2>2
<1>13. \A i \in 1 .. Len(queue) : Len(queue[i].path) <= m + 1
  BY <1>7, <1>8, Zenon
<1>14. \A i, j \in 1 .. Len(queue') : i <= j => Len(queue'[i].path) <= Len(queue'[j].path)
  <2> TAKE i, j \in 1 .. Len(queue')
  <2> HAVE i <= j
  <2>1. CASE j = Len(queue) + 1 /\ i = j
    BY <1>4, <1>5, <2>1
  <2>2. CASE j = Len(queue) + 1 /\ i \in 1 .. Len(queue)
    BY <1>4, <1>5, <1>13, <2>2, Zenon
  <2>3. CASE j \in 1 .. Len(queue)
    <3>1. i \in 1 .. Len(queue)
      BY <1>4, <2>3
    <3> QED
      BY <1>5, <1>7, <2>3, <3>1, Zenon
  <2>4. j \in 1 .. Len(queue) \/ (j = Len(queue) + 1 /\ (i = j \/ i \in 1 .. Len(queue)))
    BY <1>4, <1>5
  <2> QED
    BY <2>1, <2>2, <2>3, <2>4, Zenon
<1>15. /\ node.cert \in visited' /\ e[node.cert] = m
       /\ \A x \in visited' : e[x] <= m + 1
  BY <1>2, <1>4, <1>6, <1>8
<1>16. \A i \in 1 .. Len(queue') : m <= Len(queue'[i].path)
  <2> TAKE i \in 1 .. Len(queue')
  <2>1. CASE i = Len(queue) + 1
    BY <1>4, <1>5, <2>1
  <2>2. CASE i \in 1 .. Len(queue)
    BY <1>5, <1>8, <2>2, Zenon
  <2> QED
    BY <1>4, <1>5, <2>1, <2>2
<1>17. \A x \in visited : \A y : Reaches(d, x, y) => Reaches(e, x, y)'
  <2> SUFFICES ASSUME NEW x \in visited, NEW y, Reaches(d, x, y), 
                      VerifyByIssuer(x, y)', IsValidAt(y)', AcceptableCa(y, e[x])'
               PROVE  y \in visited' /\ e[y] <= e[x] + 1
    BY Zenon DEF Reaches
  <2>1. VerifyByIssuer(x, y) /\ IsValidAt(y) /\ AcceptableCa(y, d[x])
    BY <1>1, <1>6, Zenon DEF VerifyByIssuer, IsValidAt, AcceptableCa
  <2>2. y \in visited /\ d[y] <= d[x] + 1
    BY <2>1, Zenon DEF Reaches
  <2> QED
    BY <1>2, <1>6, <2>2, Zenon
<1>18. \A x \in visited : Unanchored(x, Len(anchors) + 1) => Unanchored(x, Len(anchors) + 1)'
  BY <1>1, Zenon DEF Unanchored, VerifyByIssuer, IsValidAt
<1>19. \A x \in visited : Finished(d, x) => Finished(e, x)'
  BY <1>1, <1>17, <1>18, Zenon DEF Finished, Tried
<1>20. Tried(e, node.cert, k)'
  <2>1. \A x : x = c => Reaches(e, node.cert, x)'
    BY <1>1, <1>2, <1>6, <1>8, <1>15, Zenon DEF Reaches
  <2>2. ASSUME NEW i \in 1 .. Len(pool), i < k + 1 PROVE Reaches(e, node.cert, pool[i])'
    <3>1. CASE i = k
      <4>1. pool[i]' = c
        BY <1>1, <3>1, Zenon DEF c
      <4> QED
        BY <2>1, <4>1, Zenon
    <3>2. CASE i < k
      <4>1. Reaches(d, node.cert, pool[i])
        BY <1>8, <3>2, Zenon DEF Tried
      <4> QED
        BY <1>1, <1>8, <1>17, <4>1, Zenon
    <3> QED
      BY <1>1, <2>2, <3>1, <3>2
  <2> QED
    BY <1>1, <2>2, Zenon DEF Tried
<1>21. ASSUME NEW x \in visited'
       PROVE  x \in Visiting' \/ (\E i \in 1 .. Len(queue') : queue'[i].cert = x) \/ Finished(e, x)'
  <2>0. Len(queue) + 1 \in 1 .. Len(queue') /\ 1 .. Len(queue) \subseteq 1 .. Len(queue')
    BY <1>4, <1>5
  <2>1. CASE x = c
    BY <1>4, <1>5, <2>0, <2>1, Zenon
  <2>2. CASE x \in visited
    <3>1. CASE x = node.cert
      BY <1>1, <3>1, Zenon DEF Visiting
    <3>2. CASE Finished(d, x)
      BY <1>19, <2>2, <3>2, Zenon
    <3>3. ASSUME NEW i \in 1 .. Len(queue), queue[i].cert = x
          PROVE  \E j \in 1 .. Len(queue') : queue'[j].cert = x
      BY <1>5, <2>0, <3>3, Zenon
    <3> QED
      BY <1>9, <2>2, <3>1, <3>2, <3>3, Zenon
  <2> QED
    BY <1>2, <2>1, <2>2, Zenon
<1>22. Levels(e)'
  BY <1>1, <1>8, <1>10, <1>11, <1>12, <1>14, <1>15, <1>16, <1>18, <1>20, <1>21, Zenon DEF Levels, m
<1> QED
  BY <1>6, <1>22, Zenon

\* The search starts with the signer at level 0.
LEMMA StartLevels ==
    ASSUME TypeOK, StartSearch
    PROVE  \E d \in [visited' -> Nat] : Levels(d)'
<1>1. visited' = {Signer} /\ queue' = <<Root>> /\ pc' = "pop"
  BY Zenon DEF StartSearch
<1>2. Cardinality({Signer}) = 1
  BY FS_Singleton, Zenon
<1> DEFINE f == [c \in {Signer} |-> 0]
<1>0. f \in [visited' -> Nat] /\ f[Signer] = 0
  BY <1>1, Zenon
<1> HIDE DEF f
<1>3. /\ Len(queue') = 1 /\ queue'[1] = Root /\ Root.cert = Signer /\ Len(Root.path) = 0
      /\ queue' # <<>>
  BY <1>1, Zenon DEF Root
<1>4. Levels(f)'
  BY <1>0, <1>1, <1>2, <1>3 DEF Levels, Visiting
<1> QED
  BY <1>0, <1>4, Zenon

\* One more certificate is offered: it is a candidate when it decodes.
LEMMA CandidatesGrow ==
    ASSUME NEW m \in Nat
    PROVE  /\ Cardinality(Candidates(m)) \in Nat
           /\ Candidates(0) = {} /\ Cardinality(Candidates(0)) = 0
           /\ IF Offered[m + 1] \in input.decodable
              THEN /\ Candidates(m + 1) = Candidates(m) \cup {m + 1}
                   /\ Cardinality(Candidates(m + 1)) = Cardinality(Candidates(m)) + 1
              ELSE Candidates(m + 1) = Candidates(m)
<1>1. Candidates(m) \in SUBSET Nat /\ \A i \in Candidates(m) : i <= m
  BY DEF Candidates
<1>2. IsFiniteSet(Candidates(m))
  BY <1>1, FS_BoundedSetOfNaturals, Zenon
<1>3. Cardinality(Candidates(m)) \in Nat
  BY <1>2, FS_CardinalityType, Zenon
<1>4. Candidates(0) = {}
  BY DEF Candidates
<1>5. IF Offered[m + 1] \in input.decodable
      THEN Candidates(m + 1) = Candidates(m) \cup {m + 1}
      ELSE Candidates(m + 1) = Candidates(m)
  BY DEF Candidates
<1>6. m + 1 \notin Candidates(m)
  BY <1>1
<1>7. Cardinality(Candidates(m) \cup {m + 1}) = Cardinality(Candidates(m)) + 1
  BY <1>2, <1>6, FS_AddElement, Zenon
<1> QED
  BY <1>3, <1>4, <1>5, <1>7, FS_EmptySet, Zenon

\* The candidate issuers are decoded in the order they are offered.
LEMMA DecodeIssuerGathers ==
    ASSUME TypeOK, Gathered, DecodeIssuer
    PROVE  Gathered'
<1> DEFINE m == k - 1
           c == Offered[k]
           n == Len(pool)
           Size(i) == Cardinality(Candidates(i))
<1>1. /\ UNCHANGED <<input, pc, anchors>> /\ pc = "decodeIssuers" /\ k' = k + 1
      /\ pool' = DecodeSourceCandidate(pool, c) /\ k <= Len(Offered)
  BY Zenon DEF DecodeIssuer
<1>2. /\ pool \in Seq(Cert) /\ n \in Nat /\ m \in Nat /\ m + 1 = k /\ k' - 1 = k
      /\ Len(Offered) \in Nat /\ k \in 1 .. Len(Offered) /\ c \in Cert
  BY <1>1 DEF TypeOK, Offered, Input
<1>3. Offered' = Offered /\ \A i : Candidates(i)' = Candidates(i)
  BY <1>1, Zenon DEF Offered, Candidates
<1>4. /\ n = Size(m)
      /\ \A i \in Candidates(m) : Size(i) \in 1 .. n /\ pool[Size(i)] = Offered[i]
      /\ \A j \in 1 .. n : \E i \in Candidates(m) : Size(i) = j
  BY <1>1, Zenon DEF Gathered
<1>5. IF c \in input.decodable
      THEN Candidates(k) = Candidates(m) \cup {k} /\ Size(k) = n + 1
      ELSE Candidates(k) = Candidates(m)
  BY <1>2, <1>4, CandidatesGrow, Zenon
<1> HIDE DEF c, m, n, Size
<1>6. /\ Len(pool') = Size(k)
      /\ \A i \in Candidates(k) : Size(i) \in 1 .. Len(pool') /\ pool'[Size(i)] = Offered[i]
      /\ \A j \in 1 .. Len(pool') : \E i \in Candidates(k) : Size(i) = j
  <2>1. CASE c \in input.decodable
    <3>1. pool' = Append(pool, c)
      BY <1>1, <2>1, Zenon DEF DecodeSourceCandidate
    <3>2. /\ Len(pool') = n + 1 /\ pool'[n + 1] = c
          /\ \A j \in 1 .. n : pool'[j] = pool[j] /\ j \in 1 .. Len(pool')
      BY <1>2, <3>1 DEF n
    <3>3. ASSUME NEW i \in Candidates(k)
          PROVE  Size(i) \in 1 .. Len(pool') /\ pool'[Size(i)] = Offered[i]
      <4>1. CASE i = k
        BY <1>2, <1>5, <2>1, <3>2, <4>1 DEF c
      <4>2. CASE i \in Candidates(m)
        BY <1>4, <3>2, <4>2, Zenon
      <4> QED
        BY <1>5, <2>1, <4>1, <4>2, Zenon
    <3>4. ASSUME NEW j \in 1 .. Len(pool') PROVE \E i \in Candidates(k) : Size(i) = j
      <4>1. CASE j = n + 1
        BY <1>5, <2>1, <4>1, Zenon
      <4>2. CASE j \in 1 .. n
        BY <1>4, <1>5, <2>1, <4>2, Zenon
      <4> QED
        BY <1>2, <3>2, <4>1, <4>2
    <3> QED
      BY <1>5, <2>1, <3>2, <3>3, <3>4, Zenon
  <2>2. CASE c \notin input.decodable
    <3>1. pool' = pool /\ Candidates(k) = Candidates(m)
      BY <1>1, <1>5, <2>2, Zenon DEF DecodeSourceCandidate
    <3>2. Size(k) = Size(m)
      BY <3>1, Zenon DEF Size
    <3> QED
      BY <1>4, <3>1, <3>2, Zenon DEF n
  <2> QED
    BY <2>1, <2>2, Zenon
<1>7. k' <= Len(Offered') + 1
  BY <1>1, <1>2, <1>3
<1>8. Candidates(k - 1)' = Candidates(k)
  BY <1>2, <1>3, Zenon
<1>9. \A i : Cardinality(Candidates(i))' = Size(i)
  BY <1>3, Zenon DEF Size
<1>10. (Range(input.anchors) \cap input.decodable \subseteq Range(anchors))'
  BY <1>1, Zenon DEF Gathered
<1> QED
  BY <1>1, <1>3, <1>6, <1>7, <1>8, <1>9, <1>10 DEF Gathered, Searching

\* The pool of the search is the candidates the budget admits.
LEMMA StartSearchGathers ==
    ASSUME TypeOK, Gathered, StartSearch
    PROVE  Gathered'
<1> DEFINE n == Len(pool)
           Size(i) == Cardinality(Candidates(i))
           b == MaxIssuerCandidates
<1>1. /\ UNCHANGED <<input, anchors>> /\ pc = "decodeIssuers" /\ pc' = "pop"
      /\ pool' = WithinBudget(pool) /\ k > Len(Offered)
  BY Zenon DEF StartSearch
<1>2. /\ pool \in Seq(Cert) /\ n \in Nat /\ b \in Nat
      /\ Len(Offered) \in Nat /\ k \in Nat
  BY BudgetAssumption DEF TypeOK, Offered, Input
<1>3. k - 1 = Len(Offered)
  BY <1>1, <1>2 DEF Gathered
<1>4. /\ \A i \in Candidates(Len(Offered)) : Size(i) \in 1 .. n /\ pool[Size(i)] = Offered[i]
      /\ \A j \in 1 .. n : \E i \in Candidates(Len(Offered)) : Size(i) = j
  BY <1>1, <1>3, Zenon DEF Gathered
<1>5. /\ DOMAIN pool' = {j \in 1 .. n : j <= b}
      /\ \A j \in DOMAIN pool' : pool'[j] = pool[j]
  BY <1>1, <1>2 DEF WithinBudget
<1> HIDE DEF n, b, Size
<1>6. Range(pool') = Usable
  <2>1. ASSUME NEW x \in Range(pool') PROVE x \in Usable
    <3>1. PICK j \in DOMAIN pool' : x = pool'[j]
      BY Zenon DEF Range
    <3>2. j \in 1 .. n /\ j <= b /\ x = pool[j]
      BY <1>5, <3>1, Zenon
    <3>3. PICK i \in Candidates(Len(Offered)) : Size(i) = j
      BY <1>4, <3>2, Zenon
    <3>4. x = Offered[i] /\ Size(i) <= b
      BY <1>4, <3>2, <3>3, Zenon
    <3> QED
      BY <3>4, Zenon DEF Usable, Size, b
  <2>2. ASSUME NEW x \in Usable PROVE x \in Range(pool')
    <3>1. PICK i \in Candidates(Len(Offered)) : x = Offered[i] /\ Size(i) <= b
      BY Zenon DEF Usable, Size, b
    <3>2. Size(i) \in DOMAIN pool' /\ pool'[Size(i)] = x
      BY <1>4, <1>5, <3>1, Zenon
    <3> QED
      BY <3>2, Zenon DEF Range
  <2> QED
    BY <2>1, <2>2, Zenon
<1>7. Usable' = Usable
  BY <1>1 DEF Usable, Candidates, Offered
<1>8. Range(pool)' = Usable'
  BY <1>6, <1>7, Zenon
<1>9. (Range(input.anchors) \cap input.decodable \subseteq Range(anchors))'
  BY <1>1, Zenon DEF Gathered
<1> QED
  BY <1>1, <1>8, <1>9, Zenon DEF Gathered, Searching

\* While the search runs the lists stay as they were gathered.
LEMMA SearchGathers ==
    ASSUME Gathered, pc \in Searching, pc' \in Searching \cup {"done"}, UNCHANGED <<input, anchors, pool>>
    PROVE  Gathered'
<1>1. Usable' = Usable
  BY DEF Usable, Candidates, Offered
<1> QED
  BY <1>1, Zenon DEF Gathered, Searching

\* The anchors that decode are gathered.
LEMMA DecodeAnchorGathers ==
    ASSUME TypeOK, Gathered, DecodeAnchor
    PROVE  Gathered'
<1> DEFINE c == input.anchors[k]
<1>1. /\ UNCHANGED <<input, pc, pool>> /\ pc = "decodeAnchors" /\ k' = k + 1
      /\ anchors' = DecodeSourceCandidate(anchors, c)
      /\ anchors \in Seq(Cert) /\ c \in Cert /\ k \in Nat
  BY DEF DecodeAnchor, TypeOK, Input
<1>2. \A i \in 1 .. Len(input.anchors) :
         i < k /\ input.anchors[i] \in input.decodable => input.anchors[i] \in Range(anchors)
  BY <1>1, Zenon DEF Gathered
<1> HIDE DEF c
<1>3. /\ Range(anchors) \subseteq Range(anchors')
      /\ c \in input.decodable => c \in Range(anchors')
  <2>1. CASE c \in input.decodable
    <3>1. anchors' = Append(anchors, c)
      BY <1>1, <2>1, Zenon DEF DecodeSourceCandidate
    <3>2. /\ \A j \in DOMAIN anchors : j \in DOMAIN anchors' /\ anchors'[j] = anchors[j]
          /\ Len(anchors) + 1 \in DOMAIN anchors' /\ anchors'[Len(anchors) + 1] = c
      BY <1>1, <3>1
    <3> QED
      BY <3>2, Zenon DEF Range
  <2>2. CASE c \notin input.decodable
    BY <1>1, <2>2, Zenon DEF DecodeSourceCandidate
  <2> QED
    BY <2>1, <2>2, Zenon
<1>4. ASSUME NEW i \in 1 .. Len(input.anchors), i < k + 1, input.anchors[i] \in input.decodable
      PROVE  input.anchors[i] \in Range(anchors')
  <2>1. i < k \/ i = k
    BY <1>1, <1>4
  <2> QED
    BY <1>2, <1>3, <1>4, <2>1, Zenon DEF c
<1>5. pool' = <<>>
  BY <1>1, Zenon DEF Gathered
<1> QED
  BY <1>1, <1>4, <1>5, Zenon DEF Gathered, Searching

\* Every step keeps what the lists hold.
LEMMA NextGathers == TypeOK /\ Gathered /\ [Next]_vars => Gathered'
<1> SUFFICES ASSUME TypeOK, Gathered, [Next]_vars PROVE Gathered'
  BY Zenon
<1>0. pc' = "done" => Gathered'
  BY Zenon DEF Gathered, Searching
<1>1. CASE StartEarly
  BY <1>0, <1>1, Zenon DEF StartEarly, Return
<1>2. CASE StartDecoding
  <2>1. /\ pc = "start" /\ pc' = "decodeAnchors" /\ UNCHANGED <<input, anchors, pool, k>>
        /\ k = 1 /\ pool = <<>>
    BY <1>2, Zenon DEF StartDecoding, search, Gathered
  <2> QED
    BY <2>1 DEF Gathered, Searching
<1>3. CASE DecodeAnchor
  BY <1>3, DecodeAnchorGathers, Zenon
<1>4. CASE AnchorsDecoded
  <2>1. CASE anchors = <<>>
    BY <1>0, <1>4, <2>1, Zenon DEF AnchorsDecoded, Return
  <2>2. CASE anchors # <<>>
    <3>1. /\ pc = "decodeAnchors" /\ pc' = "decodeIssuers" /\ k' = 1 /\ k > Len(input.anchors)
          /\ UNCHANGED <<input, anchors, pool>> /\ pool = <<>>
      BY <1>4, <2>2, Zenon DEF AnchorsDecoded, Gathered
    <3>2. Len(pool') = 0 /\ k' - 1 = 0 /\ Len(Offered') \in Nat
      BY <3>1 DEF TypeOK, Input, Offered
    <3>3. Candidates(0)' = {} /\ Cardinality(Candidates(0))' = 0
      <4>1. Candidates(0) = {} /\ Cardinality(Candidates(0)) = 0
        BY CandidatesGrow, Zenon
      <4>2. Candidates(0)' = Candidates(0)
        BY <3>1, Zenon DEF Candidates, Offered
      <4> QED
        BY <4>1, <4>2, Zenon
    <3>4. (Range(input.anchors) \cap input.decodable \subseteq Range(anchors))'
      <4>1. input.anchors \in Seq(Cert) /\ k \in Nat
        BY Zenon DEF TypeOK, Input
      <4>2. \A i \in DOMAIN input.anchors : i \in 1 .. Len(input.anchors) /\ i < k
        BY <3>1, <4>1
      <4>3. Range(input.anchors) \cap input.decodable \subseteq Range(anchors)
        BY <3>1, <4>2, Zenon DEF Gathered, Range
      <4> QED
        BY <3>1, <4>3, Zenon
    <3>5. Candidates(k - 1)' = {} /\ Cardinality(Candidates(k - 1))' = 0
      BY <3>2, <3>3, Zenon
    <3> QED
      BY <3>1, <3>2, <3>4, <3>5 DEF Gathered, Searching
  <2> QED
    BY <2>1, <2>2, Zenon
<1>5. CASE DecodeIssuer
  BY <1>5, DecodeIssuerGathers, Zenon
<1>6. CASE StartSearch
  BY <1>6, StartSearchGathers, Zenon
<1>7. CASE Pop
  BY <1>7, SearchGathers, Zenon DEF Pop, Searching
<1>8. CASE TryAnchor
  BY <1>8, SearchGathers, Zenon DEF TryAnchor, Return, search, progress, Searching
<1>9. CASE AnchorsTried
  BY <1>9, SearchGathers, Zenon DEF AnchorsTried, Searching
<1>10. CASE TryIssuer
  BY <1>10, SearchGathers, Zenon DEF TryIssuer, Searching
<1>11. CASE IssuersTried
  BY <1>11, SearchGathers, Zenon DEF IssuersTried, search, Searching
<1>12. CASE Exhausted
  BY <1>0, <1>12, Zenon DEF Exhausted, Return
<1>13. CASE UNCHANGED vars
  <2>1. UNCHANGED <<input, pc, anchors, pool, k>>
    BY <1>13, Zenon DEF vars, search
  <2>2. UNCHANGED <<Offered, Usable>> /\ \A m : Candidates(m)' = Candidates(m)
    BY <2>1 DEF Usable, Candidates, Offered
  <2> QED
    BY <2>1, <2>2, Zenon DEF Gathered
<1> QED
  BY <1>1, <1>2, <1>3, <1>4, <1>5, <1>6, <1>7, <1>8, <1>9, <1>10, <1>11, <1>12, <1>13, Zenon DEF Next

\* Every step keeps the levels of the search.
LEMMA NextBreadth == TypeOK /\ BreadthFirst /\ [Next]_vars => BreadthFirst'
<1> SUFFICES ASSUME TypeOK, BreadthFirst, [Next]_vars, pc' \in Searching
             PROVE  \E d \in [visited' -> Nat] : Levels(d)'
  BY Zenon DEF BreadthFirst
<1>1. CASE StartSearch
  BY <1>1, StartLevels, Zenon
<1>2. CASE pc \in Searching
  <2>1. PICK d \in [visited -> Nat] : Levels(d)
    BY <1>2, Zenon DEF BreadthFirst
  <2>2. (UNCHANGED visited /\ Levels(d)') => \E e \in [visited' -> Nat] : Levels(e)'
    BY Zenon
  <2>3. CASE Pop
    <3>1. UNCHANGED visited /\ Levels(d)'
      BY <2>1, <2>3, PopLevels, Zenon DEF Pop
    <3> QED
      BY <2>2, <3>1, Zenon
  <2>4. CASE TryAnchor
    BY <2>1, <2>2, <2>4, TryAnchorLevels, Zenon DEF Searching
  <2>5. CASE AnchorsTried
    BY <2>1, <2>2, <2>5, AnchorsTriedLevels, Zenon
  <2>6. CASE TryIssuer
    <3>1. CASE UNCHANGED <<queue, visited>>
      <4>1. pool[k] \notin visited =>
              ~(VerifyByIssuer(node.cert, pool[k]) /\ IsValidAt(pool[k])
                /\ AcceptableCa(pool[k], Len(node.path)))
        BY <2>6, <3>1, Zenon DEF TryIssuer, Enqueue
      <4> QED
        BY <2>1, <2>2, <2>6, <3>1, <4>1, SkipLevels, Zenon
    <3>2. CASE ~UNCHANGED <<queue, visited>>
      <4>1. pool[k] \notin visited /\ Enqueue(pool[k])
        BY <2>6, <3>2, Zenon DEF TryIssuer
      <4> QED
        BY <2>1, <2>6, <4>1, EnqueueLevels, Zenon
    <3> QED
      BY <3>1, <3>2, Zenon
  <2>7. CASE IssuersTried
    BY <2>1, <2>2, <2>7, IssuersTriedLevels, Zenon
  <2>8. CASE UNCHANGED vars
    <3>1. UNCHANGED <<input, pc, anchors, pool, queue, visited, node, k>>
      BY <2>8, Zenon DEF vars, search, progress
    <3>2. Levels(d)'
      BY <2>1, <3>1 DEF Levels, Finished, Tried, Reaches, Unanchored, Visiting, VerifyByIssuer,
                        IsValidAt, AcceptableCa
    <3> QED
      BY <2>2, <3>1, <3>2, Zenon
  <2> QED
    BY <1>1, <1>2, <2>3, <2>4, <2>5, <2>6, <2>7, <2>8, Zenon
       DEF Next, Searching, StartEarly, StartDecoding, DecodeAnchor, AnchorsDecoded, DecodeIssuer,
           Exhausted, Return
<1>3. CASE pc \notin Searching /\ ~StartSearch
  BY <1>3, Zenon DEF Next, Searching, StartEarly, StartDecoding, DecodeAnchor, AnchorsDecoded, DecodeIssuer,
              Pop, TryAnchor, AnchorsTried, TryIssuer, IssuersTried, Exhausted, Return, vars
<1> QED
  BY <1>1, <1>2, <1>3, Zenon

\* What the search noted of the signer's issuers stays true of the input.
LEMMA QuietNotes ==
    ASSUME Noted, UNCHANGED <<input, foundIssuer, foundExpired>>,
           \/ pc \in Searching /\ pc' \in Searching /\ UNCHANGED visited
           \/ pc \in {"start", "decodeAnchors", "decodeIssuers"} /\ pc' \notin Searching
           \/ pc' = "done"
    PROVE  Noted'
<1>1. UNCHANGED <<SignerIssuers, AbleIssuers>>
  BY DEF SignerIssuers, AbleIssuers, Usable, Candidates, Offered, VerifyByIssuer, IsValidAt, AcceptableCa
<1>2. pc \in {"start", "decodeAnchors", "decodeIssuers"} /\ pc' \notin Searching => Noted'
  BY <1>1, Zenon DEF Noted, Searching
<1> QED
  BY <1>1, <1>2, Zenon DEF Noted, Searching, IsValidAt

\* The first candidate that is noted or queued is one that signed the signer.
LEMMA TryIssuerNotes ==
    ASSUME TypeOK, Gathered, BreadthFirst, Noted, TryIssuer
    PROVE  Noted'
<1> DEFINE c == pool[k]
<1>1. /\ UNCHANGED <<input, pc, pool>> /\ pc = "issuer" /\ pc' \in Searching /\ pc \in Searching
      /\ k \in 1 .. Len(pool) /\ pool \in Seq(Cert)
  BY DEF TryIssuer, TypeOK, Searching
<1>2. c \in Usable
  <2>1. c \in Range(pool)
    BY <1>1 DEF Range
  <2> QED
    BY <1>1, <2>1, Zenon DEF Gathered
<1>3. PICK d \in [visited -> Nat] : Levels(d)
  BY <1>1, Zenon DEF BreadthFirst
<1>4. Signer \in visited /\ d[Signer] = 0 /\ node.cert \in visited /\ d[node.cert] = Len(node.path)
  BY <1>1, <1>3, Zenon DEF Levels
<1>5. UNCHANGED <<SignerIssuers, AbleIssuers>> /\ \A x : IsValidAt(x)' <=> IsValidAt(x)
  BY <1>1 DEF SignerIssuers, AbleIssuers, Usable, Candidates, Offered, VerifyByIssuer, IsValidAt, AcceptableCa
<1>6. /\ foundIssuer => AbleIssuers # {}
      /\ ~foundIssuer => visited = {Signer}
      /\ ~foundIssuer /\ foundExpired => \E x \in SignerIssuers : ~IsValidAt(x)
  BY <1>1, Zenon DEF Noted
<1>7. ~foundIssuer => node.cert = Signer /\ Len(node.path) = 0
  BY <1>4, <1>6, Zenon
<1> HIDE DEF c
<1>8. CASE UNCHANGED <<visited, foundIssuer, foundExpired>>
  BY <1>1, <1>8, QuietNotes, Zenon DEF Searching
<1>9. CASE c \notin visited /\ VerifyByIssuer(node.cert, c) /\ ~IsValidAt(c)
           /\ foundExpired' = TRUE /\ UNCHANGED <<visited, foundIssuer>>
  <2>1. ~foundIssuer => c \in SignerIssuers
    BY <1>2, <1>4, <1>7, <1>9, Zenon DEF SignerIssuers
  <2> QED
    BY <1>1, <1>5, <1>6, <1>9, <2>1, Zenon DEF Noted, Searching
<1>10. CASE /\ c \notin visited /\ VerifyByIssuer(node.cert, c) /\ IsValidAt(c)
            /\ AcceptableCa(c, Len(node.path)) /\ foundIssuer' = TRUE
  <2>1. ~foundIssuer => c \in AbleIssuers
    BY <1>2, <1>4, <1>7, <1>10, Zenon DEF SignerIssuers, AbleIssuers
  <2> QED
    BY <1>1, <1>5, <1>6, <1>10, <2>1, Zenon DEF Noted, Searching
<1> QED
  BY <1>8, <1>9, <1>10, Zenon DEF TryIssuer, Enqueue, c

\* Every step keeps what was noted.
LEMMA NextNotes == TypeOK /\ Gathered /\ BreadthFirst /\ Noted /\ [Next]_vars => Noted'
<1> SUFFICES ASSUME TypeOK, Gathered, BreadthFirst, Noted, [Next]_vars PROVE Noted'
  BY Zenon
<1>1. CASE StartSearch
  BY <1>1, Zenon DEF StartSearch, Noted, Searching
<1>2. CASE TryIssuer
  BY <1>2, TryIssuerNotes, Zenon
<1>3. CASE UNCHANGED vars
  <2>1. UNCHANGED <<input, pc, visited, foundIssuer, foundExpired>>
    BY <1>3, Zenon DEF vars, search, progress
  <2>2. pc \in {"start", "decodeAnchors", "decodeIssuers", "pop", "anchor", "issuer", "done"}
    BY Zenon DEF TypeOK
  <2> QED
    BY <2>1, <2>2, QuietNotes, Zenon DEF Searching
<1>4. CASE StartEarly
  BY <1>4, QuietNotes, Zenon DEF StartEarly, Return, search, progress
<1>5. CASE StartDecoding
  BY <1>5, QuietNotes, Zenon DEF StartDecoding, search, progress, Searching
<1>6. CASE DecodeAnchor
  BY <1>6, QuietNotes, Zenon DEF DecodeAnchor, progress, Searching
<1>7. CASE AnchorsDecoded
  BY <1>7, QuietNotes, Zenon DEF AnchorsDecoded, Return, search, progress, Searching
<1>8. CASE DecodeIssuer
  BY <1>8, QuietNotes, Zenon DEF DecodeIssuer, progress, Searching
<1>9. CASE Pop
  BY <1>9, QuietNotes, Zenon DEF Pop, Searching
<1>10. CASE TryAnchor
  BY <1>10, QuietNotes, Zenon DEF TryAnchor, Return, search, progress, Searching
<1>11. CASE AnchorsTried
  BY <1>11, QuietNotes, Zenon DEF AnchorsTried, progress, Searching
<1>12. CASE IssuersTried
  BY <1>12, QuietNotes, Zenon DEF IssuersTried, search, progress, Searching
<1>13. CASE Exhausted
  BY <1>13, QuietNotes, Zenon DEF Exhausted, Return, search, progress
<1> QED
  BY <1>1, <1>2, <1>3, <1>4, <1>5, <1>6, <1>7, <1>8, <1>9, <1>10, <1>11, <1>12, <1>13, Zenon DEF Next

\* The queue ran empty: no acceptable chain exists, and the status says why.
LEMMA ExhaustedJustified ==
    ASSUME TypeOK, Gathered, BreadthFirst, Noted, Exhausted
    PROVE  RefusalIsJustified'
<1>1. /\ pc = "pop" /\ pc \in Searching /\ queue = <<>> /\ pc' = "done" /\ UNCHANGED <<input, anchors>>
      /\ result' = [result EXCEPT !.status =
                       IF foundIssuer THEN "Incomplete"
                       ELSE IF foundExpired THEN "Expired" ELSE "Untrusted"]
  BY Zenon DEF Exhausted, Return, search, Searching
<1>2. result'.status = IF foundIssuer THEN "Incomplete"
                       ELSE IF foundExpired THEN "Expired" ELSE "Untrusted"
  BY <1>1, Zenon DEF TypeOK
<1>3. PICK d \in [visited -> Nat] : Levels(d)
  BY <1>1, Zenon DEF BreadthFirst
<1>4. ~ChainExists
  BY <1>1, <1>3, ExhaustedIsComplete, Zenon
<1>5. ChainExists' <=> ChainExists
  BY <1>1 DEF ChainExists, Usable, Candidates, Offered, ValidPath, Anchored, IssuedBy, VerifyByIssuer, IsValidAt
<1>6. /\ UNCHANGED <<SignerIssuers, AbleIssuers>>
      /\ \A x : IsValidAt(x)' <=> IsValidAt(x)
  BY <1>1 DEF SignerIssuers, AbleIssuers, Usable, Candidates, Offered, VerifyByIssuer, IsValidAt, AcceptableCa
<1>7. foundIssuer \/ AbleIssuers = {}
  <2> SUFFICES ASSUME ~foundIssuer, NEW c \in AbleIssuers PROVE FALSE
    BY Zenon
  <2>1. visited = {Signer} /\ d[Signer] = 0
    BY <1>1, <1>3, Zenon DEF Noted, Levels
  <2>2. Finished(d, Signer)
    BY <1>1, <1>3, <2>1 DEF Levels, Visiting
  <2>3. /\ c \in Range(pool) /\ c # Signer
        /\ VerifyByIssuer(Signer, c) /\ IsValidAt(c) /\ AcceptableCa(c, 0)
    BY <1>1, Zenon DEF AbleIssuers, SignerIssuers, Gathered
  <2>4. pool \in Seq(Cert)
    BY Zenon DEF TypeOK
  <2>5. PICK i \in 1 .. Len(pool) : pool[i] = c /\ i < Len(pool) + 1
    BY <2>3, <2>4 DEF Range
  <2>6. Reaches(d, Signer, c)
    BY <2>2, <2>5, Zenon DEF Finished, Tried
  <2> QED
    BY <2>1, <2>3, <2>6, Zenon DEF Reaches
<1>8. /\ foundIssuer => AbleIssuers # {}
      /\ ~foundIssuer /\ foundExpired => \E c \in SignerIssuers : ~IsValidAt(c)
  BY <1>1, Zenon DEF Noted
<1>9. TrustedIsComplete'
  BY <1>4, <1>5, Zenon DEF TrustedIsComplete
<1>10. RefusalIsExplained'
  BY <1>2, <1>6, <1>7, <1>8, Zenon DEF RefusalIsExplained
<1> QED
  BY <1>9, <1>10, Zenon DEF RefusalIsJustified

\* Every step that returns gives a justified answer.
LEMMA NextJustified ==
    TypeOK /\ Gathered /\ BreadthFirst /\ Noted /\ RefusalIsJustified /\ [Next]_vars
        => RefusalIsJustified'
<1> SUFFICES ASSUME TypeOK, Gathered, BreadthFirst, Noted, RefusalIsJustified, [Next]_vars,
                    pc' = "done"
             PROVE  RefusalIsJustified'
  BY Zenon DEF RefusalIsJustified, TrustedIsComplete, RefusalIsExplained
<1>1. CASE StartEarly
  <2>1. /\ pc = "start" /\ UNCHANGED <<input, anchors>> /\ anchors = <<>>
    BY <1>1, Zenon DEF StartEarly, Return, search, Gathered
  <2>2. \A st : /\ [NoResult EXCEPT !.status = st].status = st
                /\ [NoResult EXCEPT !.status = st, !.timeValid = TRUE].status = st
    BY Zenon DEF NoResult
  <2>3. \/ input.presented # "decoded" /\ result'.status \in {"SignerMissing", "InvalidSignature"}
        \/ ~IsValidAt(Signer) /\ result'.status = "Expired"
        \/ input.anchors = <<>> /\ result'.status = "Untrusted"
    <3>1. \/ input.presented # "decoded" /\ \E st \in {"SignerMissing", "InvalidSignature"} :
                                              result' = [NoResult EXCEPT !.status = st]
          \/ ~IsValidAt(Signer) /\ result' = [NoResult EXCEPT !.status = "Expired"]
          \/ input.anchors = <<>> /\ result' = [NoResult EXCEPT !.status = "Untrusted", !.timeValid = TRUE]
      BY <1>1, Zenon DEF StartEarly, Return
    <3> QED
      BY <2>2, <3>1, ZenonT(60)
  <2>4. ASSUME input.anchors = <<>> PROVE ~ChainExists'
    <3>1. Range(input'.anchors) = {}
      BY <2>1, <2>4 DEF Range
    <3> QED
      BY <3>1, Zenon DEF ChainExists, Anchored
  <2> QED
    BY <2>1, <2>3, <2>4, Zenon DEF RefusalIsJustified, TrustedIsComplete, RefusalIsExplained, IsValidAt
<1>2. CASE AnchorsDecoded
  <2>1. /\ pc = "decodeAnchors" /\ anchors = <<>> /\ UNCHANGED <<input, anchors>> /\ k > Len(input.anchors)
        /\ result' = [result EXCEPT !.status = "Untrusted"]
    BY <1>2, Zenon DEF AnchorsDecoded, Return, search
  <2>2. result'.status = "Untrusted"
    BY <2>1, Zenon DEF TypeOK
  <2>3. input.anchors \in Seq(Cert) /\ k \in Nat
    BY Zenon DEF TypeOK, Input
  <2>4. \A i \in DOMAIN input.anchors : i \in 1 .. Len(input.anchors) /\ i < k
    BY <2>1, <2>3
  <2>5. Range(input.anchors) \cap input.decodable = {}
    BY <2>1, <2>4 DEF Gathered, Range
  <2>6. ~ChainExists'
    BY <2>1, <2>5, Zenon DEF ChainExists, Anchored
  <2> QED
    BY <2>1, <2>2, <2>6, Zenon DEF RefusalIsJustified, TrustedIsComplete, RefusalIsExplained
<1>3. CASE TryAnchor
  <2>1. result'.status = "Trusted"
    BY <1>3, Zenon DEF TryAnchor, Return, TypeOK
  <2> QED
    BY <2>1, Zenon DEF RefusalIsJustified, TrustedIsComplete, RefusalIsExplained
<1>4. CASE Exhausted
  BY <1>4, ExhaustedJustified, Zenon
<1>5. CASE UNCHANGED vars
  <2>1. UNCHANGED <<input, pc, anchors, result>>
    BY <1>5, Zenon DEF vars, search
  <2>2. Usable' = Usable
    BY <2>1 DEF Usable, Candidates, Offered
  <2>3. \A p : (ValidPath(p)' <=> ValidPath(p)) /\ (Anchored(p)' <=> Anchored(p))
    BY <2>1, Zenon DEF ValidPath, Anchored, VerifyByIssuer, IsValidAt
  <2>4. ChainExists' <=> ChainExists
    BY <2>2, <2>3, Zenon DEF ChainExists
  <2>5. UNCHANGED <<SignerIssuers, AbleIssuers>> /\ \A x : IsValidAt(x)' <=> IsValidAt(x)
    BY <2>1, <2>2, Zenon DEF SignerIssuers, AbleIssuers, VerifyByIssuer, IsValidAt, AcceptableCa
  <2> QED
    BY <2>1, <2>4, <2>5, Zenon DEF RefusalIsJustified, TrustedIsComplete, RefusalIsExplained
<1> QED
  BY <1>1, <1>2, <1>3, <1>4, <1>5, Zenon DEF Next, StartDecoding, DecodeAnchor, DecodeIssuer, StartSearch, Pop, AnchorsTried, TryIssuer, IssuersTried

\* Whatever certificates are offered and however they sign each other,
\* CertificateChainValidator::Validate refuses a signer only when no chain of
\* candidates within the budget is acceptable: a certificate is visited first
\* on a shortest path, so neither the visited set, nor a path length
\* constraint, nor the depth limit hides a chain.  The reason it gives is the
\* right one.
THEOREM ChainIsComplete == Spec => []RefusalIsJustified
<1> DEFINE Inv == Gathered /\ BreadthFirst /\ Noted /\ RefusalIsJustified
<1>1. Init => Inv
  BY Zenon DEF Init, Gathered, BreadthFirst, Noted, RefusalIsJustified, TrustedIsComplete,
         RefusalIsExplained, Searching
<1>2. TypeOK /\ Inv /\ [Next]_vars => Inv'
  BY NextGathers, NextBreadth, NextNotes, NextJustified, Zenon
<1> QED
  BY <1>1, <1>2, ChainTypeCorrect, PTL DEF Spec
=============================================================================
