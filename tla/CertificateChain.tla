-------------------------- MODULE CertificateChain --------------------------
(***************************************************************************)
(* CertificateChainValidator::Validate: the search for a chain from the    *)
(* signer's certificate to a configured trust anchor.                      *)
(*                                                                         *)
(* The search is breadth first over the candidate issuers (the             *)
(* certificates embedded in the signature, those of the intermediate store *)
(* and those fetched by AIA, in that order, cut to the verification        *)
(* budget).  A queue entry is a certificate with the path of issuers that  *)
(* led to it; the code's ChainNode keeps the length of the path (depth)    *)
(* and its first element (signer_issuer_der) beside it.                    *)
(*                                                                         *)
(* What the cryptographic library answers (does this key verify that       *)
(* certificate, is it within its validity window, its basicConstraints and *)
(* keyUsage) is part of the input.                                         *)
(***************************************************************************)
EXTENDS Naturals, Sequences, FiniteSets, Functions, ChainVerdict

CONSTANTS
    Cert,                   \* certificates, compared by their DER bytes
    Signer,                 \* the signer's certificate
    NoCert,                 \* an empty DER field of the result
    Unlimited,              \* basicConstraints without a pathLenConstraint
    MaxIssuerCandidates,    \* kMaxIssuerCandidates: 256 in the code
    Inputs                  \* the inputs of Validate that are considered

ASSUME SignerAssumption == Signer \in Cert
ASSUME NoCertAssumption == NoCert \notin Cert
ASSUME BudgetAssumption == MaxIssuerCandidates \in Nat

\* CertificateChainInput, with the facts the library reports of each certificate.
Input ==
    [presented    : {"missing", "undecodable", "decoded"},
     anchors      : Seq(Cert),
     embedded     : Seq(Cert),
     intermediate : Seq(Cert),
     aia          : Seq(Cert),
     decodable    : SUBSET Cert,
     issued       : SUBSET (Cert \X Cert),   \* <<c, i>>: the key of i verifies c
     valid        : SUBSET Cert,             \* within its window at validation_time
     ca           : SUBSET Cert,
     certSign     : SUBSET Cert,
     pathLen      : [Cert -> Nat \cup {Unlimited}]]

ASSUME InputsAssumption == Inputs \subseteq Input

VARIABLES
    input,
    pc,             \* the loop that is running
    anchors,        \* trust anchors that decode
    pool,           \* candidate issuers that decode, within the budget
    queue,          \* the entries still to visit
    visited,        \* certificates already queued
    node,           \* the entry being visited
    k,              \* position in the list that is being scanned
    foundIssuer,    \* found_issuer_path
    foundExpired,   \* found_expired_issuer_path
    result

progress == <<visited, node, foundIssuer, foundExpired>>
search == <<anchors, pool, queue, k, progress>>
vars == <<input, pc, search, result>>

NoResult ==
    [status |-> "NotChecked", timeValid |-> FALSE, issuer |-> NoCert, signerIssuer |-> NoCert]

Root == [cert |-> Signer, path |-> <<>>]

\* DecodeSourceCandidates, one certificate: one that does not decode is left out.
DecodeSourceCandidate(certs, c) ==
    IF c \in input.decodable THEN Append(certs, c) ELSE certs

\* issuer_groups: the candidate issuers in the order of their sources.
Offered == input.embedded \o input.intermediate \o input.aia

\* The cut to the verification budget.
WithinBudget(certs) ==
    IF Len(certs) > MaxIssuerCandidates THEN SubSeq(certs, 1, MaxIssuerCandidates) ELSE certs

MaxDepth == Len(pool) + Len(anchors) + 1

\* VerifyByIssuer and IsValidAt.
VerifyByIssuer(c, i) == <<c, i>> \in input.issued
IsValidAt(c) == c \in input.valid

\* Mutated IssuerCaRejectReason: the path length is compared one off.
AcceptableCaOffByOne(c, below) ==
    /\ c \in input.ca
    /\ c \in input.certSign
    /\ input.pathLen[c] = Unlimited \/ below < input.pathLen[c]

\* IssuerCaRejectReason answers "": a CA with keyCertSign whose
\* pathLenConstraint admits the intermediate certificates below it.
AcceptableCa(c, below) ==
    /\ c \in input.ca
    /\ c \in input.certSign
    /\ input.pathLen[c] = Unlimited \/ below <= input.pathLen[c]

-----------------------------------------------------------------------------
Return(r) ==
    /\ pc' = "done"
    /\ result' = r
    /\ UNCHANGED <<input, search>>

\* The checks before the search, each an early return.
StartEarly ==
    /\ pc = "start"
    /\ \/ /\ input.presented = "missing"
          /\ Return([NoResult EXCEPT !.status = "SignerMissing"])
       \/ /\ input.presented = "undecodable"
          /\ Return([NoResult EXCEPT !.status = "InvalidSignature"])
       \/ /\ input.presented = "decoded"
          /\ ~IsValidAt(Signer)
          /\ Return([NoResult EXCEPT !.status = "Expired"])
       \/ /\ input.presented = "decoded"
          /\ IsValidAt(Signer)
          /\ input.anchors = <<>>
          /\ Return([NoResult EXCEPT !.status = "Untrusted", !.timeValid = TRUE])

\* Mutated StartDecoding: the signer's window is confirmed but not recorded.
StartDecodingUntimed ==
    /\ pc = "start"
    /\ input.presented = "decoded"
    /\ IsValidAt(Signer)
    /\ input.anchors # <<>>
    /\ pc' = "decodeAnchors"
    /\ UNCHANGED <<input, search, result>>

StartDecoding ==
    /\ pc = "start"
    /\ input.presented = "decoded"
    /\ IsValidAt(Signer)
    /\ input.anchors # <<>>
    /\ pc' = "decodeAnchors"
    /\ result' = [NoResult EXCEPT !.timeValid = TRUE]
    /\ UNCHANGED <<input, search>>

DecodeAnchor ==
    /\ pc = "decodeAnchors"
    /\ k <= Len(input.anchors)
    /\ anchors' = DecodeSourceCandidate(anchors, input.anchors[k])
    /\ k' = k + 1
    /\ UNCHANGED <<input, pc, pool, queue, progress, result>>

\* No anchor decodes, the last early return, or the candidates are next.
AnchorsDecoded ==
    /\ pc = "decodeAnchors"
    /\ k > Len(input.anchors)
    /\ \/ /\ anchors = <<>>
          /\ Return([result EXCEPT !.status = "Untrusted"])
       \/ /\ anchors # <<>>
          /\ pc' = "decodeIssuers"
          /\ k' = 1
          /\ UNCHANGED <<input, anchors, pool, queue, progress, result>>

DecodeIssuer ==
    /\ pc = "decodeIssuers"
    /\ k <= Len(Offered)
    /\ pool' = DecodeSourceCandidate(pool, Offered[k])
    /\ k' = k + 1
    /\ UNCHANGED <<input, pc, anchors, queue, progress, result>>

\* The pool is cut to the budget and the search starts at the signer.
StartSearch ==
    /\ pc = "decodeIssuers"
    /\ k > Len(Offered)
    /\ pool' = WithinBudget(pool)
    /\ queue' = <<Root>>
    /\ visited' = {Signer}
    /\ pc' = "pop"
    /\ UNCHANGED <<input, anchors, node, k, foundIssuer, foundExpired, result>>

\* The head of the while loop.
Pop ==
    /\ pc = "pop"
    /\ queue # <<>>
    /\ node' = Head(queue)
    /\ queue' = Tail(queue)
    /\ k' = 1
    /\ pc' = IF Len(Head(queue).path) > MaxDepth THEN "pop" ELSE "anchor"
    /\ UNCHANGED <<input, anchors, pool, visited, foundIssuer, foundExpired, result>>

\* Mutated TryAnchor: the anchor's own validity window is not looked at.
TryAnyAnchor ==
    /\ pc = "anchor"
    /\ k <= Len(anchors)
    /\ LET a == anchors[k] IN
          IF VerifyByIssuer(node.cert, a)
          THEN Return([result EXCEPT !.status = "Trusted",
                                     !.issuer = a,
                                     !.signerIssuer = IF node.path = <<>> THEN a
                                                      ELSE node.path[1]])
          ELSE /\ k' = k + 1
               /\ UNCHANGED <<input, pc, anchors, pool, queue, progress, result>>

\* One anchor: it must be within its window and verify the entry's certificate.
TryAnchor ==
    /\ pc = "anchor"
    /\ k <= Len(anchors)
    /\ LET a == anchors[k] IN
          IF IsValidAt(a) /\ VerifyByIssuer(node.cert, a)
          THEN Return([result EXCEPT !.status = "Trusted",
                                     !.issuer = a,
                                     !.signerIssuer = IF node.path = <<>> THEN a
                                                      ELSE node.path[1]])
          ELSE /\ k' = k + 1
               /\ UNCHANGED <<input, pc, anchors, pool, queue, progress, result>>

\* No anchor verifies the entry: on to the candidate issuers.
AnchorsTried ==
    /\ pc = "anchor"
    /\ k > Len(anchors)
    /\ k' = 1
    /\ pc' = IF Len(node.path) >= MaxDepth THEN "pop" ELSE "issuer"
    /\ UNCHANGED <<input, anchors, pool, queue, progress, result>>

\* The candidate is an issuer of the entry: it is queued behind the others.
Enqueue(c) ==
    /\ queue' = Append(queue, [cert |-> c, path |-> Append(node.path, c)])
    /\ visited' = visited \cup {c}
    /\ foundIssuer' = TRUE
    /\ UNCHANGED foundExpired

\* One candidate issuer: skipped when it was queued before or does not verify
\* the entry's certificate, noted when it is expired, queued when it may issue.
TryIssuer ==
    /\ pc = "issuer"
    /\ k <= Len(pool)
    /\ k' = k + 1
    /\ LET c == pool[k] IN
          \/ /\ c \in visited \/ ~VerifyByIssuer(node.cert, c)
             /\ UNCHANGED <<queue, visited, foundIssuer, foundExpired>>
          \/ /\ c \notin visited /\ VerifyByIssuer(node.cert, c)
             /\ ~IsValidAt(c)
             /\ foundExpired' = TRUE
             /\ UNCHANGED <<queue, visited, foundIssuer>>
          \/ /\ c \notin visited /\ VerifyByIssuer(node.cert, c)
             /\ IsValidAt(c)
             /\ IF AcceptableCa(c, Len(node.path))
                THEN Enqueue(c)
                ELSE UNCHANGED <<queue, visited, foundIssuer, foundExpired>>
    /\ UNCHANGED <<input, pc, anchors, pool, node, result>>

IssuersTried ==
    /\ pc = "issuer"
    /\ k > Len(pool)
    /\ pc' = "pop"
    /\ UNCHANGED <<input, search, result>>

\* The queue ran empty: the status says how far the search came.
Exhausted ==
    /\ pc = "pop"
    /\ queue = <<>>
    /\ Return([result EXCEPT !.status =
                  IF foundIssuer THEN "Incomplete"
                  ELSE IF foundExpired THEN "Expired" ELSE "Untrusted"])

Init ==
    /\ input \in Inputs
    /\ pc = "start"
    /\ anchors = <<>>
    /\ pool = <<>>
    /\ queue = <<>>
    /\ visited = {}
    /\ node = Root
    /\ k = 1
    /\ foundIssuer = FALSE
    /\ foundExpired = FALSE
    /\ result = NoResult

Next ==
    \/ StartEarly
    \/ StartDecoding
    \/ DecodeAnchor
    \/ AnchorsDecoded
    \/ DecodeIssuer
    \/ StartSearch
    \/ Pop
    \/ TryAnchor
    \/ AnchorsTried
    \/ TryIssuer
    \/ IssuersTried
    \/ Exhausted

Spec == Init /\ [][Next]_vars /\ WF_vars(Next)

-----------------------------------------------------------------------------
Entry == [cert : Cert, path : Seq(Cert)]

\* The certificate that the i-th issuer of path p issued.
IssuedBy(p, i) == IF i = 1 THEN Signer ELSE p[i - 1]

\* RFC 5280 reading of a chain, independent of the search: every issuer of the
\* path verifies the certificate before it, is within its validity window, and
\* is a CA that tolerates the intermediate certificates below it.
ValidPath(p) ==
    \A i \in 1 .. Len(p) :
        /\ VerifyByIssuer(IssuedBy(p, i), p[i])
        /\ IsValidAt(p[i])
        /\ p[i] \in input.ca \cap input.certSign
        /\ input.pathLen[p[i]] # Unlimited => i - 1 <= input.pathLen[p[i]]

\* A path that ends at a configured anchor within its window.
Anchored(p) ==
    \E a \in Range(input.anchors) \cap input.decodable :
        IsValidAt(a) /\ VerifyByIssuer(IssuedBy(p, Len(p) + 1), a)

\* The first m certificates offered that decode, by their positions.
Candidates(m) == {i \in 1 .. m : Offered[i] \in input.decodable}

\* The candidates the budget lets the search use: the first that decode.
Usable ==
    {Offered[i] : i \in {j \in Candidates(Len(Offered)) :
                            Cardinality(Candidates(j)) <= MaxIssuerCandidates}}

ChainExists ==
    \E n \in 0 .. MaxIssuerCandidates : \E p \in [1 .. n -> Usable] :
        ValidPath(p) /\ Anchored(p)

\* The variables have their types.
TypeOK ==
    /\ input \in Input
    /\ pc \in {"start", "decodeAnchors", "decodeIssuers", "pop", "anchor", "issuer", "done"}
    /\ anchors \in Seq(Cert)
    /\ pool \in Seq(Cert)
    /\ queue \in Seq(Entry)
    /\ visited \subseteq Cert
    /\ node \in Entry
    /\ k \in Nat \ {0}
    /\ foundIssuer \in BOOLEAN
    /\ foundExpired \in BOOLEAN
    /\ result \in [status : ChainStatuses, timeValid : BOOLEAN,
                   issuer : Cert \cup {NoCert}, signerIssuer : Cert \cup {NoCert}]

\* Every entry of the queue is reached by a path every issuer of which may
\* issue (VerifyByIssuer, IsValidAt and IssuerCaRejectReason of Validate).
EntryOK(e) ==
    /\ ValidPath(e.path)
    /\ e.cert = IssuedBy(e.path, Len(e.path) + 1)

\* A signer is reported as trusted only when a chain the standard accepts leads
\* from it to the anchor the result names, and the issuer handed to the
\* revocation check is the certificate of that chain that issued the signer.
TrustedIsSound ==
    result.status = "Trusted" =>
        /\ input.presented = "decoded"
        /\ IsValidAt(Signer)
        /\ LET p == node.path IN
              /\ ValidPath(p)
              /\ VerifyByIssuer(IssuedBy(p, Len(p) + 1), result.issuer)
              /\ result.signerIssuer = IF p = <<>> THEN result.issuer ELSE p[1]
        /\ result.issuer \in Range(input.anchors) \cap input.decodable
        /\ IsValidAt(result.issuer)
        /\ VerifyByIssuer(Signer, result.signerIssuer)

\* Whatever the order of the candidates, expired or constrained issuers on
\* other paths, cycles of cross certificates: when some chain within the budget
\* is acceptable the search ends with Trusted, it never gives up on it because
\* a certificate was visited before by a longer or a dead path.
TrustedIsComplete ==
    (pc = "done" /\ input.presented = "decoded" /\ IsValidAt(Signer) /\ ChainExists)
        => result.status = "Trusted"

\* The candidates that signed the signer's certificate, and those that may.
SignerIssuers == {c \in Usable \ {Signer} : VerifyByIssuer(Signer, c)}
AbleIssuers == {c \in SignerIssuers : IsValidAt(c) /\ AcceptableCa(c, 0)}

\* The reason of a refusal is the right one: Expired is reported only when no
\* candidate may issue the signer and an expired one would, or the signer itself
\* is outside its window; Incomplete only when the signer has an issuer.
RefusalIsExplained ==
    pc = "done" =>
        /\ result.status = "Expired" =>
              \/ ~IsValidAt(Signer)
              \/ AbleIssuers = {} /\ \E c \in SignerIssuers : ~IsValidAt(c)
        /\ result.status = "Incomplete" => AbleIssuers # {}
        /\ result.status = "Untrusted" => AbleIssuers = {} \/ anchors = <<>>

\* A signer is refused only when there is no acceptable chain within the budget,
\* and for the reason that is given.
RefusalIsJustified == TrustedIsComplete /\ RefusalIsExplained

Promised ==
    Chain(result.status, result.timeValid)
        \in ChainVerdicts(IF input.presented # "decoded" THEN input.presented
                          ELSE IF IsValidAt(Signer) THEN "good" ELSE "outOfWindow",
                          input.anchors # <<>>)

\* The validator returns, cross certificates that issue each other included, and
\* keeps to the results its callers were promised (ChainVerdict): in particular
\* certificateTimeValid is reported as soon as the signer's own window was
\* confirmed, whether or not an anchor is reached afterwards.
VerdictIsPromised == [](pc = "done" => Promised) /\ <>(pc = "done")
=============================================================================
