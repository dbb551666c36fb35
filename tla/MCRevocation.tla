---------------------------- MODULE MCRevocation ----------------------------
(***************************************************************************)
(* Revocation evidence for TLC: every kind of OCSP response and of CRL,    *)
(* in lists of up to two, around validation times 2 and 3 of a history in  *)
(* which the certificate is revoked at 1, at 3 or never.                   *)
(***************************************************************************)
EXTENDS Revocation

About(s, t) == [about |-> "cert", status |-> s, time |-> t]
NotMine == [about |-> "other", status |-> "revoked", time |-> 1]

Answer(at, next, ok, entries) ==
    [body |-> "successful", producedAt |-> at, nextUpdate |-> next, verified |-> ok,
     entries |-> entries]
Body(b) == [Answer(2, 0, FALSE, <<>>) EXCEPT !.body = b]

MCResponses ==
    {Answer(2, 0, TRUE, <<About("good", 0)>>),
     Answer(1, 0, TRUE, <<NotMine, About("good", 0)>>),
     Answer(2, 2, TRUE, <<About("good", 0)>>),
     Answer(2, 0, FALSE, <<About("good", 0)>>),
     Answer(3, 0, TRUE, <<About("revoked", 3)>>),
     Answer(2, 0, TRUE, <<About("revoked", 1), About("good", 0)>>),
     Answer(2, 0, TRUE, <<About("revoked", 0)>>),
     Answer(2, 0, TRUE, <<NotMine>>),
     Body("undecodable"),
     Body("refused")}

List(verified, from, to, listed, t) ==
    [sameIssuer |-> TRUE, readable |-> TRUE, verified |-> verified, thisUpdate |-> from,
     nextUpdate |-> to, listed |-> listed, time |-> t]

MCCrls ==
    {List(TRUE, 2, 3, FALSE, 0),
     List(TRUE, 1, 2, FALSE, 0),
     List(TRUE, 1, 0, FALSE, 0),
     List(FALSE, 2, 3, FALSE, 0),
     List(TRUE, 1, 1, TRUE, 1),
     List(TRUE, 3, 3, TRUE, 3),
     List(FALSE, 2, 3, TRUE, 0),
     List(FALSE, 2, 3, TRUE, 3),
     [List(TRUE, 2, 3, TRUE, 1) EXCEPT !.sameIssuer = FALSE],
     [List(FALSE, 0, 0, FALSE, 0) EXCEPT !.readable = FALSE]}

MCLive ==
    {Answer(3, 0, TRUE, <<About("good", 0)>>),
     Answer(3, 0, TRUE, <<About("revoked", 1)>>),
     Body("unreachable")}

UpTo(n, S) == UNION {[1..m -> S] : m \in 0..n}

Evidence ==
    {[ocsp |-> o, crls |-> c] : o \in UpTo(2, MCResponses), c \in UpTo(1, MCCrls)}
        \cup {[ocsp |-> o, crls |-> c] : o \in UpTo(1, MCResponses), c \in UpTo(2, MCCrls)}

Reach == {[network |-> n, url |-> u, live |-> l] : n, u \in BOOLEAN, l \in MCLive}
OfInterest(r) == (r.network /\ r.url) \/ r.live = Body("unreachable")

MCInputs ==
    {[certificate |-> TRUE, issuer |-> i, time |-> t, ocsp |-> e.ocsp, crls |-> e.crls,
      network |-> r.network, url |-> r.url, live |-> r.live] :
        i \in BOOLEAN, t \in {2, 3}, e \in Evidence, r \in {x \in Reach : OfInterest(x)}}
    \cup
    {[certificate |-> FALSE, issuer |-> TRUE, time |-> 2, ocsp |-> <<r>>, crls |-> <<>>,
      network |-> TRUE, url |-> TRUE, live |-> Body("unreachable")] : r \in MCResponses}
=============================================================================
