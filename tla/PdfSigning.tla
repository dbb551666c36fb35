----------------------------- MODULE PdfSigning -----------------------------
(***************************************************************************)
(* Session::SignPdf with PadesBuilder::SignPdf and the collection of       *)
(* evidence, CollectPadesCertificateEvidence.                              *)
(*                                                                         *)
(* A file passes from hand to hand: it is signed, more than once and at    *)
(* different profiles, and between two signatures other programs append to *)
(* it, cut it or alter it.  A call of SignPdf works on a copy.  Time       *)
(* passes while it waits for the time-stamping service and for OCSP        *)
(* responders, any of which may fail.                                      *)
(***************************************************************************)
EXTENDS PdfDocument

CONSTANTS
    Signer,         \* the certificate of the key
    Tsas,           \* certificates that sign time-stamps
    Anchors,        \* trust store, current and historical
    Stored,         \* certificates of the stores
    IssuerOf,       \* IssuerOf[c]: the certificate that verifies c
    Embeds,         \* authorities whose tokens carry their certificate
    Responders,     \* certificates that an OCSP responder answers for
    Listed,         \* certificates whose issuer publishes a CRL
    Lifetime,       \* how long an answer about revocation holds
    MaxRenewals,    \* kMaxEvidenceRenewals
    MaxDepth,       \* the depth limit of the evidence walk
    FormFields,     \* fields of the form in the file
    MaxTime,        \* bounds of the model: time,
    MaxCalls,       \*   calls of SignPdf,
    MaxEdits,       \*   changes by other programs,
    MaxLength       \*   revisions of a file that is signed

Profiles == {"B", "T", "LT", "LTA"}

VARIABLES
    pdf,            \* the file in circulation
    cut,            \* does it end within its last revision
    now, calls, edits,
    pc,
    profile,
    doc,            \* the copy SignPdf works on
    evidence,       \* evidence of PadesBuilder::SignPdf
    known,          \* evidence of timestamp_evidence_provider
    candidates,     \* certificates an issuer may be found among
    walk,           \* CollectPadesCertificateEvidence: certificate, time, visited
    renewal,
    returned        \* the profile SignPdf last succeeded with, "none" if it failed

vars == <<pdf, cut, now, calls, edits, pc, profile, doc, evidence, known,
          candidates, walk, renewal, returned>>


Cert(c) == [kind |-> "cert", of |-> c, since |-> 0]
IsSelfSigned(c) == IssuerOf[c] = c

NoWalk == [cert |-> Signer, time |-> 0, visited |-> {}, depth |-> 0]
BeginWalk(c, t) == [cert |-> c, time |-> t, visited |-> {}, depth |-> 0]

(* The answer e speaks well of c at time t: OcspValidator accepts one that *)
(* was produced after t, CrlValidator does not.                            *)
Confirms(e, c, t) ==
    /\ t <= e.since + Lifetime
    /\ \/ e.kind = "ocsp" /\ e.of = c
       \/ e.kind = "crl" /\ e.of = IssuerOf[c] /\ e.since <= t

(* The file, the copy SignPdf works on and the evidence it collects have   *)
(* the shapes that PadesBuilder and the evidence walk give them.           *)
TypeOK ==
    /\ Len(pdf) >= 1
    /\ \A i \in DOMAIN pdf :
          /\ pdf[i].kind \in Kinds
          /\ pdf[i].dss \subseteq EvidenceItems
          /\ pdf[i].names \cup pdf[i].fields \subseteq Names
          /\ pdf[i].tokens \subseteq Tokens
          /\ pdf[i].prev \in 0..(i - 1)
    /\ cut \in BOOLEAN
    /\ now \in 0..MaxTime
    /\ pc \in {"idle", "walk", "main", "token", "stamp"}
    /\ profile \in Profiles
    /\ evidence \subseteq EvidenceItems
    /\ known \subseteq EvidenceItems
    /\ candidates \subseteq Certs
    /\ walk \in [cert : Certs, time : 0..MaxTime, visited : SUBSET Certs, depth : 0..MaxDepth]
    /\ renewal \in 0..MaxRenewals
    /\ returned \in Profiles \cup {"none"}

(* A file that was never signed.                                           *)
Init ==
    /\ pdf = <<Revision("base", CHOOSE p \in Pages : TRUE, FormFields, {}, 0)>>
    /\ cut = FALSE
    /\ now = 0
    /\ calls = 0
    /\ edits = 0
    /\ pc = "idle"
    /\ profile = "B"
    /\ doc = <<>>
    /\ evidence = {}
    /\ known = {}
    /\ candidates = {}
    /\ walk = NoWalk
    /\ renewal = 0
    /\ returned = "none"
-----------------------------------------------------------------------------
(* AssembleRevision: the body, and a trailer whose /Prev is the last       *)
(* startxref.                                                              *)
Appended(d, kind, fields, dss) ==
    Append(d, Revision(kind, Inherit, fields, dss, LastStartXref(d)))

UniqueFieldName(existing, base) ==
    [base |-> base,
     suffix |-> Min({k \in 1..(Cardinality(existing) + 1) :
                        [base |-> base, suffix |-> k] \notin existing})]

(* WriteByteRange, then the digest the signature or the token is over.     *)
Sealed(d, name) ==
    LET n == Len(d) IN
    [d EXCEPT ![n].names = {name},
              ![n].digest = ExtractSignedBytes(d, n),
              ![n].saw = PageAt(d, n)]

(* The revision of a signature field: main_objects, timestamp_objects.     *)
WithSignature(d, kind, base) ==
    LET fields == Catalog(d).fields
        name == UniqueFieldName(fields, base)
    IN Sealed(Appended(d, kind, fields \cup {name}, Catalog(d).dss), name)

(* AppendTspToken, or the token in /Contents of a DocTimeStamp.            *)
WithToken(d, token) == [d EXCEPT ![Len(d)].tokens = {token}]

WithNewDss(d, items) == Appended(d, "dss", Catalog(d).fields, items)

(* append_dss_revision: all the evidence so far, after what the file that  *)
(* is signed already had.                                                  *)
WithDss(d, items) ==
    Appended(d, "dss", Catalog(d).fields, Catalog(pdf).dss \cup items)
-----------------------------------------------------------------------------
Return(p) ==
    /\ pc' = "idle"
    /\ returned' = p
    /\ profile' = "B"
    /\ doc' = <<>>
    /\ evidence' = {}
    /\ known' = {}
    /\ candidates' = {}
    /\ walk' = NoWalk
    /\ renewal' = 0

Fail ==
    /\ pc # "idle"
    /\ Return("none")
    /\ UNCHANGED <<pdf, cut, now, calls, edits>>

Succeed(d) ==
    /\ pdf' = d
    /\ Return(profile)
    /\ UNCHANGED <<cut, now, calls, edits>>

(* For LT and LTA the signer's evidence is collected first.                *)
SignPdf(p) ==
    /\ pc = "idle"
    /\ calls < MaxCalls
    /\ Len(pdf) <= MaxLength
    /\ ~cut                     \* what qpdf recovers of a cut file is not modelled
    /\ calls' = calls + 1
    /\ profile' = p
    /\ doc' = pdf
    /\ IF p \in {"LT", "LTA"}
       THEN /\ pc' = "walk"
            /\ walk' = BeginWalk(Signer, now)
            /\ candidates' = Stored \cup {Signer}
            /\ known' = {Cert(Signer)}
       ELSE /\ pc' = "main"
            /\ UNCHANGED <<walk, candidates, known>>
    /\ UNCHANGED <<pdf, cut, now, edits, evidence, renewal, returned>>

(* The main revision and its CMS.                                          *)
MainSignature ==
    /\ pc = "main"
    /\ LET d == WithSignature(doc, "sig", "Signature1") IN
       IF profile = "B"
       THEN Succeed(d)
       ELSE /\ doc' = d
            /\ pc' = "token"
            /\ evidence' = known
            /\ UNCHANGED <<pdf, cut, now, calls, edits, profile, known, candidates,
                           walk, renewal, returned>>

(* What a time-stamping service may answer: GetTimestamp looks at the      *)
(* status of the response and not into the token.                          *)
Answers ==
    {[tsa |-> c, time |-> now, good |-> g, certs |-> Embeds \cap {c}] : c \in Tsas, g \in BOOLEAN}

(* timestamp_evidence_provider begins: the token must be right, and its    *)
(* certificates become candidates.                                         *)
CollectFor(token, d) ==
    /\ TokenValid(token, candidates)
    /\ doc' = WithToken(d, token)
    /\ pc' = "walk"
    /\ walk' = BeginWalk(token.tsa, token.time)
    /\ candidates' = candidates \cup token.certs \cup {token.tsa}
    /\ UNCHANGED <<pdf, cut, now, calls, edits, profile, evidence, known, renewal, returned>>

SignatureTimestamp ==
    /\ pc = "token"
    /\ \E token \in Answers :
          IF profile = "T" THEN Succeed(WithToken(doc, token)) ELSE CollectFor(token, doc)

(* One turn of the LTA loop, up to its evidence.                           *)
DocTimestamp ==
    /\ pc = "stamp"
    /\ LET d == WithSignature(doc, "stamp", "TimeStamp1") IN
       \E token \in Answers : CollectFor(token, d)
-----------------------------------------------------------------------------
(* CollectPadesCertificateEvidence returns true; what follows depends on   *)
(* whose evidence it was.                                                  *)
ForSigner == Signatures(doc) = Signatures(pdf)
ForMain == doc[Len(doc)].kind = "sig"

Merged(items) == evidence \cup items

(* New evidence needs a new DSS revision and a new stamp; the loop gives   *)
(* up when it has renewed too often.                                       *)
FinishStamp(items) ==
    IF Merged(items) = evidence
    THEN Succeed(doc)
    ELSE /\ renewal < MaxRenewals
         /\ doc' = WithDss(doc, Merged(items))
         /\ evidence' = Merged(items)
         /\ renewal' = renewal + 1
         /\ pc' = "stamp"
         /\ known' = items
         /\ UNCHANGED <<pdf, cut, now, calls, edits, profile, candidates, walk, returned>>

Collected(items) ==
    IF ForSigner
    THEN /\ pc' = "main"
         /\ known' = items
         /\ UNCHANGED <<pdf, cut, now, calls, edits, profile, doc, evidence, candidates,
                        walk, renewal, returned>>
    ELSE IF ~ForMain THEN FinishStamp(items)
    ELSE IF profile = "LT" THEN Succeed(WithDss(doc, Merged(items)))
    ELSE /\ doc' = WithDss(doc, Merged(items))
         /\ evidence' = Merged(items)
         /\ pc' = "stamp"
         /\ known' = items
         /\ UNCHANGED <<pdf, cut, now, calls, edits, profile, candidates, walk, renewal, returned>>

(* The time at which an answer must hold: that of the token, or the        *)
(* present for the signer.                                                 *)
TimeOfEvidence == IF ForSigner THEN now ELSE walk.time

AtTop(c) == walk.depth # 0 /\ (c \in Anchors \/ IsSelfSigned(c))

(* The walk reaches an anchor, or a self-signed certificate.               *)
WalkEnds ==
    /\ pc = "walk"
    /\ walk.cert \notin walk.visited
    /\ AtTop(walk.cert)
    /\ Collected(known \cup {Cert(walk.cert)})

(* An answer about c: one that is already there, or one that a responder   *)
(* or the CRL cache has.                                                   *)
FreshAnswers(c) ==
    LET time == TimeOfEvidence IN
    {e \in [kind : {"ocsp"}, of : Responders \cap {c}, since : 0..now] \cup
           [kind : {"crl"}, of : {IssuerOf[x] : x \in Listed \cap {c}}, since : 0..now] :
        Confirms(e, c, time)}

ConfirmationsAnyTime(c) ==
    IF \E e \in known : e.kind # "cert" /\ (e.of = c \/ e.of = IssuerOf[c])
    THEN {known}
    ELSE {known \cup {e} : e \in FreshAnswers(c)}

Confirmations(c) ==
    LET time == TimeOfEvidence IN
    IF \E e \in known : Confirms(e, c, time)
    THEN {known}
    ELSE {known \cup {e} : e \in FreshAnswers(c)}

StepUpForever(c) ==
    walk' = [walk EXCEPT !.cert = IssuerOf[c], !.depth = 1]

StepUp(c) ==
    /\ walk.depth + 1 < MaxDepth
    /\ walk' = [cert |-> IssuerOf[c], time |-> walk.time,
                visited |-> walk.visited \cup {c}, depth |-> walk.depth + 1]

(* One certificate: its issuer is found, and one answer says that it is    *)
(* not revoked.                                                            *)
WalkUp ==
    /\ pc = "walk"
    /\ LET c == walk.cert IN
       /\ c \notin walk.visited
       /\ ~AtTop(c)
       /\ IssuerOf[c] \in candidates
       /\ \E items \in Confirmations(c) :
             LET all == items \cup {Cert(c), Cert(IssuerOf[c])} IN
             IF IsSelfSigned(c)
             THEN Collected(all)
             ELSE /\ known' = all
                  /\ StepUp(c)
                  /\ UNCHANGED <<pdf, cut, now, calls, edits, pc, profile, doc, evidence,
                                 candidates, renewal, returned>>

Work == Fail \/ MainSignature \/ SignatureTimestamp \/ DocTimestamp \/ WalkEnds \/ WalkUp
-----------------------------------------------------------------------------
(* Other programs.                                                         *)
Edit(next) ==
    /\ pc = "idle"
    /\ edits < MaxEdits
    /\ ~cut
    /\ edits' = edits + 1
    /\ pdf' = next
    /\ returned' = "none"
    /\ UNCHANGED <<now, calls, pc, profile, doc, evidence, known, candidates, walk, renewal>>

(* An incremental update that changes the pages, or does not, and brings a *)
(* signature or a document time-stamp of that program, or neither.  What   *)
(* it brings verifies or does not, and its field is not in /AcroForm.      *)
Updated(kind, p, good) ==
    LET d == Append(pdf, Revision(kind, p, Catalog(pdf).fields, Catalog(pdf).dss,
                                  LastStartXref(pdf)))
        n == Len(d)
    IN  IF kind = "edit" THEN d
        ELSE [d EXCEPT ![n].digest = IF good THEN ExtractSignedBytes(d, n) ELSE << >>,
                       ![n].saw = IF good THEN PageAt(d, n) ELSE Inherit]

Update ==
    /\ \E kind \in {"edit", "sig", "stamp"}, p \in Pages \cup {Inherit}, good \in BOOLEAN :
          /\ kind = "edit" => good
          /\ Edit(Updated(kind, p, good))
    /\ UNCHANGED cut

AppendBytes ==
    /\ Edit(Append(pdf, Revision("junk", Inherit, {}, {}, 0)))
    /\ UNCHANGED cut

Alter ==
    /\ \E i \in DOMAIN pdf :
          \/ pdf[i].page = Inherit /\ Edit([pdf EXCEPT ![i].body = "altered"])
          \/ IsSignature(pdf[i]) /\ Edit([pdf EXCEPT ![i].cms = "altered"])
          \/ pdf[i].page # Inherit
                /\ \E p \in Pages \ {pdf[i].page} : Edit([pdf EXCEPT ![i].page = p])
    /\ UNCHANGED cut

Truncate ==
    /\ Len(pdf) > 1
    /\ Edit(pdf)
    /\ cut' = TRUE

Tick ==
    /\ now < MaxTime
    /\ now' = now + 1
    /\ UNCHANGED <<pdf, cut, calls, edits, pc, profile, doc, evidence, known, candidates,
                   walk, renewal, returned>>

Next ==
    \/ \E p \in Profiles : SignPdf(p)
    \/ Work
    \/ Update
    \/ AppendBytes
    \/ Alter
    \/ Truncate
    \/ Tick

Spec == Init /\ [][Next]_vars
FairSpec == Spec /\ WF_vars(Work)
-----------------------------------------------------------------------------
NewSignature == Max({i \in DOMAIN pdf : pdf[i].kind = "sig"})
NewTokens == UNION {pdf[i].tokens : i \in NewSignature..Len(pdf)}

Rank(p) == CASE p = "B" -> 0 [] p = "T" -> 1 [] p = "LT" -> 2 [] p = "LTA" -> 3

(* What SignPdf returns, VerifyPdf finds covered as far as the profile     *)
(* reaches, with the new signature valid and in a field of its own.  Of a  *)
(* file that no other program touched it reports a valid document; the     *)
(* profile is at least the one asked for, and just that one when nothing   *)
(* was signed or stamped before.                                           *)
SignedVerifies ==
    returned # "none" =>
        /\ SignatureValid(pdf, cut, NewSignature)
        /\ pdf[NewSignature].names \cap Catalog(SubSeq(pdf, 1, NewSignature - 1)).fields = {}
        /\ CoverageStatus(pdf, cut, Len(pdf)) =
              (IF returned = "LT" THEN "extended-by-unsigned-revisions" ELSE "complete")
        /\ Rank(DetectedProfile(pdf, Len(pdf))) >= Rank(returned)
        /\ Min(Signatures(pdf)) = NewSignature => DetectedProfile(pdf, Len(pdf)) = returned
        /\ edits = 0 => IsValid(pdf, cut, Len(pdf))

Ancestors(c) ==
    LET up[n \in 0..MaxDepth] ==
          IF n = 0 THEN {c}
          ELSE up[n - 1] \cup
                  {IssuerOf[x] : x \in {y \in up[n - 1] :
                                           y = c \/ ~(y \in Anchors \/ IsSelfSigned(y))}}
    IN up[MaxDepth]

NeedsAnswer(c) == {x \in Ancestors(c) : x = c \/ ~(x \in Anchors \/ IsSelfSigned(x))}

SelfContained(items, token) ==
    /\ Ancestors(token.tsa) \subseteq DssCertificates(items)
    /\ \A c \in NeedsAnswer(token.tsa) : \E e \in items : Confirms(e, c, token.time)

(* A file of profile LT or LTA needs nothing but itself: for each of its   *)
(* time-stamps every certificate up to the trust anchor is in /DSS,        *)
(* together with an answer that holds at the time of the stamp, whichever  *)
(* authority answered and however often the evidence had to be renewed.    *)
EvidenceIsComplete ==
    returned \in {"LT", "LTA"} =>
        /\ \A t \in NewTokens : SelfContained(Catalog(pdf).dss, t)
        /\ Ancestors(Signer) \subseteq DssCertificates(Catalog(pdf).dss)

(* The stamps of such a file verify, though GetTimestamp takes any token   *)
(* for an answer and the token need not carry its signer's certificate.    *)
StampsVerify ==
    returned \in {"LT", "LTA"} =>
        \A i \in NewSignature..Len(pdf) :
            IsSignature(pdf[i]) => TimestampValid(pdf, cut, i)

(* An archival signature ends with a document time-stamp, so that all the  *)
(* evidence, that of the last stamp included, is under a stamp.            *)
ArchiveIsSealed ==
    returned = "LTA" =>
        /\ pdf[Len(pdf)].kind = "stamp"
        /\ Cardinality({i \in (NewSignature + 1)..Len(pdf) : pdf[i].kind = "stamp"})
              <= MaxRenewals + 1

(* A file of profile LT or LTA stands on its own: evidence that holds for  *)
(* every certificate, stamps that verify, and at LTA a stamp over it all.  *)
LongTermIsSelfContained == EvidenceIsComplete /\ StampsVerify /\ ArchiveIsSealed

(* Signing adds: the bytes of the file, the signatures in it that verify,  *)
(* its /DSS and its fields are still there afterwards.                     *)
SigningOnlyAdds ==
    [][returned' \in Profiles /\ pc # "idle" =>
          /\ SubSeq(pdf', 1, Len(pdf)) = pdf
          /\ \A i \in Signatures(pdf) :
                SignatureValid(pdf, cut, i) => SignatureValid(pdf', cut', i)
          /\ Catalog(pdf).dss \subseteq Catalog(pdf').dss
          /\ Catalog(pdf).fields \subseteq Catalog(pdf').fields]_vars


(* SignPdf ends: the walk up the issuers visits no certificate twice and   *)
(* the renewals are counted.                                               *)
EverySignEnds == pc # "idle" ~> pc = "idle"
=============================================================================
