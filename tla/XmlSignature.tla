----------------------------- MODULE XmlSignature -----------------------------
(***************************************************************************)
(* An XML document with its ds:Signature elements: how XmlSignatureBuilder *)
(* and XadesBuilder add one, and what XmlSignatureVerifier and             *)
(* XadesVerifier say about all of them.                                    *)
(*                                                                         *)
(* A digest is the value it was taken of and the parameters it was taken   *)
(* with, a signature value the key and the digest it was made over, a      *)
(* time-stamp token the octets it stamps: hashing and the cipher are taken *)
(* to be collision free.  Canonical octets are the elements that went into *)
(* them, in order.                                                         *)
(***************************************************************************)
EXTENDS Naturals, Sequences, SequencesExt, TLC

CONSTANTS
    Keys,                   \* a key stands for its certificate too
    OwnDke,                 \* certificates with GOST 34.311 parameters of their own
    NormalizeUri(_)         \* util::NormalizeAsicEntryUri

(* XadesProfile in the order of the enum, after plain XMLDSIG.             *)
Levels == [xmldsig |-> 0, BES |-> 1, T |-> 2, C |-> 3, X |-> 4, X_L |-> 5, A |-> 6]

(* The URI of a ds:Reference: "", "#id", or a file of the container.       *)
WholeDocument == [whole |-> TRUE]
Fragment(id) == [fragment |-> id]
File(name) == [file |-> name]
IsFragment(uri) == "fragment" \in DOMAIN uri
IsFile(uri) == "file" \in DOMAIN uri

(* DigestMethod: GOST 34.311, whose parameters (DKE) a certificate may     *)
(* set, or Kupyna, which has none.  ComputeDigest takes the default        *)
(* parameters; a certificate in certs, if any, may have others.            *)
ComputeDigest(octets) == [of |-> octets, dke |-> FALSE]
ComputeDigestByCertificate(octets, method, certs) ==
    [of |-> octets, dke |-> method = "gost34311" /\ certs \cap OwnDke # {}]

(* A signature: its Id, the references of its SignedInfo, SignatureValue,  *)
(* the certificate of KeyInfo and SignedProperties (each in a sequence,    *)
(* empty when absent), and the unsigned properties by name.                *)
Signature(id, method, cert, props) ==
    [id |-> id, method |-> method, refs |-> <<>>, value |-> [key |-> "", over |-> <<>>],
     cert |-> cert, props |-> props, unsigned |-> <<>>]

DigestOf(sig, octets) == ComputeDigestByCertificate(octets, sig.method, ToSet(sig.cert))

Has(sig, name) == name \in DOMAIN sig.unsigned
WithProperty(sig, name, holds) ==
    [sig EXCEPT !.unsigned = (name :> holds) @@ @]
-----------------------------------------------------------------------------
(* The elements of a signature with a local name, and the canonical octets *)
(* of the elements with these names, in this order, in some signatures:    *)
(* for each name, those of the signatures that have one.                   *)
Elements(sig, name) ==
    CASE name = "SignedInfo"     -> << name :> sig.refs >>
      [] name = "SignatureValue" -> << name :> sig.value >>
      [] name = "KeyInfo"        -> IF sig.cert = <<>> THEN <<>> ELSE << name :> sig.cert >>
      [] OTHER -> IF Has(sig, name) THEN << name :> sig.unsigned[name] >> ELSE <<>>

Octets(sigs, names) ==
    [n \in DOMAIN names |->
        LET having == SelectSeq(sigs, LAMBDA s : Elements(s, names[n]) # <<>>)
        IN  [s \in DOMAIN having |-> Elements(having[s], names[n])]]

(* CanonicalizeSubtreeByLocalName and ConcatCanonical, which the builders  *)
(* call, search the document; CanonicalizeSubtreeWithinSignature and       *)
(* ConcatCanonicalWithinSignature, which the verifiers call, search one    *)
(* signature of it.                                                        *)
ConcatCanonical(doc, names) == Octets(doc.sigs, names)
ConcatCanonicalWithinSignature(doc, i, names) == Octets(<<doc.sigs[i]>>, names)

SigAndRefs ==
    <<"SignatureValue", "SignatureTimeStamp", "CompleteCertificateRefs", "CompleteRevocationRefs">>

Archived ==
    <<"SignatureTimeStamp", "CompleteCertificateRefs", "CompleteRevocationRefs",
      "SigAndRefsTimeStamp", "CertificateValues", "RevocationValues">>
-----------------------------------------------------------------------------
(* CanonicalizeSubtreeById: every element with the Id.  CountElementsById  *)
(* counts the signatures that have it as well.                             *)
PropertiesById(doc, id) ==
    FlattenSeq([s \in DOMAIN doc.sigs |-> SelectSeq(doc.sigs[s].props, LAMBDA p : p.id = id)])

CountElementsById(doc, id) ==
    Len(PropertiesById(doc, id)) + Len(SelectSeq(doc.sigs, LAMBDA s : s.id = id))

(* What a reference stands for, in a set that is empty when it cannot be   *)
(* resolved.  The enveloped-signature transform removes every signature of *)
(* the document, not only the one that is being verified.                  *)
ResolveReference(doc, uri, external) ==
    CASE IsFragment(uri) ->
            {[props |-> p] : p \in IF CountElementsById(doc, uri.fragment) = 1
                                    THEN {PropertiesById(doc, uri.fragment)} ELSE {}}
      [] IsFile(uri) ->
            {[data |-> external[n]] : n \in DOMAIN external \cap {NormalizeUri(uri.file)}}
      [] OTHER -> {[content |-> doc.content]}

(* BuildArchiveTimeStampImprintInput, in a set that is empty when it fails *)
(* (a file of the container is not resolved here).  The names that are     *)
(* present are those of node; the elements come from signature i.          *)
ArchiveImprint(doc, i, node) ==
    LET sig   == doc.sigs[i]
        names == <<"SignedInfo", "SignatureValue", "KeyInfo">> \o Archived
        found == SelectSeq(names, LAMBDA n : Elements(node, n) # <<>>)
        of(r) == IF IsFragment(r.uri) THEN [props |-> PropertiesById(doc, r.uri.fragment)]
                 ELSE [content |-> doc.content]
    IN  IF \/ \E r \in ToSet(sig.refs) : IsFile(r.uri)
           \/ \E r \in ToSet(sig.refs) : IsFragment(r.uri) /\ PropertiesById(doc, r.uri.fragment) = <<>>
           \/ \E n \in ToSet(found) : Elements(sig, n) = <<>>
        THEN {}
        ELSE {<< [r \in DOMAIN sig.refs |-> of(sig.refs[r])], Octets(<<sig>>, found) >>}
-----------------------------------------------------------------------------
(* The builders.  The document's references are digested before the new    *)
(* signature is in the document, SignedProperties after, and the signature *)
(* is made over what ConcatCanonical finds.  Only XadesBuilder takes the   *)
(* parameters of the certificate; XmlSignatureBuilder, which writes no     *)
(* SignedProperties, takes the default ones.  KeyInfo is never left out:   *)
(* SignHash refuses to sign without a certificate.                         *)
AddSignature(doc, sig) == [doc EXCEPT !.sigs = Append(@, sig)]

(* Mutant: the certificate's parameters are nowhere used, as they once     *)
(* were not.                                                               *)
DefaultDigest(bare, octets) == ComputeDigest(octets)

BuilderDigest(bare, octets) ==
    IF bare.props = <<>> THEN ComputeDigest(octets) ELSE DigestOf(bare, octets)

Signed(doc, bare, uris, external) ==
    LET key     == bare.cert[1]
        props   == bare.props
        refs    == [u \in DOMAIN uris |->
                      [uri |-> uris[u],
                       digest |-> BuilderDigest(bare,
                          CHOOSE d \in ResolveReference(doc, uris[u], external) : TRUE)]]
        own     == [p \in DOMAIN props |->
                      [uri |-> Fragment(props[p].id),
                       digest |-> BuilderDigest(bare,
                          [props |-> PropertiesById(AddSignature(doc, bare), props[p].id)])]]
        unvalued == [bare EXCEPT !.refs = refs \o own]
        octets  == ConcatCanonical(AddSignature(doc, unvalued), <<"SignedInfo">>)
    IN  [unvalued EXCEPT !.value = [key |-> key, over |-> BuilderDigest(bare, octets)]]

Token(octets) == [over |-> octets]

WithTimeStamp(doc, sig) ==
    WithProperty(sig, "SignatureTimeStamp",
                 Token(ConcatCanonical(AddSignature(doc, sig), <<"SignatureValue">>)))

(* Evidence is a set of certificates and a set of CRLs or OCSP responses;  *)
(* an element is only written when there is something to put into it.      *)
WithEvidence(sig, certName, revName, evidence) ==
    LET certs == IF evidence.certs = {} THEN sig ELSE WithProperty(sig, certName, evidence.certs)
    IN  IF evidence.revs = {} THEN certs ELSE WithProperty(certs, revName, evidence.revs)

(* AddCertRef and AddDigestAlgAndValue: digests with default parameters.   *)
WithRefs(sig, evidence) ==
    WithEvidence(sig, "CompleteCertificateRefs", "CompleteRevocationRefs",
                 [certs |-> {ComputeDigest(c) : c \in evidence.certs},
                  revs  |-> {ComputeDigest(r) : r \in evidence.revs}])

WithValues(sig, evidence) ==
    WithEvidence(sig, "CertificateValues", "RevocationValues", evidence)

WithRefsTimeStamp(doc, sig) ==
    WithProperty(sig, "SigAndRefsTimeStamp",
                 Token(ConcatCanonical(AddSignature(doc, sig), SigAndRefs)))

(* XadesBuilder::Sign, and XmlSignatureBuilder::Sign at level xmldsig: the *)
(* document with one more signature, or nothing when a reference cannot be *)
(* resolved or the archive imprint cannot be built.  The archive imprint   *)
(* is asked for signature 1.                                               *)
Sign(doc, key, level, id, method, uris, external, evidence) ==
    LET props == IF level = Levels.xmldsig THEN <<>>
                 ELSE << [id |-> Append(id, "signedprops"),
                          cert |-> ComputeDigestByCertificate(key, method, {key})] >>
        bes == Signed(doc, Signature(id, method, <<key>>, props), uris, external)
        t   == IF level >= Levels.T THEN WithTimeStamp(doc, bes) ELSE bes
        c   == IF level >= Levels.C THEN WithRefs(t, evidence) ELSE t
        x   == IF level >= Levels.X THEN WithRefsTimeStamp(doc, c) ELSE c
        xl  == IF level >= Levels.X_L THEN WithValues(x, evidence) ELSE x
    IN  IF \E u \in ToSet(uris) : ResolveReference(doc, u, external) = {} THEN {}
        ELSE IF level < Levels.A THEN {AddSignature(doc, xl)}
        ELSE {AddSignature(doc, WithProperty(xl, "ArchiveTimeStamp", Token(o))) :
                o \in ArchiveImprint(AddSignature(doc, xl), 1, xl)}
-----------------------------------------------------------------------------
(* XmlSignatureVerifier::VerifySignatureAtPosition: every reference has    *)
(* its digest, and the certificate's key signed this signature's           *)
(* SignedInfo.  Every digest is taken with the certificate's parameters.   *)
DigestsMatch(doc, i, external) ==
    \A r \in ToSet(doc.sigs[i].refs) :
        \E o \in ResolveReference(doc, r.uri, external) : r.digest = DigestOf(doc.sigs[i], o)

ValueMatches(doc, i) ==
    LET sig == doc.sigs[i]
    IN  /\ sig.cert # <<>>
        /\ sig.value = [key |-> sig.cert[1],
                        over |-> DigestOf(sig, ConcatCanonicalWithinSignature(doc, i, <<"SignedInfo">>))]

(* XadesVerifier: SigningCertificate's digest is that of the certificate   *)
(* the signature was verified with; a signature without SignedProperties   *)
(* is a plain XMLDSIG one.                                                 *)
SigningCertificateMatches(sig) ==
    \A p \in ToSet(sig.props) : p.cert = DigestOf(sig, sig.cert[1])

SignatureValid(doc, i, external) ==
    /\ DigestsMatch(doc, i, external)
    /\ ValueMatches(doc, i)
    /\ SigningCertificateMatches(doc.sigs[i])

(* The verifiers refuse to run on a document without signatures, or with   *)
(* a signature without references.                                         *)
VerifyRuns(doc) == doc.sigs # <<>> /\ \A s \in ToSet(doc.sigs) : s.refs # <<>>

VerifyAll(doc, external) ==
    /\ VerifyRuns(doc)
    /\ \A i \in DOMAIN doc.sigs : SignatureValid(doc, i, external)

StampMatches(doc, i, name, names) ==
    doc.sigs[i].unsigned[name].over = ConcatCanonicalWithinSignature(doc, i, names)

ArchiveMatches(doc, i) ==
    \E o \in ArchiveImprint(doc, i, doc.sigs[i]) : doc.sigs[i].unsigned["ArchiveTimeStamp"].over = o

(* timestamps_valid: there is a token, and each one that is there stamps   *)
(* what it should.                                                         *)
StampNames == {"SignatureTimeStamp", "SigAndRefsTimeStamp", "ArchiveTimeStamp"}

TimestampsValid(doc, i) ==
    LET sig == doc.sigs[i]
    IN  /\ \E n \in StampNames : Has(sig, n)
        /\ Has(sig, "SignatureTimeStamp") => StampMatches(doc, i, "SignatureTimeStamp", <<"SignatureValue">>)
        /\ Has(sig, "SigAndRefsTimeStamp") => StampMatches(doc, i, "SigAndRefsTimeStamp", SigAndRefs)
        /\ Has(sig, "ArchiveTimeStamp") => ArchiveMatches(doc, i)

(* ltv_data_present, ltv_valid and ltv_evidence_bound: references that are *)
(* there have to be of values that are there.                              *)
LtvDataPresent(sig) == Has(sig, "CertificateValues") /\ Has(sig, "RevocationValues")

LtvValid(doc, i, external) ==
    /\ SignatureValid(doc, i, external)
    /\ Has(doc.sigs[i], "SignatureTimeStamp")
    /\ StampMatches(doc, i, "SignatureTimeStamp", <<"SignatureValue">>)
    /\ LtvDataPresent(doc.sigs[i])

(* Mutant: references only have to be there, not to match the values.      *)
RefsPresent(sig, refs, digests) == Has(sig, refs) => sig.unsigned[refs] # {} /\ digests # {}

RefsBound(sig, refs, digests) ==
    Has(sig, refs) => sig.unsigned[refs] # {} /\ sig.unsigned[refs] \subseteq digests

(* RefDigestMatchesAny: a certificate's digest with its own parameters,    *)
(* although AddCertRef takes the default ones.  References are always      *)
(* written with GOST 34.311.                                               *)
LtvEvidenceBound(sig) ==
    /\ LtvDataPresent(sig)
    /\ RefsBound(sig, "CompleteCertificateRefs",
                 {ComputeDigestByCertificate(c, "gost34311", {c}) : c \in sig.unsigned["CertificateValues"]})
    /\ RefsBound(sig, "CompleteRevocationRefs",
                 {ComputeDigest(r) : r \in sig.unsigned["RevocationValues"]})

(* The profile the verifier names, from the unsigned properties it finds.  *)
Profile(doc, i) ==
    LET sig  == doc.sigs[i]
        refs == {n \in {"CompleteCertificateRefs", "CompleteRevocationRefs"} : Has(sig, n)}
        stamped == Has(sig, "SignatureTimeStamp")
    IN  CASE sig.props = <<>> -> "xmldsig"
          [] Has(sig, "ArchiveTimeStamp") /\ ArchiveMatches(doc, i) -> "A"
          [] stamped /\ LtvDataPresent(sig) -> "LT"
          [] stamped /\ (Has(sig, "CertificateValues")
                            \/ (Has(sig, "CompleteCertificateRefs")
                                 /\ Has(sig, "CompleteRevocationRefs"))) -> "X_L"
          [] stamped -> "T"
          [] refs # {} -> "C"
          [] OTHER -> "B"
=============================================================================
