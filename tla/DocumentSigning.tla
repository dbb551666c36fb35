--------------------------- MODULE DocumentSigning ----------------------------
(***************************************************************************)
(* A file that Tamga signs, co-signs and verifies, and that other programs *)
(* change between the calls: an XML document (SignXml, XadesBuilder,       *)
(* VerifyXml) or an ASiC container (SignFileAsicS, SignFileAsicE,          *)
(* AddSignatureToAsicE, VerifyFileAsicS, VerifyFileAsicE).                 *)
(*                                                                         *)
(* Co-signing reads the file, works on the bytes it read and replaces the  *)
(* file; two sessions may do so at once.  Each write is atomic             *)
(* (AtomicFile), and verification is a function of the file.               *)
(***************************************************************************)
EXTENDS AsicContainer

CONSTANTS
    Contents,               \* contents of documents
    FileNames,              \* names of the files that are signed
    IssuerOf,               \* the issuer's certificate for each key
    MaxSignatures,          \* bound on the signatures of one file
    MaxEntries,             \* bound on the documents of one container
    MaxEdits                \* bound on the steps of other programs

ASSUME FileNamesAssumption == \A n \in FileNames : ~n.meta

VARIABLES
    file,   \* the bytes at the path
    jobs,   \* per key, the co-signing call its session is in
    acts,   \* history: what each key has signed
    seals,  \* history: what time-stamps over evidence were given for
    last,   \* the call that wrote the file, while no one else has changed it
    edits   \* steps of other programs so far

vars == <<file, jobs, acts, seals, last, edits>>

NoFile == [none |-> TRUE]
XmlFile(doc) == [xml |-> doc]
ZipFile(c) == [zip |-> c]
IsXml == "xml" \in DOMAIN file
IsZip == "zip" \in DOMAIN file

Idle == [idle |-> TRUE]
Signing(c) == [input |-> c]
Busy(k) == "input" \in DOMAIN jobs[k]

Unwritten == [op |-> "none"]

NoEvidence == [certs |-> {}, revs |-> {}]
Evidences(key) == {NoEvidence, [certs |-> {IssuerOf[key]}, revs |-> {"crl"}]}

(* The key that signs a container first and the content every file starts  *)
(* with.  No operation tells one content from another, and for containers  *)
(* no operation tells one key from another, so any choice stands for all.  *)
FirstKey == CHOOSE k \in Keys : TRUE
FirstContent == CHOOSE c \in Contents : TRUE

(* What a key answers for once it has signed: a reference of a SignedInfo, *)
(* a file under a name, or bytes without a name.                           *)
Act(key, what) == [key |-> key, what |-> what]
ActsOfXml(key, sig) == {Act(key, [uri |-> r.uri, of |-> r.digest.of]) : r \in ToSet(sig.refs)}
ActOfFile(key, e) == Act(key, [name |-> Normalize(e.name), data |-> e.data])
ActOfBytes(key, bytes) == Act(key, [bytes |-> bytes])

Init ==
    /\ file = NoFile
    /\ jobs = [k \in Keys |-> Idle]
    /\ acts = {} /\ seals = {}
    /\ last = Unwritten
    /\ edits = 0
-----------------------------------------------------------------------------
(* A program writes an unsigned XML document.                              *)
WriteXml(content) ==
    /\ file = NoFile
    /\ file' = XmlFile([content |-> content, sigs |-> <<>>])
    /\ UNCHANGED <<jobs, acts, seals, last, edits>>

(* SignXml with xmldsig, xades-bes and xades-t, and XadesBuilder::Sign at  *)
(* the levels above.  Plain XMLDSIG has no Id; the others take the default *)
(* Id.  A time-stamp that cannot be had ends the call without a result.    *)
XmlId(level) == IF level = Xml!Levels.xmldsig THEN <<>> ELSE <<"tamga-signature">>

Seal(content, sig) ==
    [content |-> content,
     evidence |-> [n \in DOMAIN sig.unsigned \ {"ArchiveTimeStamp"} |-> sig.unsigned[n]]]

StampedRefs(key, evidence) == [key |-> key, certs |-> evidence.certs]

SignXml(key, level, evidence) ==
    /\ IsXml
    /\ Len(file.xml.sigs) < MaxSignatures
    /\ level < Xml!Levels.C => evidence = NoEvidence
    /\ \E doc \in Xml!Sign(file.xml, key, level, XmlId(level), "gost34311",
                           << Xml!WholeDocument >>, <<>>, evidence) :
          /\ file' = XmlFile(doc)
          /\ acts' = acts \cup ActsOfXml(key, Last(doc.sigs))
          /\ seals' = seals
                \cup {Seal(doc.content, Last(doc.sigs)) : l \in {level} \cap {Xml!Levels.A}}
                \cup {StampedRefs(key, evidence) : l \in {level} \cap (Xml!Levels.X .. Xml!Levels.A)}
    /\ last' = [op |-> "SignXml", key |-> key, level |-> level, evidence |-> evidence,
                first |-> file.xml.sigs = <<>>]
    /\ UNCHANGED <<jobs, edits>>
-----------------------------------------------------------------------------
(* SignFileAsicS, SignFileAsicE in the CAdES and the XAdES layout.         *)
SignFileAsicSCades(key, name, content) ==
    /\ file = NoFile
    /\ file' = ZipFile(SignSCades(key, name, Doc(content)))
    /\ acts' = acts \cup {ActOfBytes(key, Doc(content))}
    /\ last' = [op |-> "SignFileAsicSCades", name |-> name]
    /\ UNCHANGED <<jobs, seals, edits>>

SignFileAsicECades(key, name, content) ==
    /\ file = NoFile
    /\ file' = ZipFile(SignECades(key, name, Doc(content)))
    /\ acts' = acts \cup {ActOfFile(key, Entry(name, Doc(content)))}
    /\ last' = [op |-> "SignFileAsicECades", name |-> name]
    /\ UNCHANGED <<jobs, seals, edits>>

SignFileAsicXades(key, name, content, extended, level) ==
    /\ file = NoFile
    /\ \E doc \in XadesDocument(key, level, <<"guid">>, name, Doc(content)) :
          file' = ZipFile(IF extended THEN PackXadesE(name, Doc(content), doc)
                          ELSE PackXadesS(name, Doc(content), doc))
    /\ acts' = acts \cup {ActOfFile(key, Entry(PercentEncode(name), Doc(content)))}
    /\ last' = [op |-> "SignFileAsicXades", name |-> name]
    /\ UNCHANGED <<jobs, seals, edits>>

(* AddSignatureToAsicE: the container is read and unpacked, a manifest     *)
(* over all its files is signed, and the result replaces the file unless   *)
(* overwriting is not allowed.  The read and the end of the call are two   *)
(* steps; the call is refused when the container does not unpack or pack.  *)
CoSignRead(k) ==
    /\ IsZip /\ ~Busy(k)
    /\ Len(Signatures(file.zip)) < MaxSignatures
    /\ jobs' = [jobs EXCEPT ![k] = Signing(file.zip)]
    /\ UNCHANGED <<file, acts, seals, last, edits>>

CoSignSigned(k) ==
    {ActOfFile(k, e) : e \in ToSet(Files(jobs[k].input))}

CoSignWrite(k) ==
    /\ file' = ZipFile(AddSignatureToAsicE(jobs[k].input, k))
    /\ last' = [op |-> "AddSignatureToAsicE", key |-> k, input |-> jobs[k].input]
    /\ acts' = acts \cup CoSignSigned(k)

CoSignExists(k) ==
    /\ acts' = acts \cup CoSignSigned(k)
    /\ UNCHANGED <<file, last>>

CoSignRefused == UNCHANGED <<file, acts, last>>

CoSignEnds(k) ==
    /\ Busy(k)
    /\ IF CoSigns(jobs[k].input, k) THEN CoSignWrite(k) \/ CoSignExists(k) ELSE CoSignRefused
    /\ jobs' = [jobs EXCEPT ![k] = Idle]
    /\ UNCHANGED <<seals, edits>>
-----------------------------------------------------------------------------
(* Containers of other programs, with what their signers answer for: a     *)
(* signature URI relative to META-INF and references that start with "./", *)
(* a manifest without digests, no manifest, two files under one manifest,  *)
(* a number out of sequence, the other name of an ASiC-S signature, and    *)
(* both layouts at once.                                                   *)
SomeName == CHOOSE n \in FileNames : Normalize(n) = n

OtherContainers(key, content) ==
    LET one   == << Entry(SomeName, Doc(content)) >>
        two   == Append(one, Entry([SomeName EXCEPT !.num = 1], Doc(content)))
        sig   == MetaName("signature", 1)
        named == {ActOfFile(key, e) : e \in ToSet(two)}
        relative == Manifest([sig EXCEPT !.meta = FALSE],
                             << Ref([SomeName EXCEPT !.dot = TRUE], << Doc(content) >>) >>)
        digestless == Manifest(sig, << Ref(SomeName, <<>>) >>)
        manifested(m, over) ==
            Container("asic-e", one \o << Entry(MetaName("ASiCManifest", 1), m), Entry(sig, P7s(key, over)) >>)
    IN  { << manifested(relative, relative), named >>,
          << manifested(digestless, Doc(content)), {ActOfBytes(key, Doc(content))} >>,
          << Container("asic-s", Append(one, Entry(MetaName("signatures.p7s", 0), P7s(key, Doc(content))))),
             {ActOfBytes(key, Doc(content))} >>,
          << Container("asic-e", Append(one, Entry(sig, P7s(key, Doc(content))))),
             {ActOfBytes(key, Doc(content))} >>,
          << PackE(two, << SignedOver(key, 1, two) >>, <<>>), named >>,
          << PackE(one, << SignedOver(key, 2, one) >>, <<>>), named >> }
        \cup { << [SignECades(key, SomeName, Doc(content)) EXCEPT !.entries =
                     Append(@, Entry(MetaName("signatures", 1), Xades(doc)))], named >> :
               doc \in XadesDocument(key, Xml!Levels.BES, <<"guid">>, SomeName, Doc(content)) }

OtherWritesContainer(key, content) ==
    /\ file = NoFile
    /\ \E made \in OtherContainers(key, content) :
          /\ file' = ZipFile(made[1])
          /\ acts' = acts \cup made[2]
    /\ UNCHANGED <<jobs, seals, last, edits>>

(* Other programs change the file.                                         *)
EditFile(new) ==
    /\ edits < MaxEdits /\ edits' = edits + 1
    /\ new # file
    /\ file' = new
    /\ last' = Unwritten

EditContainer ==
    /\ IsZip
    /\ LET es   == file.zip.entries
           with(entries) == ZipFile([file.zip EXCEPT !.entries = entries])
           new(name, content) == Append(es, Entry(name, Doc(content)))
       IN  \/ \E i \in DOMAIN es, c \in Contents :
                 ~es[i].name.meta /\ EditFile(with([es EXCEPT ![i].data = Doc(c)]))
           \/ \E i \in DOMAIN es, n \in FileNames :
                 ~es[i].name.meta /\ EditFile(with([es EXCEPT ![i].name = n]))
           \/ \E i \in DOMAIN es : EditFile(with(RemoveAt(es, i)))
           \/ \E n \in FileNames, c \in Contents :
                 Len(Files(file.zip)) < MaxEntries /\ EditFile(with(new(n, c)))
           \/ \E n \in {MetaName("ASiCManifest", 2), MetaName("signature", 2), MetaName("timestamp", 0),
                      MetaName("signatures.p7s", 0)} :
                 EditFile(with(new(n, FirstContent)))
    /\ UNCHANGED <<jobs, acts, seals>>

(* Another program adds a signature of its own to an XML document, over    *)
(* SignedInfo of that signature alone and under an Id of its own.          *)
OtherSignsXml(key) ==
    /\ IsXml
    /\ Len(file.xml.sigs) < MaxSignatures
    /\ \A s \in ToSet(file.xml.sigs) : s.id # <<key>>
    /\ \E doc \in Xml!Sign([file.xml EXCEPT !.sigs = <<>>], key, Xml!Levels.BES, <<key>>, "gost34311",
                           << Xml!WholeDocument >>, <<>>, NoEvidence) :
          /\ EditFile(XmlFile([doc EXCEPT !.sigs = file.xml.sigs \o @]))
          /\ acts' = acts \cup ActsOfXml(key, doc.sigs[1])
    /\ UNCHANGED <<jobs, seals>>

(* An edit before the first signature would only give another content to   *)
(* start with.                                                             *)
EditXml ==
    /\ IsXml /\ acts # {}
    /\ LET doc == file.xml
           with(sigs) == XmlFile([doc EXCEPT !.sigs = sigs])
       IN  \/ \E c \in Contents : EditFile(XmlFile([doc EXCEPT !.content = c]))
           \/ \E i \in DOMAIN doc.sigs :
                 \/ EditFile(with(RemoveAt(doc.sigs, i)))
                 \/ \E k \in Keys : EditFile(with([doc.sigs EXCEPT ![i].cert = <<k>>]))
                 \/ \E n \in DOMAIN doc.sigs[i].unsigned :
                      EditFile(with([doc.sigs EXCEPT ![i].unsigned =
                                       [m \in DOMAIN @ \ {n} |-> @[m]]]))
                 \/ \E n \in {"CertificateValues", "CompleteCertificateRefs"} \cap DOMAIN doc.sigs[i].unsigned :
                      EditFile(with([doc.sigs EXCEPT ![i].unsigned[n] =
                                       IF n = "CertificateValues" THEN {"other ca"}
                                       ELSE {Xml!ComputeDigest("other ca")}]))
    /\ UNCHANGED <<jobs, acts, seals>>
-----------------------------------------------------------------------------
Create ==
    \/ WriteXml(FirstContent)
    \/ \E n \in FileNames :
         \/ SignFileAsicSCades(FirstKey, n, FirstContent)
         \/ SignFileAsicECades(FirstKey, n, FirstContent)
         \/ \E x \in BOOLEAN, l \in {Xml!Levels.BES, Xml!Levels.T} :
              SignFileAsicXades(FirstKey, n, FirstContent, x, l)
    \/ OtherWritesContainer(FirstKey, FirstContent)

Next ==
    \/ Create
    \/ \E k \in Keys :
         \/ \E l \in Range(Xml!Levels), ev \in Evidences(k) : SignXml(k, l, ev)
         \/ CoSignRead(k)
         \/ CoSignEnds(k)
         \/ OtherSignsXml(k)
    \/ EditContainer
    \/ EditXml

Spec == Init /\ [][Next]_vars
-----------------------------------------------------------------------------
Names ==
    [meta : BOOLEAN, stem : {n.stem : n \in FileNames} \cup
        {"signature", "signatures", "signatures.p7s", "ASiCManifest", "manifest", "timestamp"},
     num : Nat, layers : Nat, dot : BOOLEAN]

(* Type correctness of the file, of the calls and of what was signed: the  *)
(* names that normalisation and encoding yield are names.                  *)
TypeOK ==
    /\ \/ file = NoFile
       \/ /\ IsXml /\ file.xml.content \in Contents
          /\ Len(file.xml.sigs) \in 0 .. MaxSignatures
          /\ \A s \in ToSet(file.xml.sigs) : ToSet(s.cert) \subseteq Keys /\ s.value.key \in Keys
       \/ /\ IsZip /\ file.zip.mimetype \in {"asic-s", "asic-e"}
          /\ \A e \in ToSet(file.zip.entries) : e.name \in Names
    /\ \A k \in Keys : ~Busy(k) => jobs[k] = Idle
    /\ \A a \in acts : a.key \in Keys /\ ("name" \in DOMAIN a.what => a.what.name \in Names)
    /\ edits \in 0 .. MaxEdits

ProfileAsked(level, evidence) ==
    CASE level = Xml!Levels.xmldsig -> "xmldsig"
      [] level = Xml!Levels.BES -> "B"
      [] level = Xml!Levels.A -> "A"
      [] level = Xml!Levels.T \/ evidence = NoEvidence -> "T"
      [] level = Xml!Levels.X_L -> "LT"
      [] OTHER -> "X_L"

(* What SignXml or XadesBuilder makes of a document that had no signature  *)
(* is what XadesVerifier accepts: the signature is valid, every time-stamp *)
(* verifies, evidence that was given is found and bound, and the profile   *)
(* is the one that was asked for as far as the evidence went.  Two digests *)
(* are taken with default GOST 34.311 parameters and verified with those   *)
(* of a certificate, so that certificates with a DKE of their own are left *)
(* out there: the signer's in plain XMLDSIG, and the issuers' where they   *)
(* are bound.                                                              *)
SignedXmlVerifies ==
    last.op = "SignXml" /\ last.first =>
        /\ last.level > Xml!Levels.xmldsig \/ last.key \notin OwnDke => Xml!VerifyAll(file.xml, <<>>)
        /\ Xml!Profile(file.xml, 1) = ProfileAsked(last.level, last.evidence)
        /\ last.level >= Xml!Levels.T => Xml!TimestampsValid(file.xml, 1)
        /\ last.level >= Xml!Levels.X_L /\ last.evidence # NoEvidence =>
              /\ Xml!LtvValid(file.xml, 1, <<>>)
              /\ last.evidence.certs \cap OwnDke = {} => Xml!LtvEvidenceBound(file.xml.sigs[1])

(* A container that Tamga signed and no one changed verifies, in every     *)
(* layout.  In the XAdES layout the name must not itself read as a percent *)
(* encoding: the reader decodes entry names as well as references.         *)
SignedContainerVerifies ==
    /\ last.op \in {"SignFileAsicSCades", "SignFileAsicECades"} => IsValid(file.zip)
    /\ last.op = "SignFileAsicXades" /\ Normalize(last.name) = last.name => IsValid(file.zip)

(* When every signature of an XML document is valid, each one's            *)
(* certificate belongs to a key that signed what each of its references    *)
(* now stands for, whatever was done to the document since.                *)
ValidXmlIsSigned ==
    IsXml /\ Xml!VerifyAll(file.xml, <<>>) =>
        \A i \in DOMAIN file.xml.sigs :
            LET sig == file.xml.sigs[i]
            IN  \A r \in ToSet(sig.refs) : \A d \in Xml!ResolveReference(file.xml, r.uri, <<>>) :
                    Act(sig.cert[1], [uri |-> r.uri, of |-> d]) \in acts

SomebodySigned(e) ==
    \E k \in Keys : ActOfFile(k, e) \in acts \/ ActOfBytes(k, e.data) \in acts

(* A container is only accepted when somebody signed each document in it:  *)
(* the very bytes, and under this name unless the signature names none     *)
(* (ASiC-S, or a manifest without digests).                                *)
ValidCoversAll ==
    IsZip /\ (\E e \in ToSet(Files(file.zip)) : ~SomebodySigned(e)) => ~IsValid(file.zip)

(* Co-signing a valid CAdES container gives a valid one with the same      *)
(* documents, every earlier signature and exactly one more, of this key.   *)
(* Signature URIs relative to META-INF are left out: Pack writes such a    *)
(* signature to the container's root.                                      *)
CoSignKeepsValid ==
    last.op = "AddSignatureToAsicE" =>
        LET old == last.input
            new == file.zip
        IN  /\ \A s \in ToSet(Signatures(old)) : s.name.meta
            /\ ValidCades(old)
            => /\ ValidCades(new)
               /\ Files(new) = Files(old)
               /\ SubSeq(Signatures(new), 1, Len(Signatures(old))) = Signatures(old)
               /\ Len(Signatures(new)) = Len(Signatures(old)) + 1
               /\ Last(Signatures(new)).data.p7s.key = last.key

(* A signature that is valid and reported as XAdES-A has the content and   *)
(* all the evidence that some archive time-stamp was given for.            *)
ArchiveIsSealed ==
    IsXml => \A i \in DOMAIN file.xml.sigs :
        Xml!SignatureValid(file.xml, i, <<>>) /\ Xml!Profile(file.xml, i) = "A"
            => Seal(file.xml.content, file.xml.sigs[i]) \in seals

(* Certificate references under a valid time-stamp, with evidence reported *)
(* as bound, are matched by the certificates the signer gave: the values   *)
(* cannot be exchanged for others.                                         *)
BoundEvidenceIsOriginal ==
    IsXml => \A i \in DOMAIN file.xml.sigs :
        LET sig == file.xml.sigs[i]
        IN  /\ Xml!SignatureValid(file.xml, i, <<>>)
            /\ {"SigAndRefsTimeStamp", "CompleteCertificateRefs"} \subseteq DOMAIN sig.unsigned
            /\ Xml!TimestampsValid(file.xml, i)
            /\ Xml!LtvEvidenceBound(sig)
            => \E s \in seals : "certs" \in DOMAIN s /\ s.key = sig.cert[1] /\ s.certs # {}
                                /\ s.certs \subseteq sig.unsigned["CertificateValues"]

(* What Tamga writes, Tamga accepts, in every format and at every level,   *)
(* for certificates with GOST 34.311 parameters of their own too where the *)
(* builder takes them.                                                     *)
OwnOutputVerifies == SignedXmlVerifies /\ SignedContainerVerifies

(* What Tamga accepts was signed: whatever other programs did to the file, *)
(* a valid document or container holds only what the keys it names, or     *)
(* some key, have signed.                                                  *)
AcceptedIsSigned == ValidXmlIsSigned /\ ValidCoversAll

(* Evidence and content under time-stamps are those the time-stamps were   *)
(* given for (XadesVerifier's profile A and ltv_evidence_bound).           *)
StampedIsOriginal == ArchiveIsSealed /\ BoundEvidenceIsOriginal
=============================================================================
