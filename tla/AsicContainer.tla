---------------------------- MODULE AsicContainer -----------------------------
(***************************************************************************)
(* ASiC-S and ASiC-E containers: how Tamga packs, unpacks, co-signs and    *)
(* verifies them, in the CAdES layout (META-INF/signature001.p7s with an   *)
(* ASiCManifest) and in the XAdES layout (META-INF/signatures.xml).        *)
(*                                                                         *)
(* A container is its media type and the sequence of its entries.  The     *)
(* bytes of an entry are a record whose one field says what they parse as. *)
(***************************************************************************)
EXTENDS Naturals, Sequences, FiniteSets, FiniteSetsExt, SequencesExt, TLC

CONSTANTS Keys, OwnDke

(* The name of an entry or the text of a URI: whether it lies in META-INF, *)
(* a stem with a number, how many percent encodings lie over the stem, and *)
(* whether it starts with "./".  Names that differ only in letter case are *)
(* left out: the archive looks entries up without regard to it.            *)
Name(meta, stem, num) == [meta |-> meta, stem |-> stem, num |-> num, layers |-> 0, dot |-> FALSE]
RootName(stem) == Name(FALSE, stem, 0)
MetaName(stem, num) == Name(TRUE, stem, num)

(* util::NormalizeAsicEntryUri: one pass of percent decoding and one "./". *)
Normalize(name) ==
    [name EXCEPT !.layers = IF @ = 0 THEN 0 ELSE @ - 1, !.dot = FALSE]

(* SignFileAsicXades encodes every byte outside the unreserved set, "%" of *)
(* an encoding among them; the plain stems of the model have none.         *)
PercentEncode(name) ==
    [name EXCEPT !.layers = IF @ = 0 THEN 0 ELSE @ + 1]

(* The XML signatures of the XAdES layout.                                 *)
Xml == INSTANCE XmlSignature WITH NormalizeUri <- Normalize

(* What the bytes of an entry parse as.                                    *)
Doc(c) == [doc |-> c]
P7s(key, over) == [p7s |-> [key |-> key, over |-> over]]
Manifest(sigUri, refs) == [manifest |-> [sig |-> sigUri, refs |-> refs]]
Xades(xml) == [xades |-> xml]
OdfManifest == [odf |-> TRUE]
Nothing == [empty |-> TRUE]

Entry(name, data) == [name |-> name, data |-> data]
Container(mimetype, entries) == [mimetype |-> mimetype, entries |-> entries]

(* CryptoniteAdapter::VerifyData on a detached signature: it runs on a CMS *)
(* signature only, and holds when it was made over these bytes.            *)
Verifies(bytes, sig) == "p7s" \in DOMAIN sig /\ sig.p7s.over = bytes
-----------------------------------------------------------------------------
(* AsicReader refuses an archive with two entries of one name.             *)
Opens(c) == \A i, j \in DOMAIN c.entries : c.entries[i].name = c.entries[j].name => i = j

IsManifestName(name) == name.meta /\ name.stem = "ASiCManifest"
IsXadesName(name) == name.meta /\ name.stem = "signatures"
IsTimestampName(name) == name.meta /\ name.stem = "timestamp"

Files(c) == SelectSeq(c.entries, LAMBDA e : ~e.name.meta)

ContainerHasXadesSignature(c) == \E e \in ToSet(c.entries) : IsXadesName(e.name)

(* AsicEContainer::Unpack.  A signature entry has the name its manifest    *)
(* gives it, the manifest's entry, and the bytes found under that name or  *)
(* under META-INF/ and that name.  Manifests that do not parse are left    *)
(* out; when none parses, every other entry of META-INF is a signature     *)
(* without a manifest.                                                     *)
SignatureEntry(name, manifest, data) == [name |-> name, manifest |-> manifest, data |-> data]

ParseAsicManifestXml(e) == "manifest" \in DOMAIN e.data /\ e.data.manifest.refs # <<>>

OtherMeta(c) ==
    SelectSeq(c.entries, LAMBDA e : e.name.meta /\ ~IsManifestName(e.name) /\ ~IsTimestampName(e.name))

FindSignature(c, uri) ==
    LET others      == OtherMeta(c)
        under(name) == SelectSeq(others, LAMBDA e : e.name = name /\ e.data # Nothing)
        found       == under(uri) \o under([uri EXCEPT !.meta = TRUE])
    IN  IF found = <<>> THEN Nothing ELSE Head(found).data

Signatures(c) ==
    LET manifests == SelectSeq(c.entries, LAMBDA e : IsManifestName(e.name) /\ ParseAsicManifestXml(e))
        others    == OtherMeta(c)
    IN  IF manifests = <<>>
        THEN [i \in DOMAIN others |-> SignatureEntry(others[i].name, <<>>, others[i].data)]
        ELSE [i \in DOMAIN manifests |->
                LET uri == manifests[i].data.manifest.sig
                IN  SignatureEntry(uri, <<manifests[i]>>, FindSignature(c, uri))]

ContainerTimestamp(c) == SelectSeq(c.entries, LAMBDA e : IsTimestampName(e.name))

UnpacksE(c) ==
    Opens(c) /\ c.mimetype = "asic-e" /\ Files(c) # <<>> /\ Signatures(c) # <<>>

(* AsicEContainer::Pack of unpacked files, signatures and time-stamp.      *)
PacksE(files, signatures) ==
    files # <<>> /\ signatures # <<>> /\ \A s \in ToSet(signatures) : s.manifest # <<>>

PackE(files, signatures, timestamp) ==
    Container("asic-e",
        files
        \o FlattenSeq([s \in DOMAIN signatures |->
                signatures[s].manifest \o << Entry(signatures[s].name, signatures[s].data) >>])
        \o timestamp)

(* AsicSContainer::Unpack and Pack, and AsicXadesContainer::PackS, PackE.  *)
SSignatures(c) ==
    SelectSeq(c.entries, LAMBDA e : e.name \in {MetaName("signature", 0), MetaName("signatures.p7s", 0)})

UnpacksS(c) ==
    /\ Opens(c) /\ c.mimetype = "asic-s"
    /\ Len(Files(c)) = 1
    /\ SSignatures(c) # <<>> /\ ContainerTimestamp(c) = <<>>

PackS(name, bytes, signature) ==
    Container("asic-s", << Entry(name, bytes), Entry(MetaName("signature", 0), signature) >>)

PackXadesS(name, bytes, xml) ==
    Container("asic-s", << Entry(name, bytes), Entry(MetaName("signatures", 0), Xades(xml)) >>)

PackXadesE(name, bytes, xml) ==
    Container("asic-e", << Entry(name, bytes), Entry(MetaName("manifest", 0), OdfManifest),
                           Entry(MetaName("signatures", 1), Xades(xml)) >>)
-----------------------------------------------------------------------------
(* Signing.  A manifest of Tamga's own gives every file's digest, and the  *)
(* signature is made over the manifest.                                    *)
Ref(uri, digest) == [uri |-> uri, digest |-> digest]

ManifestOver(sigName, files) ==
    Manifest(sigName, [f \in DOMAIN files |-> Ref(files[f].name, << files[f].data >>)])

SignedOver(key, num, files) ==
    LET sigName == MetaName("signature", num)
        manifest == ManifestOver(sigName, files)
    IN  SignatureEntry(sigName, << Entry(MetaName("ASiCManifest", num), manifest) >>, P7s(key, manifest))

SignECades(key, name, bytes) ==
    LET files == << Entry(name, bytes) >> IN PackE(files, << SignedOver(key, 1, files) >>, <<>>)

SignSCades(key, name, bytes) == PackS(name, bytes, P7s(key, bytes))

(* AddSignatureToAsicE: the first number from the size of the list on that *)
(* no signature and no manifest has.                                       *)
Occupied(signatures, num) ==
    \E s \in ToSet(signatures) :
        \/ s.name = MetaName("signature", num)
        \/ \E m \in ToSet(s.manifest) : m.name = MetaName("ASiCManifest", num)

(* Mutant: the size of the list is taken for the next number.              *)
NextNumber(signatures) == Len(signatures) + 1

FreeSuffix(signatures) ==
    Min({n \in Len(signatures) + 1 .. 2 * Len(signatures) + 1 : ~Occupied(signatures, n)})

CoSigned(c, key) ==
    LET signatures == Signatures(c)
    IN  Append(signatures, SignedOver(key, FreeSuffix(signatures), Files(c)))

CoSigns(c, key) == UnpacksE(c) /\ PacksE(Files(c), CoSigned(c, key))

AddSignatureToAsicE(c, key) == PackE(Files(c), CoSigned(c, key), ContainerTimestamp(c))

(* SignFileAsicXades: one detached XAdES signature whose reference is the  *)
(* encoded name; Ids are fresh GUIDs.                                      *)
XadesDocument(key, level, id, name, bytes) ==
    Xml!Sign([content |-> "XAdESSignatures", sigs |-> <<>>], key, level, id, "kupyna256",
             << Xml!File(PercentEncode(name)) >>,
             (Normalize(PercentEncode(name)) :> bytes), [certs |-> {}, revs |-> {}])
-----------------------------------------------------------------------------
(* VerifyFileAsicE.  The files a manifest refers to, as positions, empty   *)
(* when it is malformed: two names normalise to one, a reference has no    *)
(* file, or two have the same.                                             *)
Ambiguous(files) ==
    \E i, j \in DOMAIN files :
        files[i].name # files[j].name /\ Normalize(files[i].name) = Normalize(files[j].name)

Named(files, uri) == {i \in DOMAIN files : Normalize(files[i].name) = Normalize(uri)}

FindAsicEReferencedFiles(files, sig) ==
    IF sig.data = Nothing THEN <<>>
    ELSE IF sig.manifest = <<>> THEN (IF Len(files) = 1 THEN <<1>> ELSE <<>>)
    ELSE LET refs == sig.manifest[1].data.manifest.refs
         IN  IF \/ Ambiguous(files)
                \/ \E r \in DOMAIN refs : Named(files, refs[r].uri) = {}
                \/ \E r, q \in DOMAIN refs :
                      r # q /\ Named(files, refs[r].uri) = Named(files, refs[q].uri)
             THEN <<>>
             ELSE [r \in DOMAIN refs |-> Min(Named(files, refs[r].uri))]

(* A manifest with a digest for every reference is what was signed; one    *)
(* without digests only names the single file that was signed.             *)
Digests(sig) ==
    IF sig.manifest = <<>> THEN <<>>
    ELSE LET refs == sig.manifest[1].data.manifest.refs
         IN  FlattenSeq([r \in DOMAIN refs |-> refs[r].digest])

SignatureValid(files, sig) ==
    LET refd == FindAsicEReferencedFiles(files, sig)
        digests == Digests(sig)
    IN  /\ refd # <<>>
        /\ \/ /\ Len(digests) = Len(refd)
              /\ Verifies(sig.manifest[1].data, sig.data)
              /\ \A r \in DOMAIN refd : digests[r] = files[refd[r]].data
           \/ /\ digests = <<>> /\ Len(refd) = 1
              /\ Verifies(files[refd[1]].data, sig.data)

(* Mutant: nobody asks which files the signatures cover.                   *)
AllFiles(c) == DOMAIN Files(c)

CoveredFiles(c) ==
    LET files == Files(c)
    IN  UNION { ToSet(FindAsicEReferencedFiles(files, s)) :
                  s \in {t \in ToSet(Signatures(c)) : SignatureValid(files, t)} }

ValidCades(c) ==
    LET files == Files(c)
    IN  /\ UnpacksE(c)
        /\ \A s \in ToSet(Signatures(c)) : SignatureValid(files, s)
        /\ CoveredFiles(c) = DOMAIN files

ValidS(c) == UnpacksS(c) /\ Verifies(Files(c)[1].data, Last(SSignatures(c)).data)

(* VerifyFileAsicEXades, for either media type.  Coverage counts what any  *)
(* signature refers to; every signature has to be valid anyway.            *)
External(c) ==
    [n \in {Normalize(e.name) : e \in ToSet(Files(c))} |->
        (CHOOSE e \in ToSet(Files(c)) : Normalize(e.name) = n).data]

XadesEntries(c) == SelectSeq(c.entries, LAMBDA e : IsXadesName(e.name))

CoveredUris(c) ==
    { Normalize(u.file) : u \in {v \in UNION { UNION { {r.uri : r \in ToSet(s.refs)} :
                                                     s \in ToSet(e.data.xades.sigs)} :
                                            e \in ToSet(XadesEntries(c))} : Xml!IsFile(v)} }

ValidXades(c) ==
    /\ Opens(c) /\ Files(c) # <<>> /\ ~Ambiguous(Files(c))
    /\ \A e \in ToSet(XadesEntries(c)) :
          "xades" \in DOMAIN e.data /\ Xml!VerifyAll(e.data.xades, External(c))
    /\ DOMAIN External(c) \subseteq CoveredUris(c)

(* The verdict of VerifyFileAsicS on an ASiC-S container, and that of      *)
(* VerifyFileAsicE on an ASiC-E container.                                 *)
IsValid(c) ==
    IF ContainerHasXadesSignature(c) THEN ValidXades(c)
    ELSE IF c.mimetype = "asic-s" THEN ValidS(c) ELSE ValidCades(c)
=============================================================================
