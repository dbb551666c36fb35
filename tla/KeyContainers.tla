--------------------------- MODULE KeyContainers ---------------------------
(***************************************************************************)
(* Private-key containers: what NormalizeKeyContainer makes of each kind,  *)
(* which keys a container opens to, which certificate is taken for a key,  *)
(* and which key and certificate a signer is prepared with.                *)
(*                                                                         *)
(* A container is a record                                                 *)
(*   kind     "jks", "iit", "zs2", "p12", "der", "pem" or "junk"           *)
(*   pass     the password that opens it                                   *)
(*   keys     its private keys, [alias, id]; id NoKey is a block that no   *)
(*            decoder understands (an encrypted PKCS#8, for one)           *)
(*   certs    its certificates, in order                                   *)
(*   entries  of a key store: [tag, alias, pass, id, chain]                *)
(* A certificate is [key, signs, issue]: the key it certifies, whether its *)
(* keyUsage, which every one has, allows signing, and which issue of it    *)
(* this is.  A vector that may be empty, and the result of an operation    *)
(* that may fail, is a set of at most one element.                         *)
(***************************************************************************)
EXTENDS Naturals, Sequences

CONSTANTS
    NoKey,          \* the "key" of bytes that are no key
    CertStore       \* the certificates in cryptonite's default directory

Min(S) == CHOOSE x \in S : \A y \in S : x <= y
Max(S) == CHOOSE x \in S : \A y \in S : x >= y

First(s) == IF s = << >> THEN {} ELSE {s[1]}

Refused == [ok |-> FALSE, form |-> "none", material |-> << >>, bag |-> << >>,
            pass |-> "", certificate |-> {}]

-----------------------------------------------------------------------------
(* Keys and certificates. *)

\* The positions of the keys that a normalised key opens to with password pw:
\* none when it is a PKCS#12 of another password, and no block that no decoder
\* understands.
Opens(k, pw) ==
    {i \in DOMAIN k.material : /\ k.material[i].id # NoKey
                               /\ k.form = "pkcs12" => pw = k.pass}

\* Those that pkcs12_select_key finds by an alias: it searches from the end, so
\* of the keys that share an alias the last, and none if that does not decode.
Distinct(k, pw) ==
    {i \in Opens(k, pw) :
        \A j \in DOMAIN k.material : j > i => k.material[j].alias # k.material[i].alias}

\* The key that pkcs12_select_key gives without an alias, and the key of a
\* PKCS#8: the first block, or nothing when that does not decode.  It names the
\* container in the certificate cache.
Fingerprint(k, pw) == {k.material[i].id : i \in Opens(k, pw) \cap {1}}

\* ContainerPublicKeys::Load: every key of a PKCS#12 that an alias finds.
PublicKeys(k, pw) ==
    IF k.form = "pkcs12" THEN {k.material[i].id : i \in Distinct(k, pw)}
                         ELSE Fingerprint(k, pw)

\* FindMatchingCertificate on a key that has no password any more.
FindMatchingCertificate(id, chain) ==
    LET fits == {i \in DOMAIN chain : id # NoKey /\ chain[i].key = id}
    IN  IF fits = {} THEN {} ELSE {chain[Min(fits)]}

\* Mutated Acceptable: the certificate's keyUsage is not looked at.
AcceptableForAnyUse(cert, public) == cert.key \in public

\* The resolver's one decision: the certificate certifies a key of the
\* container and allows signing.
Acceptable(cert, public) == cert.key \in public /\ cert.signs

-----------------------------------------------------------------------------
(* Containers. *)

\* JksKeyStoreParser::LoadPrivateKeyEntry's choice among the private-key
\* entries: the last of that alias, or with no alias the first that is not
\* empty.
JksChosen(entries, alias) ==
    LET private == {i \in DOMAIN entries : entries[i].tag = 1}
        named   == {i \in private : entries[i].alias = alias}
        full    == {i \in private : entries[i].id # NoKey}
    IN  CASE alias # "" /\ named # {} -> {entries[Max(named)]}
          [] alias = "" /\ full # {} -> {entries[Min(full)]}
          [] OTHER -> {}

\* The store's digest is checked only against a store password that was given;
\* the entry's digest decides about the key password.
JksEntry(c, store, keyPw, alias) ==
    IF \/ \E i \in DOMAIN c.entries : c.entries[i].tag \notin {1, 2}
       \/ store \notin {"", c.pass}
    THEN {}
    ELSE {e \in JksChosen(c.entries, alias) :
             e.id # NoKey /\ e.pass = (IF keyPw = "" THEN store ELSE keyPw)}

\* The branch for key stores: the first certificate of the chain stands in
\* when none of them certifies the key.
NormalizeJks(c, store, keyPw, alias) ==
    IF \/ store = "" /\ keyPw = ""
       \/ JksEntry(c, store, keyPw, alias) = {}
    THEN Refused
    ELSE LET e == CHOOSE x \in JksEntry(c, store, keyPw, alias) : TRUE
             fit == FindMatchingCertificate(e.id, e.chain)
         IN  [ok |-> TRUE, form |-> "pkcs8", bag |-> << >>, pass |-> "",
              material |-> << [alias |-> "", id |-> e.id] >>,
              certificate |-> IF fit # {} THEN fit ELSE First(e.chain)]

\* IitKeyContainerParser::Decrypt: the MAC of the plain text decides.
NormalizeIit(c, pw) ==
    IF pw = "" \/ pw # c.pass THEN Refused
    ELSE [ok |-> TRUE, form |-> "pkcs8", material |-> c.keys, bag |-> << >>,
          pass |-> "", certificate |-> {}]

\* The .ZS2 container is kept whole and not opened here.
NormalizeZs2(c, pw) ==
    IF pw = "" THEN Refused
    ELSE [ok |-> TRUE, form |-> "pkcs12", material |-> c.keys, bag |-> c.certs,
          pass |-> c.pass, certificate |-> {}]

\* PemDerLoader::LoadAll, and the choice of the first key block and the first
\* certificate.  A PKCS#12 is kept whole, and its certificates are left in it.
NormalizePemDer(c) ==
    CASE c.kind = "p12" ->
            [ok |-> TRUE, form |-> "pkcs12", material |-> c.keys, bag |-> c.certs,
             pass |-> c.pass, certificate |-> {}]
      [] c.kind # "p12" /\ c.keys # << >> ->
            [ok |-> TRUE, form |-> "pkcs8", material |-> << c.keys[1] >>,
             bag |-> << >>, pass |-> "",
             certificate |-> IF c.kind = "pem" THEN First(c.certs) ELSE {}]
      [] OTHER -> Refused

\* Session::NormalizeKeyContainer; keyPw is never empty when store is not.
NormalizeKeyContainer(c, store, keyPw, alias) ==
    LET pw == IF store = "" THEN keyPw ELSE store
    IN  CASE c.kind = "jks" -> NormalizeJks(c, store, keyPw, alias)
          [] c.kind = "iit" -> NormalizeIit(c, pw)
          [] c.kind = "zs2" -> NormalizeZs2(c, pw)
          [] c.kind \in {"p12", "der", "pem"} -> NormalizePemDer(c)
          [] OTHER -> Refused

-----------------------------------------------------------------------------
(* The signer. *)

CannotSign(why) == [ok |-> FALSE, key |-> NoKey, certificate |-> {}, why |-> why]

SignsWith(id, cert) ==
    CASE ~cert.signs -> CannotSign("Usage")
      [] cert.signs /\ cert.key # id -> CannotSign("Mismatch")
      [] OTHER -> [ok |-> TRUE, key |-> id, certificate |-> {cert}, why |-> ""]

\* SelectKeyMatchingCertificate, and the first key when there is nothing to
\* select or nothing fits; nothing when that one does not decode.
SelectedKey(k, pw, cert) ==
    LET fits == {k.material[i].id : i \in Distinct(k, pw)} \cap {c.key : c \in cert}
    IN  IF Len(k.material) > 1 /\ fits # {} THEN fits ELSE Fingerprint(k, pw)

\* pkcs12_get_certificate: the first certificate of the selected key with the
\* usage asked for, in the container or else in the default directory.
BagCertificate(bag, id, signing) ==
    LET all  == bag \o CertStore
        fits == {i \in DOMAIN all : all[i].key = id /\ (signing => all[i].signs)}
    IN  IF fits = {} THEN {} ELSE {all[Min(fits)]}

\* PreparePkcs12Signer: a certificate from outside selects the key and is the
\* signer's; otherwise the first key and the certificate found for it.
PreparePkcs12Signer(k, pw, cert) ==
    IF SelectedKey(k, pw, cert) = {} THEN CannotSign("Decode")
    ELSE LET id   == CHOOSE x \in SelectedKey(k, pw, cert) : TRUE
             own  == IF BagCertificate(k.bag, id, TRUE) # {}
                     THEN BagCertificate(k.bag, id, TRUE)
                     ELSE BagCertificate(k.bag, id, FALSE)
             used == IF cert # {} THEN cert ELSE own
         IN  IF used = {} THEN CannotSign("NoCertificate")
             ELSE SignsWith(id, CHOOSE c \in used : TRUE)

PreparePkcs8Signer(k, cert) ==
    CASE cert = {} -> CannotSign("NoCertificate")
      [] cert # {} /\ Fingerprint(k, "") = {} -> CannotSign("Decode")
      [] OTHER -> SignsWith(CHOOSE x \in Fingerprint(k, "") : TRUE,
                            CHOOSE c \in cert : TRUE)

PrepareSigner(k, pw, cert) ==
    IF k.form = "pkcs12" THEN PreparePkcs12Signer(k, pw, cert)
                         ELSE PreparePkcs8Signer(k, cert)
=============================================================================
