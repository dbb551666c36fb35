----------------------------- MODULE KeyLoading -----------------------------
(***************************************************************************)
(* ReadPrivateKey, ReadPrivateKeyFile, ReadPrivateKeyBinary and            *)
(* ResetPrivateKey, with the CertificateResolver that they call when the   *)
(* container brings no certificate.                                        *)
(*                                                                         *)
(* The resolver asks, in this order: the certificate the user named, the   *)
(* files beside the key (the one with the key's own name first), the cache *)
(* in the work directory, the LDAP directory, the CMP service of a         *)
(* registered authority.  Reading a file, the cache and each answer of the *)
(* network are steps of their own, so the file beside the key may be       *)
(* replaced between them.                                                  *)
(***************************************************************************)
EXTENDS KeyContainers

CONSTANTS
    Requests,       \* the keys that are asked for (see Request)
    Offers,         \* the certificates that a directory or authority offers
    Folders,        \* what may lie beside the key file at first
    Caches,         \* what may be in the certificate cache at first
    KeySettings,    \* the settings a session may have: [workDir, offline, ldap]
    Reissued        \* the certificates that may replace the file beside the key

(***************************************************************************)
(* A request: the container; onDisk, whether it is a file with a path;     *)
(* readable, whether its bytes can be had; store, keyPw and alias; named,  *)
(* the certificate the user named, if any; authority, whether an authority *)
(* is named that the registry has a CMP address for.                       *)
(***************************************************************************)

VARIABLES
    key,            \* the loaded key: loaded_key_*, loaded_certificate_
    load,           \* the ReadPrivateKey* in progress
    folder,         \* the certificates beside the key file
    certCache,      \* work_dir/cert-cache: one certificate per first key
    settings,       \* settings_ and ldap_settings_, as the resolver uses them
    lastError

keyVars == <<key, load, folder, certCache, settings, lastError>>

Unloaded == [loaded |-> FALSE, it |-> Refused, certificate |-> {}, pass |-> "",
             source |-> "", named |-> {}]

AtRest(ok) == [pc |-> "rest", ok |-> ok, ask |-> {}, it |-> Refused, found |-> {},
               source |-> "", seen |-> {}]

\* The request in progress, the passwords as LoadPrivateKeyPayload completes
\* them, and the public keys that Resolve compares certificates with: none when
\* the first key, whose fingerprint it needs, does not decode.
Ask       == CHOOSE r \in load.ask : TRUE
KeyPw     == IF Ask.keyPw = "" THEN Ask.store ELSE Ask.keyPw
Effective == IF Ask.store = "" THEN KeyPw ELSE Ask.store
Public    == IF Fingerprint(load.it, Effective) = {} THEN {}
             ELSE PublicKeys(load.it, Effective)

SetKeyError(code) == lastError' = [code |-> code, by |-> 0]

KeyInit ==
    /\ key = Unloaded
    /\ load = AtRest(TRUE)
    /\ folder \in Folders
    /\ certCache \in Caches
    /\ settings \in KeySettings

-----------------------------------------------------------------------------
\* The beginning of the three ReadPrivateKey* operations, up to the bytes of
\* the container: a file or Base64 text that cannot be read is refused.
ReadPrivateKey(r) ==
    /\ load.pc = "rest"
    /\ IF r.readable
       THEN /\ load' = [AtRest(FALSE) EXCEPT !.pc = "normalize", !.ask = {r},
                                             !.seen = {folder}]
            /\ UNCHANGED lastError
       ELSE /\ load' = AtRest(FALSE)
            /\ SetKeyError("InvalidArgument")
    /\ UNCHANGED <<key, folder, certCache, settings>>

\* LoadPrivateKeyPayload: NormalizeKeyContainer, and whether the container
\* brought a certificate.
Normalize ==
    /\ load.pc = "normalize"
    /\ LET n == NormalizeKeyContainer(Ask.container, Ask.store, KeyPw, Ask.alias)
       IN  \/ /\ ~n.ok
              /\ load' = AtRest(FALSE)
              /\ SetKeyError("InvalidArgument")
           \/ /\ n.ok
              /\ load' = [load EXCEPT
                            !.it = n, !.found = n.certificate,
                            !.source = IF n.certificate = {} THEN "" ELSE "container",
                            !.pc = IF n.certificate = {} THEN "open" ELSE "commit"]
              /\ UNCHANGED lastError
    /\ UNCHANGED <<key, folder, certCache, settings>>

Continue(pc) == load' = [load EXCEPT !.pc = pc] /\ UNCHANGED lastError

\* A resolver that found nothing is an error only when the user named a
\* certificate; otherwise the key is loaded without one.
NamedRefused == load' = AtRest(FALSE) /\ SetKeyError("InvalidArgument")
NoneFound    == Continue("commit")

Resolved(c, source) ==
    /\ load' = [load EXCEPT !.pc = "commit", !.found = {c}, !.source = source]
    /\ UNCHANGED lastError

\* Resolve derives the container's public keys before it looks at anything.
OpenContainer ==
    /\ load.pc = "open"
    /\ \/ Public = {} /\ Ask.named # {} /\ NamedRefused
       \/ Public = {} /\ Ask.named = {} /\ NoneFound
       \/ Public # {} /\ Continue(IF Ask.named # {} THEN "named" ELSE "beside")
    /\ UNCHANGED <<key, folder, certCache, settings>>

\* Mutated ResolveNamed: the search goes on when the named certificate does
\* not fit.
ResolveNamedOrElse ==
    /\ load.pc = "named"
    /\ \/ \E c \in Ask.named : Acceptable(c, Public) /\ Resolved(c, "named")
       \/ /\ \A c \in Ask.named : ~Acceptable(c, Public)
          /\ Continue("beside")
    /\ UNCHANGED <<key, folder, certCache, settings>>

\* Level 1: the certificate that the user named, or nothing.
ResolveNamed ==
    /\ load.pc = "named"
    /\ \/ \E c \in Ask.named : Acceptable(c, Public) /\ Resolved(c, "named")
       \/ (\A c \in Ask.named : ~Acceptable(c, Public)) /\ NamedRefused
    /\ UNCHANGED <<key, folder, certCache, settings>>

\* The accepted certificate is written to the cache under the container's
\* first key; a write that fails is ignored.
Remember(c) ==
    \/ /\ settings.workDir
       /\ certCache' = [k \in DOMAIN certCache |->
                          IF k \in Fingerprint(load.it, Effective)
                          THEN {c} ELSE certCache[k]]
    \/ UNCHANGED certCache

\* The first acceptable certificate beside the key.
Beside ==
    LET fits == {i \in DOMAIN folder : Ask.onDisk /\ Acceptable(folder[i], Public)}
    IN  IF fits = {} THEN {} ELSE {folder[Min(fits)]}

Cached ==
    {c \in UNION {certCache[k] : k \in Fingerprint(load.it, Effective)} :
        settings.workDir /\ Acceptable(c, Public)}

\* Mutated ResolveBeside: the cache is asked first.
ResolveCachedFirst ==
    /\ load.pc = "beside"
    /\ \/ \E c \in Cached : Resolved(c, "cache") /\ UNCHANGED certCache
       \/ Cached = {} /\ \E c \in Beside : Resolved(c, "beside") /\ Remember(c)
       \/ Cached = {} /\ Beside = {} /\ Continue("cache") /\ UNCHANGED certCache
    /\ UNCHANGED <<key, folder, settings>>

\* Level 2a: the files beside the key.
ResolveBeside ==
    /\ load.pc = "beside"
    /\ \/ \E c \in Beside : Resolved(c, "beside") /\ Remember(c)
       \/ Beside = {} /\ Continue("cache") /\ UNCHANGED certCache
    /\ UNCHANGED <<key, folder, settings>>

\* Level 2b: the cache; an offline session stops here.
ResolveCached ==
    /\ load.pc = "cache"
    /\ \/ \E c \in Cached : Resolved(c, "cache")
       \/ Cached = {} /\ settings.offline /\ NoneFound
       \/ Cached = {} /\ ~settings.offline /\ Continue("ldap")
    /\ UNCHANGED <<key, folder, certCache, settings>>

\* Level 3a: whatever the configured LDAP directory answers.
ResolveLdap ==
    /\ load.pc = "ldap"
    /\ \/ \E c \in Offers : /\ settings.ldap /\ Acceptable(c, Public)
                            /\ Resolved(c, "ldap") /\ Remember(c)
       \/ Continue("cmp") /\ UNCHANGED certCache
    /\ UNCHANGED <<key, folder, settings>>

\* Level 3c: the CMP service that CaSettingsRegistry::Find gives for the named
\* authority.  The HTTP source between the two is never given an address.
ResolveCmp ==
    /\ load.pc = "cmp"
    /\ \/ \E c \in Offers : /\ Ask.authority /\ Acceptable(c, Public)
                            /\ Resolved(c, "cmp") /\ Remember(c)
       \/ NoneFound /\ UNCHANGED certCache
    /\ UNCHANGED <<key, folder, settings>>

CommitLoadedKey ==
    /\ load.pc = "commit"
    /\ key' = [loaded |-> TRUE, it |-> load.it, certificate |-> load.found,
               pass |-> Effective, source |-> load.source, named |-> Ask.named]
    /\ load' = AtRest(TRUE)
    /\ SetKeyError("None")
    /\ UNCHANGED <<folder, certCache, settings>>

LoadStep ==
    \/ Normalize \/ OpenContainer \/ ResolveNamed \/ ResolveBeside \/ ResolveCached
    \/ ResolveLdap \/ ResolveCmp \/ CommitLoadedKey

\* Session::ResetPrivateKey.
ResetPrivateKey ==
    /\ load.pc = "rest"
    /\ key' = Unloaded
    /\ SetKeyError("None")
    /\ UNCHANGED <<load, folder, certCache, settings>>

\* The owner of the key puts a new certificate beside it, under its own name.
Reissue ==
    /\ \E c \in Reissued : /\ \A i \in DOMAIN folder : folder[i] # c
                           /\ folder' = << c >> \o folder
    /\ UNCHANGED <<key, load, certCache, settings, lastError>>

\* The signer that every Sign* operation prepares from the loaded key.
Signer == PrepareSigner(key.it, key.pass, key.certificate)

-----------------------------------------------------------------------------
(* Properties. *)

FromResolver == {"named", "beside", "cache", "ldap", "cmp"}

\* A certificate that the resolver accepted can be signed with: the signer
\* that is later prepared from the loaded key, by its own selection among the
\* keys of the container and its own checks, takes that certificate and the
\* private key it certifies.
ResolvedSigns ==
    key.loaded /\ key.source \in FromResolver
        => /\ Signer.ok
           /\ Signer.certificate = key.certificate
           /\ \A c \in key.certificate : c.key = Signer.key /\ c.signs

\* A reissued certificate takes effect: a key loaded from a file beside which a
\* certificate lies that the resolver accepts, unless another was named or the container
\* holds one, is loaded with the first such certificate, whatever an earlier
\* load left in the cache.
BesideIsPreferred ==
    [][load.pc = "commit" /\ load'.pc = "rest" /\ load.seen = {folder}
          /\ load.source # "container" /\ Ask.named = {} /\ Beside # {}
       => key'.certificate = Beside]_keyVars
=============================================================================
