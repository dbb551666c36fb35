---------------------------- MODULE MCFrontEnds ----------------------------
(* Small instances of FrontEnds for TLC. *)
EXTENDS FrontEnds

CONSTANTS k1, k2

Cert(k, signs, issue) == [key |-> k, signs |-> signs, issue |-> issue]
Plain(id) == [alias |-> "", id |-> id]
Key(alias, id) == [alias |-> alias, id |-> id]

Container(kind, keys, certs) ==
    [kind |-> kind, pass |-> "pw", keys |-> keys, certs |-> certs, entries |-> << >>]

Entry(alias, id, chain) ==
    [tag |-> 1, alias |-> alias, pass |-> "key", id |-> id, chain |-> chain]

Store == [kind |-> "jks", pass |-> "pw", keys |-> << >>, certs |-> << >>,
          entries |-> << Entry("a", k1, << Cert(k2, TRUE, 1), Cert(k1, TRUE, 1) >>),
                         Entry("b", k2, << Cert(k1, TRUE, 1) >>) >>]

\* A PKCS#12 of a key-agreement key and a signing key, as authorities issue
\* them, without certificates; one with certificates; an IIT container; keys
\* that share an alias; a block that does not decode before a key, and behind
\* one under its alias.
TwoKeys   == Container("p12", << Key("x", k2), Key("y", k1) >>, << >>)
Complete  == Container("p12", << Key("x", k1) >>,
                       << Cert(k1, FALSE, 1), Cert(k1, TRUE, 1) >>)
OneKey    == Container("iit", << Plain(k1) >>, << >>)
PemPair   == Container("pem", << Plain(k1) >>, << Cert(k2, TRUE, 1) >>)
Shared    == Container("p12", << Key("x", k1), Key("x", k2), Key("y", k1) >>, << >>)
Hidden    == Container("p12", << Key("x", k2), Key("x", k1) >>, << >>)
Damaged   == Container("p12", << Key("x", NoKey), Key("y", k1) >>, << >>)
Covered   == Container("p12", << Key("x", k1), Key("x", NoKey) >>, << >>)
Encrypted == Container("der", << Plain(NoKey) >>, << >>)

Request(c, onDisk, store, keyPw, alias, named, authority) ==
    [container |-> c, onDisk |-> onDisk, readable |-> TRUE, store |-> store,
     keyPw |-> keyPw, alias |-> alias, named |-> named, authority |-> authority]

KeyRequests ==
    { Request(TwoKeys, TRUE, "pw", "", "", {}, FALSE),
      Request(TwoKeys, FALSE, "pw", "", "", {}, TRUE),
      Request(TwoKeys, FALSE, "", "pw", "", {Cert(k1, TRUE, 2)}, FALSE),
      Request(TwoKeys, TRUE, "pw", "", "", {Cert(k1, FALSE, 1)}, FALSE),
      Request(TwoKeys, TRUE, "other", "", "", {}, FALSE),
      Request(TwoKeys, TRUE, "other", "", "", {Cert(k1, TRUE, 1)}, FALSE),
      Request(Complete, TRUE, "pw", "", "", {}, FALSE),
      Request(Shared, TRUE, "pw", "", "", {}, FALSE),
      Request(Hidden, TRUE, "pw", "", "", {}, FALSE),
      Request(Hidden, FALSE, "pw", "", "", {Cert(k2, TRUE, 1)}, FALSE),
      Request(Damaged, TRUE, "pw", "", "", {}, FALSE),
      Request(Damaged, FALSE, "pw", "", "", {Cert(k1, TRUE, 1)}, FALSE),
      Request(Covered, TRUE, "pw", "", "", {}, FALSE),
      Request(OneKey, TRUE, "pw", "", "", {}, FALSE),
      Request(OneKey, TRUE, "other", "", "", {}, FALSE),
      Request(PemPair, FALSE, "", "", "", {}, FALSE),
      Request(Encrypted, TRUE, "", "", "", {}, FALSE),
      Request(Store, FALSE, "pw", "key", "a", {}, FALSE),
      Request(Store, FALSE, "pw", "key", "b", {Cert(k2, TRUE, 1)}, FALSE),
      [Request(OneKey, TRUE, "pw", "", "", {}, FALSE) EXCEPT !.readable = FALSE] }

Directory  == << Cert(k2, FALSE, 1), Cert(k2, TRUE, 3) >>
KeyFolders == { << >>, << Cert(k1, FALSE, 1), Cert(k1, TRUE, 1) >>, << Cert(k2, TRUE, 1) >> }
KeyCaches  == { [k \in {k1, k2} |-> {}], [k \in {k1, k2} |-> {Cert(k1, TRUE, 1)}] }
NewIssues  == { Cert(k1, TRUE, 2) }
Offered    == { Cert(k1, TRUE, 1), Cert(k1, FALSE, 1), Cert(k2, FALSE, 1) }

AllSettings ==
    { [workDir |-> TRUE, offline |-> TRUE, ldap |-> FALSE],
      [workDir |-> TRUE, offline |-> FALSE, ldap |-> TRUE],
      [workDir |-> FALSE, offline |-> FALSE, ldap |-> FALSE] }

VerifyFormats == {"cms", "cms-attached", "xades", "xades-t", "pades",
                  "asic-s", "asic-e", "asic-e-xades"}

\* The requests of the three outer interfaces, and the operations that only a
\* C++ caller can name.
VerifyAsks ==
    [via : {"file", "data", "document"}, format : VerifyFormats, sig : BOOLEAN,
     readable : BOOLEAN, evidence : BOOLEAN]
    \cup [via : {"call"}, format : {"VerifyDataBase64", "VerifyDataInternalBase64",
                                    "VerifyDataInternalStr", "VerifyDataInternalBase64Str"},
          sig : {FALSE}, readable : {TRUE}, evidence : {FALSE}]

SessionScripts ==
    { << "verify", "verify" >>,
      << "initialize", "verify", "finalize", "verify" >>,
      << "initialize", "load", "sign" >>, << "load", "load", "sign" >>,
      << "initialize", "load", "reset", "sign" >>, << "sign" >> }
ProgramRuns == { << "verify" >>, << "load", "sign" >>, << "sign" >> }
VerifyRuns  == { << "verify" >> }
=============================================================================
