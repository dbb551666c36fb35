--------------------------- MODULE MCEvidenceFetch ---------------------------
(* Two validations that share a distribution point, one of which also asks *)
(* a service, or one that looks for the issuers of its signer.             *)
EXTENDS EvidenceFetch, TLC

CONSTANTS f1, f2, leaf, sub, ca

DistributionPoint == {[scheme |-> "https", host |-> "name"]}
Service == {[scheme |-> "http", host |-> "literal"]}

MCNeeds == {(f1 :> {"CRLs", "answers"} @@ f2 :> {"CRLs"}), (f1 :> {"issuers"} @@ f2 :> {})}

MCCerts == {leaf, sub, ca}

Address(scheme, host) == [scheme |-> scheme, host |-> host]

(* Three levels, more addresses than the budget, and one named twice.      *)
MCCaIssuers ==
    leaf :> <<Address("http", "literal")>>
      @@ sub :> <<Address("https", "literal"), Address("http", "literal"),
                  Address("http", "refused")>>
      @@ ca :> <<Address("http", "name")>>

MCBundles == {<<sub>>, <<leaf, ca>>}
MCPresented == {<<leaf>>, <<leaf, sub>>}
=============================================================================
