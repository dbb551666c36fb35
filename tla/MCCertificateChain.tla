------------------------- MODULE MCCertificateChain -------------------------
(***************************************************************************)
(* Instances of CertificateChain: every graph of signatures over two        *)
(* candidates that may issue each other and themselves, and graphs over     *)
(* three candidates whose paths have different lengths.                     *)
(***************************************************************************)
EXTENDS CertificateChain

CONSTANTS signer, one, two, three, root

MCCert == {signer, one, two, three, root}

Profile ==
    [good    |-> [valid |-> TRUE,  ca |-> TRUE,  sign |-> TRUE,  len |-> Unlimited],
     expired |-> [valid |-> FALSE, ca |-> TRUE,  sign |-> TRUE,  len |-> Unlimited],
     leaf    |-> [valid |-> TRUE,  ca |-> FALSE, sign |-> TRUE,  len |-> Unlimited],
     noSign  |-> [valid |-> TRUE,  ca |-> TRUE,  sign |-> FALSE, len |-> Unlimited],
     len0    |-> [valid |-> TRUE,  ca |-> TRUE,  sign |-> TRUE,  len |-> 0],
     len1    |-> [valid |-> TRUE,  ca |-> TRUE,  sign |-> TRUE,  len |-> 1]]

Make(edges, prof, shape) ==
    [presented    |-> "decoded",
     anchors      |-> shape.anchors,
     embedded     |-> shape.embedded,
     intermediate |-> shape.intermediate,
     aia          |-> shape.aia,
     decodable    |-> shape.decodable,
     issued       |-> edges,
     valid        |-> {x \in MCCert : Profile[prof[x]].valid},
     ca           |-> {x \in MCCert : Profile[prof[x]].ca},
     certSign     |-> {x \in MCCert : Profile[prof[x]].sign},
     pathLen      |-> [x \in MCCert |-> Profile[prof[x]].len]]

Two == [anchors |-> <<root>>, embedded |-> <<one>>, intermediate |-> <<two>>, aia |-> <<>>,
        decodable |-> MCCert]
Three == [Two EXCEPT !.aia = <<three>>]
OverBudget == [Two EXCEPT !.embedded = <<one, one>>, !.intermediate = <<three>>, !.aia = <<two>>]

With(pa, pb, pc0, pr, ps) ==
    [x \in MCCert |-> CASE x = one -> pa [] x = two -> pb [] x = three -> pc0
                        [] x = root -> pr [] OTHER -> ps]

PairInputs ==
    {Make(({signer} \X is) \cup ({one} \X ia) \cup ({two} \X ib),
          With(pa, pb, "good", pr, "good"), Two) :
        is \in SUBSET {one, two, root}, ia \in SUBSET {two, root}, ib \in SUBSET {one, root},
        pa \in {"good", "expired", "leaf", "len0"},
        pb \in {"good", "expired", "noSign", "len0"},
        pr \in {"good", "expired"}}

TripleInputs ==
    {Make(({signer} \X is) \cup ({one} \X ia) \cup ({two} \X ib) \cup ({three} \X ic),
          With(pa, pb, pc0, "good", "good"), Three) :
        is \in SUBSET {one, two, three}, ia \in SUBSET {two, three}, ib \in SUBSET {three, root},
        ic \in SUBSET {one, root},
        pa \in {"good", "len0"}, pb \in {"good", "len0"}, pc0 \in {"len0", "len1"}}

OverBudgetInputs ==
    {Make(({signer} \X is) \cup ({one} \X ia) \cup ({two} \X {root}),
          With("good", "good", "expired", "good", "good"), OverBudget) :
        is \in SUBSET {one, two, three}, ia \in SUBSET {two, root}}

EdgeInputs ==
    {[Make({<<signer, root>>, <<signer, one>>, <<one, root>>}, With("good", "good", "good", "good", ps), sh)
        EXCEPT !.presented = pr] :
        ps \in {"good", "expired"}, pr \in {"missing", "undecodable", "decoded"},
        sh \in {Two, [Two EXCEPT !.anchors = <<>>], [Two EXCEPT !.anchors = <<two, root>>],
                [Two EXCEPT !.decodable = {signer, one}], [Two EXCEPT !.decodable = {signer, root}]}}

MCInputs == PairInputs \cup TripleInputs \cup OverBudgetInputs \cup EdgeInputs
=============================================================================
