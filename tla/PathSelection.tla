---------------------------- MODULE PathSelection ---------------------------
(***************************************************************************)
(* PathEngine: the trust anchor sets a policy lets the validation try      *)
(* (PathBuilder), what the chain search says of each (PathValidator), and  *)
(* the one the verdict rests on (PathSelector).  The signer and the time   *)
(* stamp authority go through the same three steps.                        *)
(*                                                                         *)
(* A store is described by whether it holds any certificate.               *)
(***************************************************************************)
EXTENDS Naturals, Sequences, FiniteSetsExt, ChainVerdict

AnchorPolicies ==
    {"CurrentTLOnly", "HistoricalAtSigningTime", "ExplicitLegacyAnchorBundle",
     "CustomTrustStore", "ForensicAllPossible"}

\* PathCandidate; anchors says whether its set of trust anchors is not empty.
MakeCandidate(id, anchors, historical) ==
    [id |-> id, anchors |-> anchors, historical |-> historical]

AddHistoricalCandidateIfAllowed(policy, stores) ==
    IF policy.allowHistorical /\ stores.historical
    THEN <<MakeCandidate("historical-tl", TRUE, TRUE)>>
    ELSE <<>>

\* PathBuilder::Build.  Neither caller fills the custom trust anchors.
Build(policy, stores) ==
    CASE policy.anchors = "CurrentTLOnly" ->
            <<MakeCandidate("current-tl", stores.current, FALSE)>>
      [] policy.anchors \in {"ExplicitLegacyAnchorBundle", "HistoricalAtSigningTime"} ->
            <<MakeCandidate("current-tl", stores.current, FALSE)>>
                \o AddHistoricalCandidateIfAllowed(policy, stores)
      [] policy.anchors = "CustomTrustStore" ->
            <<MakeCandidate("custom-trust-store", FALSE, FALSE)>>
      [] policy.anchors = "ForensicAllPossible" ->
            (IF stores.current \/ ~stores.historical
             THEN <<MakeCandidate("forensic-current-tl", stores.current, FALSE)>> ELSE <<>>)
            \o (IF stores.historical
                THEN <<MakeCandidate("forensic-historical-tl", TRUE, TRUE)>> ELSE <<>>)

\* PathValidator::Validate: what the chain search may find for a candidate.
PathResults(candidate, presented) ==
    {[id |-> candidate.id, anchors |-> candidate.anchors, historical |-> candidate.historical,
      status |-> v.status, timeValid |-> v.timeValid] :
        v \in ChainVerdicts(presented, candidate.anchors)}

\* One result for each candidate.  The candidates share the intermediate
\* certificates but not the anchors, so their results are independent.
AllPathResults(candidates, presented) ==
    {rs \in [DOMAIN candidates -> UNION {PathResults(candidates[i], presented) :
                                            i \in DOMAIN candidates}] :
        \A i \in DOMAIN candidates : rs[i] \in PathResults(candidates[i], presented)}

Trusted(r) == r.status = "Trusted"

\* The result PathSelection holds when no candidate may decide.
NoPath ==
    [id |-> "", anchors |-> FALSE, historical |-> FALSE, status |-> "NotChecked",
     timeValid |-> FALSE]

IsAuthoritativeCandidateAllowed(r, policy) ==
    ~r.historical \/ policy.allowHistorical

\* PathSelector::Select: the first trusted candidate that may decide, else the
\* first that may decide; its reason string is left out.
Select(results, policy) ==
    LET allowed == {i \in DOMAIN results : IsAuthoritativeCandidateAllowed(results[i], policy)}
        trusted == {i \in allowed : Trusted(results[i])}
    IN  IF trusted # {} THEN results[Min(trusted)]
        ELSE IF allowed # {} THEN results[Min(allowed)]
        ELSE NoPath

PathResult ==
    [id : STRING, anchors : BOOLEAN, historical : BOOLEAN, status : ChainStatuses,
     timeValid : BOOLEAN]
=============================================================================
