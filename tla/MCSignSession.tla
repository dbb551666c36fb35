--------------------------- MODULE MCSignSession ---------------------------
(* Instances of SignSession for TLC. *)
EXTENDS SignSession, TLC

\* k1's issuer is in the table of default time-stamping services, k2's is not.
Issuers == [k \in Keys |-> IF k = "k1" THEN "u1" ELSE None]

\* k1's container may hold its certificate; k2's, a PEM, begins with k1's.
Containers == [k \in Keys |-> {None, "k1"}]

Symmetry == Permutations(Threads)
=============================================================================
