-------------------------- MODULE MCVerifySession --------------------------
(* Small instances of VerifySession for TLC. *)
EXTENDS VerifySession, TLC

\* Threads are interchangeable; used by the runs without liveness properties.
Symmetry == Permutations(Threads)

\* The *Str entry points name the report without the ownership check: a call
\* of theirs is followed while no other call is under way.
StringCallsAlone ==
    \A t, u \in Threads :
        frame[t].entry \in StrEntries /\ ~At(t, "idle") => t = u \/ At(u, "idle")
=============================================================================
