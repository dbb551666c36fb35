----------------------------- MODULE ReportSlot -----------------------------
(***************************************************************************)
(* What a session promises about its one verification report, whatever the *)
(* number of threads: a call writes the report only while it runs, a write *)
(* makes the report that call's alone, and between writes it can only be   *)
(* cleared.  In particular the report of a call that has returned does not *)
(* change until another call replaces it as a whole.                       *)
(***************************************************************************)
EXTENDS Naturals

CONSTANTS CallIds, Blank

VARIABLES content, authors, open

slot == <<content, authors, open>>

Init == content = Blank /\ authors = {} /\ open = {}

Begin(c) ==
    /\ c \notin open
    /\ open' = open \cup {c}
    /\ UNCHANGED <<content, authors>>

\* A first commit, or an amendment of c's own report; possibly c's last step.
Write(c) ==
    /\ c \in open
    /\ content' # Blank
    /\ authors' = {c}
    /\ open' \in {open, open \ {c}}

Clear == content' = Blank /\ authors' = {} /\ open' = open

End(c) ==
    /\ c \in open
    /\ open' = open \ {c}
    /\ UNCHANGED <<content, authors>>

Next == (\E c \in CallIds : Begin(c) \/ Write(c) \/ End(c)) \/ Clear

Spec == Init /\ [][Next]_slot
=============================================================================
