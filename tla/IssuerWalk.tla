----------------------------- MODULE IssuerWalk -----------------------------
(***************************************************************************)
(* AiaIssuerFetcher::FetchMissingIssuers: the walk along the caIssuers     *)
(* addresses of certificates, breadth first from the certificates at hand, *)
(* within a number of levels, of addresses and of attempts per address.    *)
(*                                                                         *)
(* A walk is a record of the function's locals; the operators below are    *)
(* the turns of its nested loops.  The requests in between, and the writes *)
(* of what they bring, are steps of EvidenceFetch.                         *)
(*                                                                         *)
(* The store the walk starts from is read file by file, whatever the file: *)
(* an entry of the queue is the bytes of a certificate, or part of them.   *)
(***************************************************************************)
EXTENDS Naturals, Sequences, FiniteSets

CONSTANTS
    Certs,          \* certificates, told apart by StableDerHash
    CaIssuers,      \* CaIssuers[c]: the HTTP addresses c names, without repetition
    MaxDepth,       \* max_depth: 6 in the code
    MaxUrls,        \* max_urls: 16 in the code
    MaxAttempts     \* max_retries: 2 in the code

ASSUME WalkAssumption ==
    MaxDepth \in Nat \ {0} /\ MaxUrls \in Nat \ {0} /\ MaxAttempts \in Nat \ {0}

NoWalk ==
    [stage |-> "none", queue |-> <<>>, seen |-> {}, attempted |-> {}, processed |-> 0,
     levelEnd |-> 0, depth |-> 0, url |-> 1, tries |-> 0, downloaded |-> <<>>,
     found |-> <<>>, legible |-> {}]

\* The locals when the first level begins.  legible: the cut files that still
\* hold the addresses, which ExtractCaIssuersUrls finds by scanning raw bytes.
FirstWalk(seeds, legible) ==
    [NoWalk EXCEPT !.stage = "level",
                   !.queue = seeds,
                   !.seen = {seeds[i] : i \in DOMAIN seeds},
                   !.levelEnd = Len(seeds),
                   !.legible = legible]

\* AppendAiaUrlsFromCertificate: the addresses in the extension of a certificate.
AppendAiaUrlsFromCertificate(c) == CaIssuers[c]

\* The raw scan finds the same in a file that does not decode, if it is there.
ExtractCaIssuersUrls(w, entry) ==
    IF entry.bytes = "whole" \/ entry \in w.legible
      THEN AppendAiaUrlsFromCertificate(entry.of)
      ELSE <<>>

Current(w) == ExtractCaIssuersUrls(w, w.queue[w.processed + 1])

BudgetSpent(w) == Cardinality(w.attempted) >= MaxUrls

(* The three loops: over the addresses of an entry, the entries of a       *)
(* level, and the levels.                                                  *)
InLevel(w) ==
    /\ w.stage = "level"
    /\ w.processed < w.levelEnd
    /\ w.url > 1 \/ ~BudgetSpent(w)

AtUrl(w) == InLevel(w) /\ w.url <= Len(Current(w))
AtEntryEnd(w) == InLevel(w) /\ w.url > Len(Current(w))
AtLevelEnd(w) == w.stage = "level" /\ ~InLevel(w)

\* An address is passed over when the budget is spent or it was tried before.
TryUrl(w) ==
    IF BudgetSpent(w) \/ Current(w)[w.url] \in w.attempted
      THEN [w EXCEPT !.url = @ + 1]
      ELSE [w EXCEPT !.url = @ + 1, !.stage = "ask", !.tries = 0,
                     !.attempted = @ \cup {Current(w)[w.url]}]

\* The address that is being asked: the one just before the position.
Asked(w) == Current(w)[w.url - 1]

NextEntry(w) == [w EXCEPT !.processed = @ + 1, !.url = 1]

LevelsLeft(w) ==
    /\ w.processed < Len(w.queue)
    /\ w.depth + 1 < MaxDepth
    /\ ~BudgetSpent(w)

NextLevel(w) ==
    [w EXCEPT !.depth = @ + 1,
              !.levelEnd = Len(w.queue),
              !.stage = IF LevelsLeft(w) THEN "level" ELSE "done"]

\* What an answer makes of the walk: another attempt, the next address, or
\* the certificates ParseDownloadedCertificates finds in the body.
Answered(w, ok, certs) ==
    IF ok THEN [w EXCEPT !.stage = "save", !.downloaded = certs]
    ELSE IF w.tries < MaxAttempts THEN w
    ELSE [w EXCEPT !.stage = "level"]

\* The next downloaded certificate, a new one or a duplicate.
IsDuplicate(w, held) == held \in w.seen

Drop(w) == [w EXCEPT !.downloaded = Tail(@)]

\* Mutated Keep: what was found is not remembered.
KeepUnseen(w, held) ==
    [Drop(w) EXCEPT !.found = Append(@, held),
                    !.queue = Append(@, held)]

Keep(w, held) ==
    [Drop(w) EXCEPT !.seen = @ \cup {held},
                    !.found = Append(@, held),
                    !.queue = Append(@, held)]

Saved(w) == [w EXCEPT !.stage = "level"]
-----------------------------------------------------------------------------
(* The budgets hold at every moment.                                       *)
WithinBudgets(w) ==
    /\ Cardinality(w.attempted) <= MaxUrls
    /\ w.depth <= MaxDepth
    /\ w.tries <= MaxAttempts

(* What the walk returns is new: no certificate twice, none it started     *)
(* from, each of them whole.                                               *)
ReturnsNew(w) ==
    LET seeds == Len(w.queue) - Len(w.found)
    IN  \A i \in DOMAIN w.found :
            /\ w.found[i].bytes = "whole"
            /\ \A j \in 1 .. (seeds + i - 1) : w.queue[j] # w.found[i]

(* A walk that ends short of its budgets has asked every address of every  *)
(* certificate it started from or met.                                     *)
LeavesNothing(w) ==
    w.stage = "done" /\ ~BudgetSpent(w) /\ w.depth < MaxDepth =>
        \A i \in DOMAIN w.queue :
            \A u \in DOMAIN ExtractCaIssuersUrls(w, w.queue[i]) :
                ExtractCaIssuersUrls(w, w.queue[i])[u] \in w.attempted

(* The signer's own addresses come first: they are asked whatever else is  *)
(* in the store, as far as the budget of addresses goes.                   *)
SignerFirst(w) ==
    w.stage = "done" /\ Len(CaIssuers[w.queue[1].of]) <= MaxUrls =>
        \A u \in DOMAIN CaIssuers[w.queue[1].of] : CaIssuers[w.queue[1].of][u] \in w.attempted
=============================================================================
