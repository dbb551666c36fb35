-------------------------- MODULE PolicyCacheProofs --------------------------
(***************************************************************************)
(* The trust-list cache under one writer, for any number of calls, faults  *)
(* and crashes, any trust lists and policies: the artefacts in place come  *)
(* from one call, success is complete and the old cache survives failures. *)
(***************************************************************************)
EXTENDS PolicyCache, TLAPS

\* A walk visits nothing twice; what it has visited before position k.
Walk(seq) == \A i, j \in 1 .. Len(seq) : seq[i] = seq[j] => i = j
Seen(seq, k) == {seq[j] : j \in 1 .. k - 1}

\* Two orders without a common item, one after the other.
LEMMA ConcatWalk ==
    ASSUME NEW T, NEW s \in Seq(T), NEW t \in Seq(T), Walk(s), Walk(t),
           Range(s) \cap Range(t) = {}
    PROVE  Walk(s \o t) /\ Range(s \o t) = Range(s) \cup Range(t) /\ s \o t \in Seq(T)
<1> DEFINE m == Len(s)
           n == Len(t)
           q == s \o t
<1>1. /\ m \in Nat /\ n \in Nat /\ Len(q) = m + n /\ q \in Seq(T)
      /\ \A i \in 1 .. m : q[i] = s[i] /\ s[i] \in Range(s)
      /\ \A i \in 1 .. n : t[i] \in Range(t)
      /\ DOMAIN q = 1 .. m + n /\ DOMAIN s = 1 .. m /\ DOMAIN t = 1 .. n
  BY DEF Range
<1>2. \A i \in m + 1 .. m + n : q[i] = t[i - m] /\ i - m \in 1 .. n
  OBVIOUS
<1> HIDE DEF m, n, q
<1>3. Walk(q)
  <2> SUFFICES ASSUME NEW i \in 1 .. m + n, NEW j \in 1 .. m + n, q[i] = q[j] PROVE i = j
    BY <1>1, Zenon DEF Walk
  <2>1. CASE i \in 1 .. m /\ j \in 1 .. m
    BY <1>1, <2>1, Zenon DEF Walk, m
  <2>2. CASE i \in m + 1 .. m + n /\ j \in m + 1 .. m + n
    <3>1. i - m = j - m
      BY <1>2, <2>2, Zenon DEF Walk, n
    <3> QED
      BY <1>1, <3>1
  <2>3. CASE i \in 1 .. m /\ j \in m + 1 .. m + n
    BY <1>1, <1>2, <2>3, Zenon
  <2>4. CASE j \in 1 .. m /\ i \in m + 1 .. m + n
    BY <1>1, <1>2, <2>4, Zenon
  <2> QED
    BY <1>1, <2>1, <2>2, <2>3, <2>4
<1>4. \A i \in 1 .. n : i + m \in m + 1 .. m + n /\ (i + m) - m = i
  BY <1>1
<1>5. Range(q) = Range(s) \cup Range(t)
  <2>1. ASSUME NEW x \in Range(q) PROVE x \in Range(s) \cup Range(t)
    <3>1. PICK i \in 1 .. m + n : q[i] = x
      BY <1>1, Zenon DEF Range
    <3>2. i \in 1 .. m \/ i \in m + 1 .. m + n
      BY <1>1
    <3> QED
      BY <1>1, <1>2, <3>1, <3>2, Zenon
  <2>2. ASSUME NEW x \in Range(s) PROVE x \in Range(q)
    <3>1. PICK i \in 1 .. m : s[i] = x /\ i \in 1 .. m + n
      BY <1>1 DEF Range
    <3> QED
      BY <1>1, <3>1, Zenon DEF Range
  <2>3. ASSUME NEW x \in Range(t) PROVE x \in Range(q)
    <3>1. PICK i \in 1 .. n : t[i] = x
      BY <1>1, Zenon DEF Range
    <3>2. q[i + m] = x /\ i + m \in 1 .. m + n
      BY <1>1, <1>2, <1>4, <3>1
    <3> QED
      BY <1>1, <3>2, Zenon DEF Range
  <2> QED
    BY <2>1, <2>2, <2>3, Zenon
<1> QED
  BY <1>1, <1>3, <1>5, Zenon DEF q

\* One step of a walk.
LEMMA WalkStep ==
    ASSUME NEW T, NEW seq \in Seq(T), Walk(seq), NEW k \in 1 .. Len(seq)
    PROVE  /\ seq[k] \in Range(seq) /\ seq[k] \notin Seen(seq, k)
           /\ Seen(seq, 1) = {} /\ Seen(seq, k + 1) = Seen(seq, k) \cup {seq[k]}
           /\ Seen(seq, k) \subseteq Range(seq)
           /\ k = Len(seq) => Seen(seq, k + 1) = Range(seq)
<1>1. k \in Nat /\ Len(seq) \in Nat /\ DOMAIN seq = 1 .. Len(seq)
  OBVIOUS
<1>2. 1 .. (k + 1) - 1 = (1 .. k - 1) \cup {k}
  BY <1>1
<1>3. seq[k] \notin Seen(seq, k)
  BY <1>1 DEF Walk, Seen
<1>4. Seen(seq, k + 1) = Seen(seq, k) \cup {seq[k]}
  BY <1>2, Zenon DEF Seen
<1>5. Seen(seq, 1) = {} /\ Seen(seq, k) \subseteq Range(seq) /\ seq[k] \in Range(seq)
  BY <1>1 DEF Seen, Range
<1>6. k = Len(seq) => Seen(seq, k + 1) = Range(seq)
  BY <1>1 DEF Seen, Range
<1> QED
  BY <1>3, <1>4, <1>5, <1>6, Zenon

Names == {"TL-UA", "TL-UA-DSTU", "TL-UA-EC", "state", "metadata",
          "trust-store", "historical-trust-store", "tsa-store", "historical-tsa-store"}
FileNames(url) == Range(Xmls(url)) \cup {"state", "metadata"}

\* The walks of the code cover the artefacts of the configured URL once.
LEMMA Orders ==
    ASSUME NEW u \in {"family", "single"}
    PROVE  /\ StoreSet = {"trust-store", "historical-trust-store", "tsa-store", "historical-tsa-store"}
           /\ Range(Xmls(u)) = IF u = "family" THEN {"TL-UA", "TL-UA-DSTU", "TL-UA-EC"} ELSE {"TL-UA-EC"}
           /\ Len(Xmls(u)) = IF u = "family" THEN 3 ELSE 1
           /\ Stores \in Seq(Names) /\ Walk(Stores) /\ Range(Stores) = StoreSet
           /\ Order(u) \in Seq(Names) /\ Walk(Order(u))
           /\ Range(Order(u)) = FileNames(u) \cup StoreSet
           /\ CleanOrder(u) \in Seq(Names) /\ Walk(CleanOrder(u))
           /\ Range(CleanOrder(u)) = FileNames(u) \cup StoreSet
           /\ RestoreOrder(u) \in Seq(Names) /\ Walk(RestoreOrder(u))
           /\ Range(RestoreOrder(u)) = FileNames(u) \cup StoreSet
           /\ StageOrder(u) \in Seq(Names) /\ Walk(StageOrder(u)) /\ Range(StageOrder(u)) = FileNames(u)
<1> DEFINE sm == <<"state", "metadata">>
           ms == <<"metadata", "state">>
           st == <<"historical-tsa-store", "tsa-store", "historical-trust-store", "trust-store">>
           four == {"trust-store", "historical-trust-store", "tsa-store", "historical-tsa-store"}
           x == Xmls(u)
           xs == IF u = "family" THEN {"TL-UA", "TL-UA-DSTU", "TL-UA-EC"} ELSE {"TL-UA-EC"}
<1>1. sm \in Seq(Names) /\ Walk(sm) /\ Range(sm) = {"state", "metadata"}
  BY DEF Names, Walk, Range
<1>2. ms \in Seq(Names) /\ Walk(ms) /\ Range(ms) = {"state", "metadata"}
  BY DEF Names, Walk, Range
<1>3. st \in Seq(Names) /\ Walk(st) /\ Range(st) = four
  BY DEF Names, Walk, Range
<1>4. Stores \in Seq(Names) /\ Walk(Stores) /\ Range(Stores) = four /\ StoreSet = four
  BY DEF Names, Walk, Range, Stores, StoreSet
<1>5. x \in Seq(Names) /\ Walk(x) /\ Range(x) = xs /\ Len(x) = IF u = "family" THEN 3 ELSE 1
  <2>1. CASE u = "family"
    BY <2>1 DEF Names, Walk, Range, Xmls
  <2>2. CASE u = "single"
    BY <2>2 DEF Names, Walk, Range, Xmls
  <2> QED
    BY <2>1, <2>2, Zenon
<1>6. xs \cap {"state", "metadata"} = {} /\ xs \cap four = {} /\ four \cap {"state", "metadata"} = {}
  BY Zenon
<1> HIDE DEF x, xs, four, sm, ms, st
<1>7. Fixed \in Seq(Names) /\ Walk(Fixed) /\ Range(Fixed) = {"state", "metadata"} \cup four
  <2>1. Fixed = sm \o Stores
    BY Zenon DEF Fixed, sm
  <2>2. Range(sm) \cap Range(Stores) = {}
    BY <1>1, <1>4, <1>6, Zenon
  <2> QED
    BY <1>1, <1>4, <2>1, <2>2, ConcatWalk
<1>8. Order(u) \in Seq(Names) /\ Walk(Order(u)) /\ Range(Order(u)) = xs \cup ({"state", "metadata"} \cup four)
  BY <1>5, <1>6, <1>7, ConcatWalk DEF Order, x
<1>9. /\ CleanOrder(u) \in Seq(Names) /\ Walk(CleanOrder(u))
      /\ Range(CleanOrder(u)) = ({"state", "metadata"} \cup four) \cup xs
  BY <1>5, <1>6, <1>7, ConcatWalk DEF CleanOrder, x
<1>10. st \o ms \in Seq(Names) /\ Walk(st \o ms) /\ Range(st \o ms) = four \cup {"state", "metadata"}
  BY <1>2, <1>3, <1>6, ConcatWalk
<1>11. RestoreOrder(u) = (st \o ms) \o x
  BY Zenon DEF RestoreOrder, st, ms, x
<1>12. /\ RestoreOrder(u) \in Seq(Names) /\ Walk(RestoreOrder(u))
       /\ Range(RestoreOrder(u)) = (four \cup {"state", "metadata"}) \cup xs
  <2> DEFINE q == st \o ms
  <2>1. Range(q) \cap Range(x) = {}
    BY <1>5, <1>6, <1>10, Zenon
  <2>2. q \in Seq(Names) /\ Walk(q) /\ Range(q) = four \cup {"state", "metadata"} /\ RestoreOrder(u) = q \o x
    BY <1>10, <1>11, Zenon
  <2> HIDE DEF q
  <2> QED
    BY <1>5, <2>1, <2>2, ConcatWalk
<1>13. /\ StageOrder(u) \in Seq(Names) /\ Walk(StageOrder(u))
       /\ Range(StageOrder(u)) = xs \cup {"state", "metadata"}
  <2>1. StageOrder(u) = x \o sm
    BY Zenon DEF StageOrder, x, sm
  <2>2. Range(x) \cap Range(sm) = {}
    BY <1>1, <1>5, <1>6, Zenon
  <2> QED
    BY <1>1, <1>5, <2>1, <2>2, ConcatWalk
<1> QED
  BY <1>4, <1>5, <1>8, <1>9, <1>12, <1>13, Zenon DEF FileNames, xs, x, four

\* The items of the cache, and those every synchronisation replaces.
LEMMA TheItems ==
    /\ Items = Names /\ StoreSet = {"trust-store", "historical-trust-store", "tsa-store", "historical-tsa-store"}
    /\ CoreItems = Names \ {"TL-UA", "TL-UA-DSTU"}
    /\ \A u \in {"family", "single"} : CoreItems \subseteq Range(Order(u)) /\ Range(Order(u)) \subseteq Items
<1>1. Items = FileNames("family") \cup StoreSet /\ CoreItems = FileNames("single") \cup StoreSet
  BY Orders, Zenon DEF Items, CoreItems
<1>2. /\ FileNames("family") = {"TL-UA", "TL-UA-DSTU", "TL-UA-EC", "state", "metadata"}
      /\ FileNames("single") = {"TL-UA-EC", "state", "metadata"}
      /\ StoreSet = {"trust-store", "historical-trust-store", "tsa-store", "historical-tsa-store"}
  BY Orders, Zenon DEF FileNames
<1>3. \A u \in {"family", "single"} : Range(Order(u)) = FileNames(u) \cup StoreSet
  BY Orders, Zenon
<1> QED
  BY <1>1, <1>2, <1>3 DEF Names

-----------------------------------------------------------------------------
Disks == [Items -> SUBSET Int]
Frame ==
  [pc : Phases, k : Nat, gen : Nat, url : {"family", "single"},
   policy : {"Disabled", "PreferAvailable", "Require"}, lists : Seq(Lists),
   backed : SUBSET Items, sig : Statuses, succeeded : BOOLEAN,
   cache_status : {"not-checked", "fresh", "unavailable"}, last_sync : Int,
   left : SUBSET Items, stale : SUBSET Items, undeleted : SUBSET Items,
   unrestored : SUBSET Items, before : Disks]

\* The artefacts a call writes.
Affected(f) == Range(Order(f.url))

\* Every file is absent or the bytes of one call; what the core holds comes from one call, but
\* for the artefacts y that a removal left behind; and without a crash, and with one fault at
\* most, nothing of the last installed cache g is missing.
Whole(c) == \A i \in Items \ StoreSet : c[i] = Absent \/ \E n \in 1 .. MaxSyncs : c[i] = {n}
Uniform(c, y) ==
  \A i, j \in CoreItems \ y : c[i] \notin {Absent, Empty} /\ c[j] \notin {Absent, Empty} => c[i] = c[j]
Keeps(c, g, n, x) == x = 0 /\ n <= 1 => \A i \in CoreItems : g[i] # Absent => g[i] = c[i]
Sound(c, g, n, x, y) == Whole(c) /\ Uniform(c, y) /\ Keeps(c, g, n, x)

\* After n faults and x crashes: there was one, and there was more than one fault.
Disturbed(n, x) == n >= 1 \/ x # 0
Twice(n, x) == n >= 2 \/ x # 0

\* Without a disturbance there is nothing under the ".tmp" and ".bak" names.
Clear(t, b, n, x, S) == Disturbed(n, x) \/ \A i \in S : t[i] = Absent /\ b[i] = Absent

\* The lists of a call that reached the write: each one has an anchor.
Loaded(f) ==
  /\ f.lists # <<>>
  /\ \A k \in 1 .. Len(f.lists) : f.lists[k] \in Lists /\ HasMaterializableTrustAnchor(f.lists[k])

\* The content v is what the call stages for an artefact, in a store perhaps beside older
\* certificates that the clean-up did not remove.
StagedTo(f, i, v) == v = Staged(f, i) \/ (i \in f.stale /\ v # Absent /\ Staged(f, i) \subseteq v)

\* What stands under the ".tmp" names when the installation starts.
Ready(f, t, n, S) == \A i \in S : StagedTo(f, i, t[i]) \/ (t[i] = Absent /\ n >= 1)

\* What was backed up of the artefacts S, all the rest of which were absent.
BackedUp(f, b, S) ==
  /\ f.backed \subseteq S
  /\ \A i \in S \ f.backed : f.before[i] = Absent
  /\ \A i \in f.backed : f.before[i] # Absent /\ b[i] = f.before[i]

\* The failed removals of a call are on record.
Recorded(f, n, x, y) ==
  /\ f.stale \subseteq StoreSet \cap y /\ f.undeleted \subseteq y
  /\ f.stale # {} \/ f.undeleted # {} => Twice(n, x)

Untouched(f, c) == c = f.before /\ f.backed = {} /\ f.unrestored = {} /\ f.undeleted = {}

AtDownload(f, c) == Untouched(f, c) /\ f.stale = {} /\ (f.lists # <<>> => Loaded(f))
AtClean(f, c, t, b, n, x) ==
  /\ Untouched(f, c) /\ Loaded(f)
  /\ f.k \in 1 .. Len(CleanOrder(f.url))
  /\ \A i \in Seen(CleanOrder(f.url), f.k) :
       /\ i \in StoreSet => t[i] = Absent \/ i \in f.stale
       /\ b[i] = Absent \/ Twice(n, x)
AtStage(f, c, t, b, n, x) ==
  /\ Untouched(f, c) /\ Loaded(f)
  /\ f.k \in 1 .. Len(StageOrder(f.url))
  /\ \A i \in Affected(f) :
       /\ b[i] = Absent \/ Twice(n, x)
       /\ i \in Seen(StageOrder(f.url), f.k) => t[i] = {f.gen}
       /\ i \in StoreSet => t[i] = Absent \/ i \in f.stale
AtMkdir(f, c, t, b, n, x) ==
  /\ Untouched(f, c) /\ Loaded(f)
  /\ \A i \in Affected(f) :
       /\ b[i] = Absent \/ Twice(n, x)
       /\ IF i \in StoreSet THEN t[i] = Absent \/ i \in f.stale ELSE t[i] = {f.gen}
AtCerts(f, c, t, b, n, x) ==
  /\ Untouched(f, c) /\ Loaded(f)
  /\ f.k \in 1 .. Len(Stores)
  /\ \A i \in Affected(f) :
       /\ b[i] = Absent \/ Twice(n, x)
       /\ \/ i \in StoreSet /\ t[i] = Absent /\ n >= 1
          \/ /\ i \in StoreSet \ Seen(Stores, f.k)
             /\ t[i] = Empty \/ (i \in f.stale /\ t[i] # Absent)
          \/ i \notin StoreSet \ Seen(Stores, f.k) /\ StagedTo(f, i, t[i])
AtBackup(f, c, t, b, n, x) ==
  /\ Loaded(f) /\ f.unrestored = {} /\ f.undeleted = {}
  /\ f.k \in 1 .. Len(Order(f.url))
  /\ Ready(f, t, n, Affected(f))
  /\ BackedUp(f, b, Seen(Order(f.url), f.k))
  /\ \A i \in Affected(f) \ f.backed : b[i] = Absent \/ Twice(n, x)
  /\ \A i \in Items : c[i] = IF i \in f.backed THEN Absent ELSE f.before[i]
AtInstall(f, c, t, b, n) ==
  /\ Loaded(f) /\ f.unrestored = {} /\ f.undeleted = {}
  /\ f.k \in 1 .. Len(Order(f.url))
  /\ Ready(f, t, n, Affected(f) \ Seen(Order(f.url), f.k))
  /\ BackedUp(f, b, Affected(f))
  /\ \A i \in Items : IF i \in Seen(Order(f.url), f.k) THEN StagedTo(f, i, c[i])
                      ELSE c[i] = IF i \in Affected(f) THEN Absent ELSE f.before[i]
AtUndo(f, c, b, n) ==
  /\ f.unrestored = {} /\ n >= 1
  /\ f.k \in 1 .. Len(CleanOrder(f.url))
  /\ BackedUp(f, b, Affected(f))
  /\ \A i \in Items :
       IF i \in Affected(f)
       THEN \/ c[i] = Absent \/ i \in f.undeleted
            \/ i \notin Seen(CleanOrder(f.url), f.k) /\ StagedTo(f, i, c[i])
       ELSE c[i] = f.before[i]
\* The rollback has passed the artefacts S.
RestoredTo(f, c, b, n, x, S) ==
  /\ Disturbed(n, x) /\ (f.unrestored # {} => Twice(n, x))
  /\ f.backed \subseteq Affected(f) /\ f.unrestored \subseteq f.backed \cap S
  /\ \A i \in f.backed : f.before[i] # Absent
  /\ \A i \in Items : IF i \in f.backed /\ i \notin S \ f.unrestored
                      THEN (c[i] = Absent \/ i \in f.undeleted) /\ b[i] = f.before[i]
                      ELSE c[i] = f.before[i] \/ (i \in f.undeleted /\ f.before[i] = Absent)
AtRestore(f, c, b, n, x) ==
  /\ f.k \in 1 .. Len(RestoreOrder(f.url))
  /\ RestoredTo(f, c, b, n, x, Seen(RestoreOrder(f.url), f.k))
AtFinish(f, c, t, b, n, x) ==
  /\ Loaded(f) /\ f.undeleted = {} /\ f.k \in 1 .. Len(Order(f.url))
  /\ \A i \in Affected(f) : StagedTo(f, i, c[i])
  /\ Clear(t, b, n, x, Seen(Order(f.url), f.k))
Succeeded(f, c, g) ==
  Loaded(f) /\ f.undeleted = {} /\ g = c /\ \A i \in Affected(f) : StagedTo(f, i, c[i])
Failed(f, c, b, n, x) ==
  /\ f.unrestored # {} => Twice(n, x)
  /\ f.cache_status = "fresh" => {f.last_sync} = c["state"]
  /\ \A i \in Items : IF i \in f.unrestored THEN b[i] = f.before[i]
                      ELSE c[i] = f.before[i] \/ (i \in f.undeleted /\ f.before[i] = Absent)

PhaseOK(f, c, t, b, g, n, x) ==
  /\ f.pc \in {"download", "layout"} => AtDownload(f, c)
  /\ f.pc = "layout" => Loaded(f)
  /\ f.pc = "clean" => AtClean(f, c, t, b, n, x)
  /\ f.pc = "stage" => AtStage(f, c, t, b, n, x)
  /\ f.pc = "mkdir" => AtMkdir(f, c, t, b, n, x)
  /\ f.pc = "certs" => AtCerts(f, c, t, b, n, x)
  /\ f.pc = "backup" => AtBackup(f, c, t, b, n, x)
  /\ f.pc = "install" => AtInstall(f, c, t, b, n)
  /\ f.pc = "undo" => AtUndo(f, c, b, n)
  /\ f.pc = "restore" => AtRestore(f, c, b, n, x)
  /\ f.pc = "finish" => AtFinish(f, c, t, b, n, x)
  /\ f.pc = "return" /\ f.succeeded => Succeeded(f, c, g)
  /\ f.pc = "return" /\ ~f.succeeded => Failed(f, c, b, n, x)

\* The phases between the clean-up and the return, and what they leave alone.
Writing == {"stage", "mkdir", "certs", "backup", "install", "undo", "restore", "finish"}
Aside(f) == IF f.pc \in Writing THEN Items \ Affected(f) ELSE Items

\* The inductive invariant, for the frame f of the only writer.
CacheInv(f, c, t, b, g, n, x, y) ==
  /\ Whole(c) /\ Uniform(c, y) /\ Clear(t, b, n, x, Aside(f))
  /\ f.pc = "idle" => Keeps(c, g, n, x)
  /\ f.pc # "idle" => f.gen \in 1 .. MaxSyncs /\ Recorded(f, n, x, y)
  /\ f.pc # "idle" /\ ~(f.pc = "return" /\ f.succeeded) => Sound(f.before, g, n, x, y)
  /\ PhaseOK(f, c, t, b, g, n, x)

\* What every phase of a call keeps.
Held(f, c, t, b, g, n, x, y) ==
  /\ Whole(c) /\ Uniform(c, y) /\ Clear(t, b, n, x, Aside(f))
  /\ f.gen \in 1 .. MaxSyncs /\ Recorded(f, n, x, y) /\ Sound(f.before, g, n, x, y)

\* The fields of two frames of one call that the invariant looks at.
Alike(f, h) ==
  /\ h.gen = f.gen /\ h.url = f.url /\ h.lists = f.lists /\ h.before = f.before
  /\ h.backed = f.backed /\ h.unrestored = f.unrestored
Same(f, h) == Alike(f, h) /\ h.stale = f.stale /\ h.undeleted = f.undeleted

\* Going on to another phase, and to the next position of a walk.
LEMMA GotoFrame ==
    ASSUME NEW f \in Frame, NEW p \in Phases, NEW h, h = Goto(f, p)
    PROVE  h \in Frame /\ h.pc = p /\ h.k = 1 /\ Same(f, h)
BY Zenon DEF Goto, Frame, Same, Alike

\* The next item of an order, or the next phase.
LEMMA AdvanceFrame ==
    ASSUME NEW f \in Frame, NEW seq \in Seq(Names), f.k \in 1 .. Len(seq), NEW p \in Phases,
           NEW h, h = Advance(f, seq, p)
    PROVE  /\ h \in Frame /\ Same(f, h)
           /\ IF f.k < Len(seq)
              THEN h.pc = f.pc /\ h.k = f.k + 1 /\ h.k \in 1 .. Len(seq)
              ELSE h.pc = p /\ h.k = 1 /\ f.k = Len(seq)
<1>1. CASE f.k < Len(seq)
  <2>1. h = [f EXCEPT !.k = f.k + 1]
    BY <1>1, Zenon DEF Advance
  <2>2. f.k + 1 \in Nat /\ f.k + 1 \in 1 .. Len(seq)
    BY <1>1 DEF Frame
  <2>3. h \in Frame /\ Same(f, h) /\ h.pc = f.pc /\ h.k = f.k + 1
    BY <2>1, <2>2, ZenonT(60) DEF Frame, Same, Alike
  <2> QED
    BY <1>1, <2>2, <2>3, Zenon
<1>2. CASE ~(f.k < Len(seq))
  <2>1. h = Goto(f, p) /\ f.k = Len(seq)
    BY <1>2 DEF Advance
  <2> QED
    BY <1>2, <2>1, GotoFrame
<1> QED
  BY <1>1, <1>2, Zenon

\* A failed call reports the cache that is there.
LEMMA FailureFrame ==
    ASSUME NEW f \in Frame, NEW c \in Disks, Whole(c), NEW h, h = FailureResult(f, c)
    PROVE  /\ h \in Frame /\ h.pc = "return" /\ h.succeeded = FALSE /\ Same(f, h)
           /\ h.cache_status = "fresh" => {h.last_sync} = c["state"]
<1> DEFINE s == IF ReadState(c) THEN "fresh" ELSE "unavailable"
           l == IF ReadState(c) THEN CHOOSE g \in c["state"] : TRUE ELSE f.gen
<1>1. h = [f EXCEPT !.pc = "return", !.succeeded = FALSE, !.cache_status = s, !.last_sync = l]
  BY Zenon DEF FailureResult
<1>2. "state" \in Items /\ "state" \notin StoreSet
  BY TheItems, Zenon DEF Names
<1>3. ReadState(c) => \E n \in Int : c["state"] = {n}
  BY <1>2 DEF Whole, ReadState, Exists
<1>4. l \in Int /\ (ReadState(c) => {l} = c["state"])
  <2>1. CASE ReadState(c)
    <3>1. PICK n \in Int : c["state"] = {n}
      BY <1>3, <2>1, Zenon
    <3>2. l = CHOOSE m \in {n} : TRUE
      BY <2>1, <3>1, Zenon
    <3> QED
      BY <3>1, <3>2, Zenon
  <2>2. CASE ~ReadState(c)
    BY <2>2 DEF Frame
  <2> QED
    BY <2>1, <2>2, Zenon
<1>5. s \in {"not-checked", "fresh", "unavailable"} /\ (s = "fresh" => ReadState(c)) /\ "return" \in Phases
  BY Zenon DEF Phases
<1> HIDE DEF s, l
<1>6. h \in Frame /\ h.pc = "return" /\ h.succeeded = FALSE /\ Same(f, h)
  BY <1>1, <1>4, <1>5, ZenonT(60) DEF Frame, Same, Alike
<1>7. h.cache_status = s /\ h.last_sync = l
  BY <1>1, Zenon DEF Frame
<1> QED
  BY <1>4, <1>5, <1>6, <1>7, Zenon

\* What a call stages depends on its number, its URL and its lists.
LEMMA SameLists ==
    ASSUME NEW f, NEW h, h.gen = f.gen, h.url = f.url, h.lists = f.lists
    PROVE  /\ \A i : Staged(h, i) = Staged(f, i)
           /\ Affected(h) = Affected(f) /\ (Loaded(h) <=> Loaded(f))
BY Zenon DEF Staged, HasAnchors, Affected, Loaded

\* What the invariant reads of a frame is the same in a frame of the same call.
LEMMA SameStaged ==
    ASSUME NEW f, NEW h, Same(f, h)
    PROVE  /\ \A i : Staged(h, i) = Staged(f, i)
           /\ \A i, v : StagedTo(h, i, v) <=> StagedTo(f, i, v)
           /\ Affected(h) = Affected(f) /\ (Loaded(h) <=> Loaded(f))
           /\ h.gen = f.gen /\ h.url = f.url /\ h.before = f.before
           /\ h.backed = f.backed /\ h.unrestored = f.unrestored
           /\ h.stale = f.stale /\ h.undeleted = f.undeleted
           /\ \A c : Untouched(h, c) <=> Untouched(f, c)
           /\ \A t, n, S : Ready(h, t, n, S) <=> Ready(f, t, n, S)
           /\ \A b, S : BackedUp(h, b, S) <=> BackedUp(f, b, S)
           /\ \A n, x, y : Recorded(h, n, x, y) <=> Recorded(f, n, x, y)
<1>1. \A i : Staged(h, i) = Staged(f, i)
  BY SameLists, Zenon DEF Same, Alike
<1>2. \A i, v : StagedTo(h, i, v) <=> StagedTo(f, i, v)
  BY <1>1, Zenon DEF Same, Alike, StagedTo
<1>3. \A t, n, S : Ready(h, t, n, S) <=> Ready(f, t, n, S)
  BY <1>2, Zenon DEF Ready
<1> QED
  BY <1>1, <1>2, <1>3, SameLists, Zenon DEF Same, Alike, Untouched, BackedUp, Recorded

\* More faults and more failed removals ask for less.
LEMMA MoreFaults ==
    ASSUME NEW n \in Nat, NEW m \in Nat, m >= n, NEW x, NEW y, NEW z, y \subseteq z
    PROVE  /\ \A c, g : Keeps(c, g, n, x) => Keeps(c, g, m, x)
           /\ \A c : Uniform(c, y) => Uniform(c, z)
           /\ \A c, g : Sound(c, g, n, x, y) => Sound(c, g, m, x, z)
           /\ Disturbed(n, x) => Disturbed(m, x)
           /\ Twice(n, x) => Twice(m, x)
           /\ \A t, b, S : Clear(t, b, n, x, S) => Clear(t, b, m, x, S)
           /\ \A f : Recorded(f, n, x, y) => Recorded(f, m, x, z)
<1>1. /\ Disturbed(n, x) => Disturbed(m, x)
      /\ Twice(n, x) => Twice(m, x)
      /\ m <= 1 => n <= 1
  BY DEF Disturbed, Twice
<1>2. \A c, g : Keeps(c, g, n, x) => Keeps(c, g, m, x)
  BY <1>1, Zenon DEF Keeps
<1>3. \A c : Uniform(c, y) => Uniform(c, z)
  BY Zenon DEF Uniform
<1>4. \A c, g : Sound(c, g, n, x, y) => Sound(c, g, m, x, z)
  BY <1>2, <1>3, Zenon DEF Sound
<1>5. \A t, b, S : Clear(t, b, n, x, S) => Clear(t, b, m, x, S)
  BY <1>1, Zenon DEF Clear
<1>6. \A f : Recorded(f, n, x, y) => Recorded(f, m, x, z)
  BY <1>1, Zenon DEF Recorded
<1> QED
  BY <1>1, <1>2, <1>3, <1>4, <1>5, <1>6, Zenon

\* What is known in every phase of a call.
LEMMA InCall ==
    ASSUME NEW f, NEW c, NEW t, NEW b, NEW g, NEW n, NEW x, NEW y,
           CacheInv(f, c, t, b, g, n, x, y), f.pc \notin {"idle", "return"}
    PROVE  Held(f, c, t, b, g, n, x, y)
BY Zenon DEF CacheInv, Held

\* It stays so in a frame of the same call.
LEMMA StillHeld ==
    ASSUME NEW f, NEW c, NEW t, NEW b, NEW g, NEW n \in Nat, NEW x, NEW y, Held(f, c, t, b, g, n, x, y),
           NEW m \in Nat, m >= n, NEW h, Same(f, h), NEW c1, Whole(c1), Uniform(c1, y),
           NEW t1, NEW b1, Clear(t1, b1, m, x, Aside(h))
    PROVE  Held(h, c1, t1, b1, g, m, x, y)
<1>1. h.gen = f.gen /\ h.before = f.before /\ (Recorded(h, n, x, y) <=> Recorded(f, n, x, y))
  BY SameStaged, Zenon
<1>2. Recorded(h, m, x, y) /\ Sound(h.before, g, m, x, y)
  BY <1>1, MoreFaults, Zenon DEF Held
<1> QED
  BY <1>1, <1>2, Zenon DEF Held

\* A step between two writing phases, which changes only the names of the call's own artefacts.
LEMMA OwnStep ==
    ASSUME NEW f, NEW c, NEW t, NEW b, NEW g, NEW n \in Nat, NEW x, NEW y, Held(f, c, t, b, g, n, x, y),
           NEW h, Same(f, h), f.pc \in Writing, h.pc \in Writing,
           NEW c1, Whole(c1), Uniform(c1, y), NEW t1, NEW b1,
           \A j \in Items \ Affected(f) : t1[j] = t[j] /\ b1[j] = b[j]
    PROVE  /\ Held(h, c1, t1, b1, g, n, x, y)
           /\ \A m \in Nat : m >= n => Held(h, c1, t1, b1, g, m, x, y)
<1>1. ASSUME NEW m \in Nat, m >= n
      PROVE  Held(h, c1, t1, b1, g, m, x, y)
  <2>1. Clear(t1, b1, m, x, Aside(h))
    <3>1. Aside(h) = Items \ Affected(f) /\ Aside(f) = Items \ Affected(f)
      BY SameStaged, Zenon DEF Aside
    <3>2. Disturbed(n, x) => Disturbed(m, x)
      BY <1>1 DEF Disturbed
    <3> QED
      BY <3>1, <3>2, Zenon DEF Clear, Held
  <2> QED
    BY <1>1, <2>1, StillHeld, Zenon
<1>2. n >= n
  OBVIOUS
<1> QED
  BY <1>1, <1>2, Zenon

\* A call that fails before it has touched the cache.
LEMMA FailUntouched ==
    ASSUME NEW f \in Frame, NEW c \in Disks, NEW t, NEW b, NEW g, NEW n, NEW x, NEW y,
           Sound(c, g, n, x, y), f.gen \in 1 .. MaxSyncs, Untouched(f, c), Recorded(f, n, x, y),
           Clear(t, b, n, x, Items), NEW h, h = FailureResult(f, c)
    PROVE  h \in Frame /\ CacheInv(h, c, t, b, g, n, x, y)
<1>1. /\ h \in Frame /\ h.pc = "return" /\ h.succeeded = FALSE /\ Same(f, h)
      /\ h.cache_status = "fresh" => {h.last_sync} = c["state"]
  BY FailureFrame, ZenonT(60) DEF Sound
<1>2. h.before = c /\ h.unrestored = {} /\ h.gen = f.gen /\ Recorded(h, n, x, y)
  BY <1>1, SameStaged, Zenon DEF Untouched
<1>3. Failed(h, c, b, n, x)
  BY <1>1, <1>2, Zenon DEF Failed
<1>4. Aside(h) = Items
  BY <1>1, Zenon DEF Aside, Writing
<1> QED
  BY <1>1, <1>2, <1>3, <1>4, Zenon DEF CacheInv, PhaseOK, Sound

\* A list that has an anchor joins the call.
Downloads(f, c, l, f1, f2, h) ==
  /\ f.pc = "download" /\ l \in Lists
  /\ f1 = [f EXCEPT !.sig = SignatureStatus(f.policy, l)]
  /\ f2 = [f1 EXCEPT !.lists = Append(f1.lists, l)]
  /\ h = IF ~ SignatureAccepted(f1.policy, l) \/ ~ HasMaterializableTrustAnchor(l)
         THEN FailureResult(f1, c)
         ELSE IF Len(f2.lists) = Len(Xmls(f2.url)) THEN Goto(f2, "layout") ELSE f2

\* A list is downloaded, or the synchronisation ends with an error.
LEMMA DownloadOK ==
    ASSUME NEW f \in Frame, NEW c \in Disks, NEW t, NEW b, NEW g, NEW n, NEW x, NEW y,
           CacheInv(f, c, t, b, g, n, x, y),
           NEW l, NEW f1, NEW f2, NEW h, Downloads(f, c, l, f1, f2, h)
    PROVE  h \in Frame /\ CacheInv(h, c, t, b, g, n, x, y)
<1> USE DEF Downloads
<1>1. SignatureStatus(f.policy, l) \in Statuses
  <2>1. /\ l.sig \in {"good", "bad", "unsupported"}
        /\ f.policy \in {"Disabled", "PreferAvailable", "Require"}
    BY CacheAssumption, Zenon DEF Frame
  <2>2. CASE f.policy = "Disabled"
    BY <2>2, Zenon DEF SignatureStatus, Statuses
  <2>3. CASE f.policy # "Disabled" /\ l.sig = "unsupported"
    BY <2>3, Zenon DEF SignatureStatus, Statuses
  <2>4. CASE f.policy # "Disabled" /\ l.sig = "bad"
    BY <2>4, Zenon DEF SignatureStatus, Statuses
  <2>5. CASE f.policy # "Disabled" /\ l.sig = "good"
    BY <2>5, Zenon DEF SignatureStatus, Statuses
  <2> QED
    BY <2>1, <2>2, <2>3, <2>4, <2>5, Zenon
<1>2. f1 \in Frame /\ Same(f, f1) /\ f1.pc = "download" /\ f1.lists = f.lists
  BY <1>1, Zenon DEF Frame, Same, Alike
<1>3. /\ AtDownload(f, c) /\ Whole(c) /\ Uniform(c, y) /\ f.gen \in 1 .. MaxSyncs
      /\ Sound(f.before, g, n, x, y) /\ Recorded(f, n, x, y) /\ Clear(t, b, n, x, Items)
  BY Zenon DEF CacheInv, PhaseOK, Aside, Writing
<1>4. /\ Untouched(f1, c) /\ Untouched(f, c) /\ f1.gen \in 1 .. MaxSyncs /\ Sound(c, g, n, x, y)
      /\ Recorded(f1, n, x, y)
  <2>1. Recorded(f1, n, x, y) /\ (Untouched(f1, c) <=> Untouched(f, c)) /\ f1.gen = f.gen
    BY <1>2, <1>3, SameStaged, Zenon
  <2> QED
    BY <1>3, <2>1, Zenon DEF AtDownload, Untouched
<1>5. CASE ~ SignatureAccepted(f1.policy, l) \/ ~ HasMaterializableTrustAnchor(l)
  BY <1>2, <1>3, <1>4, <1>5, FailUntouched, Zenon
<1>6. CASE SignatureAccepted(f1.policy, l) /\ HasMaterializableTrustAnchor(l)
  <2>1. f.lists \in Seq(Lists)
    BY Zenon DEF Frame
  <2>2. /\ f2 \in Frame /\ f2.pc = "download" /\ f2.lists = Append(f.lists, l)
        /\ f2.gen = f.gen /\ f2.before = f.before /\ f2.backed = f.backed /\ f2.unrestored = f.unrestored
        /\ f2.stale = f.stale /\ f2.undeleted = f.undeleted
    <3> DEFINE a == Append(f1.lists, l)
    <3>1. a \in Seq(Lists) /\ a = Append(f.lists, l)
      BY <1>2, <2>1
    <3>2. f2 = [f1 EXCEPT !.lists = a]
      BY Zenon
    <3> HIDE DEF a
    <3>3. f2 \in Frame /\ f2.pc = f1.pc /\ f2.lists = a /\ f2.gen = f1.gen
      BY <1>2, <3>1, <3>2, Zenon DEF Frame
    <3>4. /\ f2.before = f1.before /\ f2.backed = f1.backed /\ f2.unrestored = f1.unrestored
          /\ f2.stale = f1.stale /\ f2.undeleted = f1.undeleted
      BY <1>2, <3>1, <3>2, Zenon DEF Frame
    <3> QED
      BY <1>2, <3>1, <3>3, <3>4, Zenon DEF Same, Alike
  <2>3. f2.lists # <<>> /\ \A k \in 1 .. Len(f2.lists) :
                             f2.lists[k] = l \/ (k \in 1 .. Len(f.lists) /\ f2.lists[k] = f.lists[k])
    BY <2>1, <2>2
  <2>4. Loaded(f2)
    <3>1. \A k \in 1 .. Len(f.lists) : f.lists[k] \in Lists /\ HasMaterializableTrustAnchor(f.lists[k])
      <4>1. CASE f.lists = <<>>
        BY <4>1
      <4>2. CASE f.lists # <<>>
        BY <1>3, <4>2, Zenon DEF AtDownload, Loaded
      <4> QED
        BY <4>1, <4>2, Zenon
    <3> QED
      BY <1>6, <2>3, <3>1, Zenon DEF Loaded
  <2>5. Untouched(f2, c) /\ f2.stale = {} /\ Recorded(f2, n, x, y)
    BY <1>3, <1>4, <2>2, Zenon DEF Untouched, AtDownload, Recorded
  <2>6. \/ h = f2
        \/ h = Goto(f2, "layout")
    BY <1>6, Zenon
  <2>7. h \in Frame /\ Same(f2, h) /\ h.pc \in {"download", "layout"}
    <3>1. "layout" \in Phases /\ Same(f2, f2)
      BY Zenon DEF Phases, Same, Alike
    <3>2. CASE h = f2
      BY <2>2, <3>1, <3>2, Zenon
    <3>3. CASE h = Goto(f2, "layout")
      BY <2>2, <3>1, <3>3, GotoFrame
    <3> QED
      BY <2>6, <3>2, <3>3, Zenon
  <2>8. AtDownload(h, c) /\ Loaded(h) /\ h.gen = f.gen /\ h.before = f.before /\ Recorded(h, n, x, y)
    <3>1. Loaded(h) /\ Untouched(h, c) /\ Recorded(h, n, x, y) /\ h.stale = {}
      <4>1. /\ (Loaded(h) <=> Loaded(f2)) /\ (Untouched(h, c) <=> Untouched(f2, c))
            /\ (Recorded(h, n, x, y) <=> Recorded(f2, n, x, y)) /\ h.stale = f2.stale
        <5>1. Loaded(h) <=> Loaded(f2)
          BY <2>7, Zenon DEF Same, Alike, Loaded
        <5> QED
          BY <2>7, <5>1, Zenon DEF Same, Alike, Untouched, Recorded
      <4> QED
        BY <2>4, <2>5, <4>1, Zenon
    <3> QED
      BY <2>2, <2>7, <3>1, Zenon DEF AtDownload, Same, Alike
  <2>9. Aside(h) = Items
    BY <2>7, Zenon DEF Aside, Writing
  <2> QED
    BY <1>3, <2>7, <2>8, <2>9, Zenon DEF CacheInv, PhaseOK
<1> QED
  BY <1>5, <1>6, Zenon

\* Every walk has a first position, and nothing is behind it.
LEMMA FirstPositions ==
    ASSUME NEW u \in {"family", "single"}
    PROVE  /\ 1 \in 1 .. Len(Order(u)) /\ Seen(Order(u), 1) = {}
           /\ 1 \in 1 .. Len(CleanOrder(u)) /\ Seen(CleanOrder(u), 1) = {}
           /\ 1 \in 1 .. Len(RestoreOrder(u)) /\ Seen(RestoreOrder(u), 1) = {}
           /\ 1 \in 1 .. Len(StageOrder(u)) /\ Seen(StageOrder(u), 1) = {}
           /\ 1 \in 1 .. Len(Stores) /\ Seen(Stores, 1) = {}
<1>1. ASSUME NEW q \in Seq(Names), NEW r \in Range(q)
      PROVE  1 \in 1 .. Len(q) /\ Seen(q, 1) = {}
  BY <1>1 DEF Range, Seen
<1>2. "state" \in FileNames(u) /\ "trust-store" \in StoreSet
  BY TheItems, Zenon DEF FileNames
<1> QED
  BY <1>1, <1>2, Orders

\* Making an empty directory where a store is absent changes nothing the cache promises.
LEMMA MadeDirectories ==
    ASSUME NEW c \in Disks, NEW S \in SUBSET StoreSet, NEW g, NEW n, NEW x, NEW y,
           NEW d, d = [i \in Items |-> IF i \in S /\ c[i] = Absent THEN Empty ELSE c[i]],
           Sound(c, g, n, x, y)
    PROVE  d \in Disks /\ Sound(d, g, n, x, y)
<1>1. d \in Disks /\ \A i \in Items : d[i] = c[i] \/ (i \in S /\ c[i] = Absent /\ d[i] = Empty)
  BY Zenon DEF Disks, Empty
<1>2. CoreItems \subseteq Items
  BY TheItems, Zenon
<1>3. Whole(d)
  BY <1>1, Zenon DEF Sound, Whole
<1>4. Uniform(d, y)
  BY <1>1, <1>2, Zenon DEF Sound, Uniform
<1>5. Keeps(d, g, n, x)
  BY <1>1, <1>2, Zenon DEF Sound, Keeps
<1> QED
  BY <1>1, <1>3, <1>4, <1>5, Zenon DEF Sound

LaysOut(f, c, d, h) ==
  /\ f.pc = "layout"
  /\ d = [i \in Items |-> IF i \in {"trust-store", "historical-trust-store"} /\ c[i] = Absent
                       THEN Empty ELSE c[i]]
  /\ h = [Goto(f, "clean") EXCEPT !.before = d]

\* EnsureLayout makes the directories.
LEMMA LayoutOK ==
    ASSUME NEW f \in Frame, NEW c \in Disks, NEW t, NEW b, NEW g, NEW n, NEW x, NEW y,
           CacheInv(f, c, t, b, g, n, x, y),
           NEW d, NEW h, LaysOut(f, c, d, h)
    PROVE  h \in Frame /\ d \in Disks /\ CacheInv(h, d, t, b, g, n, x, y)
<1> USE DEF LaysOut
<1>1. /\ Untouched(f, c) /\ Loaded(f) /\ f.gen \in 1 .. MaxSyncs /\ Sound(c, g, n, x, y)
      /\ Recorded(f, n, x, y) /\ Clear(t, b, n, x, Items)
  BY Zenon DEF CacheInv, PhaseOK, AtDownload, Untouched, Aside, Writing
<1>2. d \in Disks /\ Sound(d, g, n, x, y)
  BY <1>1, MadeDirectories, TheItems, ZenonT(60)
<1>3. PICK e : e = Goto(f, "clean")
  BY Zenon
<1>4. e \in Frame /\ e.pc = "clean" /\ e.k = 1 /\ Same(f, e)
  BY <1>3, GotoFrame DEF Phases
<1>5. /\ h \in Frame /\ h.pc = "clean" /\ h.k = 1 /\ h.before = d /\ h.gen = e.gen /\ h.url = e.url
      /\ h.lists = e.lists /\ h.backed = e.backed /\ h.unrestored = e.unrestored
      /\ h.stale = e.stale /\ h.undeleted = e.undeleted
  BY <1>2, <1>3, <1>4, ZenonT(60) DEF Frame
<1>6. Untouched(h, d) /\ Loaded(h) /\ h.gen = f.gen /\ Recorded(h, n, x, y) /\ Aside(h) = Items
  <2>1. Loaded(h) /\ h.gen = f.gen
    BY <1>1, <1>4, <1>5, SameLists, Zenon DEF Same, Alike
  <2> QED
    BY <1>1, <1>4, <1>5, <2>1, Zenon DEF Untouched, Same, Alike, Recorded, Aside, Writing
<1>7. h.url \in {"family", "single"}
  BY <1>5, Zenon DEF Frame
<1>8. AtClean(h, d, t, b, n, x)
  BY <1>5, <1>6, <1>7, FirstPositions, Zenon DEF AtClean
<1> QED
  BY <1>1, <1>2, <1>5, <1>6, <1>8, Zenon DEF CacheInv, PhaseOK, Sound

LayoutBreaks(f, c, S, d, h) ==
  /\ f.pc = "layout" /\ S \in SUBSET StoreSet
  /\ d = [i \in Items |-> IF i \in S /\ c[i] = Absent THEN Empty ELSE c[i]]
  /\ h = FailureResult([f EXCEPT !.before = d], d)

\* EnsureLayout gives up at one of them.
LEMMA LayoutFailsOK ==
    ASSUME NEW f \in Frame, NEW c \in Disks, NEW t, NEW b, NEW g, NEW n \in Nat, NEW x, NEW y,
           CacheInv(f, c, t, b, g, n, x, y),
           NEW S, NEW d, NEW h, LayoutBreaks(f, c, S, d, h)
    PROVE  h \in Frame /\ d \in Disks /\ CacheInv(h, d, t, b, g, n + 1, x, y)
<1> USE DEF LayoutBreaks
<1>1. /\ Untouched(f, c) /\ f.gen \in 1 .. MaxSyncs /\ Sound(c, g, n, x, y)
      /\ Recorded(f, n, x, y) /\ Clear(t, b, n, x, Items)
  BY Zenon DEF CacheInv, PhaseOK, AtDownload, Untouched, Aside, Writing
<1>2. d \in Disks /\ Sound(d, g, n, x, y)
  BY <1>1, MadeDirectories, Zenon
<1>3. PICK e : e = [f EXCEPT !.before = d]
  BY Zenon
<1>4. /\ e \in Frame /\ e.before = d /\ e.gen = f.gen /\ e.backed = f.backed
      /\ e.unrestored = f.unrestored /\ e.stale = f.stale /\ e.undeleted = f.undeleted
  BY <1>2, <1>3, Zenon DEF Frame
<1>5. Untouched(e, d) /\ e.gen \in 1 .. MaxSyncs /\ Recorded(e, n, x, y)
  BY <1>1, <1>4, Zenon DEF Untouched, Recorded
<1>6. Sound(d, g, n + 1, x, y) /\ Recorded(e, n + 1, x, y) /\ Clear(t, b, n + 1, x, Items)
  <2>1. n + 1 \in Nat /\ n + 1 >= n /\ y \subseteq y
    OBVIOUS
  <2> QED
    BY <1>1, <1>2, <1>5, <2>1, MoreFaults, Zenon
<1>7. h = FailureResult(e, d)
  BY <1>3, Zenon
<1> QED
  BY <1>2, <1>4, <1>5, <1>6, <1>7, FailUntouched, Zenon

\* A position of a walk over the artefacts of the call.
LEMMA WalkOfCall ==
    ASSUME NEW f \in Frame, NEW q \in Seq(Names), Walk(q), f.k \in 1 .. Len(q)
    PROVE  /\ f.url \in {"family", "single"} /\ f.k \in Nat
           /\ Affected(f) = FileNames(f.url) \cup StoreSet /\ Affected(f) \subseteq Items
           /\ q[f.k] \in Range(q) /\ q[f.k] \notin Seen(q, f.k) /\ Seen(q, f.k + 1) = Seen(q, f.k) \cup {q[f.k]}
           /\ Seen(q, f.k) \subseteq Range(q) /\ (f.k = Len(q) => Seen(q, f.k + 1) = Range(q))
<1>1. f.url \in {"family", "single"} /\ f.k \in Nat
  BY Zenon DEF Frame
<1>2. Affected(f) = FileNames(f.url) \cup StoreSet /\ Affected(f) \subseteq Items
  BY <1>1, Orders, TheItems, Zenon DEF Affected
<1> QED
  BY <1>1, <1>2, WalkStep, Zenon

\* The two removals for one artefact, which may fail, and the frame they leave.
Cleans(f, t, b, n, m, i, t1, b1, S, e, h) ==
  /\ f.pc = "clean" /\ i = CleanOrder(f.url)[f.k] /\ e = Advance(f, CleanOrder(f.url), "stage")
  /\ t1 \in Disks /\ b1 \in Disks /\ \A j \in Items \ {i} : t1[j] = t[j] /\ b1[j] = b[j]
  /\ S = IF i \in StoreSet /\ t1[i] # Absent THEN {i} ELSE {}
  /\ \/ m = n /\ t1[i] = Absent /\ b1[i] = Absent
     \/ m = n + 1 /\ (t[i] = Absent => t1[i] = Absent) /\ (b[i] = Absent => b1[i] = Absent)
  /\ (h = e /\ S = {}) \/ h = [e EXCEPT !.stale = e.stale \cup S]

\* The backup and the temporary of an earlier call are removed, or stay.
LEMMA CleanOK ==
    ASSUME NEW f \in Frame, NEW c \in Disks, NEW t, NEW b, NEW g, NEW n \in Nat, NEW x, NEW y,
           CacheInv(f, c, t, b, g, n, x, y), NEW m, NEW i, NEW t1, NEW b1, NEW S, NEW e, NEW h,
           Cleans(f, t, b, n, m, i, t1, b1, S, e, h)
    PROVE  h \in Frame /\ CacheInv(h, c, t1, b1, g, m, x, y \cup S)
<1> USE DEF Cleans
<1> DEFINE q == CleanOrder(f.url)
           z == y \cup S
<1>1. /\ Untouched(f, c) /\ Loaded(f) /\ f.k \in 1 .. Len(q)
      /\ \A j \in Seen(q, f.k) : /\ j \in StoreSet => t[j] = Absent \/ j \in f.stale
                                 /\ b[j] = Absent \/ Twice(n, x)
  BY Zenon DEF CacheInv, PhaseOK, AtClean
<1>2. Held(f, c, t, b, g, n, x, y) /\ Clear(t, b, n, x, Items)
  BY InCall, Zenon DEF Held, Aside, Writing
<1>3. q \in Seq(Names) /\ Walk(q) /\ Range(q) = FileNames(f.url) \cup StoreSet /\ Range(Order(f.url)) = Range(q)
  BY Orders, Zenon DEF Frame
<1>4. /\ f.url \in {"family", "single"} /\ f.k \in Nat
      /\ Affected(f) = FileNames(f.url) \cup StoreSet /\ Affected(f) \subseteq Items
      /\ i \in Range(q) /\ i \in Affected(f) /\ i \in Items
      /\ i \notin Seen(q, f.k) /\ Seen(q, f.k + 1) = Seen(q, f.k) \cup {i}
      /\ Seen(q, f.k) \subseteq Range(q) /\ (f.k = Len(q) => Seen(q, f.k + 1) = Range(q))
  BY <1>1, <1>3, WalkOfCall, Zenon DEF Affected
<1>5. e \in Frame /\ Same(f, e)
      /\ IF f.k < Len(q)
         THEN e.pc = f.pc /\ e.k = f.k + 1 /\ e.k \in 1 .. Len(q)
         ELSE e.pc = "stage" /\ e.k = 1 /\ f.k = Len(q)
  <2>1. "stage" \in Phases /\ e = Advance(f, q, "stage")
    BY Zenon DEF Phases
  <2> HIDE DEF q
  <2> QED
    BY <1>1, <1>3, <2>1, AdvanceFrame
<1> HIDE DEF q
<1>6. h \in Frame /\ h.pc = e.pc /\ h.k = e.k /\ Alike(f, h) /\ h.stale = f.stale \cup S /\ h.undeleted = f.undeleted
  <2>1. f.stale \cup S \in SUBSET Items /\ e.stale = f.stale
    BY <1>4, <1>5, Zenon DEF Frame, Same
  <2>2. CASE h = e /\ S = {}
    BY <1>5, <2>2, Zenon DEF Same
  <2>3. CASE h = [e EXCEPT !.stale = e.stale \cup S]
    <3>1. h \in Frame /\ h.pc = e.pc /\ h.k = e.k /\ h.stale = e.stale \cup S /\ h.undeleted = e.undeleted
      BY <1>5, <2>1, <2>3, Zenon DEF Frame
    <3>2. Alike(e, h)
      BY <1>5, <2>1, <2>3, Zenon DEF Frame, Alike
    <3> QED
      BY <1>5, <2>1, <3>1, <3>2, Zenon DEF Same, Alike
  <2> QED
    BY <2>2, <2>3, Zenon
<1>7. /\ h.gen = f.gen /\ h.url = f.url /\ h.before = f.before /\ Affected(h) = Affected(f)
      /\ Loaded(h) /\ Untouched(h, c)
  <2>1. Loaded(h) /\ Affected(h) = Affected(f)
    BY <1>1, <1>6, Zenon DEF Alike, Loaded, Affected
  <2> QED
    BY <1>1, <1>6, <2>1, Zenon DEF Alike, Untouched
<1>8. m \in Nat /\ m >= n /\ (m = n + 1 => m # n) /\ (m # n /\ Disturbed(n, x) => Twice(m, x)) /\ y \subseteq z
  BY DEF Disturbed, Twice
<1>9. t1[i] # Absent \/ b1[i] # Absent => Twice(m, x)
  BY <1>2, <1>4, <1>8, Zenon DEF Clear
<1>10. /\ Uniform(c, z) /\ Sound(h.before, g, m, x, z) /\ (Twice(n, x) => Twice(m, x))
       /\ Recorded(f, m, x, z)
  BY <1>2, <1>7, <1>8, MoreFaults, Zenon DEF Held
<1>11. Recorded(h, m, x, z)
  BY <1>6, <1>9, <1>10, Zenon DEF Recorded
<1>12. \A j \in Items : (t[j] = Absent => t1[j] = Absent) /\ (b[j] = Absent => b1[j] = Absent)
  BY <1>4, Zenon
<1>13. Clear(t1, b1, m, x, Items) /\ Clear(t1, b1, m, x, Items \ Affected(h))
  <2>1. Disturbed(n, x) => Disturbed(m, x)
    BY <1>8 DEF Disturbed
  <2> QED
    BY <1>2, <1>12, <2>1, Zenon DEF Clear
<1>14. \A j \in Seen(q, f.k + 1) : /\ j \in StoreSet => t1[j] = Absent \/ j \in h.stale
                                   /\ b1[j] = Absent \/ Twice(m, x)
  <2>1. TAKE j \in Seen(q, f.k + 1)
  <2>2. CASE j = i
    BY <1>6, <1>9, <2>2, Zenon
  <2>3. CASE j # i
    <3>1. j \in Seen(q, f.k) /\ j \in Items \ {i}
      BY <1>3, <1>4, <2>1, <2>3, Zenon
    <3> QED
      BY <1>1, <1>6, <1>10, <3>1, Zenon
  <2> QED
    BY <2>2, <2>3, Zenon
<1>15. CASE f.k < Len(q)
  <2>1. AtClean(h, c, t1, b1, m, x) /\ h.pc = "clean" /\ Aside(h) = Items
    BY <1>5, <1>6, <1>7, <1>14, <1>15, Zenon DEF AtClean, q, Aside, Writing
  <2> QED
    BY <1>2, <1>6, <1>7, <1>10, <1>11, <1>13, <2>1, Zenon DEF CacheInv, PhaseOK, Held
<1>16. CASE ~(f.k < Len(q))
  <2>1. AtStage(h, c, t1, b1, m, x) /\ h.pc = "stage" /\ Aside(h) = Items \ Affected(h)
    <3>1. h.k = 1 /\ h.pc = "stage" /\ Seen(q, f.k + 1) = Affected(h)
      BY <1>3, <1>4, <1>5, <1>6, <1>7, <1>16, Zenon
    <3>2. 1 \in 1 .. Len(StageOrder(h.url)) /\ Seen(StageOrder(h.url), 1) = {}
      BY <1>4, <1>7, FirstPositions, Zenon
    <3> QED
      BY <1>7, <1>14, <3>1, <3>2, Zenon DEF AtStage, Aside, Writing
  <2> QED
    BY <1>2, <1>6, <1>7, <1>10, <1>11, <1>13, <2>1, Zenon DEF CacheInv, PhaseOK, Held
<1> QED
  BY <1>15, <1>16, Zenon

Stages(f, t, i, t1, h) ==
  /\ f.pc = "stage" /\ i = StageOrder(f.url)[f.k]
  /\ t1 = [t EXCEPT ![i] = {f.gen}]
  /\ h = Advance(f, StageOrder(f.url), "mkdir")

\* A file is staged.
LEMMA StageOK ==
    ASSUME NEW f \in Frame, NEW c \in Disks, NEW t \in Disks, NEW b \in Disks, NEW g, NEW n \in Nat, NEW x, NEW y,
           CacheInv(f, c, t, b, g, n, x, y),
           NEW i, NEW t1, NEW h, Stages(f, t, i, t1, h)
    PROVE  h \in Frame /\ t1 \in Disks /\ CacheInv(h, c, t1, b, g, n, x, y)
<1> USE DEF Stages
<1> DEFINE q == StageOrder(f.url)
<1>1. /\ Untouched(f, c) /\ Loaded(f) /\ f.k \in 1 .. Len(q)
      /\ \A j \in Affected(f) : /\ b[j] = Absent \/ Twice(n, x)
                                /\ j \in Seen(q, f.k) => t[j] = {f.gen}
                                /\ j \in StoreSet => t[j] = Absent \/ j \in f.stale
  BY Zenon DEF CacheInv, PhaseOK, AtStage
<1>2. q \in Seq(Names) /\ Walk(q) /\ Range(q) = FileNames(f.url) /\ Affected(f) = FileNames(f.url) \cup StoreSet
  BY Orders, Zenon DEF Frame, Affected
<1>3. "mkdir" \in Phases /\ h = Advance(f, q, "mkdir") /\ i = q[f.k]
  BY Zenon DEF Phases
<1>4. f.gen \in Int
  BY DEF Frame
<1> HIDE DEF q
<1>5. /\ f.url \in {"family", "single"} /\ f.k \in Nat
      /\ Affected(f) \subseteq Items
      /\ i \in Range(q) /\ i \in Affected(f) /\ i \in Items
      /\ i \notin Seen(q, f.k) /\ Seen(q, f.k + 1) = Seen(q, f.k) \cup {i}
      /\ Seen(q, f.k) \subseteq Range(q) /\ (f.k = Len(q) => Seen(q, f.k + 1) = Range(q))
  <2>1. Range(q) \subseteq Affected(f)
    BY <1>2, Zenon
  <2>2. q \in Seq(Names) /\ Walk(q) /\ f.k \in 1 .. Len(q) /\ i = q[f.k]
    BY <1>1, <1>2, <1>3, Zenon
  <2>3. /\ f.url \in {"family", "single"} /\ f.k \in Nat
        /\ Affected(f) \subseteq Items /\ i \in Range(q)
        /\ i \notin Seen(q, f.k) /\ Seen(q, f.k + 1) = Seen(q, f.k) \cup {i}
        /\ Seen(q, f.k) \subseteq Range(q) /\ (f.k = Len(q) => Seen(q, f.k + 1) = Range(q))
    BY <2>2, WalkOfCall, ZenonT(60)
  <2> QED
    BY <2>1, <2>2, <2>3, Zenon
<1>6. h \in Frame /\ Same(f, h)
      /\ IF f.k < Len(q)
         THEN h.pc = f.pc /\ h.k = f.k + 1 /\ h.k \in 1 .. Len(q)
         ELSE h.pc = "mkdir" /\ h.k = 1 /\ f.k = Len(q)
  BY <1>1, <1>2, <1>3, AdvanceFrame
<1>7. t1 \in Disks /\ t1[i] = {f.gen} /\ \A j \in Items \ {i} : t1[j] = t[j]
  BY <1>4, <1>5, Zenon DEF Disks
<1>8. FileNames(f.url) \cap StoreSet = {}
  BY <1>5, Orders, Zenon DEF FileNames
<1>9. \A j \in Affected(f) : /\ b[j] = Absent \/ Twice(n, x)
                             /\ j \in Seen(q, f.k + 1) => t1[j] = {f.gen}
                             /\ j \in StoreSet => t1[j] = Absent \/ j \in f.stale
  <2>1. TAKE j \in Affected(f)
  <2>2. CASE j = i
    BY <1>1, <1>2, <1>5, <1>7, <1>8, <2>2, Zenon
  <2>3. CASE j # i
    BY <1>1, <1>5, <1>7, <2>3, Zenon
  <2> QED
    BY <2>2, <2>3, Zenon
<1>10. /\ Untouched(h, c) /\ Loaded(h) /\ h.gen = f.gen /\ h.url = f.url /\ Affected(h) = Affected(f)
       /\ h.stale = f.stale
  BY <1>1, <1>6, SameStaged, ZenonT(60)
<1>11. Held(h, c, t1, b, g, n, x, y)
  <2>1. Held(f, c, t, b, g, n, x, y)
    BY InCall, Zenon
  <2>2. f.pc \in Writing /\ h.pc \in Writing
    BY <1>6, Zenon DEF Writing
  <2>3. \A j \in Items \ Affected(f) : t1[j] = t[j]
    BY <1>5, <1>7, Zenon
  <2>4. Whole(c) /\ Uniform(c, y)
    BY <2>1, Zenon DEF Held
  <2>5. Same(f, h)
    BY <1>6, Zenon
  <2> HIDE DEF Stages
  <2> QED
    BY <2>1, <2>2, <2>3, <2>4, <2>5, OwnStep
<1>12. CASE f.k < Len(q)
  <2>1. AtStage(h, c, t1, b, n, x)
    BY <1>6, <1>9, <1>10, <1>12, ZenonT(60) DEF AtStage, q
  <2> QED
    BY <1>6, <1>7, <1>11, <1>12, <2>1, Zenon DEF CacheInv, PhaseOK, Held
<1>13. CASE ~(f.k < Len(q))
  <2>1. Seen(q, f.k + 1) = FileNames(f.url)
    BY <1>2, <1>5, <1>6, <1>13, Zenon
  <2>2. AtMkdir(h, c, t1, b, n, x)
    <3>1. \A j \in Affected(h) : j \notin StoreSet => j \in Seen(q, f.k + 1)
      BY <1>2, <1>10, <2>1, Zenon
    <3> QED
      BY <1>9, <1>10, <3>1, Zenon DEF AtMkdir
  <2> QED
    BY <1>6, <1>7, <1>11, <1>13, <2>2, Zenon DEF CacheInv, PhaseOK, Held
<1> QED
  BY <1>12, <1>13, Zenon

\* A call that fails in the write before it backs anything up, after more faults or not.
LEMMA FailEarly ==
    ASSUME NEW f \in Frame, NEW c \in Disks, NEW t, NEW b, NEW g, NEW n \in Nat, NEW x, NEW y,
           CacheInv(f, c, t, b, g, n, x, y), f.pc \in {"download", "stage", "mkdir", "certs"},
           NEW t1, NEW m \in Nat, m >= n, Disturbed(m, x) \/ (f.pc = "download" /\ t1 = t),
           NEW h, h = FailureResult(f, c)
    PROVE  h \in Frame /\ CacheInv(h, c, t1, b, g, m, x, y)
<1>1. Untouched(f, c)
  BY Zenon DEF CacheInv, PhaseOK, AtDownload, AtStage, AtMkdir, AtCerts
<1>2. Held(f, c, t, b, g, n, x, y) /\ Sound(c, g, n, x, y) /\ f.gen \in 1 .. MaxSyncs
  BY <1>1, InCall, Zenon DEF Held, Untouched
<1>3. Sound(c, g, m, x, y) /\ Recorded(f, m, x, y)
  BY <1>2, MoreFaults, Zenon DEF Held
<1>4. Clear(t1, b, m, x, Items)
  <2>1. CASE Disturbed(m, x)
    BY <2>1, Zenon DEF Clear
  <2>2. CASE f.pc = "download" /\ t1 = t
    BY <1>2, <2>2, MoreFaults, Zenon DEF Held, Aside, Writing
  <2> QED
    BY <2>1, <2>2, Zenon
<1> QED
  BY <1>1, <1>2, <1>3, <1>4, FailUntouched, Zenon

MakesStores(f, t, n, S, m, t1, h) ==
  /\ f.pc = "mkdir" /\ S \in SUBSET StoreSet /\ m \in {n, n + 1} /\ (m = n => S = StoreSet)
  /\ t1 = [i \in Items |-> IF i \in S /\ t[i] = Absent THEN Empty ELSE t[i]]
  /\ h = Goto(f, "certs")

\* The staged stores are created.
LEMMA MakeStoresOK ==
    ASSUME NEW f \in Frame, NEW c \in Disks, NEW t \in Disks, NEW b \in Disks, NEW g, NEW n \in Nat, NEW x, NEW y,
           CacheInv(f, c, t, b, g, n, x, y),
           NEW S, NEW m, NEW t1, NEW h, MakesStores(f, t, n, S, m, t1, h)
    PROVE  h \in Frame /\ t1 \in Disks /\ CacheInv(h, c, t1, b, g, m, x, y)
<1> USE DEF MakesStores
<1>1. /\ Untouched(f, c) /\ Loaded(f)
      /\ \A i \in Affected(f) :
           /\ b[i] = Absent \/ Twice(n, x)
           /\ IF i \in StoreSet THEN t[i] = Absent \/ i \in f.stale ELSE t[i] = {f.gen}
  BY Zenon DEF CacheInv, PhaseOK, AtMkdir
<1>2. h \in Frame /\ h.pc = "certs" /\ h.k = 1 /\ Same(f, h)
  BY GotoFrame DEF Phases
<1>3. /\ Untouched(h, c) /\ Loaded(h) /\ h.gen = f.gen /\ h.url = f.url /\ Affected(h) = Affected(f)
      /\ h.stale = f.stale
  BY <1>1, <1>2, SameStaged, ZenonT(60)
<1>4. f.url \in {"family", "single"} /\ Affected(f) \subseteq Items /\ StoreSet \subseteq Affected(f)
  BY TheItems, Orders, Zenon DEF Frame, Affected
<1>5. t1 \in Disks /\ \A i \in Items : t1[i] = IF i \in S /\ t[i] = Absent THEN Empty ELSE t[i]
  BY Zenon DEF Disks, Empty
<1>6. Seen(Stores, h.k) = {} /\ (m # n => m >= 1) /\ m \in Nat /\ m >= n /\ Empty # Absent
  <2>1. Seen(Stores, h.k) = {}
    BY <1>2, <1>4, FirstPositions, Zenon
  <2> QED
    BY <2>1 DEF Empty, Absent
<1>7. \A i \in Affected(h) :
        /\ b[i] = Absent \/ Twice(m, x)
        /\ \/ i \in StoreSet /\ t1[i] = Absent /\ m >= 1
           \/ /\ i \in StoreSet \ Seen(Stores, h.k)
              /\ t1[i] = Empty \/ (i \in h.stale /\ t1[i] # Absent)
           \/ i \notin StoreSet \ Seen(Stores, h.k) /\ StagedTo(h, i, t1[i])
  <2>1. TAKE i \in Affected(h)
  <2>2. b[i] = Absent \/ Twice(m, x)
    BY <1>1, <1>3, <1>6, MoreFaults, Zenon
  <2>3. CASE i \in StoreSet
    <3>1. t[i] = Absent \/ i \in h.stale
      BY <1>1, <1>3, <2>3, Zenon
    <3>2. i \in S \/ m >= 1
      BY <1>6, <2>3, Zenon
    <3>3. t1[i] = IF i \in S /\ t[i] = Absent THEN Empty ELSE t[i]
      BY <1>3, <1>4, <1>5, Zenon
    <3> QED
      BY <1>6, <2>2, <2>3, <3>1, <3>2, <3>3, Zenon
  <2>4. CASE i \notin StoreSet
    <3>1. t1[i] = {h.gen} /\ Staged(h, i) = {h.gen}
      BY <1>1, <1>3, <1>4, <1>5, <2>4, Zenon DEF Staged
    <3> QED
      BY <2>2, <2>4, <3>1, Zenon DEF StagedTo
  <2> QED
    BY <2>3, <2>4, Zenon
<1>8. AtCerts(h, c, t1, b, m, x)
  BY <1>2, <1>3, <1>4, <1>7, FirstPositions, Zenon DEF AtCerts
<1>9. Held(h, c, t1, b, g, m, x, y)
  <2>1. Held(f, c, t, b, g, n, x, y) /\ f.pc \in Writing /\ h.pc \in Writing
    BY <1>2, InCall, Zenon DEF Writing
  <2>2. \A j \in Items \ Affected(f) : t1[j] = t[j]
    BY <1>4, <1>5, Zenon
  <2>3. Whole(c) /\ Uniform(c, y)
    BY <2>1, Zenon DEF Held
  <2> QED
    BY <1>2, <1>6, <2>1, <2>2, <2>3, OwnStep, Zenon
<1> QED
  BY <1>2, <1>5, <1>8, <1>9, Zenon DEF CacheInv, PhaseOK, Held

\* What the certificates of one store add to its empty directory.
StagesCerts(f, t, i, t1, h) ==
  /\ f.pc = "certs" /\ i = Stores[f.k] /\ (HasAnchors(f, i) => t[i] # Absent)
  /\ t1 = [t EXCEPT ![i] = IF HasAnchors(f, i) THEN t[i] \cup {f.gen} ELSE t[i]]
  /\ h = Advance(f, Stores, "backup")

\* The certificates of one store are staged.
LEMMA StageCertsOK ==
    ASSUME NEW f \in Frame, NEW c \in Disks, NEW t \in Disks, NEW b \in Disks, NEW g, NEW n \in Nat, NEW x, NEW y,
           CacheInv(f, c, t, b, g, n, x, y),
           NEW i, NEW t1, NEW h, StagesCerts(f, t, i, t1, h)
    PROVE  h \in Frame /\ t1 \in Disks /\ CacheInv(h, c, t1, b, g, n, x, y)
<1> DEFINE Fits(e, u, k, j) ==
             \/ j \in StoreSet /\ u[j] = Absent /\ n >= 1
             \/ j \in StoreSet \ Seen(Stores, k) /\ (u[j] = Empty \/ (j \in e.stale /\ u[j] # Absent))
             \/ j \notin StoreSet \ Seen(Stores, k) /\ StagedTo(e, j, u[j])
<1> USE DEF StagesCerts
<1>1. /\ Untouched(f, c) /\ Loaded(f) /\ f.k \in 1 .. Len(Stores)
      /\ \A j \in Affected(f) : (b[j] = Absent \/ Twice(n, x)) /\ Fits(f, t, f.k, j)
  BY Zenon DEF CacheInv, PhaseOK, AtCerts
<1>2. Stores \in Seq(Names) /\ Walk(Stores) /\ Range(Stores) = StoreSet /\ StoreSet \subseteq Affected(f)
  BY Orders, Zenon DEF Frame, Affected
<1>3. "backup" \in Phases /\ f.gen \in Int
  BY DEF Phases, Frame
<1>4. /\ f.url \in {"family", "single"} /\ f.k \in Nat
      /\ Affected(f) = FileNames(f.url) \cup StoreSet /\ Affected(f) \subseteq Items
      /\ i \in StoreSet /\ i \in Affected(f) /\ i \in Items
      /\ i \notin Seen(Stores, f.k) /\ Seen(Stores, f.k + 1) = Seen(Stores, f.k) \cup {i}
      /\ Seen(Stores, f.k) \subseteq StoreSet /\ (f.k = Len(Stores) => Seen(Stores, f.k + 1) = StoreSet)
  BY <1>1, <1>2, WalkOfCall, Zenon
<1>5. h \in Frame /\ Same(f, h)
      /\ IF f.k < Len(Stores)
         THEN h.pc = f.pc /\ h.k = f.k + 1 /\ h.k \in 1 .. Len(Stores)
         ELSE h.pc = "backup" /\ h.k = 1 /\ f.k = Len(Stores)
  BY <1>1, <1>2, <1>3, AdvanceFrame
<1>6. t1 \in Disks /\ \A j \in Items \ {i} : t1[j] = t[j]
  BY <1>3, <1>4, Zenon DEF Disks
<1>7. Held(f, c, t, b, g, n, x, y) /\ Whole(c) /\ Uniform(c, y) /\ f.gen \in 1 .. MaxSyncs
  <2>1. Held(f, c, t, b, g, n, x, y)
    BY InCall, Zenon
  <2> QED
    BY <2>1, Zenon DEF Held
<1>8. StagedTo(f, i, t1[i]) \/ (t1[i] = Absent /\ n >= 1)
  <2>1. t1[i] = IF HasAnchors(f, i) THEN t[i] \cup {f.gen} ELSE t[i]
    BY <1>4, Zenon DEF Disks
  <2>2. t[i] = Empty \/ (t[i] = Absent /\ n >= 1) \/ (i \in f.stale /\ t[i] # Absent)
    BY <1>1, <1>4, Zenon
  <2>3. CASE HasAnchors(f, i)
    <3>1. Staged(f, i) = {f.gen} /\ t1[i] = t[i] \cup {f.gen} /\ t[i] # Absent
      BY <2>1, <2>3, Zenon DEF Staged
    <3>2. f.gen # -1
      BY <1>7
    <3>3. t1[i] # Absent /\ Staged(f, i) \subseteq t1[i]
      BY <3>1, <3>2, Zenon DEF Absent
    <3>4. t[i] = Empty => t1[i] = Staged(f, i)
      BY <3>1, Zenon DEF Empty
    <3> QED
      BY <2>2, <3>1, <3>3, <3>4, Zenon DEF StagedTo
  <2>4. CASE ~HasAnchors(f, i)
    <3>1. Staged(f, i) = Empty /\ t1[i] = t[i] /\ Empty \subseteq t[i]
      BY <1>4, <2>1, <2>4, Zenon DEF Staged, Empty
    <3> QED
      BY <2>2, <3>1, Zenon DEF StagedTo
  <2> QED
    BY <2>3, <2>4, Zenon
<1>9. \A j \in Affected(f) : (b[j] = Absent \/ Twice(n, x)) /\ Fits(f, t1, f.k + 1, j)
  <2>1. TAKE j \in Affected(f)
  <2>2. CASE j = i
    BY <1>1, <1>4, <1>8, <2>2, Zenon
  <2>3. CASE j # i
    <3>1. t1[j] = t[j] /\ (j \in StoreSet \ Seen(Stores, f.k + 1) <=> j \in StoreSet \ Seen(Stores, f.k))
      BY <1>4, <1>6, <2>3, Zenon
    <3> QED
      BY <1>1, <3>1, Zenon
  <2> QED
    BY <2>2, <2>3, Zenon
<1>10. /\ Untouched(h, c) /\ Loaded(h) /\ h.url = f.url /\ Affected(h) = Affected(f) /\ h.stale = f.stale
       /\ \A j, v : StagedTo(h, j, v) <=> StagedTo(f, j, v)
  BY <1>1, <1>5, SameStaged
<1>11. Held(h, c, t1, b, g, n, x, y)
  <2>1. \A j \in Items \ Affected(f) : t1[j] = t[j]
    BY <1>4, <1>6, Zenon
  <2>2. f.pc \in Writing /\ h.pc \in Writing /\ Same(f, h)
    BY <1>5, Zenon DEF Writing
  <2> HIDE DEF StagesCerts, Fits
  <2> QED
    BY <1>7, <2>1, <2>2, OwnStep
<1>12. CASE f.k < Len(Stores)
  <2>1. h.pc = "certs" /\ h.k = f.k + 1 /\ h.k \in 1 .. Len(Stores)
    BY <1>5, <1>12, Zenon
  <2>2. \A j \in Affected(h) : (b[j] = Absent \/ Twice(n, x)) /\ Fits(h, t1, h.k, j)
    BY <1>9, <1>10, <2>1, Zenon
  <2>3. AtCerts(h, c, t1, b, n, x)
    BY <1>10, <2>1, <2>2, Zenon DEF AtCerts
  <2> QED
    BY <1>5, <1>6, <1>11, <2>1, <2>3, Zenon DEF CacheInv, PhaseOK, Held
<1>13. CASE ~(f.k < Len(Stores))
  <2>1. h.pc = "backup" /\ h.k = 1 /\ Seen(Stores, f.k + 1) = StoreSet
    BY <1>4, <1>5, <1>13, Zenon
  <2>2. Ready(h, t1, n, Affected(h))
    BY <1>9, <1>10, <2>1, Zenon DEF Ready
  <2>3. 1 \in 1 .. Len(Order(h.url)) /\ Seen(Order(h.url), 1) = {}
    BY <1>4, <1>10, FirstPositions, Zenon
  <2>4. h.backed = {} /\ h.unrestored = {} /\ h.undeleted = {} /\ c = h.before
    BY <1>10, Zenon DEF Untouched
  <2>5. BackedUp(h, b, Seen(Order(h.url), h.k))
    BY <2>1, <2>3, <2>4, Zenon DEF BackedUp
  <2>6. AtBackup(h, c, t1, b, n, x)
    BY <1>9, <1>10, <2>1, <2>2, <2>3, <2>4, <2>5, Zenon DEF AtBackup
  <2> QED
    BY <1>5, <1>6, <1>11, <2>1, <2>6, Zenon DEF CacheInv, PhaseOK, Held
<1> QED
  BY <1>12, <1>13, Zenon

-----------------------------------------------------------------------------
(***************************************************************************)
(* Backups, installation and rollback.                                     *)
(***************************************************************************)

\* The backups of the artefacts S are made.
BackedTo(f, c, b, n, x, S) ==
  /\ BackedUp(f, b, S)
  /\ \A i \in Affected(f) \ f.backed : b[i] = Absent \/ Twice(n, x)
  /\ \A i \in Items : c[i] = IF i \in f.backed THEN Absent ELSE f.before[i]

\* One more item has been set aside.
LEMMA BackupAdvances ==
    ASSUME NEW h \in Frame, NEW c \in Disks, NEW t, NEW b, NEW g, NEW n, NEW x, NEW y, NEW S,
           Sound(h.before, g, n, x, y), h.gen \in 1 .. MaxSyncs, Recorded(h, n, x, y),
           Clear(t, b, n, x, Items \ Affected(h)), Loaded(h), h.unrestored = {}, h.undeleted = {},
           Ready(h, t, n, Affected(h)), BackedTo(h, c, b, n, x, S),
           \/ h.pc = "backup" /\ h.k \in 1 .. Len(Order(h.url)) /\ S = Seen(Order(h.url), h.k)
           \/ h.pc = "install" /\ h.k = 1 /\ S = Affected(h)
    PROVE  CacheInv(h, c, t, b, g, n, x, y)
<1>1. Whole(c) /\ Uniform(c, y)
  <2>1. h.before \in Disks /\ Whole(h.before) /\ Uniform(h.before, y) /\ CoreItems \subseteq Items
    BY TheItems, Zenon DEF Frame, Sound
  <2>2. \A i \in Items : c[i] = Absent \/ c[i] = h.before[i]
    BY Zenon DEF BackedTo
  <2>3. Whole(c)
    BY <2>1, <2>2, Zenon DEF Whole
  <2>4. \A i \in CoreItems \ y : c[i] = Absent \/ c[i] = h.before[i]
    BY <2>1, <2>2, Zenon
  <2> QED
    BY <2>1, <2>3, <2>4, Zenon DEF Uniform
<1>2. Clear(t, b, n, x, Aside(h))
  BY Zenon DEF Aside, Writing
<1>3. CASE h.pc = "backup" /\ h.k \in 1 .. Len(Order(h.url)) /\ S = Seen(Order(h.url), h.k)
  <2>1. AtBackup(h, c, t, b, n, x)
    BY <1>3, Zenon DEF AtBackup, BackedTo
  <2> QED
    BY <1>1, <1>2, <1>3, <2>1, Zenon DEF CacheInv, PhaseOK
<1>4. CASE h.pc = "install" /\ h.k = 1 /\ S = Affected(h)
  <2>1. h.url \in {"family", "single"}
    BY Zenon DEF Frame
  <2>2. 1 \in 1 .. Len(Order(h.url)) /\ Seen(Order(h.url), 1) = {}
    BY <2>1, FirstPositions, Zenon
  <2>3. \A i \in Items : c[i] = IF i \in Affected(h) THEN Absent ELSE h.before[i]
    BY <1>4, Zenon DEF BackedTo, BackedUp
  <2>4. BackedUp(h, b, Affected(h)) /\ Ready(h, t, n, Affected(h) \ {})
    BY <1>4, Zenon DEF BackedTo, Ready
  <2>5. AtInstall(h, c, t, b, n)
    BY <1>4, <2>2, <2>3, <2>4, Zenon DEF AtInstall
  <2> QED
    BY <1>1, <1>2, <1>4, <2>5, Zenon DEF CacheInv, PhaseOK
<1> QED
  BY <1>3, <1>4, Zenon

BacksUp(f, c, b, i, e, c1, b1, h) ==
  /\ f.pc = "backup" /\ i = Order(f.url)[f.k] /\ e = Advance(f, Order(f.url), "install")
  /\ IF Exists(c[i], i)
     THEN /\ b1 = [b EXCEPT ![i] = c[i]] /\ c1 = [c EXCEPT ![i] = Absent]
          /\ h = [e EXCEPT !.backed = e.backed \cup {i}]
     ELSE b1 = b /\ c1 = c /\ h = e

\* An item of the old cache is set aside.
LEMMA BackupOK ==
    ASSUME NEW f \in Frame, NEW c \in Disks, NEW t \in Disks, NEW b \in Disks, NEW g, NEW n \in Nat, NEW x, NEW y,
           CacheInv(f, c, t, b, g, n, x, y),
           NEW i, NEW e, NEW c1, NEW b1, NEW h, BacksUp(f, c, b, i, e, c1, b1, h)
    PROVE  h \in Frame /\ c1 \in Disks /\ b1 \in Disks /\ CacheInv(h, c1, t, b1, g, n, x, y)
<1> USE DEF BacksUp
<1> DEFINE q == Order(f.url)
<1>1. /\ Loaded(f) /\ f.unrestored = {} /\ f.undeleted = {} /\ f.k \in 1 .. Len(q)
      /\ Ready(f, t, n, Affected(f)) /\ BackedUp(f, b, Seen(q, f.k))
      /\ \A j \in Affected(f) \ f.backed : b[j] = Absent \/ Twice(n, x)
      /\ \A j \in Items : c[j] = IF j \in f.backed THEN Absent ELSE f.before[j]
      /\ f.gen \in 1 .. MaxSyncs /\ Sound(f.before, g, n, x, y) /\ Recorded(f, n, x, y) /\ Whole(c)
      /\ Clear(t, b, n, x, Items \ Affected(f))
  BY Zenon DEF CacheInv, PhaseOK, AtBackup, Aside, Writing
<1>2. q \in Seq(Names) /\ Walk(q) /\ Range(q) = Affected(f)
  BY Orders, Zenon DEF Frame, Affected
<1>3. "install" \in Phases /\ e = Advance(f, q, "install") /\ i = q[f.k]
  BY Zenon DEF Phases
<1> HIDE DEF q
<1>4. /\ f.url \in {"family", "single"} /\ f.k \in Nat /\ Affected(f) \subseteq Items
      /\ i \in Affected(f) /\ i \notin Seen(q, f.k) /\ Seen(q, f.k + 1) = Seen(q, f.k) \cup {i}
      /\ Seen(q, f.k) \subseteq Affected(f) /\ (f.k = Len(q) => Seen(q, f.k + 1) = Affected(f))
  <2>1. f.k \in 1 .. Len(q)
    BY <1>1, Zenon
  <2>2. /\ f.url \in {"family", "single"} /\ f.k \in Nat /\ Affected(f) \subseteq Items
        /\ q[f.k] \in Range(q) /\ q[f.k] \notin Seen(q, f.k)
        /\ Seen(q, f.k + 1) = Seen(q, f.k) \cup {q[f.k]}
        /\ Seen(q, f.k) \subseteq Range(q) /\ (f.k = Len(q) => Seen(q, f.k + 1) = Range(q))
    BY <1>2, <2>1, WalkOfCall, Zenon
  <2> QED
    BY <1>2, <1>3, <2>2, Zenon
<1>5. e \in Frame /\ Same(f, e)
      /\ IF f.k < Len(q)
         THEN e.pc = f.pc /\ e.k = f.k + 1 /\ e.k \in 1 .. Len(q)
         ELSE e.pc = "install" /\ e.k = 1 /\ f.k = Len(q)
  BY <1>1, <1>2, <1>3, AdvanceFrame
<1>6. i \in Items /\ i \notin f.backed /\ c[i] = f.before[i] /\ f.backed \subseteq Seen(q, f.k)
  BY <1>1, <1>4, Zenon DEF BackedUp
<1>7. /\ Loaded(e) /\ e.unrestored = {} /\ Ready(e, t, n, Affected(e)) /\ Affected(e) = Affected(f)
      /\ e.gen = f.gen /\ e.before = f.before /\ e.url = f.url /\ e.backed = f.backed
      /\ e.undeleted = {} /\ e.stale = f.stale /\ Recorded(e, n, x, y)
  BY <1>1, <1>5, SameStaged
<1>8. \/ e.pc = "backup" /\ e.k \in 1 .. Len(q) /\ Seen(q, f.k + 1) = Seen(q, e.k)
      \/ e.pc = "install" /\ e.k = 1 /\ Seen(q, f.k + 1) = Affected(f)
  BY <1>4, <1>5, Zenon
<1>9. CASE Exists(c[i], i)
  <2>1. /\ b1 = [b EXCEPT ![i] = c[i]] /\ c1 = [c EXCEPT ![i] = Absent]
        /\ h = [e EXCEPT !.backed = e.backed \cup {i}] /\ c[i] # Absent
    BY <1>9, Zenon DEF Exists
  <2>2. b1 \in Disks /\ c1 \in Disks
    <3>1. Absent \in SUBSET Int
      BY DEF Absent
    <3> QED
      BY <1>6, <2>1, <3>1, Zenon DEF Disks
  <2>3. e.backed \cup {i} \in SUBSET Items
    BY <1>5, <1>6, Zenon DEF Frame
  <2>4. /\ h \in Frame /\ h.backed = e.backed \cup {i} /\ h.pc = e.pc /\ h.k = e.k /\ h.gen = e.gen
        /\ h.url = e.url /\ h.lists = e.lists /\ h.before = e.before /\ h.unrestored = e.unrestored
        /\ h.stale = e.stale /\ h.undeleted = e.undeleted
    BY <1>5, <2>1, <2>3, ZenonT(60) DEF Frame
  <2>5. /\ Loaded(h) /\ Affected(h) = Affected(e) /\ Recorded(h, n, x, y)
        /\ \A j, v : StagedTo(h, j, v) <=> StagedTo(e, j, v)
    <3>1. Loaded(h) /\ Affected(h) = Affected(e) /\ \A j : Staged(h, j) = Staged(e, j)
      BY <1>7, <2>4, SameLists
    <3> QED
      BY <1>7, <2>4, <3>1, Zenon DEF Recorded, StagedTo
  <2>6. Ready(h, t, n, Affected(h)) /\ h.undeleted = {} /\ h.unrestored = {}
    BY <1>7, <2>4, <2>5, Zenon DEF Ready
  <2>7. h.backed = f.backed \cup {i} /\ h.before = f.before /\ Affected(h) = Affected(f)
    BY <1>7, <2>4, <2>5, Zenon
  <2>8. BackedUp(h, b1, Seen(q, f.k + 1))
    <3>1. \A j \in Items : j # i => b1[j] = b[j]
      BY <2>1, Zenon DEF Disks
    <3>2. b1[i] = c[i]
      BY <1>6, <2>1, Zenon DEF Disks
    <3>3. f.backed \subseteq Items /\ i \in Items
      BY <1>6, Zenon DEF Frame
    <3>4. h.backed \subseteq Seen(q, f.k + 1)
      BY <1>4, <1>6, <2>7, Zenon
    <3>5. \A j \in Seen(q, f.k + 1) \ h.backed : h.before[j] = Absent
      <4>1. \A j \in Seen(q, f.k) \ f.backed : f.before[j] = Absent
        BY <1>1, Zenon DEF BackedUp
      <4> QED
        BY <1>4, <2>7, <4>1, Zenon
    <3>6. \A j \in h.backed : h.before[j] # Absent /\ b1[j] = h.before[j]
      <4>1. \A j \in f.backed : f.before[j] # Absent /\ b[j] = f.before[j]
        BY <1>1, Zenon DEF BackedUp
      <4>2. \A j \in f.backed : b1[j] = b[j]
        BY <1>6, <3>1, <3>3, Zenon
      <4>3. f.before[i] # Absent /\ b1[i] = f.before[i]
        BY <1>6, <2>1, <3>2, Zenon
      <4> QED
        BY <2>7, <4>1, <4>2, <4>3, Zenon
    <3> QED
      BY <3>4, <3>5, <3>6, Zenon DEF BackedUp
  <2>9. BackedTo(h, c1, b1, n, x, Seen(q, f.k + 1)) /\ Clear(t, b1, n, x, Items \ Affected(h))
    <3>1. \A j \in Items : j # i => b1[j] = b[j] /\ c1[j] = c[j]
      BY <2>1, Zenon DEF Disks
    <3>2. c1[i] = Absent
      BY <1>6, <2>1, Zenon DEF Disks
    <3>3. \A j \in Items \ Affected(h) : j # i /\ b1[j] = b[j]
      BY <1>4, <2>7, <3>1, Zenon
    <3>4. Clear(t, b1, n, x, Items \ Affected(h))
      BY <1>1, <2>7, <3>3, Zenon DEF Clear
    <3>5. \A j \in Affected(h) \ h.backed : b1[j] = Absent \/ Twice(n, x)
      BY <1>1, <1>4, <2>7, <3>1, Zenon
    <3>6. \A j \in Items : c1[j] = IF j \in h.backed THEN Absent ELSE h.before[j]
      BY <1>1, <2>7, <3>1, <3>2, Zenon
    <3> QED
      BY <2>8, <3>4, <3>5, <3>6, Zenon DEF BackedTo
  <2>10. CacheInv(h, c1, t, b1, g, n, x, y)
    BY <1>1, <1>7, <1>8, <2>2, <2>4, <2>5, <2>6, <2>7, <2>9, BackupAdvances DEF q
  <2> QED
    BY <2>2, <2>4, <2>10, Zenon
<1>10. CASE ~Exists(c[i], i)
  <2>1. b1 = b /\ c1 = c /\ h = e
    BY <1>10, Zenon
  <2>2. c[i] = Absent
    <3>1. \A k \in 1 .. MaxSyncs : {k} # Empty
      BY Zenon DEF Empty
    <3> QED
      BY <1>1, <1>6, <1>10, <3>1, Zenon DEF Exists, Whole
  <2>3. BackedTo(e, c, b, n, x, Seen(q, f.k + 1)) /\ Clear(t, b, n, x, Items \ Affected(e))
    <3>1. BackedUp(e, b, Seen(q, f.k + 1))
      <4>1. /\ f.backed \subseteq Seen(q, f.k) /\ \A j \in Seen(q, f.k) \ f.backed : f.before[j] = Absent
            /\ \A j \in f.backed : f.before[j] # Absent /\ b[j] = f.before[j]
        BY <1>1, Zenon DEF BackedUp
      <4>2. f.before[i] = Absent
        BY <1>6, <2>2, Zenon
      <4>3. \A j \in Seen(q, f.k + 1) \ e.backed : e.before[j] = Absent
        BY <1>4, <1>7, <4>1, <4>2, Zenon
      <4> QED
        BY <1>4, <1>7, <4>1, <4>3, Zenon DEF BackedUp
    <3> QED
      BY <1>1, <1>7, <3>1, Zenon DEF BackedTo
  <2>4. CacheInv(e, c, t, b, g, n, x, y)
    BY <1>1, <1>5, <1>7, <1>8, <2>3, BackupAdvances, Zenon DEF q
  <2> QED
    BY <1>5, <2>1, <2>4, Zenon
<1> QED
  BY <1>9, <1>10, Zenon

BackupBreaks(f, c, b, n, i, m, left, h) ==
  /\ f.pc = "backup" /\ i = Order(f.url)[f.k] /\ Exists(c[i], i)
  /\ (~CanMove(c, b, i) /\ m = n) \/ m = n + 1
  /\ left \in SUBSET Items /\ h = [Goto(f, "restore") EXCEPT !.left = left]

\* It cannot be set aside.
LEMMA BackupFailsOK ==
    ASSUME NEW f \in Frame, NEW c \in Disks, NEW t \in Disks, NEW b \in Disks, NEW g, NEW n \in Nat, NEW x, NEW y,
           CacheInv(f, c, t, b, g, n, x, y),
           NEW i, NEW m, NEW left, NEW h, BackupBreaks(f, c, b, n, i, m, left, h)
    PROVE  h \in Frame /\ CacheInv(h, c, t, b, g, m, x, y)
<1> USE DEF BackupBreaks
<1> DEFINE q == Order(f.url)
<1>1. /\ f.unrestored = {} /\ f.k \in 1 .. Len(q) /\ BackedUp(f, b, Seen(q, f.k))
      /\ \A j \in Affected(f) \ f.backed : b[j] = Absent \/ Twice(n, x)
      /\ \A j \in Items : c[j] = IF j \in f.backed THEN Absent ELSE f.before[j]
  BY Zenon DEF CacheInv, PhaseOK, AtBackup
<1>2. q \in Seq(Names) /\ Walk(q) /\ Range(q) = Affected(f) /\ i = q[f.k]
  BY Orders, Zenon DEF Frame, Affected
<1> HIDE DEF q
<1>3. /\ f.url \in {"family", "single"} /\ Affected(f) \subseteq Items
      /\ i \in Affected(f) /\ i \notin Seen(q, f.k) /\ Seen(q, f.k) \subseteq Affected(f)
  <2>1. f.k \in 1 .. Len(q)
    BY <1>1, Zenon
  <2> QED
    BY <1>2, <2>1, WalkOfCall
<1>4. i \notin f.backed /\ (b[i] = Absent \/ Twice(n, x)) /\ c[i] # Absent
  BY <1>1, <1>3, Zenon DEF BackedUp, Exists
<1>5. m \in Nat /\ m >= n /\ Disturbed(m, x)
  <2>1. CASE m = n + 1
    BY <2>1 DEF Disturbed
  <2>2. CASE m = n /\ ~CanMove(c, b, i)
    <3>1. Twice(n, x)
      BY <1>4, <2>2, Zenon DEF CanMove
    <3> QED
      BY <2>2, <3>1 DEF Twice, Disturbed
  <2> QED
    BY <2>1, <2>2, Zenon
<1>6. PICK e : e = Goto(f, "restore")
  BY Zenon
<1>7. e \in Frame /\ e.pc = "restore" /\ e.k = 1 /\ Same(f, e)
  BY <1>6, GotoFrame DEF Phases
<1>8. h \in Frame /\ h.pc = "restore" /\ h.k = 1 /\ Same(f, h)
  BY <1>6, <1>7, ZenonT(60) DEF Frame, Same, Alike
<1>9. /\ h.unrestored = {} /\ h.before = f.before /\ h.gen = f.gen /\ h.url = f.url
      /\ h.backed = f.backed /\ Affected(h) = Affected(f)
  BY <1>1, <1>8, SameStaged, ZenonT(60)
<1>10. 1 \in 1 .. Len(RestoreOrder(h.url)) /\ Seen(RestoreOrder(h.url), 1) = {}
  BY <1>3, <1>9, FirstPositions, Zenon
<1>11. AtRestore(h, c, b, m, x)
  <2>1. h.backed \subseteq Affected(h) /\ (\A j \in h.backed : h.before[j] # Absent /\ b[j] = h.before[j])
    BY <1>1, <1>3, <1>9, Zenon DEF BackedUp
  <2>2. \A j \in Items : IF j \in h.backed THEN c[j] = Absent /\ b[j] = h.before[j] ELSE c[j] = h.before[j]
    BY <1>1, <1>9, <2>1, Zenon
  <2>3. \A j : j \notin Seen(RestoreOrder(h.url), h.k)
    BY <1>8, <1>10, Zenon
  <2> QED
    BY <1>5, <1>8, <1>9, <1>10, <2>1, <2>2, <2>3, Zenon DEF AtRestore, RestoredTo
<1>12. Held(h, c, t, b, g, m, x, y)
  <2>1. Held(f, c, t, b, g, n, x, y)
    BY InCall, Zenon
  <2>2. Whole(c) /\ Uniform(c, y) /\ Clear(t, b, m, x, Aside(h))
    BY <1>5, <2>1, Zenon DEF Held, Clear
  <2> HIDE DEF BackupBreaks
  <2> QED
    BY <1>5, <1>8, <2>1, <2>2, StillHeld
<1> QED
  BY <1>8, <1>11, <1>12, Zenon DEF CacheInv, PhaseOK, Held

\* The contents a call stages are whole, and those that hold anything agree.
LEMMA StagedIsWhole ==
    ASSUME NEW f \in Frame, f.gen \in 1 .. MaxSyncs
    PROVE  /\ \A i : Staged(f, i) = {f.gen} \/ (Staged(f, i) = Empty /\ i \in StoreSet)
           /\ \A i : Staged(f, i) # Absent /\ Staged(f, i) \in SUBSET Int
<1>1. f.gen \in Int /\ f.gen # -1
  BY DEF Frame
<1> QED
  BY <1>1, Zenon DEF Staged, Absent, Empty

\* The new artefacts, but for those y that a failed removal left, are of one call.
LEMMA PartOfNew ==
    ASSUME NEW f \in Frame, f.gen \in 1 .. MaxSyncs, NEW c, NEW y,
           \A i \in CoreItems \ y : c[i] = Absent \/ c[i] = Staged(f, i)
    PROVE  Uniform(c, y)
<1>1. \A i : Staged(f, i) = {f.gen} \/ (Staged(f, i) = Empty /\ i \in StoreSet)
  BY StagedIsWhole, Zenon
<1>2. \A i \in CoreItems \ y : c[i] \in {Absent, Empty, {f.gen}}
  BY <1>1, Zenon
<1> QED
  BY <1>2, Zenon DEF Uniform

Installs(f, c, t, i, c1, t1, h) ==
  /\ f.pc = "install" /\ i = Order(f.url)[f.k] /\ t[i] # Absent
  /\ c1 = [c EXCEPT ![i] = t[i]] /\ t1 = [t EXCEPT ![i] = Absent]
  /\ h = Advance(f, Order(f.url), "finish")

\* A staged item is installed.
LEMMA InstallOK ==
    ASSUME NEW f \in Frame, NEW c \in Disks, NEW t \in Disks, NEW b \in Disks, NEW g, NEW n \in Nat, NEW x, NEW y,
           CacheInv(f, c, t, b, g, n, x, y),
           NEW i, NEW c1, NEW t1, NEW h, Installs(f, c, t, i, c1, t1, h)
    PROVE  h \in Frame /\ c1 \in Disks /\ t1 \in Disks /\ CacheInv(h, c1, t1, b, g, n, x, y)
<1> USE DEF Installs
<1> DEFINE q == Order(f.url)
<1>1. /\ Loaded(f) /\ f.unrestored = {} /\ f.undeleted = {} /\ f.k \in 1 .. Len(q)
      /\ Ready(f, t, n, Affected(f) \ Seen(q, f.k)) /\ BackedUp(f, b, Affected(f))
      /\ \A j \in Items : IF j \in Seen(q, f.k) THEN StagedTo(f, j, c[j])
                          ELSE c[j] = IF j \in Affected(f) THEN Absent ELSE f.before[j]
      /\ f.gen \in 1 .. MaxSyncs /\ f.stale \subseteq StoreSet \cap y
      /\ Whole(c) /\ Clear(t, b, n, x, Items \ Affected(f))
  BY Zenon DEF CacheInv, PhaseOK, AtInstall, Recorded, Aside, Writing
<1>2. q \in Seq(Names) /\ Walk(q) /\ Range(q) = Affected(f)
  BY Orders, Zenon DEF Frame, Affected
<1>3. "finish" \in Phases /\ h = Advance(f, q, "finish") /\ i = q[f.k]
  BY Zenon DEF Phases
<1> HIDE DEF q
<1>4. /\ f.url \in {"family", "single"} /\ f.k \in Nat /\ Affected(f) \subseteq Items
      /\ i \in Affected(f) /\ i \notin Seen(q, f.k) /\ Seen(q, f.k + 1) = Seen(q, f.k) \cup {i}
      /\ Seen(q, f.k) \subseteq Affected(f) /\ (f.k = Len(q) => Seen(q, f.k + 1) = Affected(f))
  <2>1. f.k \in 1 .. Len(q)
    BY <1>1, Zenon
  <2>2. /\ f.url \in {"family", "single"} /\ f.k \in Nat /\ Affected(f) \subseteq Items
        /\ q[f.k] \in Range(q) /\ q[f.k] \notin Seen(q, f.k)
        /\ Seen(q, f.k + 1) = Seen(q, f.k) \cup {q[f.k]}
        /\ Seen(q, f.k) \subseteq Range(q) /\ (f.k = Len(q) => Seen(q, f.k + 1) = Range(q))
    BY <1>2, <2>1, WalkOfCall, ZenonT(60)
  <2> QED
    BY <1>2, <1>3, <2>2, Zenon
<1>5. h \in Frame /\ Same(f, h)
      /\ IF f.k < Len(q)
         THEN h.pc = f.pc /\ h.k = f.k + 1 /\ h.k \in 1 .. Len(q)
         ELSE h.pc = "finish" /\ h.k = 1 /\ f.k = Len(q)
  BY <1>1, <1>2, <1>3, AdvanceFrame
<1>6. StagedTo(f, i, t[i]) /\ i \in Items
  BY <1>1, <1>4, Zenon DEF Ready
<1>7. c1 \in Disks /\ t1 \in Disks /\ c1[i] = t[i] /\ \A j \in Items \ {i} : c1[j] = c[j] /\ t1[j] = t[j]
  <2>1. Absent \in SUBSET Int
    BY DEF Absent
  <2> QED
    BY <1>6, <2>1, Zenon DEF Disks
<1>8. \A j \in Items : IF j \in Seen(q, f.k + 1) THEN StagedTo(f, j, c1[j])
                       ELSE c1[j] = IF j \in Affected(f) THEN Absent ELSE f.before[j]
  <2>1. TAKE j \in Items
  <2>2. CASE j = i
    BY <1>4, <1>6, <1>7, <2>2, Zenon
  <2>3. CASE j # i
    <3>1. c1[j] = c[j] /\ (j \in Seen(q, f.k + 1) <=> j \in Seen(q, f.k))
      BY <1>4, <1>7, <2>3, Zenon
    <3> QED
      BY <1>1, <3>1, Zenon
  <2> QED
    BY <2>2, <2>3, Zenon
<1>9. Whole(c1) /\ Uniform(c1, y)
  <2>1. \A j \in Items \ y : StagedTo(f, j, c1[j]) => c1[j] = Staged(f, j)
    BY <1>1, Zenon DEF StagedTo
  <2>2. CoreItems \subseteq Affected(f) /\ CoreItems \subseteq Items
    BY TheItems, Zenon DEF Frame, Affected
  <2>3. \A j \in CoreItems \ y : c1[j] = Absent \/ c1[j] = Staged(f, j)
    BY <1>8, <2>1, <2>2, Zenon
  <2>4. Uniform(c1, y)
    BY <1>1, <2>3, PartOfNew, Zenon
  <2>5. i \notin StoreSet => c1[i] = {f.gen}
    BY <1>1, <1>6, <1>7, Zenon DEF StagedTo, Staged
  <2>6. Whole(c1)
    <3>1. ASSUME NEW j \in Items \ StoreSet
          PROVE  c1[j] = Absent \/ \E k \in 1 .. MaxSyncs : c1[j] = {k}
      <4>1. CASE j = i
        BY <1>1, <2>5, <4>1, Zenon
      <4>2. CASE j # i
        <5>1. c1[j] = c[j]
          BY <1>7, <4>2, Zenon
        <5> QED
          BY <1>1, <5>1, Zenon DEF Whole
      <4> QED
        BY <4>1, <4>2, Zenon
    <3> QED
      BY <3>1, Zenon DEF Whole
  <2> QED
    BY <2>4, <2>6, Zenon
<1>10. Ready(f, t1, n, Affected(f) \ Seen(q, f.k + 1))
  BY <1>1, <1>4, <1>7, Zenon DEF Ready
<1>11. /\ Loaded(h) /\ h.unrestored = {} /\ h.undeleted = {} /\ h.before = f.before /\ h.url = f.url
       /\ Affected(h) = Affected(f) /\ (\A j, v : StagedTo(h, j, v) <=> StagedTo(f, j, v))
       /\ Ready(h, t1, n, Affected(f) \ Seen(q, f.k + 1)) /\ BackedUp(h, b, Affected(f))
  BY <1>1, <1>5, <1>10, SameStaged
<1>12. Held(h, c1, t1, b, g, n, x, y)
  <2>1. \A j \in Items \ Affected(f) : t1[j] = t[j]
    BY <1>4, <1>7, Zenon
  <2>2. f.pc \in Writing /\ h.pc \in Writing /\ Same(f, h)
    BY <1>5, Zenon DEF Writing
  <2>3. Held(f, c, t, b, g, n, x, y)
    BY InCall, Zenon
  <2> HIDE DEF Installs
  <2> QED
    BY <1>9, <2>1, <2>2, <2>3, OwnStep
<1>13. CASE f.k < Len(q)
  <2>1. h.pc = "install" /\ h.k = f.k + 1 /\ h.k \in 1 .. Len(Order(h.url)) /\ q = Order(h.url)
    BY <1>5, <1>11, <1>13, Zenon DEF q
  <2>2. AtInstall(h, c1, t1, b, n)
    BY <1>8, <1>11, <2>1, ZenonT(60) DEF AtInstall
  <2> QED
    BY <1>5, <1>7, <1>12, <2>1, <2>2, Zenon DEF CacheInv, PhaseOK, Held
<1>14. CASE ~(f.k < Len(q))
  <2>1. Seen(q, f.k + 1) = Affected(f) /\ h.pc = "finish" /\ h.k = 1
    BY <1>4, <1>5, <1>14, Zenon
  <2>2. 1 \in 1 .. Len(Order(h.url)) /\ Seen(Order(h.url), 1) = {}
    BY <1>4, <1>11, FirstPositions, Zenon
  <2>3. \A j \in Affected(h) : StagedTo(h, j, c1[j])
    <3>1. TAKE j \in Affected(h)
    <3>2. j \in Items /\ j \in Seen(q, f.k + 1)
      BY <1>4, <1>11, <2>1, Zenon
    <3> QED
      BY <1>8, <1>11, <3>2, Zenon
  <2>4. AtFinish(h, c1, t1, b, n, x)
    BY <1>11, <2>1, <2>2, <2>3, Zenon DEF AtFinish, Clear
  <2> QED
    BY <1>5, <1>7, <1>12, <2>1, <2>4, Zenon DEF CacheInv, PhaseOK, Held
<1> QED
  BY <1>13, <1>14, Zenon

\* A fault that is counted, or one that was counted already, leaves the count above zero.
LEMMA Counted ==
    ASSUME NEW n \in Nat, NEW m, m = n => n >= 1, m = n \/ m = n + 1
    PROVE  m >= 1 /\ m \in {n, n + 1}
OBVIOUS

InstallBreaks(f, c, t, n, i, m, h) ==
  /\ f.pc = "install" /\ i = Order(f.url)[f.k] /\ h = Goto(f, "undo")
  /\ (~CanMove(t, c, i) /\ m = n) \/ m = n + 1

\* It cannot be installed.
LEMMA InstallFailsOK ==
    ASSUME NEW f \in Frame, NEW c \in Disks, NEW t \in Disks, NEW b \in Disks, NEW g, NEW n \in Nat, NEW x, NEW y,
           CacheInv(f, c, t, b, g, n, x, y),
           NEW i, NEW m, NEW h, InstallBreaks(f, c, t, n, i, m, h)
    PROVE  h \in Frame /\ CacheInv(h, c, t, b, g, m, x, y)
<1>0. /\ f.pc = "install" /\ i = Order(f.url)[f.k] /\ h = Goto(f, "undo")
      /\ (~CanMove(t, c, i) /\ m = n) \/ m = n + 1
  BY Zenon DEF InstallBreaks
<1> DEFINE q == Order(f.url)
<1>1. /\ f.unrestored = {} /\ f.k \in 1 .. Len(q) /\ Ready(f, t, n, Affected(f) \ Seen(q, f.k))
      /\ BackedUp(f, b, Affected(f))
      /\ \A j \in Items : IF j \in Seen(q, f.k) THEN StagedTo(f, j, c[j])
                          ELSE c[j] = IF j \in Affected(f) THEN Absent ELSE f.before[j]
      /\ f.gen \in 1 .. MaxSyncs
  BY <1>0, Zenon DEF CacheInv, PhaseOK, AtInstall
<1>2. q \in Seq(Names) /\ Walk(q) /\ Range(q) = Affected(f) /\ i = q[f.k]
  BY <1>0, Orders, Zenon DEF Frame, Affected
<1> HIDE DEF q
<1>3. /\ f.url \in {"family", "single"} /\ Affected(f) \subseteq Items
      /\ i \in Affected(f) /\ i \notin Seen(q, f.k) /\ Seen(q, f.k) \subseteq Affected(f)
  <2>1. f.k \in 1 .. Len(q)
    BY <1>1, Zenon
  <2>2. /\ f.url \in {"family", "single"} /\ Affected(f) \subseteq Items
        /\ q[f.k] \in Range(q) /\ q[f.k] \notin Seen(q, f.k) /\ Seen(q, f.k) \subseteq Range(q)
    BY <1>2, <2>1, WalkOfCall, Zenon
  <2> QED
    BY <1>2, <2>2, Zenon
<1>4. m >= 1 /\ m \in {n, n + 1}
  <2>1. c[i] = Absent /\ (t[i] = Absent => n >= 1)
    <3>1. Staged(f, i) # Absent
      BY <1>1, StagedIsWhole, Zenon
    <3>2. StagedTo(f, i, t[i]) \/ (t[i] = Absent /\ n >= 1)
      BY <1>1, <1>3, Zenon DEF Ready
    <3>3. c[i] = Absent
      BY <1>1, <1>3, Zenon
    <3> QED
      BY <3>1, <3>2, <3>3, Zenon DEF StagedTo
  <2>2. m = n => n >= 1
    BY <1>0, <2>1 DEF CanMove
  <2>3. m = n \/ m = n + 1
    BY <1>0, Zenon
  <2> QED
    BY <2>2, <2>3, Counted, Zenon
<1>5. h \in Frame /\ h.pc = "undo" /\ h.k = 1 /\ Same(f, h)
  <2>1. "undo" \in Phases
    BY Zenon DEF Phases
  <2>2. h = Goto(f, "undo")
    BY <1>0, Zenon
  <2> QED
    BY <2>1, <2>2, GotoFrame, Zenon
<1>6. /\ h.unrestored = {} /\ h.before = f.before /\ h.url = f.url /\ Affected(h) = Affected(f)
      /\ BackedUp(h, b, Affected(f)) /\ (\A j, v : StagedTo(h, j, v) <=> StagedTo(f, j, v))
  BY <1>1, <1>5, SameStaged, Zenon
<1>7. 1 \in 1 .. Len(CleanOrder(h.url)) /\ Seen(CleanOrder(h.url), 1) = {}
  BY <1>3, <1>6, FirstPositions, Zenon
<1>8. AtUndo(h, c, b, m)
  <2>1. \A j \in Items : IF j \in Affected(h) THEN c[j] = Absent \/ StagedTo(h, j, c[j]) ELSE c[j] = h.before[j]
    BY <1>1, <1>3, <1>6, Zenon
  <2>2. \A j : j \notin Seen(CleanOrder(h.url), h.k)
    BY <1>5, <1>7, Zenon
  <2> QED
    BY <1>4, <1>5, <1>6, <1>7, <2>1, <2>2, Zenon DEF AtUndo
<1>9. Held(h, c, t, b, g, m, x, y)
  <2>1. Held(f, c, t, b, g, n, x, y) /\ f.pc \in Writing /\ h.pc \in Writing
    BY <1>0, <1>5, InCall, Zenon DEF Writing
  <2>2. Whole(c) /\ Uniform(c, y)
    BY <2>1, Zenon DEF Held
  <2>3. m \in Nat /\ m >= n
    BY <1>4
  <2> QED
    BY <1>5, <2>1, <2>2, <2>3, OwnStep
<1> QED
  BY <1>5, <1>8, <1>9, Zenon DEF CacheInv, PhaseOK, Held

\* One removal of the rollback, which may fail, and the frame it leaves.
Undoes(f, c, n, m, i, c1, S, e, h) ==
  /\ f.pc = "undo" /\ i = CleanOrder(f.url)[f.k] /\ e = Advance(f, CleanOrder(f.url), "restore")
  /\ c1 \in Disks /\ \A j \in Items \ {i} : c1[j] = c[j]
  /\ \/ m = n /\ S = {} /\ c1[i] = Absent /\ h = e
     \/ /\ m = n + 1 /\ S = {i} /\ (i \notin StoreSet => c1[i] = c[i])
        /\ h = [e EXCEPT !.undeleted = e.undeleted \cup S]

\* What was installed is removed again, or stays.
LEMMA UndoOK ==
    ASSUME NEW f \in Frame, NEW c, NEW t, NEW b, NEW g, NEW n \in Nat, NEW x, NEW y,
           CacheInv(f, c, t, b, g, n, x, y),
           NEW m, NEW i, NEW c1, NEW S, NEW e, NEW h, Undoes(f, c, n, m, i, c1, S, e, h)
    PROVE  h \in Frame /\ CacheInv(h, c1, t, b, g, m, x, y \cup S)
<1> USE DEF Undoes
<1> DEFINE q == CleanOrder(f.url)
           z == y \cup S
<1>1. /\ f.unrestored = {} /\ n >= 1 /\ f.k \in 1 .. Len(q) /\ BackedUp(f, b, Affected(f))
      /\ \A j \in Items : IF j \in Affected(f)
                          THEN \/ c[j] = Absent \/ j \in f.undeleted
                               \/ j \notin Seen(q, f.k) /\ StagedTo(f, j, c[j])
                          ELSE c[j] = f.before[j]
  BY Zenon DEF CacheInv, PhaseOK, AtUndo
<1>2. Held(f, c, t, b, g, n, x, y)
  BY InCall, Zenon
<1>3. q \in Seq(Names) /\ Walk(q) /\ Range(q) = Affected(f)
  BY Orders, ZenonT(60) DEF Frame, Affected
<1>4. "restore" \in Phases /\ e = Advance(f, q, "restore") /\ i = q[f.k]
  BY Zenon DEF Phases
<1> HIDE DEF q
<1>5. /\ f.url \in {"family", "single"} /\ f.k \in Nat /\ Affected(f) \subseteq Items
      /\ i \in Affected(f) /\ i \in Items /\ Seen(q, f.k + 1) = Seen(q, f.k) \cup {i}
      /\ (f.k = Len(q) => Seen(q, f.k + 1) = Affected(f))
  <2>1. f.k \in 1 .. Len(q)
    BY <1>1, Zenon
  <2>2. /\ f.url \in {"family", "single"} /\ f.k \in Nat /\ Affected(f) \subseteq Items
        /\ q[f.k] \in Range(q) /\ q[f.k] \notin Seen(q, f.k)
        /\ Seen(q, f.k + 1) = Seen(q, f.k) \cup {q[f.k]}
        /\ Seen(q, f.k) \subseteq Range(q) /\ (f.k = Len(q) => Seen(q, f.k + 1) = Range(q))
    BY <1>3, <2>1, WalkOfCall, Zenon
  <2> QED
    BY <1>3, <1>4, <2>2, Zenon
<1>6. e \in Frame /\ Same(f, e)
      /\ IF f.k < Len(q)
         THEN e.pc = f.pc /\ e.k = f.k + 1 /\ e.k \in 1 .. Len(q)
         ELSE e.pc = "restore" /\ e.k = 1 /\ f.k = Len(q)
  BY <1>1, <1>3, <1>4, AdvanceFrame
<1>7. h \in Frame /\ h.pc = e.pc /\ h.k = e.k /\ Alike(f, h) /\ h.stale = f.stale /\ h.undeleted = f.undeleted \cup S
  <2>1. f.undeleted \cup S \in SUBSET Items /\ e.undeleted = f.undeleted
    BY <1>5, <1>6, Zenon DEF Frame, Same
  <2>2. CASE h = e /\ S = {}
    BY <1>6, <2>2, Zenon DEF Same
  <2>3. CASE h = [e EXCEPT !.undeleted = e.undeleted \cup S]
    <3>1. h \in Frame /\ h.pc = e.pc /\ h.k = e.k /\ h.stale = e.stale /\ h.undeleted = e.undeleted \cup S
      BY <1>6, <2>1, <2>3, Zenon DEF Frame
    <3>2. Alike(e, h)
      BY <1>6, <2>1, <2>3, Zenon DEF Frame, Alike
    <3> QED
      BY <1>6, <2>1, <3>1, <3>2, Zenon DEF Same, Alike
  <2> QED
    BY <2>2, <2>3, Zenon
<1>8. /\ h.gen = f.gen /\ h.url = f.url /\ h.before = f.before /\ Affected(h) = Affected(f)
      /\ h.unrestored = {} /\ h.backed = f.backed /\ BackedUp(h, b, Affected(f))
      /\ \A j, v : StagedTo(h, j, v) <=> StagedTo(f, j, v)
  <2>1. \A j : Staged(h, j) = Staged(f, j)
    BY <1>7, SameLists, Zenon DEF Alike
  <2>2. \A j, v : StagedTo(h, j, v) <=> StagedTo(f, j, v)
    BY <1>7, <2>1, Zenon DEF StagedTo
  <2> QED
    BY <1>1, <1>7, <2>2, Zenon DEF Alike, BackedUp, Affected
<1>9. m \in Nat /\ m >= n /\ m >= 1 /\ Disturbed(m, x) /\ (S # {} => Twice(m, x)) /\ y \subseteq z
  BY <1>1 DEF Disturbed, Twice
<1>10. \A j \in Items : j # i => c1[j] = c[j]
  BY Zenon
<1>11. c1[i] = Absent \/ i \in S
  BY Zenon
<1>12. \A j \in Items : IF j \in Affected(f)
                        THEN \/ c1[j] = Absent \/ j \in h.undeleted
                             \/ j \notin Seen(q, f.k + 1) /\ StagedTo(f, j, c1[j])
                        ELSE c1[j] = f.before[j]
  <2>1. TAKE j \in Items
  <2>2. CASE j = i
    BY <1>5, <1>7, <1>11, <2>2, Zenon
  <2>3. CASE j # i
    <3>1. c1[j] = c[j] /\ (j \in Seen(q, f.k + 1) <=> j \in Seen(q, f.k))
      BY <1>5, <1>10, <2>3, Zenon
    <3> QED
      BY <1>1, <1>7, <3>1, Zenon
  <2> QED
    BY <2>2, <2>3, Zenon
<1>13. Held(h, c1, t, b, g, m, x, z)
  <2>1. Recorded(f, m, x, z) /\ Sound(f.before, g, m, x, z)
    BY <1>2, <1>9, MoreFaults, Zenon DEF Held
  <2>2. Recorded(h, m, x, z)
    BY <1>7, <1>9, <2>1, Zenon DEF Recorded
  <2>3. Whole(c1)
    <3>1. i \in StoreSet \/ c1[i] = Absent \/ c1[i] = c[i]
      BY Zenon
    <3> QED
      <4>1. ASSUME NEW j \in Items \ StoreSet
            PROVE  c1[j] = Absent \/ c1[j] = c[j]
        BY <1>10, <3>1, Zenon
      <4> QED
        BY <1>2, <4>1, Zenon DEF Held, Whole
  <2>4. CoreItems \subseteq Affected(f) /\ CoreItems \subseteq Items /\ f.stale \subseteq z /\ h.undeleted \subseteq z
    BY <2>1, <2>2, TheItems, Zenon DEF Frame, Affected, Recorded
  <2>5. \A j \in CoreItems \ z : c1[j] = Absent \/ c1[j] = Staged(f, j)
    BY <1>12, <2>4, Zenon DEF StagedTo
  <2>6. Uniform(c1, z)
    <3>1. f.gen \in 1 .. MaxSyncs
      BY <1>2, Zenon DEF Held
    <3> HIDE DEF z
    <3> QED
      BY <2>5, <3>1, PartOfNew
  <2>7. Clear(t, b, m, x, Aside(h))
    BY <1>9, Zenon DEF Clear
  <2> QED
    BY <1>2, <1>8, <2>1, <2>2, <2>3, <2>6, <2>7, Zenon DEF Held
<1>14. CASE f.k < Len(q)
  <2>1. h.pc = "undo" /\ h.k = f.k + 1 /\ h.k \in 1 .. Len(q) /\ q = CleanOrder(h.url)
    BY <1>6, <1>7, <1>8, <1>14, Zenon DEF q
  <2>2. AtUndo(h, c1, b, m)
    BY <1>8, <1>9, <1>12, <2>1, Zenon DEF AtUndo
  <2> QED
    BY <1>7, <1>13, <2>1, <2>2, Zenon DEF CacheInv, PhaseOK, Held
<1>15. CASE ~(f.k < Len(q))
  <2>1. Seen(q, f.k + 1) = Affected(f) /\ h.pc = "restore" /\ h.k = 1
    BY <1>5, <1>6, <1>7, <1>15, Zenon
  <2>2. 1 \in 1 .. Len(RestoreOrder(h.url)) /\ Seen(RestoreOrder(h.url), 1) = {}
    BY <1>5, <1>8, FirstPositions, Zenon
  <2>3. \A j \in Items : IF j \in Affected(h) THEN c1[j] = Absent \/ j \in h.undeleted ELSE c1[j] = h.before[j]
    BY <1>8, <1>12, <2>1, Zenon
  <2>4. /\ h.backed \subseteq Affected(h) /\ (\A j \in Affected(h) \ h.backed : h.before[j] = Absent)
        /\ \A j \in h.backed : h.before[j] # Absent /\ b[j] = h.before[j]
    BY <1>8, Zenon DEF BackedUp
  <2>5. \A j \in Items : IF j \in h.backed THEN (c1[j] = Absent \/ j \in h.undeleted) /\ b[j] = h.before[j]
                         ELSE c1[j] = h.before[j] \/ (j \in h.undeleted /\ h.before[j] = Absent)
    BY <2>3, <2>4, Zenon
  <2>6. \A j : j \notin Seen(RestoreOrder(h.url), h.k)
    BY <2>1, <2>2, Zenon
  <2>7. AtRestore(h, c1, b, m, x)
    BY <1>8, <1>9, <2>1, <2>2, <2>4, <2>5, <2>6, Zenon DEF AtRestore, RestoredTo
  <2> QED
    BY <1>7, <1>13, <2>1, <2>7, Zenon DEF CacheInv, PhaseOK, Held
<1> QED
  BY <1>14, <1>15, Zenon

\* The frame RestoreNext leaves.
RestoreFrame(e, c) ==
  IF e.k < Len(RestoreOrder(e.url)) THEN [e EXCEPT !.k = e.k + 1] ELSE FailureResult(e, c)

\* One more item has been put back, or could not be.
LEMMA RestoreAdvances ==
    ASSUME NEW e \in Frame, e.pc = "restore", NEW q, q = RestoreOrder(e.url), e.k \in 1 .. Len(q),
           NEW c \in Disks, Whole(c), NEW t, NEW b, NEW g, NEW n, NEW x, NEW y,
           Sound(e.before, g, n, x, y), e.gen \in 1 .. MaxSyncs, Recorded(e, n, x, y),
           RestoredTo(e, c, b, n, x, Seen(q, e.k + 1)), NEW h, h = RestoreFrame(e, c)
    PROVE  h \in Frame /\ CacheInv(h, c, t, b, g, n, x, y)
<1>1. Uniform(c, y) /\ \A S : Clear(t, b, n, x, S)
  <2>1. Uniform(e.before, y) /\ CoreItems \subseteq Items /\ e.undeleted \subseteq y
    BY TheItems, Zenon DEF Sound, Recorded
  <2>2. \A i \in CoreItems \ y : c[i] = Absent \/ c[i] = e.before[i]
    BY <2>1, Zenon DEF RestoredTo
  <2> QED
    BY <2>1, <2>2, Zenon DEF Uniform, RestoredTo, Clear
<1>2. q \in Seq(Names) /\ Walk(q) /\ Range(q) = Affected(e) /\ Len(q) \in Nat /\ e.k \in Nat
  <2>1. e.url \in {"family", "single"} /\ e.k \in Nat
    BY Zenon DEF Frame
  <2>2. q \in Seq(Names) /\ Walk(q) /\ Range(q) = Affected(e)
    BY <2>1, Orders, Zenon DEF Affected
  <2> QED
    BY <2>1, <2>2
<1>3. e.k = Len(q) => Seen(q, e.k + 1) = Affected(e)
  BY <1>2, WalkStep, Zenon
<1>4. CASE e.k < Len(q)
  <2>1. h = [e EXCEPT !.k = e.k + 1]
    BY <1>4, Zenon DEF RestoreFrame
  <2>2. h \in Frame /\ h.pc = "restore" /\ h.k = e.k + 1 /\ Same(e, h)
    <3>1. e.k + 1 \in Nat
      BY <1>2
    <3>2. h \in Frame /\ h.pc = e.pc /\ h.k = e.k + 1
      BY <2>1, <3>1, Zenon DEF Frame
    <3>3. Same(e, h)
      BY <2>1, <3>1, Zenon DEF Frame, Same, Alike
    <3> QED
      BY <3>2, <3>3, Zenon
  <2>3. h.k \in 1 .. Len(q)
    BY <1>2, <1>4, <2>2
  <2>4. /\ h.gen = e.gen /\ h.url = e.url /\ h.before = e.before /\ h.backed = e.backed
        /\ h.unrestored = e.unrestored /\ Affected(h) = Affected(e) /\ h.undeleted = e.undeleted
        /\ Recorded(h, n, x, y)
    BY <2>2, SameStaged, Zenon
  <2>5. AtRestore(h, c, b, n, x)
    BY <2>2, <2>3, <2>4, Zenon DEF AtRestore, RestoredTo
  <2> QED
    BY <1>1, <2>2, <2>4, <2>5, Zenon DEF CacheInv, PhaseOK
<1>5. CASE ~(e.k < Len(q))
  <2>1. h = FailureResult(e, c) /\ Seen(q, e.k + 1) = Affected(e)
    BY <1>2, <1>3, <1>5 DEF RestoreFrame
  <2>2. /\ h \in Frame /\ h.pc = "return" /\ h.succeeded = FALSE /\ Same(e, h)
        /\ h.cache_status = "fresh" => {h.last_sync} = c["state"]
    BY <2>1, FailureFrame, ZenonT(60)
  <2>3. /\ h.gen = e.gen /\ h.before = e.before /\ h.unrestored = e.unrestored
        /\ h.undeleted = e.undeleted /\ Recorded(h, n, x, y)
    BY <2>2, SameStaged, ZenonT(60)
  <2>4. \A i \in Items : IF i \in e.unrestored THEN b[i] = e.before[i]
                         ELSE c[i] = e.before[i] \/ (i \in e.undeleted /\ e.before[i] = Absent)
    BY <2>1, Zenon DEF RestoredTo
  <2>5. Failed(h, c, b, n, x)
    BY <2>2, <2>3, <2>4, Zenon DEF Failed, RestoredTo
  <2> QED
    BY <1>1, <2>2, <2>3, <2>5, Zenon DEF CacheInv, PhaseOK
<1> QED
  BY <1>4, <1>5, Zenon

\* What the walk of a rollback is about to restore.
ToRestore(f, c, b, g, n, x, y, q, i) ==
  /\ f.k \in 1 .. Len(q) /\ f.gen \in 1 .. MaxSyncs /\ Sound(f.before, g, n, x, y)
  /\ Whole(c) /\ Recorded(f, n, x, y) /\ RestoredTo(f, c, b, n, x, Seen(q, f.k))
  /\ i \in Items /\ i \notin Seen(q, f.k) /\ Seen(q, f.k + 1) = Seen(q, f.k) \cup {i}
  /\ i \in f.backed => /\ c[i] = Absent \/ i \in f.undeleted
                       /\ b[i] = f.before[i] /\ f.before[i] # Absent

\* What is known of the item that is to be put back.
LEMMA RestoreStep ==
    ASSUME NEW f \in Frame, NEW c, NEW t, NEW b, NEW g, NEW n, NEW x, NEW y,
           CacheInv(f, c, t, b, g, n, x, y), f.pc = "restore",
           NEW q, q = RestoreOrder(f.url)
    PROVE  ToRestore(f, c, b, g, n, x, y, q, q[f.k])
<1> DEFINE i == q[f.k]
<1>1. /\ f.k \in 1 .. Len(q) /\ f.gen \in 1 .. MaxSyncs /\ Sound(f.before, g, n, x, y)
      /\ Whole(c) /\ Recorded(f, n, x, y)
  BY Zenon DEF CacheInv, PhaseOK, AtRestore
<1>2. RestoredTo(f, c, b, n, x, Seen(q, f.k))
  BY Zenon DEF CacheInv, PhaseOK, AtRestore
<1>3. f.url \in {"family", "single"}
  BY Zenon DEF Frame
<1>4. q \in Seq(Names) /\ Walk(q) /\ Range(q) \subseteq Items
  BY <1>3, Orders, TheItems, Zenon
<1>5. q[f.k] \in Range(q) /\ q[f.k] \notin Seen(q, f.k) /\ Seen(q, f.k + 1) = Seen(q, f.k) \cup {q[f.k]}
  BY <1>1, <1>4, WalkStep, Zenon
<1>6. i \in Items /\ i \notin Seen(q, f.k) /\ Seen(q, f.k + 1) = Seen(q, f.k) \cup {i}
  BY <1>4, <1>5, Zenon
<1>7. i \in f.backed => /\ c[i] = Absent \/ i \in f.undeleted
                        /\ b[i] = f.before[i] /\ f.before[i] # Absent
  BY <1>2, <1>6, Zenon DEF RestoredTo
<1> QED
  BY <1>1, <1>2, <1>6, <1>7, Zenon DEF ToRestore

Restores(f, c, b, i, c1, b1, h) ==
  /\ f.pc = "restore" /\ i = RestoreOrder(f.url)[f.k] /\ h = RestoreFrame(f, c1)
  /\ IF i \in f.backed THEN c1 = [c EXCEPT ![i] = b[i]] /\ b1 = [b EXCEPT ![i] = Absent]
                       ELSE c1 = c /\ b1 = b

\* An item that was set aside is put back.
LEMMA RestoreOK ==
    ASSUME NEW f \in Frame, NEW c \in Disks, NEW t, NEW b \in Disks, NEW g, NEW n \in Nat, NEW x, NEW y,
           CacheInv(f, c, t, b, g, n, x, y),
           NEW i, NEW c1, NEW b1, NEW h, NEW t1, Restores(f, c, b, i, c1, b1, h), NEW m \in Nat, m >= n
    PROVE  h \in Frame /\ c1 \in Disks /\ b1 \in Disks /\ CacheInv(h, c1, t1, b1, g, m, x, y)
<1> USE DEF Restores
<1>1. PICK q : q = RestoreOrder(f.url)
  BY Zenon
<1>2. /\ f.k \in 1 .. Len(q) /\ f.gen \in 1 .. MaxSyncs /\ Sound(f.before, g, n, x, y)
      /\ Whole(c) /\ Recorded(f, n, x, y) /\ RestoredTo(f, c, b, n, x, Seen(q, f.k))
      /\ i \in Items /\ i \notin Seen(q, f.k) /\ Seen(q, f.k + 1) = Seen(q, f.k) \cup {i}
      /\ i \in f.backed => b[i] = f.before[i] /\ f.before[i] # Absent
  <2>1. ToRestore(f, c, b, g, n, x, y, q, q[f.k]) /\ i = q[f.k]
    BY <1>1, RestoreStep, Zenon
  <2> QED
    BY <2>1, Zenon DEF ToRestore
<1>3. c1 \in Disks /\ b1 \in Disks
  <2>1. Absent \in SUBSET Int
    BY DEF Absent
  <2> QED
    BY <1>2, <2>1, Zenon DEF Disks
<1>4. \A j \in Items : j # i => c1[j] = c[j] /\ b1[j] = b[j]
  BY Zenon DEF Disks
<1>5. c1[i] = f.before[i] \/ (i \in f.undeleted /\ f.before[i] = Absent /\ c1[i] = c[i])
  <2>1. CASE i \in f.backed
    BY <1>2, <2>1, Zenon DEF Disks
  <2>2. CASE i \notin f.backed
    BY <1>2, <2>2, Zenon DEF RestoredTo
  <2> QED
    BY <2>1, <2>2, Zenon
<1>6. i \notin f.unrestored /\ Sound(f.before, g, m, x, y) /\ Recorded(f, m, x, y)
  <2>1. i \notin f.unrestored
    BY <1>2, Zenon DEF RestoredTo
  <2> QED
    BY <1>2, <2>1, MoreFaults, Zenon
<1>7. \A j \in Items : IF j \in f.backed /\ j \notin Seen(q, f.k + 1) \ f.unrestored
                       THEN (c1[j] = Absent \/ j \in f.undeleted) /\ b1[j] = f.before[j]
                       ELSE c1[j] = f.before[j] \/ (j \in f.undeleted /\ f.before[j] = Absent)
  <2>1. TAKE j \in Items
  <2>2. CASE j = i
    BY <1>2, <1>5, <1>6, <2>2, Zenon
  <2>3. CASE j # i
    <3>1. j \in Seen(q, f.k + 1) \ f.unrestored <=> j \in Seen(q, f.k) \ f.unrestored
      BY <1>2, <2>3, Zenon
    <3>2. c1[j] = c[j] /\ b1[j] = b[j]
      BY <1>4, <2>3, Zenon
    <3>3. IF j \in f.backed /\ j \notin Seen(q, f.k) \ f.unrestored
          THEN (c[j] = Absent \/ j \in f.undeleted) /\ b[j] = f.before[j]
          ELSE c[j] = f.before[j] \/ (j \in f.undeleted /\ f.before[j] = Absent)
      BY <1>2, Zenon DEF RestoredTo
    <3> QED
      BY <3>1, <3>2, <3>3, Zenon
  <2> QED
    BY <2>2, <2>3, Zenon
<1>8. RestoredTo(f, c1, b1, m, x, Seen(q, f.k + 1))
  <2>1. f.unrestored \subseteq f.backed \cap Seen(q, f.k + 1)
    BY <1>2, Zenon DEF RestoredTo
  <2>2. Disturbed(m, x) /\ (f.unrestored # {} => Twice(m, x))
    BY <1>2, MoreFaults, Zenon DEF RestoredTo
  <2> QED
    BY <1>2, <1>7, <2>1, <2>2, Zenon DEF RestoredTo
<1>9. Whole(c1)
  <2>1. ASSUME NEW j \in Items \ StoreSet
        PROVE  c1[j] = c[j] \/ c1[j] = f.before[j]
    BY <1>4, <1>5, Zenon
  <2>2. Whole(f.before) /\ Whole(c)
    BY <1>2, Zenon DEF Sound
  <2> HIDE DEF Restores
  <2> QED
    BY <2>1, <2>2 DEF Whole
<1>10. f.pc = "restore" /\ h = RestoreFrame(f, c1)
  BY Zenon
<1> HIDE DEF Restores
<1>11. h \in Frame /\ CacheInv(h, c1, t1, b1, g, m, x, y)
  BY <1>1, <1>2, <1>3, <1>6, <1>8, <1>9, <1>10, RestoreAdvances
<1> QED
  BY <1>3, <1>11, Zenon

RestoreBreaks(f, c, b, n, i, m, e, h) ==
  /\ f.pc = "restore" /\ i = RestoreOrder(f.url)[f.k] /\ i \in f.backed
  /\ \/ ~CanMove(b, c, i) /\ m \in Nat /\ m >= n
     \/ m \in Nat /\ m >= n + 1
  /\ e = [f EXCEPT !.unrestored = f.unrestored \cup {i}] /\ h = RestoreFrame(e, c)

\* It cannot be put back.
LEMMA RestoreFailsOK ==
    ASSUME NEW f \in Frame, NEW c \in Disks, NEW t, NEW b \in Disks, NEW g, NEW n \in Nat, NEW x, NEW y,
           CacheInv(f, c, t, b, g, n, x, y),
           NEW i, NEW m, NEW e, NEW h, RestoreBreaks(f, c, b, n, i, m, e, h), NEW t1
    PROVE  h \in Frame /\ CacheInv(h, c, t1, b, g, m, x, y)
<1> USE DEF RestoreBreaks
<1>1. PICK q : q = RestoreOrder(f.url)
  BY Zenon
<1>2. /\ f.k \in 1 .. Len(q) /\ f.gen \in 1 .. MaxSyncs /\ Sound(f.before, g, n, x, y)
      /\ Whole(c) /\ Recorded(f, n, x, y) /\ RestoredTo(f, c, b, n, x, Seen(q, f.k))
      /\ i \in Items /\ i \notin Seen(q, f.k) /\ Seen(q, f.k + 1) = Seen(q, f.k) \cup {i}
      /\ c[i] = Absent \/ i \in f.undeleted
      /\ b[i] = f.before[i] /\ f.before[i] # Absent
  <2>1. ToRestore(f, c, b, g, n, x, y, q, q[f.k]) /\ i = q[f.k]
    BY <1>1, RestoreStep, Zenon
  <2> QED
    BY <2>1, Zenon DEF ToRestore
<1>3. m \in Nat /\ m >= n /\ Disturbed(m, x) /\ Twice(m, x)
  <2>1. Disturbed(n, x)
    BY <1>2, Zenon DEF RestoredTo
  <2>2. CASE m \in Nat /\ m >= n + 1
    BY <2>1, <2>2 DEF Disturbed, Twice
  <2>3. CASE ~CanMove(b, c, i) /\ m \in Nat /\ m >= n
    <3>1. i \in f.undeleted
      BY <1>2, <2>3, Zenon DEF CanMove
    <3>2. Twice(n, x)
      BY <1>2, <3>1, Zenon DEF Recorded
    <3> QED
      BY <2>1, <2>3, <3>2, MoreFaults, Zenon
  <2> QED
    BY <2>2, <2>3, Zenon
<1>4. /\ e \in Frame /\ e.unrestored = f.unrestored \cup {i} /\ e.pc = f.pc /\ e.k = f.k /\ e.url = f.url
      /\ e.gen = f.gen /\ e.before = f.before /\ e.backed = f.backed /\ e.stale = f.stale
      /\ e.undeleted = f.undeleted
  <2>1. f.unrestored \cup {i} \in SUBSET Items
    BY <1>2, Zenon DEF Frame
  <2> QED
    BY <2>1, Zenon DEF Frame
<1>5. Affected(e) = Affected(f)
  BY <1>4, Zenon DEF Affected
<1>6. \A j : j \in Seen(q, f.k + 1) \ e.unrestored <=> j \in Seen(q, f.k) \ f.unrestored
  BY <1>2, <1>4, Zenon
<1>7. RestoredTo(e, c, b, m, x, Seen(q, f.k + 1))
  <2>1. e.backed \subseteq Affected(e) /\ \A j \in e.backed : e.before[j] # Absent
    BY <1>2, <1>4, <1>5, Zenon DEF RestoredTo
  <2>2. e.unrestored \subseteq e.backed \cap Seen(q, f.k + 1)
    BY <1>2, <1>4, Zenon DEF RestoredTo
  <2>3. \A j \in Items : IF j \in e.backed /\ j \notin Seen(q, f.k + 1) \ e.unrestored
                         THEN (c[j] = Absent \/ j \in e.undeleted) /\ b[j] = e.before[j]
                         ELSE c[j] = e.before[j] \/ (j \in e.undeleted /\ e.before[j] = Absent)
    <3>1. \A j \in Items : IF j \in f.backed /\ j \notin Seen(q, f.k) \ f.unrestored
                           THEN (c[j] = Absent \/ j \in f.undeleted) /\ b[j] = f.before[j]
                           ELSE c[j] = f.before[j] \/ (j \in f.undeleted /\ f.before[j] = Absent)
      BY <1>2, Zenon DEF RestoredTo
    <3> QED
      BY <1>4, <1>6, <3>1, Zenon
  <2> QED
    BY <1>3, <2>1, <2>2, <2>3, Zenon DEF RestoredTo
<1>8. Sound(e.before, g, m, x, y) /\ Recorded(e, m, x, y)
  <2>1. Sound(f.before, g, m, x, y) /\ Recorded(f, m, x, y)
    BY <1>2, <1>3, MoreFaults, Zenon
  <2> QED
    BY <1>4, <2>1, Zenon DEF Recorded
<1>9. e.pc = "restore" /\ h = RestoreFrame(e, c) /\ q = RestoreOrder(e.url) /\ e.k \in 1 .. Len(q)
      /\ RestoredTo(e, c, b, m, x, Seen(q, e.k + 1)) /\ e.gen \in 1 .. MaxSyncs
  BY <1>1, <1>2, <1>4, <1>7, Zenon
<1> HIDE DEF RestoreBreaks
<1> QED
  BY <1>2, <1>4, <1>8, <1>9, RestoreAdvances

Finishes(f, c, t, b, g, n, m, y, i, e, t1, b1, g1, z, h) ==
  /\ f.pc = "finish" /\ e = Advance(f, Order(f.url), "return") /\ i = Order(f.url)[f.k]
  /\ IF f.k < Len(Order(f.url)) THEN h = e /\ g1 = g /\ z = y
     ELSE /\ h = [e EXCEPT !.succeeded = TRUE, !.cache_status = "fresh", !.last_sync = f.gen]
          /\ g1 = c /\ z = (y \ Range(Order(f.url))) \cup f.stale
  /\ \/ m = n /\ t1 = [t EXCEPT ![i] = Absent] /\ b1 = [b EXCEPT ![i] = Absent]
     \/ m = n + 1

\* The write succeeded, and Sync returns success.
LEMMA FinishOK ==
    ASSUME NEW f \in Frame, NEW c \in Disks, NEW t \in Disks, NEW b \in Disks, NEW g \in Disks,
           NEW n \in Nat, NEW x, NEW y, CacheInv(f, c, t, b, g, n, x, y), NEW m, NEW i, NEW e,
           NEW t1, NEW b1, NEW g1, NEW z, NEW h, Finishes(f, c, t, b, g, n, m, y, i, e, t1, b1, g1, z, h)
    PROVE  h \in Frame /\ g1 \in Disks /\ CacheInv(h, c, t1, b1, g1, m, x, z)
<1> USE DEF Finishes
<1> DEFINE q == Order(f.url)
<1>1. /\ Loaded(f) /\ f.undeleted = {} /\ f.k \in 1 .. Len(q) /\ (\A j \in Affected(f) : StagedTo(f, j, c[j]))
      /\ Clear(t, b, n, x, Seen(q, f.k)) /\ Clear(t, b, n, x, Items \ Affected(f))
      /\ f.gen \in 1 .. MaxSyncs /\ Sound(f.before, g, n, x, y) /\ Recorded(f, n, x, y)
      /\ Whole(c) /\ Uniform(c, y)
  BY Zenon DEF CacheInv, PhaseOK, AtFinish, Aside, Writing
<1>2. f.url \in {"family", "single"} /\ f.gen \in Int
  BY DEF Frame
<1>3. /\ q \in Seq(Names) /\ "return" \in Phases /\ e = Advance(f, q, "return") /\ i = q[f.k]
      /\ Walk(q) /\ Range(q) = Affected(f)
  BY <1>2, Orders, Zenon DEF Phases, Affected
<1>4. IF f.k < Len(q) THEN h = e /\ g1 = g /\ z = y
      ELSE /\ h = [e EXCEPT !.succeeded = TRUE, !.cache_status = "fresh", !.last_sync = f.gen]
           /\ g1 = c /\ z = (y \ Affected(f)) \cup f.stale
  BY Zenon DEF Affected
<1>5. m \in Nat /\ m >= n /\ (m = n + 1 => Disturbed(m, x))
  BY DEF Disturbed
<1> HIDE DEF q
<1>6. /\ i \in Affected(f) /\ Affected(f) \subseteq Items /\ Seen(q, f.k + 1) = Seen(q, f.k) \cup {i}
      /\ Seen(q, f.k) \subseteq Affected(f) /\ (f.k = Len(q) => Seen(q, f.k + 1) = Affected(f))
  <2>1. f.k \in 1 .. Len(q)
    BY <1>1, Zenon
  <2>2. /\ Affected(f) \subseteq Items /\ q[f.k] \in Range(q)
        /\ Seen(q, f.k + 1) = Seen(q, f.k) \cup {q[f.k]}
        /\ Seen(q, f.k) \subseteq Range(q) /\ (f.k = Len(q) => Seen(q, f.k + 1) = Range(q))
    BY <1>3, <2>1, WalkOfCall, Zenon
  <2> QED
    BY <1>3, <2>2, Zenon
<1>7. e \in Frame /\ Same(f, e)
      /\ IF f.k < Len(q)
         THEN e.pc = f.pc /\ e.k = f.k + 1 /\ e.k \in 1 .. Len(q)
         ELSE e.pc = "return" /\ e.k = 1 /\ f.k = Len(q)
  BY <1>1, <1>3, AdvanceFrame
<1>8. Clear(t1, b1, m, x, Seen(q, f.k + 1)) /\ Clear(t1, b1, m, x, Items \ Affected(f))
  <2>1. CASE Disturbed(m, x)
    BY <2>1, Zenon DEF Clear
  <2>2. CASE ~Disturbed(m, x)
    <3>1. m = n /\ t1 = [t EXCEPT ![i] = Absent] /\ b1 = [b EXCEPT ![i] = Absent]
      BY <1>5, <2>2, Zenon
    <3>2. \A j \in Items : j # i => t1[j] = t[j] /\ b1[j] = b[j]
      BY <3>1, Zenon DEF Disks
    <3>3. t1[i] = Absent /\ b1[i] = Absent
      BY <1>6, <3>1, Zenon DEF Disks
    <3> QED
      BY <1>1, <1>6, <2>2, <3>1, <3>2, <3>3, Zenon DEF Clear
  <2> QED
    BY <2>1, <2>2, Zenon
<1>9. Sound(f.before, g, m, x, y) /\ Recorded(f, m, x, y)
  BY <1>1, <1>5, MoreFaults, Zenon
<1>10. CASE f.k < Len(q)
  <2>1. h = e /\ g1 = g /\ z = y /\ e.pc = "finish" /\ e.k \in 1 .. Len(q) /\ e.k = f.k + 1
    BY <1>4, <1>7, <1>10, Zenon
  <2>2. /\ Loaded(e) /\ e.gen = f.gen /\ e.url = f.url /\ e.before = f.before /\ Affected(e) = Affected(f)
        /\ e.undeleted = {} /\ Recorded(e, m, x, y) /\ \A j, v : StagedTo(e, j, v) <=> StagedTo(f, j, v)
    BY <1>1, <1>7, <1>9, SameStaged
  <2>3. AtFinish(e, c, t1, b1, m, x) /\ Clear(t1, b1, m, x, Aside(e))
    BY <1>1, <1>8, <2>1, <2>2, Zenon DEF AtFinish, q, Aside, Writing
  <2> QED
    BY <1>1, <1>7, <1>9, <2>1, <2>2, <2>3, Zenon DEF CacheInv, PhaseOK
<1>11. CASE ~(f.k < Len(q))
  <2>1. /\ h = [e EXCEPT !.succeeded = TRUE, !.cache_status = "fresh", !.last_sync = f.gen]
        /\ g1 = c /\ z = (y \ Affected(f)) \cup f.stale
    BY <1>4, <1>11, Zenon
  <2>2. /\ h \in Frame /\ h.pc = e.pc /\ h.succeeded = TRUE /\ h.gen = e.gen /\ h.url = e.url
        /\ h.lists = e.lists /\ h.stale = e.stale /\ h.undeleted = e.undeleted
    BY <1>2, <1>7, <2>1, ZenonT(60) DEF Frame
  <2>3. /\ h.pc = "return" /\ h.gen = f.gen /\ h.url = f.url /\ h.lists = f.lists
        /\ h.stale = f.stale /\ h.undeleted = {} /\ Seen(q, f.k + 1) = Affected(f)
    BY <1>1, <1>6, <1>7, <1>11, <2>2, Zenon DEF Same, Alike
  <2>4. Loaded(h) /\ Affected(h) = Affected(f) /\ \A j : Staged(h, j) = Staged(f, j)
    BY <1>1, <2>3, SameLists
  <2>5. Succeeded(h, c, g1)
    BY <1>1, <2>1, <2>3, <2>4, Zenon DEF Succeeded, StagedTo
  <2>6. Recorded(h, m, x, z)
    BY <1>9, <2>1, <2>3, Zenon DEF Recorded
  <2>7. Uniform(c, z)
    <3>1. CoreItems \subseteq Affected(f)
      BY <1>2, TheItems, Zenon DEF Affected
    <3>2. \A j \in CoreItems \ z : c[j] = Absent \/ c[j] = Staged(f, j)
      BY <1>1, <2>1, <3>1, Zenon DEF StagedTo
    <3> HIDE DEF Finishes
    <3> QED
      BY <1>1, <3>2, PartOfNew
  <2>8. Clear(t1, b1, m, x, Aside(h))
    <3>1. Aside(h) = Items
      BY <2>3, Zenon DEF Aside, Writing
    <3> QED
      BY <1>8, <2>3, <3>1, Zenon DEF Clear
  <2> QED
    BY <1>1, <2>1, <2>2, <2>3, <2>5, <2>6, <2>7, <2>8, Zenon DEF CacheInv, PhaseOK
<1> QED
  BY <1>10, <1>11, Zenon

\* The frame between two calls.
LEMMA IdleFrame ==
    Idle \in Frame /\ Idle.pc = "idle"
<1>1. [i \in Items |-> Absent] \in Disks
  BY DEF Disks, Absent
<1> QED
  BY <1>1 DEF Idle, Frame, Phases, Statuses

\* No synchronisation is running.
LEMMA IdleOK ==
    ASSUME NEW c, NEW t, NEW b, NEW g, NEW n, NEW x, NEW y, Whole(c), Uniform(c, y),
           Keeps(c, g, n, x), Clear(t, b, n, x, Items)
    PROVE  CacheInv(Idle, c, t, b, g, n, x, y)
<1>1. Idle.pc = "idle" /\ Aside(Idle) = Items
  BY IdleFrame, Zenon DEF Aside, Writing
<1> QED
  BY <1>1, Zenon DEF CacheInv, PhaseOK

\* A synchronisation returns.
LEMMA ReturnOK ==
    ASSUME NEW f \in Frame, NEW c \in Disks, NEW t, NEW b, NEW g, NEW n \in Nat, NEW x, NEW y,
           CacheInv(f, c, t, b, g, n, x, y), f.pc = "return"
    PROVE  CacheInv(Idle, c, t, b, g, n, x, y)
<1>1. Whole(c) /\ Uniform(c, y) /\ CoreItems \subseteq Items /\ Clear(t, b, n, x, Items)
  BY TheItems, Zenon DEF CacheInv, Aside, Writing
<1>2. CASE f.succeeded
  <2>1. g = c
    BY <1>2, Zenon DEF CacheInv, PhaseOK, Succeeded
  <2>2. Keeps(c, g, n, x)
    BY <2>1, Zenon DEF Keeps
  <2> QED
    BY <1>1, <2>2, IdleOK, Zenon
<1>3. CASE ~f.succeeded
  <2>1. Failed(f, c, b, n, x) /\ Keeps(f.before, g, n, x) /\ Recorded(f, n, x, y)
    BY <1>3, Zenon DEF CacheInv, PhaseOK, Sound
  <2>2. x = 0 /\ n <= 1 => ~Twice(n, x)
    BY DEF Twice
  <2>3. x = 0 /\ n <= 1 => \A i \in Items : c[i] = f.before[i]
    BY <2>1, <2>2, Zenon DEF Failed, Recorded
  <2>4. Keeps(c, g, n, x)
    BY <1>1, <2>1, <2>3, Zenon DEF Keeps
  <2> QED
    BY <1>1, <2>4, IdleOK, Zenon
<1> QED
  BY <1>2, <1>3, Zenon

Begins(f, c, s, u, p, h) ==
  /\ f.pc = "idle" /\ s \in 1 .. MaxSyncs /\ u \in Urls /\ p \in Policies
  /\ h = [Idle EXCEPT !.pc = "download", !.gen = s, !.url = u, !.policy = p, !.before = c]

\* A synchronisation begins.
LEMMA BeginOK ==
    ASSUME NEW f \in Frame, NEW c \in Disks, NEW t, NEW b, NEW g, NEW n, NEW x, NEW y,
           CacheInv(f, c, t, b, g, n, x, y),
           NEW s, NEW u, NEW p, NEW h, Begins(f, c, s, u, p, h)
    PROVE  h \in Frame /\ CacheInv(h, c, t, b, g, n, x, y)
<1> USE DEF Begins
<1>1. Sound(c, g, n, x, y) /\ Clear(t, b, n, x, Items)
  BY Zenon DEF CacheInv, Sound, Aside, Writing
<1>2. "download" \in Phases /\ s \in Nat /\ u \in {"family", "single"}
      /\ p \in {"Disabled", "PreferAvailable", "Require"}
  BY CacheAssumption DEF Phases
<1>3. h \in Frame /\ h.pc = "download" /\ h.gen = s /\ h.before = c
  BY <1>2, IdleFrame, ZenonT(60) DEF Frame
<1>4. h.backed = Idle.backed /\ h.unrestored = Idle.unrestored /\ h.lists = Idle.lists
      /\ h.stale = Idle.stale /\ h.undeleted = Idle.undeleted
  BY <1>2, IdleFrame, Zenon DEF Frame
<1>5. h.backed = {} /\ h.unrestored = {} /\ h.lists = <<>> /\ h.stale = {} /\ h.undeleted = {}
  BY <1>4, Zenon DEF Idle
<1>6. AtDownload(h, c) /\ Recorded(h, n, x, y) /\ Aside(h) = Items
  BY <1>3, <1>5, Zenon DEF AtDownload, Untouched, Recorded, Aside, Writing
<1> QED
  BY <1>1, <1>3, <1>6, Zenon DEF CacheInv, PhaseOK, Sound

\* The process ends in the middle of a synchronisation.
LEMMA CrashOK ==
    ASSUME NEW f \in Frame, NEW c \in Disks, NEW t, NEW b, NEW g, NEW n, NEW x \in Nat, NEW y,
           CacheInv(f, c, t, b, g, n, x, y)
    PROVE  CacheInv(Idle, c, t, b, g, n, x + 1, y)
<1>1. x + 1 # 0
  OBVIOUS
<1>2. Keeps(c, g, n, x + 1) /\ Clear(t, b, n, x + 1, Items)
  BY <1>1, Zenon DEF Keeps, Clear, Disturbed
<1> QED
  BY <1>2, IdleOK, Zenon DEF CacheInv

\* A removal that fails may leave the artefact, and leaves the others alone.
LEMMA OneRemains ==
    ASSUME NEW d \in Disks, NEW i \in Items, NEW e, e = Removed(d, i) \/ e \in NotRemoved(d, i)
    PROVE  /\ e \in Disks /\ \A j \in Items \ {i} : e[j] = d[j]
           /\ d[i] = Absent => e[i] = Absent
           /\ e = Removed(d, i) => e[i] = Absent
           /\ e \in NotRemoved(d, i) /\ i \notin StoreSet => e[i] = d[i]
<1>1. Absent \in SUBSET Int
  BY DEF Absent
<1>2. CASE e = Removed(d, i)
  <2>1. e \in Disks /\ e[i] = Absent /\ \A j \in Items \ {i} : e[j] = d[j]
    BY <1>1, <1>2, Zenon DEF Disks, Removed
  <2>2. e \in NotRemoved(d, i) /\ i \notin StoreSet => e[i] = d[i]
    <3>1. SUFFICES ASSUME e \in NotRemoved(d, i), i \notin StoreSet PROVE e[i] = d[i]
      BY Zenon
    <3>2. PICK c : c \in Remains(d[i], i) /\ e = [d EXCEPT ![i] = c]
      BY <3>1, Zenon DEF NotRemoved
    <3> QED
      BY <3>1, <3>2, Zenon DEF Remains, Disks
  <2> QED
    BY <2>1, <2>2, Zenon
<1>3. CASE e \in NotRemoved(d, i) /\ e # Removed(d, i)
  <2>1. PICK c : c \in Remains(d[i], i) /\ e = [d EXCEPT ![i] = c]
    BY <1>3, Zenon DEF NotRemoved
  <2>2. d[i] # Absent /\ (i \notin StoreSet => c = d[i]) /\ c \in SUBSET Int
    BY <2>1, Zenon DEF Remains, Disks
  <2>3. e \in Disks /\ e[i] = c /\ \A j \in Items \ {i} : e[j] = d[j]
    BY <2>1, <2>2, Zenon DEF Disks
  <2> QED
    BY <1>3, <2>2, <2>3, Zenon
<1> QED
  BY <1>2, <1>3, Zenon

\* What the two removals of one artefact leave when one or both of them fail.
LEMMA BothRemain ==
    ASSUME tmp \in Disks, bak \in Disks, NEW i \in Items, RemoveBothFails(i)
    PROVE  /\ faults' = faults + 1 /\ tmp' \in Disks /\ bak' \in Disks
           /\ \A j \in Items \ {i} : tmp'[j] = tmp[j] /\ bak'[j] = bak[j]
           /\ (tmp[i] = Absent => tmp'[i] = Absent) /\ (bak[i] = Absent => bak'[i] = Absent)
<1>1. /\ faults' = faults + 1
      /\ tmp' = Removed(tmp, i) \/ tmp' \in NotRemoved(tmp, i)
      /\ bak' = Removed(bak, i) \/ bak' \in NotRemoved(bak, i)
  BY Zenon DEF RemoveBothFails, Fault
<1> QED
  BY <1>1, OneRemains

\* What a failing call leaves under the temporary names.
LEMMA TempsRemain ==
    ASSUME tmp \in Disks, NEW names, NEW n \in Nat, RemoveTemps(names, n)
    PROVE  tmp' \in Disks /\ faults' \in Nat /\ faults' >= n
<1>1. PICK gone : gone = [i \in Items |-> IF i \in names THEN Absent ELSE tmp[i]]
  BY Zenon
<1>2. gone \in Disks
  BY <1>1 DEF Disks, Absent
<1>3. CASE tmp' = gone /\ faults' = n
  BY <1>2, <1>3
<1>4. CASE /\ faults' = n + 1
           /\ \E i \in names : \E c \in Remains(tmp[i], i) : tmp' = [gone EXCEPT ![i] = c]
  <2>1. PICK i \in names : \E c \in Remains(tmp[i], i) : tmp' = [gone EXCEPT ![i] = c]
    BY <1>4, Zenon
  <2>2. PICK c \in Remains(tmp[i], i) : tmp' = [gone EXCEPT ![i] = c]
    BY <2>1, Zenon
  <2>3. i \in Items => c \in SUBSET Int
    BY <2>2, Zenon DEF Remains, Disks
  <2>4. tmp' \in Disks
    <3>1. CASE i \in Items
      BY <1>2, <2>2, <2>3, <3>1, Zenon DEF Disks
    <3>2. CASE i \notin Items
      <4>1. tmp' = gone
        BY <1>2, <2>2, <3>2 DEF Disks
      <4> QED
        BY <1>2, <4>1, Zenon
    <3> QED
      BY <3>1, <3>2, Zenon
  <2> QED
    BY <1>4, <2>4
<1> QED
  BY <1>1, <1>3, <1>4, Zenon DEF RemoveTemps

\* The artefact a walk is at.
LEMMA ItemOfWalk ==
    ASSUME NEW f \in Frame, NEW c, NEW t, NEW b, NEW g, NEW n, NEW x, NEW y,
           CacheInv(f, c, t, b, g, n, x, y)
    PROVE  /\ f.pc \in {"clean", "undo"} => CleanOrder(f.url)[f.k] \in Items
           /\ f.pc = "finish" => Order(f.url)[f.k] \in Items
<1>1. f.url \in {"family", "single"}
  BY Zenon DEF Frame
<1>2. /\ CleanOrder(f.url) \in Seq(Names) /\ Walk(CleanOrder(f.url)) /\ Range(CleanOrder(f.url)) \subseteq Items
      /\ Order(f.url) \in Seq(Names) /\ Walk(Order(f.url)) /\ Range(Order(f.url)) \subseteq Items
  BY <1>1, Orders, TheItems, Zenon
<1>3. /\ f.pc \in {"clean", "undo"} => f.k \in 1 .. Len(CleanOrder(f.url))
      /\ f.pc = "finish" => f.k \in 1 .. Len(Order(f.url))
  BY Zenon DEF CacheInv, PhaseOK, AtClean, AtUndo, AtFinish
<1> QED
  BY <1>2, <1>3, WalkStep, Zenon

-----------------------------------------------------------------------------
(***************************************************************************)
(* The invariant of the specification.                                     *)
(***************************************************************************)

\* One thread or process at a time synchronises the cache.
OneWriter == \E w : Writers = {w}

Typed ==
  /\ cur \in Disks /\ tmp \in Disks /\ bak \in Disks /\ good \in Disks
  /\ writer \in [Writers -> Frame] /\ faults \in Nat /\ crashes \in Nat /\ syncs \in 0 .. MaxSyncs

CacheOK(w) == Typed /\ CacheInv(writer[w], cur, tmp, bak, good, faults, crashes, stuck)

\* A store that is to be filled is missing only if its creation failed.
LEMMA MissingStore ==
    ASSUME NEW f \in Frame, NEW c, NEW t, NEW b, NEW g, NEW n \in Nat, NEW x, NEW y,
           CacheInv(f, c, t, b, g, n, x, y), f.pc = "certs", t[Stores[f.k]] = Absent
    PROVE  n >= 1
<1>1. f.k \in 1 .. Len(Stores) /\ f.gen \in 1 .. MaxSyncs
  BY Zenon DEF CacheInv, PhaseOK, AtCerts
<1>2. f.url \in {"family", "single"}
  BY Zenon DEF Frame
<1>3. Stores \in Seq(Names) /\ Walk(Stores) /\ StoreSet \subseteq Affected(f)
  BY <1>2, Orders, Zenon DEF Affected
<1>4. PICK i : i = Stores[f.k]
  BY Zenon
<1>5. i \in Range(Stores) /\ i \notin Seen(Stores, f.k)
  BY <1>1, <1>3, <1>4, WalkStep, Zenon
<1>6. i \in StoreSet \ Seen(Stores, f.k) /\ i \in Affected(f)
  BY <1>3, <1>5, Zenon DEF StoreSet
<1>7. Absent # Empty
  BY DEF Absent, Empty
<1> QED
  BY <1>4, <1>6, <1>7, Zenon DEF CacheInv, PhaseOK, AtCerts

\* The end of a step of the rollback.
LEMMA RestoreGoesOn ==
    ASSUME tmp \in Disks, NEW w, NEW f, NEW c, NEW n \in Nat, RestoreNext(w, f, c, n)
    PROVE  /\ writer' = [writer EXCEPT ![w] = RestoreFrame(f, c)]
           /\ tmp' \in Disks /\ faults' \in Nat /\ faults' >= n
<1>1. CASE f.k < Len(RestoreOrder(f.url))
  <2>1. writer' = [writer EXCEPT ![w] = RestoreFrame(f, c)] /\ faults' = n /\ tmp' = tmp
    BY <1>1, Zenon DEF RestoreNext, RestoreFrame
  <2> QED
    BY <2>1
<1>2. CASE ~(f.k < Len(RestoreOrder(f.url)))
  <2>1. /\ writer' = [writer EXCEPT ![w] = RestoreFrame(f, c)]
        /\ RemoveTemps(Range(Order(f.url)) \ f.left, n)
    BY <1>2, Zenon DEF RestoreNext, RestoreFrame
  <2> QED
    BY <2>1, TempsRemain, Zenon
<1> QED
  BY <1>1, <1>2, Zenon

\* The invariant holds at first.
LEMMA InitKeeps ==
    ASSUME NEW w, Writers = {w}, Init
    PROVE  CacheOK(w)
<1>1. [i \in Items |-> Absent] \in Disks /\ CoreItems \subseteq Items
  BY TheItems DEF Disks, Absent
<1>2. Typed /\ writer[w] = Idle
  BY <1>1, IdleFrame, CacheAssumption DEF Init, Typed
<1>3. /\ Whole(cur) /\ Uniform(cur, stuck) /\ Keeps(cur, good, faults, crashes)
      /\ Clear(tmp, bak, faults, crashes, Items)
  BY <1>1, Zenon DEF Init, Whole, Uniform, Keeps, Clear
<1> QED
  BY <1>2, <1>3, IdleOK, Zenon DEF CacheOK

\* Every step keeps the invariant.
LEMMA NextKeeps ==
    ASSUME NEW w, Writers = {w}, CacheOK(w), [Next]_vars
    PROVE  CacheOK(w)'
<1>1. Typed /\ CacheInv(writer[w], cur, tmp, bak, good, faults, crashes, stuck)
  BY Zenon DEF CacheOK
<1>2. PICK f : f = writer[w]
  BY Zenon
<1>3. /\ f \in Frame /\ CacheInv(f, cur, tmp, bak, good, faults, crashes, stuck)
      /\ cur \in Disks /\ tmp \in Disks /\ bak \in Disks /\ good \in Disks
      /\ writer \in [Writers -> Frame] /\ faults \in Nat /\ crashes \in Nat /\ syncs \in 0 .. MaxSyncs
  BY <1>1, <1>2, Zenon DEF Typed
<1>4. ASSUME NEW h \in Frame, writer' = [writer EXCEPT ![w] = h],
             cur' \in Disks, tmp' \in Disks, bak' \in Disks, good' \in Disks,
             faults' \in Nat, crashes' \in Nat, syncs' \in 0 .. MaxSyncs,
             CacheInv(h, cur', tmp', bak', good', faults', crashes', stuck')
      PROVE  CacheOK(w)'
  <2>1. writer' \in [Writers -> Frame] /\ writer'[w] = h
    BY <1>3, <1>4, Zenon
  <2> QED
    BY <1>4, <2>1, Zenon DEF CacheOK, Typed
<1>5. CASE \E u \in Urls, p \in Policies :
             /\ f.pc = "idle" /\ syncs < MaxSyncs /\ syncs' = syncs + 1
             /\ writer' = [writer EXCEPT ![w] = [Idle EXCEPT !.pc = "download", !.gen = syncs + 1,
                                                             !.url = u, !.policy = p, !.before = cur]]
             /\ UNCHANGED <<cur, tmp, bak, report, faults, crashes, good, stuck>>
  <2>1. PICK u \in Urls, p \in Policies :
             /\ f.pc = "idle" /\ syncs < MaxSyncs /\ syncs' = syncs + 1
             /\ writer' = [writer EXCEPT ![w] = [Idle EXCEPT !.pc = "download", !.gen = syncs + 1,
                                                             !.url = u, !.policy = p, !.before = cur]]
             /\ UNCHANGED <<cur, tmp, bak, report, faults, crashes, good, stuck>>
    BY <1>5, Zenon
  <2>2. PICK h : h = [Idle EXCEPT !.pc = "download", !.gen = syncs + 1, !.url = u, !.policy = p, !.before = cur]
    BY Zenon
  <2>3. syncs + 1 \in 1 .. MaxSyncs /\ syncs' \in 0 .. MaxSyncs
    BY <1>3, <2>1, CacheAssumption
  <2>4. h \in Frame /\ CacheInv(h, cur, tmp, bak, good, faults, crashes, stuck)
    <3>1. Begins(f, cur, syncs + 1, u, p, h)
      BY <1>3, <2>1, <2>2, <2>3, Zenon DEF Begins
    <3> QED
      BY <1>3, <3>1, BeginOK, Zenon
  <2> QED
    BY <1>3, <1>4, <2>1, <2>2, <2>3, <2>4, Zenon
<1>6. CASE DownloadFails(w)
  <2>1. PICK h : h = FailureResult(f, cur)
    BY Zenon
  <2>2. /\ writer' = [writer EXCEPT ![w] = h] /\ f.pc = "download" /\ cur' = cur /\ tmp' = tmp /\ bak' = bak /\ good' = good /\ stuck' = stuck
        /\ faults' = faults /\ crashes' = crashes /\ syncs' = syncs
    BY <1>2, <1>6, <2>1, Zenon DEF DownloadFails, History, Disk, Counters
  <2>3. h \in Frame /\ CacheInv(h, cur, tmp, bak, good, faults, crashes, stuck)
    <3>1. faults >= faults
      BY <1>3
    <3> QED
      BY <1>3, <2>1, <2>2, <3>1, FailEarly, Zenon
  <2> QED
    BY <1>3, <1>4, <2>2, <2>3, Zenon
<1>7. CASE Download(w)
  <2>1. PICK l \in Lists :
          LET f1 == [f EXCEPT !.sig = SignatureStatus(f.policy, l)]
              f2 == [f1 EXCEPT !.lists = Append(f1.lists, l)]
          IN  writer' = [writer EXCEPT ![w] =
                IF ~ SignatureAccepted(f1.policy, l) \/ ~ HasMaterializableTrustAnchor(l)
                THEN FailureResult(f1, cur)
                ELSE IF Len(f2.lists) = Len(Xmls(f2.url)) THEN Goto(f2, "layout") ELSE f2]
    BY <1>2, <1>7, Zenon DEF Download, History
  <2>2. PICK f1 : f1 = [f EXCEPT !.sig = SignatureStatus(f.policy, l)]
    BY Zenon
  <2>3. PICK f2 : f2 = [f1 EXCEPT !.lists = Append(f1.lists, l)]
    BY Zenon
  <2>4. PICK h : h = IF ~ SignatureAccepted(f1.policy, l) \/ ~ HasMaterializableTrustAnchor(l)
                     THEN FailureResult(f1, cur)
                     ELSE IF Len(f2.lists) = Len(Xmls(f2.url)) THEN Goto(f2, "layout") ELSE f2
    BY Zenon
  <2>5. writer' = [writer EXCEPT ![w] = h]
    BY <2>1, <2>2, <2>3, <2>4
  <2>6. /\ f.pc = "download" /\ cur' = cur /\ tmp' = tmp /\ bak' = bak /\ good' = good /\ stuck' = stuck
        /\ faults' = faults /\ crashes' = crashes /\ syncs' = syncs
    BY <1>2, <1>7, Zenon DEF Download, History, Disk, Counters
  <2>7. h \in Frame /\ CacheInv(h, cur, tmp, bak, good, faults, crashes, stuck)
    <3>1. Downloads(f, cur, l, f1, f2, h)
      BY <1>3, <2>2, <2>3, <2>4, <2>6, Zenon DEF Downloads
    <3> QED
      BY <1>3, <3>1, DownloadOK, Zenon
  <2> QED
    BY <1>3, <1>4, <2>5, <2>6, <2>7, Zenon
<1>8. CASE Layout(w)
  <2>1. PICK d : d = [i \in Items |-> IF i \in {"trust-store", "historical-trust-store"} /\ cur[i] = Absent
                                      THEN Empty ELSE cur[i]]
    BY Zenon
  <2>2. PICK h : h = [Goto(f, "clean") EXCEPT !.before = d]
    BY Zenon
  <2>3. /\ writer' = [writer EXCEPT ![w] = h] /\ cur' = d /\ f.pc = "layout" /\ tmp' = tmp /\ bak' = bak
        /\ good' = good /\ stuck' = stuck /\ faults' = faults /\ crashes' = crashes /\ syncs' = syncs
    BY <1>2, <1>8, <2>1, <2>2, Zenon DEF Layout, History, Counters
  <2>4. h \in Frame /\ d \in Disks /\ CacheInv(h, d, tmp, bak, good, faults, crashes, stuck)
    <3>1. LaysOut(f, cur, d, h)
      BY <1>3, <2>1, <2>2, <2>3, Zenon DEF LaysOut
    <3> QED
      BY <1>3, <3>1, LayoutOK, Zenon
  <2> QED
    BY <1>3, <1>4, <2>3, <2>4, Zenon
<1>9. CASE LayoutFails(w)
  <2>1. PICK S \in { {}, {"trust-store"}, {"trust-store", "historical-trust-store"} } :
          cur' = [i \in Items |-> IF i \in S /\ cur[i] = Absent THEN Empty ELSE cur[i]]
    BY <1>9, Zenon DEF LayoutFails, History
  <2>2. PICK h : h = FailureResult([f EXCEPT !.before = cur'], cur')
    BY Zenon
  <2>3. /\ writer' = [writer EXCEPT ![w] = h] /\ f.pc = "layout" /\ tmp' = tmp /\ bak' = bak
        /\ good' = good /\ stuck' = stuck /\ faults' = faults + 1 /\ crashes' = crashes /\ syncs' = syncs
    BY <1>2, <1>9, <2>2, Zenon DEF LayoutFails, History, Fault
  <2>4. S \in SUBSET StoreSet
    BY <2>1, TheItems, Zenon
  <2>5. h \in Frame /\ cur' \in Disks /\ CacheInv(h, cur', tmp, bak, good, faults + 1, crashes, stuck)
    <3>1. LayoutBreaks(f, cur, S, cur', h)
      BY <1>3, <2>1, <2>2, <2>3, <2>4, Zenon DEF LayoutBreaks
    <3> QED
      BY <1>3, <3>1, LayoutFailsOK, Zenon
  <2> QED
    <3>1. faults' \in Nat
      BY <1>3, <2>3
    <3> QED
      BY <1>3, <1>4, <2>3, <2>5, <3>1, ZenonT(60)
<1>10. CASE Clean(w) \/ CleanFails(w)
  <2>1. PICK i : i = CleanOrder(f.url)[f.k]
    BY Zenon
  <2>2. PICK S : S = IF i \in StoreSet /\ tmp'[i] # Absent THEN {i} ELSE {}
    BY Zenon
  <2>3. PICK e : e = Advance(f, CleanOrder(f.url), "stage")
    BY Zenon
  <2>4. f.pc = "clean" /\ i \in Items
    <3>1. f.pc = "clean"
      BY <1>2, <1>10, Zenon DEF Clean, CleanFails
    <3> QED
      BY <1>3, <2>1, <3>1, ItemOfWalk, Zenon
  <2>5. ASSUME NEW h, (h = e /\ S = {}) \/ h = [e EXCEPT !.stale = e.stale \cup S],
               writer' = [writer EXCEPT ![w] = h], cur' = cur, good' = good, stuck' = stuck \cup S,
               crashes' = crashes, syncs' = syncs, tmp' \in Disks, bak' \in Disks,
               \A j \in Items \ {i} : tmp'[j] = tmp[j] /\ bak'[j] = bak[j],
               \/ faults' = faults /\ tmp'[i] = Absent /\ bak'[i] = Absent
               \/ /\ faults' = faults + 1
                  /\ (tmp[i] = Absent => tmp'[i] = Absent) /\ (bak[i] = Absent => bak'[i] = Absent)
        PROVE  CacheOK(w)'
    <3>1. faults' \in Nat
      BY <1>3, <2>5
    <3>2. Cleans(f, tmp, bak, faults, faults', i, tmp', bak', S, e, h)
      BY <2>1, <2>2, <2>3, <2>4, <2>5, Zenon DEF Cleans
    <3>3. h \in Frame /\ CacheInv(h, cur, tmp', bak', good, faults', crashes, stuck \cup S)
      BY <1>3, <3>2, CleanOK, Zenon
    <3> QED
      BY <1>3, <1>4, <2>5, <3>1, <3>3, Zenon
  <2>6. CASE Clean(w)
    <3>1. /\ writer' = [writer EXCEPT ![w] = e] /\ good' = good /\ stuck' = stuck /\ crashes' = crashes
          /\ syncs' = syncs /\ cur' = cur /\ faults' = faults /\ RemoveBoth(i)
      BY <1>2, <2>1, <2>3, <2>6, Zenon DEF Clean, Counters, History
    <3>2. /\ tmp' \in Disks /\ bak' \in Disks /\ tmp'[i] = Absent /\ bak'[i] = Absent
          /\ \A j \in Items \ {i} : tmp'[j] = tmp[j] /\ bak'[j] = bak[j]
      <4>1. tmp' = Removed(tmp, i) /\ bak' = Removed(bak, i)
        BY <3>1, Zenon DEF RemoveBoth
      <4> QED
        BY <1>3, <2>4, <4>1, OneRemains
    <3>3. S = {} /\ stuck' = stuck \cup S
      BY <2>2, <3>1, <3>2, Zenon
    <3> QED
      BY <2>5, <3>1, <3>2, <3>3, Zenon
  <2>7. CASE CleanFails(w)
    <3>1. /\ writer' = [writer EXCEPT ![w] = [e EXCEPT !.stale = e.stale \cup S]]
          /\ good' = good /\ stuck' = stuck \cup S /\ crashes' = crashes
          /\ syncs' = syncs /\ cur' = cur /\ RemoveBothFails(i)
      BY <1>2, <2>1, <2>2, <2>3, <2>7, ZenonT(60) DEF CleanFails
    <3>2. /\ faults' = faults + 1 /\ tmp' \in Disks /\ bak' \in Disks
          /\ \A j \in Items \ {i} : tmp'[j] = tmp[j] /\ bak'[j] = bak[j]
          /\ (tmp[i] = Absent => tmp'[i] = Absent) /\ (bak[i] = Absent => bak'[i] = Absent)
      BY <1>3, <2>4, <3>1, BothRemain, Zenon
    <3> QED
      BY <2>5, <3>1, <3>2, ZenonT(60)
  <2> QED
    BY <1>10, <2>6, <2>7, Zenon
<1>11. CASE Stage(w)
  <2>0. PICK i : i = StageOrder(f.url)[f.k]
    BY Zenon
  <2>1. PICK h : h = Advance(f, StageOrder(f.url), "mkdir")
    BY Zenon
  <2>2. /\ writer' = [writer EXCEPT ![w] = h] /\ good' = good /\ stuck' = stuck /\ crashes' = crashes /\ syncs' = syncs
        /\ f.pc = "stage" /\ cur' = cur /\ bak' = bak /\ faults' = faults
        /\ tmp' = [tmp EXCEPT ![i] = {f.gen}]
    BY <1>2, <1>11, <2>0, <2>1, Zenon DEF Stage, History, Counters
  <2>3. h \in Frame /\ tmp' \in Disks /\ CacheInv(h, cur, tmp', bak, good, faults, crashes, stuck)
    <3>1. Stages(f, tmp, i, tmp', h)
      BY <1>3, <2>0, <2>1, <2>2, Zenon DEF Stages
    <3> QED
      BY <1>3, <3>1, StageOK, Zenon
  <2> QED
    BY <1>3, <1>4, <2>2, <2>3, Zenon
<1>12. CASE StageFails(w)
  <2>1. PICK h : h = FailureResult(f, cur)
    BY Zenon
  <2>2. /\ writer' = [writer EXCEPT ![w] = h] /\ good' = good /\ stuck' = stuck /\ crashes' = crashes
        /\ syncs' = syncs /\ f.pc = "stage" /\ cur' = cur /\ bak' = bak
        /\ \E removed : RemoveTemps(removed, faults + 1)
    BY <1>2, <1>12, <2>1, Zenon DEF StageFails, History
  <2>3. tmp' \in Disks /\ faults' \in Nat /\ faults' >= faults /\ Disturbed(faults', crashes)
    <3>1. faults + 1 \in Nat
      BY <1>3
    <3>2. tmp' \in Disks /\ faults' \in Nat /\ faults' >= faults + 1
      BY <1>3, <2>2, <3>1, TempsRemain, Zenon
    <3> QED
      BY <1>3, <3>2 DEF Disturbed
  <2>4. h \in Frame /\ CacheInv(h, cur, tmp', bak, good, faults', crashes, stuck)
    BY <1>3, <2>1, <2>2, <2>3, FailEarly, Zenon
  <2> QED
    BY <1>3, <1>4, <2>2, <2>3, <2>4, ZenonT(60)
<1>13. CASE MakeStores(w)
  <2>1. PICK h : h = Goto(f, "certs")
    BY Zenon
  <2>2. /\ writer' = [writer EXCEPT ![w] = h] /\ good' = good /\ stuck' = stuck /\ crashes' = crashes /\ syncs' = syncs
        /\ f.pc = "mkdir" /\ cur' = cur /\ bak' = bak /\ faults' = faults
        /\ tmp' = [i \in Items |-> IF i \in StoreSet /\ tmp[i] = Absent THEN Empty ELSE tmp[i]]
    BY <1>2, <1>13, <2>1, Zenon DEF MakeStores, History, Counters
  <2>3. h \in Frame /\ tmp' \in Disks /\ CacheInv(h, cur, tmp', bak, good, faults, crashes, stuck)
    <3>1. PICK S : S = StoreSet
      BY Zenon
    <3>2. S \in SUBSET StoreSet /\ faults \in {faults, faults + 1} /\ (faults = faults => S = StoreSet)
      BY <3>1, Zenon
    <3>3. tmp' = [i \in Items |-> IF i \in S /\ tmp[i] = Absent THEN Empty ELSE tmp[i]]
      BY <2>2, <3>1, Zenon
    <3>4. MakesStores(f, tmp, faults, S, faults, tmp', h)
      BY <2>1, <2>2, <3>2, <3>3, Zenon DEF MakesStores
    <3> QED
      BY <1>3, <3>4, MakeStoresOK, Zenon
  <2> QED
    BY <1>3, <1>4, <2>2, <2>3, Zenon
<1>14. CASE MakeStoresFails(w)
  <2>1. /\ good' = good /\ stuck' = stuck /\ crashes' = crashes /\ syncs' = syncs
        /\ f.pc = "mkdir" /\ cur' = cur /\ bak' = bak
    BY <1>2, <1>14, Zenon DEF MakeStoresFails, History
  <2>2. PICK failed \in StoreSet :
          IF failed = "historical-tsa-store"
          THEN /\ RemoveTemps(Range(Order(f.url)), faults + 1)
               /\ writer' = [writer EXCEPT ![w] = FailureResult(f, cur)]
          ELSE /\ faults' = faults + 1
               /\ tmp' = [i \in Items |-> IF i \in StoreSet \ {failed} /\ tmp[i] = Absent
                                          THEN Empty ELSE tmp[i]]
               /\ writer' = [writer EXCEPT ![w] = Goto(f, "certs")]
    BY <1>2, <1>14, Zenon DEF MakeStoresFails, History
  <2>3. CASE failed = "historical-tsa-store"
    <3>1. PICK h : h = FailureResult(f, cur)
      BY Zenon
    <3>2. writer' = [writer EXCEPT ![w] = h] /\ RemoveTemps(Range(Order(f.url)), faults + 1)
      BY <2>2, <2>3, <3>1, Zenon
    <3>3. tmp' \in Disks /\ faults' \in Nat /\ faults' >= faults /\ Disturbed(faults', crashes)
      <4>1. faults + 1 \in Nat
        BY <1>3
      <4>2. tmp' \in Disks /\ faults' \in Nat /\ faults' >= faults + 1
        BY <1>3, <3>2, <4>1, TempsRemain, Zenon
      <4> QED
        BY <1>3, <4>2 DEF Disturbed
    <3>4. h \in Frame /\ CacheInv(h, cur, tmp', bak, good, faults', crashes, stuck)
      BY <1>3, <2>1, <3>1, <3>3, FailEarly, Zenon
    <3> QED
      BY <1>3, <1>4, <2>1, <3>2, <3>3, <3>4, Zenon
  <2>4. CASE failed # "historical-tsa-store"
    <3>1. PICK h : h = Goto(f, "certs")
      BY Zenon
    <3>2. PICK S : S = StoreSet \ {failed}
      BY Zenon
    <3>3. /\ writer' = [writer EXCEPT ![w] = h] /\ faults' = faults + 1
          /\ tmp' = [i \in Items |-> IF i \in S /\ tmp[i] = Absent THEN Empty ELSE tmp[i]]
      BY <2>2, <2>4, <3>1, <3>2, Zenon
    <3>4. /\ faults' \in Nat /\ faults' \in {faults, faults + 1} /\ (faults' = faults => S = StoreSet)
          /\ S \in SUBSET StoreSet
      BY <1>3, <3>2, <3>3
    <3>5. h \in Frame /\ tmp' \in Disks /\ CacheInv(h, cur, tmp', bak, good, faults', crashes, stuck)
      <4>1. MakesStores(f, tmp, faults, S, faults', tmp', h)
        BY <2>1, <3>1, <3>3, <3>4, Zenon DEF MakesStores
      <4> QED
        BY <1>3, <4>1, MakeStoresOK, Zenon
    <3> QED
      BY <1>3, <1>4, <2>1, <3>3, <3>4, <3>5, Zenon
  <2> QED
    BY <2>3, <2>4, Zenon
<1>15. CASE StageCerts(w)
  <2>0. PICK i : i = Stores[f.k]
    BY Zenon
  <2>1. PICK h : h = Advance(f, Stores, "backup")
    BY Zenon
  <2>2. /\ writer' = [writer EXCEPT ![w] = h] /\ good' = good /\ stuck' = stuck /\ crashes' = crashes /\ syncs' = syncs
        /\ f.pc = "certs" /\ cur' = cur /\ bak' = bak /\ faults' = faults
        /\ HasAnchors(f, i) => tmp[i] # Absent
        /\ tmp' = [tmp EXCEPT ![i] =
                     IF HasAnchors(f, i) THEN tmp[i] \cup {f.gen} ELSE tmp[i]]
    BY <1>2, <1>15, <2>0, <2>1, Zenon DEF StageCerts, History, Counters
  <2>3. h \in Frame /\ tmp' \in Disks /\ CacheInv(h, cur, tmp', bak, good, faults, crashes, stuck)
    <3>1. StagesCerts(f, tmp, i, tmp', h)
      BY <1>3, <2>0, <2>1, <2>2, Zenon DEF StagesCerts
    <3> QED
      BY <1>3, <3>1, StageCertsOK, Zenon
  <2> QED
    BY <1>3, <1>4, <2>2, <2>3, Zenon
<1>16. CASE StageCertsFails(w)
  <2>1. PICK h : h = FailureResult(f, cur)
    BY Zenon
  <2>2. /\ writer' = [writer EXCEPT ![w] = h] /\ good' = good /\ stuck' = stuck /\ crashes' = crashes
        /\ syncs' = syncs /\ f.pc = "certs" /\ cur' = cur /\ bak' = bak /\ HasAnchors(f, Stores[f.k])
        /\ \E removed : \/ tmp[Stores[f.k]] = Absent /\ RemoveTemps(removed, faults)
                        \/ RemoveTemps(removed, faults + 1)
    BY <1>2, <1>16, <2>1, ZenonT(60) DEF StageCertsFails, History
  <2>3. tmp[Stores[f.k]] = Absent => faults >= 1
    BY <1>3, <2>2, MissingStore, Zenon
  <2>4. tmp' \in Disks /\ faults' \in Nat /\ faults' >= faults /\ Disturbed(faults', crashes)
    <3>1. faults + 1 \in Nat
      BY <1>3
    <3>2. /\ tmp' \in Disks /\ faults' \in Nat
          /\ (faults >= 1 /\ faults' >= faults) \/ faults' >= faults + 1
      BY <1>3, <2>2, <2>3, <3>1, TempsRemain, ZenonT(60)
    <3> QED
      BY <1>3, <3>2 DEF Disturbed
  <2>5. h \in Frame /\ CacheInv(h, cur, tmp', bak, good, faults', crashes, stuck)
    BY <1>3, <2>1, <2>2, <2>4, FailEarly, Zenon
  <2> QED
    BY <1>3, <1>4, <2>2, <2>4, <2>5, ZenonT(60)
<1>17. CASE Backup(w)
  <2>1. PICK i : i = Order(f.url)[f.k]
    BY Zenon
  <2>2. PICK e : e = Advance(f, Order(f.url), "install")
    BY Zenon
  <2>3. PICK h : h = IF Exists(cur[i], i) THEN [e EXCEPT !.backed = e.backed \cup {i}] ELSE e
    BY Zenon
  <2>4. /\ writer' = [writer EXCEPT ![w] = h] /\ good' = good /\ stuck' = stuck /\ crashes' = crashes /\ syncs' = syncs
        /\ f.pc = "backup" /\ tmp' = tmp /\ faults' = faults
        /\ IF Exists(cur[i], i)
           THEN /\ bak' = [bak EXCEPT ![i] = cur[i]] /\ cur' = [cur EXCEPT ![i] = Absent]
                /\ h = [e EXCEPT !.backed = e.backed \cup {i}]
           ELSE bak' = bak /\ cur' = cur /\ h = e
    BY <1>2, <1>17, <2>1, <2>2, <2>3, ZenonT(60) DEF Backup, History, Counters
  <2>5. h \in Frame /\ cur' \in Disks /\ bak' \in Disks /\ CacheInv(h, cur', tmp, bak', good, faults, crashes, stuck)
    <3>1. BacksUp(f, cur, bak, i, e, cur', bak', h)
      BY <1>3, <2>1, <2>2, <2>4, Zenon DEF BacksUp
    <3> QED
      BY <1>3, <3>1, BackupOK, Zenon
  <2> QED
    BY <1>3, <1>4, <2>4, <2>5, Zenon
<1>18. CASE BackupFails(w)
  <2>1. PICK i : i = Order(f.url)[f.k]
    BY Zenon
  <2>2. PICK left : left = IF i \in TsaStores THEN {} ELSE TsaStores
    BY Zenon
  <2>3. PICK h : h = [Goto(f, "restore") EXCEPT !.left = left]
    BY ZenonT(60)
  <2>4. /\ writer' = [writer EXCEPT ![w] = h] /\ good' = good /\ stuck' = stuck /\ crashes' = crashes /\ syncs' = syncs
        /\ f.pc = "backup" /\ cur' = cur /\ tmp' = tmp /\ bak' = bak /\ Exists(cur[i], i)
        /\ (~CanMove(cur, bak, i) /\ faults' = faults) \/ faults' = faults + 1
    BY <1>2, <1>18, <2>1, <2>2, <2>3, Zenon DEF BackupFails, History, Fault, Disk
  <2>5. left \in SUBSET Items /\ faults' \in Nat
    <3>1. TsaStores \subseteq Items
      BY TheItems, Zenon DEF TsaStores, Names
    <3> QED
      BY <1>3, <2>2, <2>4, <3>1
  <2>6. h \in Frame /\ CacheInv(h, cur, tmp, bak, good, faults', crashes, stuck)
    <3>1. BackupBreaks(f, cur, bak, faults, i, faults', left, h)
      BY <1>3, <2>1, <2>3, <2>4, <2>5, Zenon DEF BackupBreaks
    <3> QED
      BY <1>3, <3>1, BackupFailsOK, Zenon
  <2> QED
    BY <1>3, <1>4, <2>4, <2>5, <2>6, Zenon
<1>19. CASE Install(w)
  <2>0. PICK i : i = Order(f.url)[f.k]
    BY Zenon
  <2>1. PICK h : h = Advance(f, Order(f.url), "finish")
    BY Zenon
  <2>2. /\ writer' = [writer EXCEPT ![w] = h] /\ good' = good /\ stuck' = stuck /\ crashes' = crashes /\ syncs' = syncs
        /\ f.pc = "install" /\ bak' = bak /\ faults' = faults /\ tmp[i] # Absent
        /\ cur' = [cur EXCEPT ![i] = tmp[i]]
        /\ tmp' = [tmp EXCEPT ![i] = Absent]
    BY <1>2, <1>19, <2>0, <2>1, Zenon DEF Install, History, Counters, CanMove
  <2>3. h \in Frame /\ cur' \in Disks /\ tmp' \in Disks /\ CacheInv(h, cur', tmp', bak, good, faults, crashes, stuck)
    <3>1. Installs(f, cur, tmp, i, cur', tmp', h)
      BY <1>3, <2>0, <2>1, <2>2, Zenon DEF Installs
    <3> QED
      BY <1>3, <3>1, InstallOK, Zenon
  <2> QED
    BY <1>3, <1>4, <2>2, <2>3, Zenon
<1>20. CASE InstallFails(w)
  <2>1. PICK h : h = Goto(f, "undo")
    BY Zenon
  <2>2. PICK i : i = Order(f.url)[f.k]
    BY Zenon
  <2>3. /\ writer' = [writer EXCEPT ![w] = h] /\ good' = good /\ stuck' = stuck /\ crashes' = crashes /\ syncs' = syncs
        /\ f.pc = "install" /\ cur' = cur /\ tmp' = tmp /\ bak' = bak
        /\ (~CanMove(tmp, cur, i) /\ faults' = faults) \/ faults' = faults + 1
    BY <1>2, <1>20, <2>1, <2>2, Zenon DEF InstallFails, History, Fault, Disk
  <2>4. faults' \in Nat
    BY <1>3, <2>3
  <2>5. h \in Frame /\ CacheInv(h, cur, tmp, bak, good, faults', crashes, stuck)
    <3>1. InstallBreaks(f, cur, tmp, faults, i, faults', h)
      BY <1>3, <2>1, <2>2, <2>3, Zenon DEF InstallBreaks
    <3> QED
      BY <1>3, <3>1, InstallFailsOK, Zenon
  <2> QED
    BY <1>3, <1>4, <2>3, <2>4, <2>5, Zenon
<1>21. CASE Undo(w) \/ UndoFails(w)
  <2>1. PICK i : i = CleanOrder(f.url)[f.k]
    BY Zenon
  <2>2. PICK e : e = Advance(f, CleanOrder(f.url), "restore")
    BY Zenon
  <2>3. f.pc = "undo" /\ i \in Items
    <3>1. f.pc = "undo"
      BY <1>2, <1>21, Zenon DEF Undo, UndoFails
    <3> QED
      BY <1>3, <2>1, <3>1, ItemOfWalk, Zenon
  <2>4. ASSUME NEW h, NEW S, writer' = [writer EXCEPT ![w] = h], faults' \in Nat, tmp' = tmp, bak' = bak,
               good' = good, stuck' = stuck \cup S, crashes' = crashes, syncs' = syncs,
               Undoes(f, cur, faults, faults', i, cur', S, e, h)
        PROVE  CacheOK(w)'
    <3>1. h \in Frame /\ CacheInv(h, cur', tmp, bak, good, faults', crashes, stuck \cup S)
      BY <1>3, <2>4, UndoOK, Zenon
    <3>2. cur' \in Disks
      BY <2>4, Zenon DEF Undoes
    <3> QED
      BY <1>3, <1>4, <2>4, <3>1, <3>2, Zenon
  <2>5. CASE Undo(w)
    <3>1. /\ writer' = [writer EXCEPT ![w] = e] /\ good' = good /\ stuck' = stuck /\ crashes' = crashes
          /\ syncs' = syncs /\ tmp' = tmp /\ bak' = bak /\ faults' = faults /\ cur' = Removed(cur, i)
      BY <1>2, <2>1, <2>2, <2>5, Zenon DEF Undo, Counters, History
    <3>2. cur' \in Disks /\ cur'[i] = Absent /\ \A j \in Items \ {i} : cur'[j] = cur[j]
      BY <1>3, <2>3, <3>1, OneRemains
    <3>3. Undoes(f, cur, faults, faults', i, cur', {}, e, e) /\ stuck' = stuck \cup {}
      BY <2>1, <2>2, <2>3, <3>1, <3>2, Zenon DEF Undoes
    <3> QED
      BY <1>3, <2>4, <3>1, <3>3, Zenon
  <2>6. CASE UndoFails(w)
    <3>1. PICK h : h = [e EXCEPT !.undeleted = e.undeleted \cup {i}]
      BY Zenon
    <3>2. /\ writer' = [writer EXCEPT ![w] = h] /\ good' = good /\ stuck' = stuck \cup {i}
          /\ crashes' = crashes /\ syncs' = syncs /\ tmp' = tmp /\ bak' = bak /\ faults' = faults + 1
          /\ cur' \in NotRemoved(cur, i)
      BY <1>2, <2>1, <2>2, <2>6, <3>1, ZenonT(60) DEF UndoFails, Fault
    <3>3. cur' \in Disks /\ (i \notin StoreSet => cur'[i] = cur[i]) /\ \A j \in Items \ {i} : cur'[j] = cur[j]
      BY <1>3, <2>3, <3>2, OneRemains
    <3>4. Undoes(f, cur, faults, faults', i, cur', {i}, e, h)
      BY <2>1, <2>2, <2>3, <3>1, <3>2, <3>3, Zenon DEF Undoes
    <3>5. faults' \in Nat
      BY <1>3, <3>2
    <3> QED
      BY <2>4, <3>2, <3>4, <3>5, Zenon
  <2> QED
    BY <1>21, <2>5, <2>6, Zenon
<1>22. CASE Restore(w)
  <2>1. PICK i : i = RestoreOrder(f.url)[f.k]
    BY Zenon
  <2>2. PICK h : h = RestoreFrame(f, cur')
    BY Zenon
  <2>3. /\ good' = good /\ stuck' = stuck /\ crashes' = crashes /\ syncs' = syncs /\ f.pc = "restore"
        /\ IF i \in f.backed THEN cur' = [cur EXCEPT ![i] = bak[i]] /\ bak' = [bak EXCEPT ![i] = Absent]
                             ELSE cur' = cur /\ bak' = bak
        /\ RestoreNext(w, f, cur', faults)
    BY <1>2, <1>22, <2>1, Zenon DEF Restore, History
  <2>4. writer' = [writer EXCEPT ![w] = h] /\ tmp' \in Disks /\ faults' \in Nat /\ faults' >= faults
    BY <1>3, <2>2, <2>3, RestoreGoesOn, Zenon
  <2>5. /\ h \in Frame /\ cur' \in Disks /\ bak' \in Disks
        /\ CacheInv(h, cur', tmp', bak', good, faults', crashes, stuck)
    <3>1. Restores(f, cur, bak, i, cur', bak', h)
      BY <2>1, <2>2, <2>3, Zenon DEF Restores
    <3> QED
      BY <1>3, <2>4, <3>1, RestoreOK, Zenon
  <2> QED
    BY <1>3, <1>4, <2>3, <2>4, <2>5, Zenon
<1>23. CASE RestoreFails(w)
  <2>1. PICK i : i = RestoreOrder(f.url)[f.k]
    BY Zenon
  <2>2. PICK e : e = [f EXCEPT !.unrestored = f.unrestored \cup {i}]
    BY Zenon
  <2>3. PICK h : h = RestoreFrame(e, cur)
    BY Zenon
  <2>4. /\ good' = good /\ stuck' = stuck /\ crashes' = crashes /\ syncs' = syncs /\ f.pc = "restore"
        /\ i \in f.backed /\ cur' = cur /\ bak' = bak
        /\ \/ ~CanMove(bak, cur, i) /\ RestoreNext(w, e, cur, faults)
           \/ RestoreNext(w, e, cur, faults + 1)
    BY <1>2, <1>23, <2>1, <2>2, ZenonT(60) DEF RestoreFails, History
  <2>5. /\ writer' = [writer EXCEPT ![w] = h] /\ tmp' \in Disks /\ faults' \in Nat
        /\ (~CanMove(bak, cur, i) /\ faults' >= faults) \/ faults' >= faults + 1
    <3>1. faults + 1 \in Nat
      BY <1>3
    <3> QED
      BY <1>3, <2>3, <2>4, <3>1, RestoreGoesOn, ZenonT(60)
  <2>6. h \in Frame /\ CacheInv(h, cur, tmp', bak, good, faults', crashes, stuck)
    <3>1. RestoreBreaks(f, cur, bak, faults, i, faults', e, h)
      BY <2>1, <2>2, <2>3, <2>4, <2>5, Zenon DEF RestoreBreaks
    <3> QED
      BY <1>3, <3>1, RestoreFailsOK, Zenon
  <2> QED
    BY <1>3, <1>4, <2>4, <2>5, <2>6, Zenon
<1>24. CASE Finish(w) \/ FinishFails(w)
  <2>1. PICK i : i = Order(f.url)[f.k]
    BY Zenon
  <2>2. PICK e : e = Advance(f, Order(f.url), "return")
    BY Zenon
  <2>3. PICK h : h = IF f.k < Len(Order(f.url)) THEN e
                     ELSE [e EXCEPT !.succeeded = TRUE, !.cache_status = "fresh", !.last_sync = f.gen]
    BY Zenon
  <2>4. /\ f.pc = "finish" /\ FinishNext(w, f) /\ cur' = cur /\ crashes' = crashes /\ syncs' = syncs
        /\ (RemoveBoth(i) /\ faults' = faults) \/ RemoveBothFails(i)
    BY <1>2, <1>24, <2>1, ZenonT(60) DEF Finish, FinishFails, Counters
  <2>5. /\ writer' = [writer EXCEPT ![w] = h]
        /\ IF f.k < Len(Order(f.url)) THEN h = e /\ good' = good /\ stuck' = stuck
           ELSE /\ h = [e EXCEPT !.succeeded = TRUE, !.cache_status = "fresh", !.last_sync = f.gen]
                /\ good' = cur /\ stuck' = (stuck \ Range(Order(f.url))) \cup f.stale
    BY <2>2, <2>3, <2>4, ZenonT(60) DEF FinishNext, History
  <2>6. i \in Items
    BY <1>3, <2>1, <2>4, ItemOfWalk, Zenon
  <2>7. /\ tmp' \in Disks /\ bak' \in Disks
        /\ \/ /\ faults' = faults /\ tmp' = [tmp EXCEPT ![i] = Absent]
              /\ bak' = [bak EXCEPT ![i] = Absent]
           \/ faults' = faults + 1
    <3>1. CASE RemoveBoth(i) /\ faults' = faults
      BY <1>3, <2>6, <3>1, OneRemains, Zenon DEF RemoveBoth, Removed
    <3>2. CASE RemoveBothFails(i)
      BY <1>3, <2>6, <3>2, BothRemain, Zenon
    <3> QED
      BY <2>4, <3>1, <3>2, Zenon
  <2>8. h \in Frame /\ good' \in Disks /\ CacheInv(h, cur, tmp', bak', good', faults', crashes, stuck')
    <3>1. Finishes(f, cur, tmp, bak, good, faults, faults', stuck, i, e, tmp', bak', good', stuck', h)
      BY <2>1, <2>2, <2>4, <2>5, <2>7, Zenon DEF Finishes
    <3> QED
      BY <1>3, <3>1, FinishOK, Zenon
  <2>9. faults' \in Nat
    BY <1>3, <2>7
  <2> QED
    BY <1>3, <1>4, <2>4, <2>5, <2>7, <2>8, <2>9, Zenon
<1>25. CASE Return(w)
  <2>1. /\ writer' = [writer EXCEPT ![w] = Idle] /\ f.pc = "return" /\ cur' = cur /\ tmp' = tmp /\ bak' = bak
        /\ good' = good /\ stuck' = stuck /\ faults' = faults /\ crashes' = crashes /\ syncs' = syncs
    BY <1>2, <1>25, Zenon DEF Return, History, Disk, Counters
  <2>2. Idle \in Frame /\ CacheInv(Idle, cur, tmp, bak, good, faults, crashes, stuck)
    BY <1>3, <2>1, IdleFrame, ReturnOK, Zenon
  <2> QED
    BY <1>3, <1>4, <2>1, <2>2, Zenon
<1>26. CASE Crash(w)
  <2>1. /\ writer' = [writer EXCEPT ![w] = Idle] /\ cur' = cur /\ tmp' = tmp /\ bak' = bak
        /\ good' = good /\ stuck' = stuck /\ faults' = faults /\ crashes' = crashes + 1 /\ syncs' = syncs
    BY <1>26, Zenon DEF Crash, History, Disk
  <2>2. crashes' \in Nat
    BY <1>3, <2>1
  <2>3. Idle \in Frame /\ CacheInv(Idle, cur, tmp, bak, good, faults, crashes', stuck)
    BY <1>3, <2>1, IdleFrame, CrashOK, Zenon
  <2> QED
    BY <1>3, <1>4, <2>1, <2>2, <2>3, Zenon
<1>27. CASE BlockedOffline(w) \/ UNCHANGED vars
  <2>1. /\ writer' = writer /\ cur' = cur /\ tmp' = tmp /\ bak' = bak
        /\ good' = good /\ stuck' = stuck /\ faults' = faults /\ crashes' = crashes /\ syncs' = syncs
    BY <1>27, Zenon DEF BlockedOffline, History, vars, Disk, Counters
  <2> QED
    BY <1>1, <2>1, Zenon DEF CacheOK, Typed
<1>28. Begin(w) => CacheOK(w)'
  BY <1>2, <1>5, Zenon DEF Begin, History, Disk
<1>29. Next \/ UNCHANGED vars
  BY Zenon
<1> QED
  BY <1>6, <1>7, <1>8, <1>9, <1>10, <1>11, <1>12, <1>13, <1>14, <1>15, <1>16, <1>17, <1>18, <1>19, <1>20,
     <1>21, <1>22, <1>23, <1>24, <1>25, <1>26, <1>27, <1>28, <1>29, Zenon DEF Next, Step

-----------------------------------------------------------------------------
(***************************************************************************)
(* What the invariant says of the cache.                                   *)
(***************************************************************************)

\* The certificate authority that a current list offers goes to the trust store.
LEMMA AnchorIsStaged ==
    ASSUME NEW f \in Frame, Loaded(f), f.gen \in 1 .. MaxSyncs,
           NEW k \in 1 .. Len(f.lists), ~is_historical(Xmls(f.url)[k]), ~TsaOnly(f.lists[k])
    PROVE  -1 # f.gen /\ Staged(f, "trust-store") = {f.gen}
<1>1. PICK l : l = f.lists[k]
  BY Zenon
<1>2. l \in Lists /\ HasMaterializableTrustAnchor(l) /\ l.services \subseteq Service
  BY <1>1, CacheAssumption, Zenon DEF Loaded
<1>3. PICK s \in l.services : IsMaterializable(s) /\ ~UsableTsa(s)
  BY <1>1, <1>2, Zenon DEF HasMaterializableTrustAnchor, TsaOnly
<1>4. s \in Service
  BY <1>2, <1>3, Zenon
<1>5. /\ s.granted /\ s.decodes /\ s.type \notin {"TSA/QTST", "MR-TSA/QTST"}
      /\ s.is_ca /\ (s.key_cert_sign \/ s.type = "CA/QC")
  BY <1>3, <1>4, Zenon DEF IsMaterializable, UsableTsa, Service
<1>6. ClassifyMaterializationCandidate(s, is_historical(Xmls(f.url)[k])) = "trust-store"
  <2>1. /\ ~(~ s.granted \/ ~ s.decodes) /\ ~(s.granted /\ s.decodes /\ s.type = "MR-TSA/QTST")
        /\ s.granted /\ s.decodes /\ s.type # "MR-TSA/QTST"
        /\ ~(~ s.is_ca \/ ~ (s.key_cert_sign \/ s.type = "CA/QC"))
    BY <1>5, Zenon
  <2> QED
    BY <2>1, Zenon DEF ClassifyMaterializationCandidate
<1>7. HasAnchors(f, "trust-store")
  BY <1>1, <1>3, <1>6, Zenon DEF HasAnchors
<1>8. Staged(f, "trust-store") = {f.gen}
  BY <1>7, Zenon DEF Staged
<1> QED
  BY <1>8

\* What stands under the final and the backup names of the old cache, in every phase.
LEMMA OldOrNew ==
    ASSUME NEW f \in Frame, NEW c \in Disks, NEW t, NEW b, NEW g, NEW n \in Nat, NEW x, NEW y,
           CacheInv(f, c, t, b, g, n, x, y), x = 0, n <= 1
    PROVE  \/ \A i \in CoreItems : g[i] # Absent => g[i] \in {c[i], b[i]}
           \/ f.pc = "finish" /\ \A i \in Affected(f) : c[i] = Staged(f, i)
<1>1. CoreItems \subseteq Items /\ CoreItems \subseteq Affected(f) /\ f.pc \in Phases
  BY TheItems, Zenon DEF Frame, Affected
<1>2. CASE f.pc = "idle"
  BY <1>2, Zenon DEF CacheInv, Keeps
<1>3. CASE f.pc = "return" /\ f.succeeded
  BY <1>3, Zenon DEF CacheInv, PhaseOK, Succeeded
<1>4. CASE f.pc = "finish"
  <2>1. ~Twice(n, x)
    BY DEF Twice
  <2>2. f.stale = {}
    BY <1>4, <2>1, Zenon DEF CacheInv, Recorded
  <2> QED
    BY <1>4, <2>2, Zenon DEF CacheInv, PhaseOK, AtFinish, StagedTo
<1>5. CASE f.pc \notin {"idle", "finish"} /\ ~(f.pc = "return" /\ f.succeeded)
  <2>1. \A i \in CoreItems : g[i] # Absent => g[i] = f.before[i]
    BY <1>5, Zenon DEF CacheInv, Sound, Keeps
  <2>2. SUFFICES \A i \in CoreItems : f.before[i] # Absent => f.before[i] \in {c[i], b[i]}
    BY <2>1, Zenon
  <2>3. CASE f.pc \in {"download", "layout", "clean", "stage", "mkdir", "certs"}
    <3>1. Untouched(f, c)
      BY <2>3, Zenon DEF CacheInv, PhaseOK, AtDownload, AtClean, AtStage, AtMkdir, AtCerts
    <3> QED
      BY <3>1, Zenon DEF Untouched
  <2>4. CASE f.pc = "backup"
    BY <1>1, <2>4, Zenon DEF CacheInv, PhaseOK, AtBackup, BackedUp
  <2>5. CASE f.pc \in {"install", "undo"}
    <3>1. BackedUp(f, b, Affected(f))
      BY <2>5, Zenon DEF CacheInv, PhaseOK, AtInstall, AtUndo
    <3> QED
      BY <1>1, <3>1, Zenon DEF BackedUp
  <2>6. CASE f.pc = "restore"
    <3>1. \E S : RestoredTo(f, c, b, n, x, S)
      BY <2>6, Zenon DEF CacheInv, PhaseOK, AtRestore
    <3> QED
      BY <1>1, <3>1, Zenon DEF RestoredTo
  <2>7. CASE f.pc = "return"
    <3>1. Failed(f, c, b, n, x)
      BY <1>5, <2>7, Zenon DEF CacheInv, PhaseOK
    <3> QED
      BY <1>1, <3>1, Zenon DEF Failed
  <2> QED
    BY <1>1, <1>5, <2>3, <2>4, <2>5, <2>6, <2>7, Zenon DEF Phases
<1> QED
  BY <1>2, <1>3, <1>4, <1>5, Zenon

\* The invariant implies the three properties.
LEMMA CacheIsSound ==
    ASSUME NEW w, Writers = {w}, CacheOK(w)
    PROVE  OneGeneration /\ SuccessIsComplete /\ OldCacheSurvives
<1>1. PICK f : f = writer[w]
  BY Zenon
<1>2. /\ f \in Frame /\ cur \in Disks /\ faults \in Nat
      /\ CacheInv(f, cur, tmp, bak, good, faults, crashes, stuck)
  BY <1>1, Zenon DEF CacheOK, Typed
<1>3. OneGeneration
  BY <1>2, Zenon DEF CacheInv, Uniform, OneGeneration, Holds
<1>4. f.pc = "return" /\ f.succeeded =>
        Loaded(f) /\ f.gen \in 1 .. MaxSyncs /\ \A i \in Affected(f) : StagedTo(f, i, cur[i])
  BY <1>2, Zenon DEF CacheInv, PhaseOK, Succeeded
<1>5. SuccessInstallsAll
  <2>1. f.gen \in 1 .. MaxSyncs =>
        \A i : StagedTo(f, i, cur[i]) => IF i \in f.stale THEN cur[i] # Absent /\ Staged(f, i) \subseteq cur[i]
                                         ELSE cur[i] = Staged(f, i)
    <3>1. f.gen \in 1 .. MaxSyncs => \A i : Staged(f, i) # Absent
      <4>1. f.gen \in 1 .. MaxSyncs => f.gen # -1
        BY CacheAssumption
      <4> QED
        BY <4>1, Zenon DEF Staged, Absent, Empty
    <3> QED
      BY <3>1, Zenon DEF StagedTo
  <2> QED
    BY <1>1, <1>4, <2>1, Zenon DEF SuccessInstallsAll, Affected
<1>6. AnchorsAfterSuccess
  <2>1. "trust-store" \in Affected(f)
    <3>1. f.url \in {"family", "single"}
      BY <1>2, Zenon DEF Frame
    <3>2. StoreSet \subseteq Affected(f) /\ "trust-store" \in StoreSet
      BY <3>1, Orders, Zenon DEF Affected
    <3> QED
      BY <3>2, Zenon
  <2>2. SUFFICES ASSUME f.pc = "return" /\ f.succeeded,
                        NEW k \in 1 .. Len(f.lists), ~is_historical(Xmls(f.url)[k]), ~TsaOnly(f.lists[k])
                 PROVE  Holds("trust-store")
    BY <1>1, Zenon DEF AnchorsAfterSuccess
  <2>3. -1 # f.gen /\ Staged(f, "trust-store") = {f.gen}
    BY <1>2, <1>4, <2>2, AnchorIsStaged, Zenon
  <2>4. cur["trust-store"] # Absent /\ {f.gen} \subseteq cur["trust-store"]
    <3>1. StagedTo(f, "trust-store", cur["trust-store"])
      BY <1>4, <2>1, <2>2, Zenon
    <3> QED
      BY <2>3, <3>1, Zenon DEF StagedTo, Absent
  <2> QED
    BY <2>4, Zenon DEF Holds, Empty
<1>7. f.pc = "return" /\ ~f.succeeded => Failed(f, cur, bak, faults, crashes)
  BY <1>2, Zenon DEF CacheInv, PhaseOK
<1>8. FailedWriteKeepsCache /\ FailureReportsItsCache
  BY <1>1, <1>7, Zenon DEF FailedWriteKeepsCache, FailureReportsItsCache, Failed
<1>9. OldUntilAllNew
  BY <1>1, <1>2, OldOrNew, Zenon DEF OldUntilAllNew, Affected
<1> QED
  BY <1>3, <1>5, <1>6, <1>8, <1>9, Zenon DEF SuccessIsComplete, OldCacheSurvives

\* Under one writer the artefacts in place are never a mixture: whatever crashes, failed calls
\* of the file system and rollbacks have left, they hold the bytes of one call of
\* WriteTrustListsMaterialized, but for those that a failed removal is on record for.
THEOREM CacheOfOneGeneration ==
    ASSUME OneWriter
    PROVE  Spec => []OneGeneration
<1>1. PICK w : Writers = {w}
  BY Zenon DEF OneWriter
<1>2. Init => CacheOK(w)
  BY <1>1, InitKeeps, Zenon
<1>3. CacheOK(w) /\ [Next]_vars => CacheOK(w)'
  BY <1>1, NextKeeps, Zenon
<1>4. CacheOK(w) => OneGeneration
  BY <1>1, CacheIsSound, Zenon
<1> QED
  BY <1>2, <1>3, <1>4, PTL DEF Spec

\* Under one writer a call that returns success has replaced every artefact by its own, a store
\* whose staged directory could not be cleaned perhaps with other certificates beside its own,
\* and there is an anchor in the trust store unless the current lists offer none but usable
\* time-stamping services.
THEOREM SuccessfulSyncIsComplete ==
    ASSUME OneWriter
    PROVE  Spec => []SuccessIsComplete
<1>1. PICK w : Writers = {w}
  BY Zenon DEF OneWriter
<1>2. Init => CacheOK(w)
  BY <1>1, InitKeeps, Zenon
<1>3. CacheOK(w) /\ [Next]_vars => CacheOK(w)'
  BY <1>1, NextKeeps, Zenon
<1>4. CacheOK(w) => SuccessIsComplete
  BY <1>1, CacheIsSound, Zenon
<1> QED
  BY <1>2, <1>3, <1>4, PTL DEF Spec

\* Under one writer a failed call leaves the old cache and reports it: what its rollback could not
\* rename back is there as a backup, what it could not remove is new.  And without a crash one
\* fault at most never loses any of the old cache before the new one is in place.
THEOREM FailedSyncKeepsCache ==
    ASSUME OneWriter
    PROVE  Spec => []OldCacheSurvives
<1>1. PICK w : Writers = {w}
  BY Zenon DEF OneWriter
<1>2. Init => CacheOK(w)
  BY <1>1, InitKeeps, Zenon
<1>3. CacheOK(w) /\ [Next]_vars => CacheOK(w)'
  BY <1>1, NextKeeps, Zenon
<1>4. CacheOK(w) => OldCacheSurvives
  BY <1>1, CacheIsSound, Zenon
<1> QED
  BY <1>2, <1>3, <1>4, PTL DEF Spec
=============================================================================
