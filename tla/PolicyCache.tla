----------------------------- MODULE PolicyCache -----------------------------
(***************************************************************************)
(* The trust-list cache on disk and the calls that replace it:             *)
(* Session::SyncTrustList, policy::TrustListSync::Sync and                 *)
(* policy::PolicyCache::WriteTrustListsMaterialized.                       *)
(*                                                                         *)
(* A write cleans the fixed ".bak" and ".tmp" names, stages every artefact *)
(* under ".tmp", moves every current artefact to ".bak", renames the       *)
(* staged ones into place, and rolls back when a rename fails.  No lock is *)
(* held from the first download to the last rename, so writers interleave  *)
(* at every file-system call, and a process may die between any two.       *)
(*                                                                         *)
(* What an artefact contains is abstracted to the set of synchronisations  *)
(* whose bytes it holds: a whole file of call 2 is {2}, an empty directory *)
(* is {}, a directory with certificates of two calls is {1, 2}.            *)
(* Every call may fail.  The code looks at no result of a removal or of a  *)
(* rename back, so these failures change the disk and never the control.   *)
(***************************************************************************)
EXTENDS Integers, Sequences, FiniteSets, Functions

CONSTANTS
  Writers,            \* threads or processes that call SyncTrustList
  Lists,              \* the trust lists the servers may serve
  Policies,           \* the xml_signature_policy values configured
  Urls,               \* the trust-list URLs configured: "family", "single"
  MaxSyncs,           \* bound on the number of calls of SyncTrustList
  MaxFaults,          \* bound on the file-system calls that fail
  MaxCrashes,         \* bound on the process deaths
  RenameOverEmptyDir  \* whether a directory can be renamed over an empty one

Service ==
  [type : {"CA/QC", "MR-TSA/QTST", "TSA/QTST", "other"}, granted : BOOLEAN,
   decodes : BOOLEAN, is_ca : BOOLEAN, key_cert_sign : BOOLEAN]

ASSUME CacheAssumption ==
  /\ \A l \in Lists : /\ l.services \subseteq Service
                      /\ l.sig \in {"good", "bad", "unsupported"}
  /\ Policies \subseteq {"Disabled", "PreferAvailable", "Require"}
  /\ Urls \subseteq {"family", "single"}
  /\ MaxSyncs \in Nat /\ MaxFaults \in Nat /\ MaxCrashes \in Nat
  /\ RenameOverEmptyDir \in BOOLEAN

VARIABLES
  cur,      \* the artefacts under their own names
  tmp,      \* the artefacts staged under ".tmp"
  bak,      \* the artefacts kept under ".bak"
  writer,   \* the call each writer is in
  report,   \* Session::last_trust_list_sync_report_
  syncs, faults, crashes,    \* the counters of the bounds
  good,     \* history: cur when a call last returned success
  stuck     \* history: the artefacts a failed removal may have left in place since then

vars == <<cur, tmp, bak, writer, report, syncs, faults, crashes, good, stuck>>

-----------------------------------------------------------------------------
(***************************************************************************)
(* The artefacts and the orders in which the code walks them.              *)
(***************************************************************************)

\* ResolveTrustLists: the files a configured URL stands for.
Xmls(url) == IF url = "family" THEN <<"TL-UA", "TL-UA-DSTU", "TL-UA-EC">>
                               ELSE <<"TL-UA-EC">>

is_historical(xml) == xml = "TL-UA-DSTU"

Stores == <<"trust-store", "historical-trust-store", "tsa-store", "historical-tsa-store">>
StoreSet == Range(Stores)
TsaStores == {"tsa-store", "historical-tsa-store"}
Fixed == <<"state", "metadata">> \o Stores

\* Backups and installs walk the XML files first, clean-ups walk them last.
Order(url) == Xmls(url) \o Fixed
CleanOrder(url) == Fixed \o Xmls(url)
\* A rollback restores the stores in reverse, then the metadata, the state and the XML files.
RestoreOrder(url) ==
  <<"historical-tsa-store", "tsa-store", "historical-trust-store", "trust-store">>
    \o <<"metadata", "state">> \o Xmls(url)

Items == Range(Order("family"))
\* The artefacts every configuration writes.
CoreItems == Range(Order("single"))

Absent == {-1}
Empty == {}
Content == {Absent} \cup SUBSET (1 .. MaxSyncs)

\* ExistingFileHasContent for files, ExistingDirectory for the stores.
Exists(c, item) == c # Absent /\ (item \in StoreSet \/ c # Empty)
Holds(item) == cur[item] \notin {Absent, Empty}

-----------------------------------------------------------------------------
(***************************************************************************)
(* Which certificate of a trust list becomes a trust anchor.               *)
(***************************************************************************)

\* HasMaterializableTrustAnchor, for one service with one certificate.
IsMaterializable(s) ==
  /\ s.granted /\ s.decodes
  /\ \/ s.type \in {"TSA/QTST", "MR-TSA/QTST"}
     \/ s.is_ca /\ (s.key_cert_sign \/ s.type = "CA/QC")

HasMaterializableTrustAnchor(l) == \E s \in l.services : IsMaterializable(s)

\* ClassifyMaterializationCandidate: the store a certificate goes to, or "skip".
ClassifyMaterializationCandidate(s, historical) ==
  CASE ~ s.granted \/ ~ s.decodes -> "skip"
    [] s.granted /\ s.decodes /\ s.type = "MR-TSA/QTST" ->
         IF historical THEN "historical-tsa-store" ELSE "tsa-store"
    [] s.granted /\ s.decodes /\ s.type # "MR-TSA/QTST" ->
         IF ~ s.is_ca \/ ~ (s.key_cert_sign \/ s.type = "CA/QC") THEN "skip"
         ELSE IF historical THEN "historical-trust-store" ELSE "trust-store"

\* What the call f stages for an artefact: a store holds the certificates classified into it.
HasAnchors(f, store) ==
  \E k \in 1 .. Len(f.lists) : \E s \in f.lists[k].services :
    ClassifyMaterializationCandidate(s, is_historical(Xmls(f.url)[k])) = store

Staged(f, item) ==
  IF item \in StoreSet /\ ~ HasAnchors(f, item) THEN Empty ELSE {f.gen}

-----------------------------------------------------------------------------
(***************************************************************************)
(* The calls.  A writer's record is the stack frame of its call: the phase *)
(* pc and the position k in the walk of that phase, the number gen of the  *)
(* call (its last_sync), the settings it snapshotted, the lists it         *)
(* downloaded, the artefacts it backed up, the temporaries a failed backup *)
(* leaves, and its result.  The last four fields are history: the cache    *)
(* before the write, the staged stores of earlier calls that the clean-up  *)
(* could not remove, the artefacts a rollback could not remove, and the    *)
(* backups it could not move back.                                         *)
(***************************************************************************)

Phases == {"idle", "download", "layout", "clean", "stage", "mkdir", "certs",
           "backup", "install", "undo", "restore", "finish", "return"}
Statuses == {"not-checked", "not-verified-disabled", "not-verified-unsupported",
             "failed", "verified"}
Report == [succeeded : BOOLEAN, cache_status : {"not-checked", "blocked-offline", "fresh", "unavailable"},
           last_sync : 0 .. MaxSyncs, sig : Statuses \cup {"not-checked-offline"}]

Idle == [pc |-> "idle", k |-> 1, gen |-> 0, url |-> "single", policy |-> "Require",
         lists |-> << >>, backed |-> {}, sig |-> "not-checked", succeeded |-> FALSE,
         cache_status |-> "not-checked", last_sync |-> 0, left |-> {}, stale |-> {},
         undeleted |-> {}, unrestored |-> {}, before |-> [i \in Items |-> Absent]]

Init ==
  /\ cur = [i \in Items |-> Absent]
  /\ tmp = [i \in Items |-> Absent]
  /\ bak = [i \in Items |-> Absent]
  /\ writer = [w \in Writers |-> Idle]
  /\ report = [succeeded |-> FALSE, cache_status |-> "not-checked", last_sync |-> 0,
               sig |-> "not-checked"]
  /\ syncs = 0 /\ faults = 0 /\ crashes = 0
  /\ good = [i \in Items |-> Absent]
  /\ stuck = {}

History == <<good, stuck>>
Disk == <<cur, tmp, bak>>
Counters == <<syncs, faults, crashes>>

\* One file-system call fails, while the bound allows it.
Fault == faults < MaxFaults /\ faults' = faults + 1

Goto(f, phase) == [f EXCEPT !.pc = phase, !.k = 1]

\* PolicyCache::ReadState: a readable state.json beside a non-empty TL-UA-EC.xml.
ReadState(c) == Exists(c["state"], "state") /\ Exists(c["TL-UA-EC"], "TL-UA-EC")

\* FailureResult: the cached state is what the failed call reports, if it is readable.
FailureResult(f, c) ==
  [f EXCEPT !.pc = "return", !.succeeded = FALSE,
            !.cache_status = IF ReadState(c) THEN "fresh" ELSE "unavailable",
            !.last_sync = IF ReadState(c) THEN CHOOSE g \in c["state"] : TRUE ELSE f.gen]

\* SyncTrustList starts: the settings are snapshotted and the lock is released.
Begin(w) ==
  /\ writer[w].pc = "idle" /\ syncs < MaxSyncs
  /\ \E u \in Urls, p \in Policies :
       writer' = [writer EXCEPT ![w] = [Idle EXCEPT !.pc = "download", !.gen = syncs + 1,
                                                    !.url = u, !.policy = p, !.before = cur]]
  /\ syncs' = syncs + 1
  /\ UNCHANGED <<Disk, report, faults, crashes, History>>

\* SyncTrustList in offline mode: refused before any HTTP call.
BlockedOffline(w) ==
  /\ writer[w].pc = "idle"
  /\ report' = [succeeded |-> FALSE, cache_status |-> "blocked-offline", last_sync |-> 0,
                sig |-> "not-checked-offline"]
  /\ UNCHANGED <<Disk, writer, Counters, History>>

\* The call ends before a write: no URL, bootstrap disabled, HTTP or SHA-256 failure, bad XML.
DownloadFails(w) ==
  /\ writer[w].pc = "download"
  /\ writer' = [writer EXCEPT ![w] = FailureResult(@, cur)]
  /\ UNCHANGED <<Disk, report, Counters, History>>

\* The xml_signature_status a list leaves behind.
SignatureStatus(policy, l) ==
  CASE policy = "Disabled" -> "not-verified-disabled"
    [] policy # "Disabled" /\ l.sig = "unsupported" -> "not-verified-unsupported"
    [] policy # "Disabled" /\ l.sig = "bad" -> "failed"
    [] policy # "Disabled" /\ l.sig = "good" -> "verified"

SignatureAccepted(policy, l) ==
  \/ policy = "Disabled"
  \/ l.sig = "good"
  \/ l.sig = "unsupported" /\ policy # "Require"

\* One turn of the download loop: signature, parse, anchors; the last one goes on to the write.
Download(w) ==
  /\ writer[w].pc = "download"
  /\ \E l \in Lists :
       LET f == [writer[w] EXCEPT !.sig = SignatureStatus(writer[w].policy, l)]
           g == [f EXCEPT !.lists = Append(@, l)]
       IN  writer' = [writer EXCEPT ![w] =
             IF ~ SignatureAccepted(f.policy, l) \/ ~ HasMaterializableTrustAnchor(l)
             THEN FailureResult(f, cur)
             ELSE IF Len(g.lists) = Len(Xmls(g.url)) THEN Goto(g, "layout") ELSE g]
  /\ UNCHANGED <<Disk, report, Counters, History>>

\* EnsureLayout: the two trust stores exist from here on, empty if need be.
Layout(w) ==
  LET made == [i \in Items |-> IF i \in {"trust-store", "historical-trust-store"} /\ cur[i] = Absent
                               THEN Empty ELSE cur[i]]
  IN  /\ writer[w].pc = "layout"
      /\ cur' = made
      /\ writer' = [writer EXCEPT ![w] = [Goto(@, "clean") EXCEPT !.before = made]]
      /\ UNCHANGED <<tmp, bak, report, Counters, History>>

\* EnsureLayout gives up at one directory; those before it were made.
LayoutFails(w) ==
  /\ writer[w].pc = "layout"
  /\ Fault
  /\ \E made \in { {}, {"trust-store"}, {"trust-store", "historical-trust-store"} } :
       cur' = [i \in Items |-> IF i \in made /\ cur[i] = Absent THEN Empty ELSE cur[i]]
  /\ writer' = [writer EXCEPT ![w] = FailureResult([@ EXCEPT !.before = cur'], cur')]
  /\ UNCHANGED <<tmp, bak, report, syncs, crashes, History>>

-----------------------------------------------------------------------------
(***************************************************************************)
(* WriteTrustListsMaterialized, one file-system call after another.        *)
(***************************************************************************)

\* The next position of a walk over seq, or the first one of the next phase.
Advance(f, seq, next) == IF f.k < Len(seq) THEN [f EXCEPT !.k = @ + 1] ELSE Goto(f, next)

\* rename(2) of one artefact: files replace, a directory needs its target absent or empty.
CanMove(from, to, item) ==
  /\ from[item] # Absent
  /\ item \in StoreSet => to[item] = Absent \/ (to[item] = Empty /\ RenameOverEmptyDir)

\* What a failing remove of a file, or remove_all of a directory, leaves of it.
Remains(c, item) == IF c = Absent THEN {} ELSE IF item \in StoreSet THEN SUBSET c ELSE {c}

Removed(disk, item) == [disk EXCEPT ![item] = Absent]
NotRemoved(disk, item) == {[disk EXCEPT ![item] = c] : c \in Remains(disk[item], item)}

\* A failing call removes its temporary names before it returns, or fails to remove one of
\* them as well; n is the number of faults so far.
RemoveTemps(names, n) ==
  LET gone == [i \in Items |-> IF i \in names THEN Absent ELSE tmp[i]] IN
  \/ tmp' = gone /\ faults' = n
  \/ /\ n < MaxFaults /\ faults' = n + 1
     /\ \E i \in names : \E c \in Remains(tmp[i], i) : tmp' = [gone EXCEPT ![i] = c]

\* The backup and the temporary name of one artefact are removed.
RemoveBoth(i) == bak' = Removed(bak, i) /\ tmp' = Removed(tmp, i)

\* One or both of the two removals fail.
RemoveBothFails(i) ==
  /\ Fault
  /\ \/ bak' \in NotRemoved(bak, i) /\ tmp' \in {Removed(tmp, i)} \cup NotRemoved(tmp, i)
     \/ bak' = Removed(bak, i) /\ tmp' \in NotRemoved(tmp, i)

\* Mutant: the staged stores an earlier call left behind are not removed.
CleanBackupsOnly(w) ==
  LET f == writer[w]
      i == CleanOrder(f.url)[f.k]
  IN  /\ f.pc = "clean"
      /\ bak' = Removed(bak, i)
      /\ writer' = [writer EXCEPT ![w] = Advance(f, CleanOrder(f.url), "stage")]
      /\ UNCHANGED <<cur, tmp, report, Counters, History>>

\* The backups and temporaries of earlier calls are removed, whoever left them.
Clean(w) ==
  LET f == writer[w]
      i == CleanOrder(f.url)[f.k]
  IN  /\ f.pc = "clean"
      /\ RemoveBoth(i)
      /\ writer' = [writer EXCEPT ![w] = Advance(f, CleanOrder(f.url), "stage")]
      /\ UNCHANGED <<cur, report, Counters, History>>

\* A removal fails and nobody looks: certificates will be staged beside those left in a store.
CleanFails(w) ==
  LET f == writer[w]
      i == CleanOrder(f.url)[f.k]
      beside == IF i \in StoreSet /\ tmp'[i] # Absent THEN {i} ELSE {}
  IN  /\ f.pc = "clean"
      /\ RemoveBothFails(i)
      /\ writer' = [writer EXCEPT ![w] =
                      [Advance(f, CleanOrder(f.url), "stage") EXCEPT !.stale = @ \cup beside]]
      /\ stuck' = stuck \cup beside
      /\ UNCHANGED <<cur, report, syncs, crashes, good>>

StageOrder(url) == Xmls(url) \o <<"state", "metadata">>

\* StageBinaryFile of an XML file, of state.json, of the metadata.
Stage(w) ==
  LET f == writer[w]
      i == StageOrder(f.url)[f.k]
  IN  /\ f.pc = "stage"
      /\ tmp' = [tmp EXCEPT ![i] = {f.gen}]
      /\ writer' = [writer EXCEPT ![w] = Advance(f, StageOrder(f.url), "mkdir")]
      /\ UNCHANGED <<cur, bak, report, Counters, History>>

StageFails(w) ==
  LET f == writer[w]
      removed == Range(Xmls(f.url)) \cup
                 (IF f.k <= Len(Xmls(f.url)) THEN {} ELSE {"state", "metadata"})
  IN  /\ f.pc = "stage"
      /\ faults < MaxFaults /\ RemoveTemps(removed, faults + 1)
      /\ writer' = [writer EXCEPT ![w] = FailureResult(f, cur)]
      /\ UNCHANGED <<cur, bak, report, syncs, crashes, History>>

\* create_directories for the four staged stores.
MakeStores(w) ==
  /\ writer[w].pc = "mkdir"
  /\ tmp' = [i \in Items |-> IF i \in StoreSet /\ tmp[i] = Absent THEN Empty ELSE tmp[i]]
  /\ writer' = [writer EXCEPT ![w] = Goto(@, "certs")]
  /\ UNCHANGED <<cur, bak, report, Counters, History>>

\* One of the four fails; only the error of the last one survives to the test of ec.
MakeStoresFails(w) ==
  LET f == writer[w] IN
  /\ f.pc = "mkdir"
  /\ faults < MaxFaults
  /\ \E failed \in StoreSet :
       IF failed = "historical-tsa-store"
       THEN /\ RemoveTemps(Range(Order(f.url)), faults + 1)
            /\ writer' = [writer EXCEPT ![w] = FailureResult(f, cur)]
       ELSE /\ faults' = faults + 1
            /\ tmp' = [i \in Items |-> IF i \in StoreSet \ {failed} /\ tmp[i] = Absent
                                       THEN Empty ELSE tmp[i]]
            /\ writer' = [writer EXCEPT ![w] = Goto(f, "certs")]
  /\ UNCHANGED <<cur, bak, report, syncs, crashes, History>>

\* The certificates of one store are staged into its directory, beside what is there.
StageCerts(w) ==
  LET f == writer[w]
      i == Stores[f.k]
  IN  /\ f.pc = "certs"
      /\ HasAnchors(f, i) => tmp[i] # Absent
      /\ tmp' = [tmp EXCEPT ![i] = IF HasAnchors(f, i) THEN @ \cup {f.gen} ELSE @]
      /\ writer' = [writer EXCEPT ![w] = Advance(f, Stores, "backup")]
      /\ UNCHANGED <<cur, bak, report, Counters, History>>

StageCertsFails(w) ==
  LET f == writer[w] IN
  /\ f.pc = "certs"
  /\ HasAnchors(f, Stores[f.k])
  /\ \/ tmp[Stores[f.k]] = Absent /\ RemoveTemps(Range(Order(f.url)), faults)
     \/ /\ tmp[Stores[f.k]] # Absent /\ faults < MaxFaults
        /\ RemoveTemps(Range(Order(f.url)), faults + 1)
  /\ writer' = [writer EXCEPT ![w] = FailureResult(f, cur)]
  /\ UNCHANGED <<cur, bak, report, syncs, crashes, History>>

\* One current artefact is moved to its backup name, or skipped when there is none.
Backup(w) ==
  LET f == writer[w]
      i == Order(f.url)[f.k]
      next == Advance(f, Order(f.url), "install")
  IN  /\ f.pc = "backup"
      /\ IF Exists(cur[i], i)
         THEN /\ CanMove(cur, bak, i)
              /\ bak' = [bak EXCEPT ![i] = cur[i]]
              /\ cur' = [cur EXCEPT ![i] = Absent]
              /\ writer' = [writer EXCEPT ![w] = [next EXCEPT !.backed = @ \cup {i}]]
         ELSE /\ writer' = [writer EXCEPT ![w] = next]
              /\ UNCHANGED <<cur, bak>>
      /\ UNCHANGED <<tmp, report, Counters, History>>

\* A backup move fails: what was moved is restored, the rest is left alone.
BackupFails(w) ==
  LET f == writer[w]
      i == Order(f.url)[f.k]
  IN  /\ f.pc = "backup"
      /\ Exists(cur[i], i)
      /\ \/ ~ CanMove(cur, bak, i) /\ faults' = faults
         \/ CanMove(cur, bak, i) /\ Fault
      /\ writer' = [writer EXCEPT ![w] =
            [Goto(f, "restore") EXCEPT !.left = IF i \in TsaStores THEN {} ELSE TsaStores]]
      /\ UNCHANGED <<Disk, report, syncs, crashes, History>>

\* Mutant: each backup is dropped as soon as its own artefact is in place.
InstallDropsBackup(w) ==
  LET f == writer[w]
      i == Order(f.url)[f.k]
  IN  /\ f.pc = "install"
      /\ CanMove(tmp, cur, i)
      /\ cur' = [cur EXCEPT ![i] = tmp[i]]
      /\ tmp' = [tmp EXCEPT ![i] = Absent]
      /\ bak' = [bak EXCEPT ![i] = Absent]
      /\ writer' = [writer EXCEPT ![w] = Advance(f, Order(f.url), "finish")]
      /\ UNCHANGED <<report, Counters, History>>

\* One staged artefact is renamed into place.
Install(w) ==
  LET f == writer[w]
      i == Order(f.url)[f.k]
  IN  /\ f.pc = "install"
      /\ CanMove(tmp, cur, i)
      /\ cur' = [cur EXCEPT ![i] = tmp[i]]
      /\ tmp' = [tmp EXCEPT ![i] = Absent]
      /\ writer' = [writer EXCEPT ![w] = Advance(f, Order(f.url), "finish")]
      /\ UNCHANGED <<bak, report, Counters, History>>

InstallFails(w) ==
  LET f == writer[w]
      i == Order(f.url)[f.k]
  IN  /\ f.pc = "install"
      /\ \/ ~ CanMove(tmp, cur, i) /\ faults' = faults
         \/ CanMove(tmp, cur, i) /\ Fault
      /\ writer' = [writer EXCEPT ![w] = Goto(f, "undo")]
      /\ UNCHANGED <<Disk, report, syncs, crashes, History>>

\* Mutant: the rollback forgets the time-stamping stores.
UndoKeepsTsa(w) ==
  LET f == writer[w]
      i == CleanOrder(f.url)[f.k]
  IN  /\ f.pc = "undo"
      /\ cur' = [cur EXCEPT ![i] = IF i \in TsaStores THEN @ ELSE Absent]
      /\ writer' = [writer EXCEPT ![w] = Advance(f, CleanOrder(f.url), "restore")]
      /\ UNCHANGED <<tmp, bak, report, Counters, History>>

\* The rollback of a failed install first removes whatever has the final names.
Undo(w) ==
  LET f == writer[w]
      i == CleanOrder(f.url)[f.k]
  IN  /\ f.pc = "undo"
      /\ cur' = Removed(cur, i)
      /\ writer' = [writer EXCEPT ![w] = Advance(f, CleanOrder(f.url), "restore")]
      /\ UNCHANGED <<tmp, bak, report, Counters, History>>

\* The removal fails and nobody looks: the new artefact keeps its name, or a part of it does.
UndoFails(w) ==
  LET f == writer[w]
      i == CleanOrder(f.url)[f.k]
  IN  /\ f.pc = "undo"
      /\ Fault
      /\ cur' \in NotRemoved(cur, i)
      /\ writer' = [writer EXCEPT ![w] =
                      [Advance(f, CleanOrder(f.url), "restore") EXCEPT !.undeleted = @ \cup {i}]]
      /\ stuck' = stuck \cup {i}
      /\ UNCHANGED <<tmp, bak, report, syncs, crashes, good>>

\* The end of a rollback step: after the last one the temporaries go and the call has failed.
RestoreNext(w, f, c, n) ==
  IF f.k < Len(RestoreOrder(f.url))
  THEN /\ writer' = [writer EXCEPT ![w] = [f EXCEPT !.k = @ + 1]]
       /\ faults' = n /\ UNCHANGED tmp
  ELSE /\ RemoveTemps(Range(Order(f.url)) \ f.left, n)
       /\ writer' = [writer EXCEPT ![w] = FailureResult(f, c)]

\* One backup is moved back to its final name.
Restore(w) ==
  LET f == writer[w]
      i == RestoreOrder(f.url)[f.k]
  IN  /\ f.pc = "restore"
      /\ IF i \in f.backed
         THEN /\ CanMove(bak, cur, i)
              /\ cur' = [cur EXCEPT ![i] = bak[i]]
              /\ bak' = [bak EXCEPT ![i] = Absent]
         ELSE UNCHANGED <<cur, bak>>
      /\ RestoreNext(w, f, cur', faults)
      /\ UNCHANGED <<report, syncs, crashes, History>>

\* The rename fails and nobody looks: the backup keeps its ".bak" name.
RestoreFails(w) ==
  LET f == writer[w]
      i == RestoreOrder(f.url)[f.k]
  IN  /\ f.pc = "restore"
      /\ i \in f.backed
      /\ LET g == [f EXCEPT !.unrestored = @ \cup {i}] IN
         \/ ~ CanMove(bak, cur, i) /\ RestoreNext(w, g, cur, faults)
         \/ CanMove(bak, cur, i) /\ faults < MaxFaults /\ RestoreNext(w, g, cur, faults + 1)
      /\ UNCHANGED <<cur, bak, report, syncs, crashes, History>>

\* The end of the write, after the clean-up of its last artefact: Sync returns success.
FinishNext(w, f) ==
  LET next == Advance(f, Order(f.url), "return") IN
  IF f.k < Len(Order(f.url))
  THEN writer' = [writer EXCEPT ![w] = next] /\ UNCHANGED History
  ELSE /\ writer' = [writer EXCEPT ![w] = [next EXCEPT !.succeeded = TRUE,
                       !.cache_status = "fresh", !.last_sync = f.gen]]
       /\ good' = cur
       /\ stuck' = (stuck \ Range(Order(f.url))) \cup f.stale

\* The write succeeded: the backups and temporaries go.
Finish(w) ==
  LET f == writer[w] IN
  /\ f.pc = "finish"
  /\ RemoveBoth(Order(f.url)[f.k])
  /\ FinishNext(w, f)
  /\ UNCHANGED <<cur, report, Counters>>

\* A backup or a temporary stays; the next call starts with it.
FinishFails(w) ==
  LET f == writer[w] IN
  /\ f.pc = "finish"
  /\ RemoveBothFails(Order(f.url)[f.k])
  /\ FinishNext(w, f)
  /\ UNCHANGED <<cur, report, syncs, crashes>>

\* SyncTrustList takes the lock again and files the report.
Return(w) ==
  LET f == writer[w] IN
  /\ f.pc = "return"
  /\ report' = [succeeded |-> f.succeeded, cache_status |-> f.cache_status,
                last_sync |-> f.last_sync, sig |-> f.sig]
  /\ writer' = [writer EXCEPT ![w] = Idle]
  /\ UNCHANGED <<Disk, Counters, History>>

\* The process of a writer dies inside a call; the disk stays as it is.
Crash(w) ==
  /\ writer[w].pc # "idle"
  /\ crashes < MaxCrashes
  /\ crashes' = crashes + 1
  /\ writer' = [writer EXCEPT ![w] = Idle]
  /\ UNCHANGED <<Disk, report, syncs, faults, History>>

Step(w) ==
  \/ DownloadFails(w) \/ Download(w) \/ Layout(w) \/ LayoutFails(w)
  \/ Clean(w) \/ CleanFails(w) \/ Stage(w) \/ StageFails(w) \/ MakeStores(w) \/ MakeStoresFails(w)
  \/ StageCerts(w) \/ StageCertsFails(w) \/ Backup(w) \/ BackupFails(w)
  \/ Install(w) \/ InstallFails(w) \/ Undo(w) \/ UndoFails(w)
  \/ Restore(w) \/ RestoreFails(w) \/ Finish(w) \/ FinishFails(w) \/ Return(w)

Next == \E w \in Writers : Step(w) \/ Begin(w) \/ BlockedOffline(w) \/ Crash(w)

Spec == Init /\ [][Next]_vars

-----------------------------------------------------------------------------
(***************************************************************************)
(* Properties.                                                             *)
(***************************************************************************)

\* Every artefact holds bytes of calls that were made, every frame is a frame of the code.
TypeOK ==
  /\ cur \in [Items -> Content] /\ tmp \in [Items -> Content] /\ bak \in [Items -> Content]
  /\ good \in [Items -> Content] /\ stuck \subseteq Items
  /\ report \in Report
  /\ syncs \in 0 .. MaxSyncs /\ faults \in 0 .. MaxFaults /\ crashes \in 0 .. MaxCrashes
  /\ \A w \in Writers :
       LET f == writer[w] IN
       /\ f.pc \in Phases /\ f.k \in 1 .. Cardinality(Items) /\ f.gen \in 0 .. syncs
       /\ f.url \in {"family", "single"}
       /\ f.policy \in {"Disabled", "PreferAvailable", "Require"}
       /\ Len(f.lists) <= Len(Xmls(f.url)) /\ Range(f.lists) \subseteq Lists
       /\ f.backed \subseteq Items /\ f.unrestored \subseteq f.backed
       /\ f.left \subseteq TsaStores /\ f.stale \subseteq StoreSet /\ f.undeleted \subseteq Items
       /\ f.sig \in Statuses

\* The artefacts in place are never a mixture: whatever a crash, a failed rename or a rollback
\* leaves under the final names comes from one and the same call of WriteTrustListsMaterialized.
\* Left out are exactly the artefacts for which, since the last success, a removal failed that
\* the code does not look at: they may be of a later call, or hold certificates of an earlier one.
OneGeneration ==
  \A i, j \in CoreItems \ stuck : Holds(i) /\ Holds(j) => cur[i] = cur[j]

\* A write that returns true has replaced every artefact by its own, stores without anchors
\* by empty ones, whatever earlier crashes and failures left on the disk.  Only a store whose
\* leftover staged directory could not be removed holds other certificates beside its own.
SuccessInstallsAll ==
  \A w \in Writers : LET f == writer[w] IN
    f.pc = "return" /\ f.succeeded =>
      \A i \in Range(Order(f.url)) :
        IF i \in f.stale THEN cur[i] # Absent /\ Staged(f, i) \subseteq cur[i]
                         ELSE cur[i] = Staged(f, i)

\* A call that returns false leaves the cache as it was before the write, except for what its
\* own rollback could not rename, and that is still there under the ".bak" name, and for new
\* artefacts that it could not remove, which stay where there was none before.
FailedWriteKeepsCache ==
  \A w \in Writers : LET f == writer[w] IN
    f.pc = "return" /\ ~ f.succeeded =>
      \A i \in Items :
        IF i \in f.unrestored THEN bak[i] = f.before[i]
        ELSE cur[i] = f.before[i] \/ (i \in f.undeleted /\ f.before[i] = Absent)

\* Without a crash and with one failing file-system call, the last cache a call reported as
\* installed exists in full, in place or as backups, until its successor is in place in full.
OldUntilAllNew ==
  crashes = 0 /\ faults <= 1 =>
    \/ \A i \in CoreItems : good[i] # Absent => good[i] \in {cur[i], bak[i]}
    \/ \E w \in Writers : /\ writer[w].pc = "finish"
                          /\ \A i \in Range(Order(writer[w].url)) : cur[i] = Staged(writer[w], i)

\* A failed call reports the cache it leaves: "fresh" with the last_sync of the call whose
\* state.json is in place (FailureResult re-reads the state after the rollback).
FailureReportsItsCache ==
  \A w \in Writers : LET f == writer[w] IN
    f.pc = "return" /\ ~ f.succeeded /\ f.cache_status = "fresh" => {f.last_sync} = cur["state"]

\* A synchronisation that does not succeed leaves the cache it found, one that dies half-way
\* leaves the old parts until all the new ones are in place, and a call that fails reports
\* the state of the cache that is there (StoreCache's rollback, SyncTrustList's cached result).
OldCacheSurvives == FailedWriteKeepsCache /\ OldUntilAllNew /\ FailureReportsItsCache

UsableTsa(s) == s.granted /\ s.decodes /\ s.type \in {"TSA/QTST", "MR-TSA/QTST"}
TsaOnly(l) ==
  /\ \E s \in l.services : UsableTsa(s)
  /\ \A s \in l.services : IsMaterializable(s) => UsableTsa(s)

\* docs/component-methods.md: after a successful SyncTrustList the trust store holds the CA
\* anchors of the trust list.  It does, unless every current list offers usable time-stamping
\* services and nothing else: HasMaterializableTrustAnchor is content with those, and they
\* leave the trust store empty.
AnchorsAfterSuccess ==
  \A w \in Writers : LET f == writer[w] IN
    f.pc = "return" /\ f.succeeded =>
      \/ Holds("trust-store")
      \/ \A k \in 1 .. Len(f.lists) : ~ is_historical(Xmls(f.url)[k]) => TsaOnly(f.lists[k])

\* Success means that everything was replaced and that there is something to trust.
SuccessIsComplete == SuccessInstallsAll /\ AnchorsAfterSuccess
=============================================================================
