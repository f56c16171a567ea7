---------------------------- MODULE RunRecordFile ----------------------------
(***************************************************************************)
(* One run.json and its row in the search index.  Writers in different    *)
(* processes (executor, kill route, drain) merge their fields into the    *)
(* record: sidecar lock, read, scratch file, swap, unlock, and only then  *)
(* the index.  The lock is given up on after LockAttempts tries, each     *)
(* about ten seconds; from then on the writer goes ahead without it.      *)
(* Files have the sharing rules of Windows: one that is open can be       *)
(* neither replaced nor moved.                                            *)
(***************************************************************************)
EXTENDS Naturals, FiniteSets

CONSTANTS
  Writers,       \* each merges one set of fields
  LockAttempts   \* _LOCK_ATTEMPTS

VARIABLES
  stage,         \* writer -> where it is
  tries,         \* writer -> attempts at the lock that timed out
  holder,        \* the writers that hold the sidecar lock, at most one
  bare,          \* the writers that went on without it
  merged,        \* writer -> the record it will write
  scratch,       \* run.json.tmp
  scratchOpen,   \* writers that have it open
  record,        \* run.json
  watched,       \* a reader has run.json open
  mirror,        \* the row of the index
  crossed        \* history: the row may belong to an older write

vars == <<stage, tries, holder, bare, merged, scratch, scratchOpen, record, watched, mirror, crossed>>

Missing == [whole |-> TRUE, fields |-> {}]
Partial == [whole |-> FALSE, fields |-> {}]
Full(fields) == [whole |-> TRUE, fields |-> fields]

Init ==
  /\ stage = [w \in Writers |-> "idle"] /\ tries = [w \in Writers |-> 0]
  /\ holder = {} /\ bare = {}
  /\ merged = [w \in Writers |-> Missing]
  /\ scratch = Missing /\ scratchOpen = {}
  /\ record = Missing /\ watched = FALSE
  /\ mirror = Missing /\ crossed = FALSE

Goes(w, from, to) == stage[w] = from /\ stage' = [stage EXCEPT ![w] = to]
Unsynced == {w \in Writers : stage[w] \in {"unlock", "sync"}}

Begin(w) ==
  /\ Goes(w, "idle", "lock")
  /\ UNCHANGED <<tries, holder, bare, merged, scratch, scratchOpen, record, watched, mirror, crossed>>

\* Mutant of TakeLock: the lock keeps nobody out.
TakeLockShared(w) ==
  /\ Goes(w, "lock", "read") /\ holder' = {w}
  /\ UNCHANGED <<tries, bare, merged, scratch, scratchOpen, record, watched, mirror, crossed>>

TakeLock(w) ==
  /\ Goes(w, "lock", "read") /\ holder = {}
  /\ holder' = {w}
  /\ UNCHANGED <<tries, bare, merged, scratch, scratchOpen, record, watched, mirror, crossed>>

LockTimesOut(w) ==
  /\ stage[w] = "lock" /\ holder # {}
  /\ tries' = [tries EXCEPT ![w] = @ + 1]
  /\ IF tries[w] + 1 = LockAttempts
     THEN Goes(w, "lock", "read") /\ bare' = bare \cup {w}
     ELSE UNCHANGED <<stage, bare>>
  /\ UNCHANGED <<holder, merged, scratch, scratchOpen, record, watched, mirror, crossed>>

\* An unreadable record counts as an empty one.
Read(w) ==
  /\ Goes(w, "read", "open")
  /\ merged' = [merged EXCEPT ![w] = Full({w} \cup IF record.whole THEN record.fields ELSE {})]
  /\ UNCHANGED <<tries, holder, bare, scratch, scratchOpen, record, watched, mirror, crossed>>

OpenScratch(w) ==
  /\ Goes(w, "open", "write")
  /\ scratch' = Partial /\ scratchOpen' = scratchOpen \cup {w}
  /\ UNCHANGED <<tries, holder, bare, merged, record, watched, mirror, crossed>>

\* Over what another writer has put there meanwhile, a shorter text leaves a tail.
WriteScratch(w) ==
  /\ Goes(w, "write", "swap")
  /\ \E text \in {merged[w]} \cup (IF scratch = Partial THEN {} ELSE {Partial}) : scratch' = text
  /\ scratchOpen' = scratchOpen \ {w}
  /\ UNCHANGED <<tries, holder, bare, merged, record, watched, mirror, crossed>>

\* os.replace raises while either file is open, or the scratch file is gone.
Swap(w) ==
  /\ IF scratchOpen = {} /\ ~watched /\ scratch # Missing
     THEN /\ Goes(w, "swap", "unlock")
          /\ record' = scratch /\ scratch' = Missing
          /\ crossed' = (crossed \/ Unsynced # {})
     ELSE Goes(w, "swap", "raise") /\ UNCHANGED <<record, scratch, crossed>>
  /\ UNCHANGED <<tries, holder, bare, merged, scratchOpen, watched, mirror>>

Unlock(w) ==
  /\ \/ Goes(w, "unlock", "sync")
     \/ Goes(w, "raise", "failed")
  /\ holder' = holder \ {w}
  /\ UNCHANGED <<tries, bare, merged, scratch, scratchOpen, record, watched, mirror, crossed>>

\* sync_run mirrors what this writer wrote, not what the file holds by now.
SyncIndex(w) ==
  /\ Goes(w, "sync", "done")
  /\ mirror' = merged[w]
  /\ UNCHANGED <<tries, holder, bare, merged, scratch, scratchOpen, record, watched, crossed>>

\* The process dies; the system frees its lock and closes its files.
Crash(w) ==
  /\ stage[w] \notin {"idle", "done", "failed", "dead"}
  /\ stage' = [stage EXCEPT ![w] = "dead"]
  /\ holder' = holder \ {w} /\ scratchOpen' = scratchOpen \ {w}
  /\ crossed' = (crossed \/ w \in Unsynced)
  /\ UNCHANGED <<tries, bare, merged, scratch, record, watched, mirror>>

\* A poll reads the record.
Watch ==
  /\ watched' = ~watched
  /\ UNCHANGED <<stage, tries, holder, bare, merged, scratch, scratchOpen, record, mirror, crossed>>

\* A lost or corrupt index is built again from the files.
RebuildIndex ==
  /\ mirror' = IF record.whole THEN record ELSE Missing
  /\ crossed' = (Unsynced # {})
  /\ UNCHANGED <<stage, tries, holder, bare, merged, scratch, scratchOpen, record, watched>>

Next ==
  \/ Watch \/ RebuildIndex
  \/ \E w \in Writers :
       \/ Begin(w) \/ TakeLock(w) \/ LockTimesOut(w) \/ Read(w) \/ OpenScratch(w)
       \/ WriteScratch(w) \/ Swap(w) \/ Unlock(w) \/ SyncIndex(w) \/ Crash(w)

Spec == Init /\ [][Next]_vars

-----------------------------------------------------------------------------
TypeOK ==
  /\ tries \in [Writers -> 0..LockAttempts] /\ Cardinality(holder) <= 1
  /\ \A f \in {scratch, record, mirror} : f.whole \in BOOLEAN /\ f.fields \subseteq Writers
  /\ bare \cup scratchOpen \subseteq Writers

Landed == {w \in Writers : stage[w] \in {"unlock", "sync", "done"}}

(* As long as nobody has gone on without the lock, the record is complete   *)
(* JSON and holds the fields of every merge that did not raise, whoever     *)
(* crashes with the scratch file half written or reads the record meanwhile *)
(* (write_run_json under _run_json_lock, atomic_write_json).                *)
LockedMergesKept == bare = {} => record.whole /\ Landed \subseteq record.fields

(* Between writes the index shows the record, provided no writer died       *)
(* between its swap and its row and no two writers were there at once       *)
(* (the sync_run call after the lock is released).                          *)
MirrorFollows == bare = {} /\ ~crossed /\ Unsynced = {} => mirror = record

(* Both: what a reader of the file and of the index may rely on.            *)
RecordSound == LockedMergesKept /\ MirrorFollows
=============================================================================
