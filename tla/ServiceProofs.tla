--------------------------- MODULE ServiceProofs ---------------------------
(***************************************************************************)
(* What is proved of the services beside the job executor that keep and    *)
(* show its runs, each from the inductive invariant stated before its      *)
(* theorem: the run record several processes write, the coverage alerts,   *)
(* the caches a coverage verdict is served from, the walk along the fires  *)
(* of a schedule with the fires missed, the run history, the output of a   *)
(* run as a page shows it, the issues GitLab has of the project, the       *)
(* chains of the jobs file and its rows, and the load the header shows.    *)
(***************************************************************************)
EXTENDS Integers, Sequences, FiniteSets, FiniteSetTheorems, FunctionTheorems,
  SequenceTheorems, WellFoundedInduction, TLAPS

CONSTANTS
  Writers, LockAttempts,
  Repeat, MaxWall, MaxMissed, MaxLost,
  Pollers, TaskTtl, CoverageTtl, MaxClock,
  WindowLength, Day, Week, Today, Grace, Early, MaxRuns, Cap, MaxHistory, Pins,
  Keeps, Cooldown, Streak, MaxBusy, MaxDry, MaxTime, Pinnable,
  MaxBytes, LineEnds, TailBytes,
  Issues, GroupOf, Groups, Meta, Pages, Limit,
  Jobs, Types, Lookalike, StoredRows, MaxEvents,
  Stored, Drafts, Patches, Suffix, MaxEdits,
  Busy, Lulls, TickSeconds, FirstWindow, DemandWindow, Sustain, Attention, Danger,
  MaxUptime, MaxLate, MaxFailures

VARIABLES
  stage, tries, holder, bare, merged, scratch, scratchOpen, record, watched, mirror, crossed,
  wall, broken, missed, alertState, lastPing, hasty, lost,
  monotonic, entry, rewriting, taskCache, coverageCache, poll, lastSeen,
  plan, began, ran, pinned, cursor, fires, misses, verdict,
  clock, keep, runs, kept, rows, step, todo, admitted, pin, pins, told, calm, safe,
  size, running, status, byOthers, pc, heard, found, offset, first, page,
  closedAt, changed, now, fetch, cache,
  file, route, writers, tasks, synced, spent,
  disk, wsl, meant, edits,
  uptime, lull, baseline, samples, ticking, undemanded, sampleError, raised

RecordFile == INSTANCE RunRecordFile
Alerts == INSTANCE CoverageAlerts
Cache == INSTANCE CoverageCache
Plan == INSTANCE FirePlan
History == INSTANCE RunHistory
Stream == INSTANCE RunStream
Gitlab == INSTANCE IssueCards
Registry == INSTANCE JobsRegistry
Load == INSTANCE SystemLoad
JobFile == INSTANCE JobRows

-----------------------------------------------------------------------------
(* The run record. *)

Stages == {"idle", "lock", "read", "open", "write", "swap", "raise", "unlock", "sync", "done",
           "failed", "dead"}
Texts == [whole : BOOLEAN, fields : SUBSET Writers]

\* Between taking the lock, or going on without it, and letting go of it.
Inside == {"read", "open", "write", "swap", "raise", "unlock"}

RecordTypes ==
  /\ stage \in [Writers -> Stages] /\ merged \in [Writers -> Texts]
  /\ scratch \in Texts /\ record \in Texts /\ mirror \in Texts
  /\ crossed \in BOOLEAN

\* Whoever is inside holds the lock or went on without it, and one at most holds it.
LockKept ==
  /\ \A w \in Writers : stage[w] \in Inside => w \in holder \cup bare
  /\ \A v, w \in holder : v = w

\* While everybody waits for the lock, what a writer is about to put in place
\* has all that is on record, and nobody else touches the scratch file.
Alone ==
  bare = {} =>
    /\ record.whole /\ RecordFile!Landed \subseteq record.fields
    /\ \A w \in Writers :
         /\ stage[w] \in {"open", "write", "swap"} =>
              merged[w] = RecordFile!Full({w} \cup record.fields)
         /\ stage[w] = "write" => scratch = RecordFile!Partial
         /\ stage[w] = "swap" => scratch = merged[w]

\* The index follows, or the one writer on its way to it has the record in hand.
RowDue ==
  (bare = {} /\ ~crossed) =>
    \/ RecordFile!Unsynced = {} /\ mirror = record
    \/ \E w \in Writers : RecordFile!Unsynced = {w} /\ merged[w] = record

RecordInv == RecordTypes /\ LockKept /\ Alone /\ RowDue

LEMMA RecordInit == RecordFile!Init => RecordInv
  <1> SUFFICES ASSUME RecordFile!Init PROVE RecordInv
    OBVIOUS
  <1>1. RecordTypes
    BY DEF RecordFile!Init, RecordTypes, Stages, Texts, RecordFile!Missing
  <1>2. \A w \in Writers : stage[w] = "idle"
    BY DEF RecordFile!Init
  <1>3. LockKept
    BY <1>2 DEF RecordFile!Init, LockKept, Inside
  <1>4. Alone
    BY <1>2 DEF RecordFile!Init, Alone, RecordFile!Landed, RecordFile!Missing
  <1>5. RowDue
    BY <1>2 DEF RecordFile!Init, RowDue, RecordFile!Unsynced
  <1> QED BY <1>1, <1>3, <1>4, <1>5 DEF RecordInv

\* A writer inside, nobody having gone on without the lock, is there alone.
LEMMA OneInside ==
  ASSUME RecordInv, bare = {}, NEW v \in Writers, NEW w \in Writers,
         stage[v] \in Inside, stage[w] \in Inside
  PROVE v = w
  BY DEF RecordInv, LockKept

LEMMA RecordTypesStep == ASSUME RecordInv, RecordFile!Next PROVE RecordTypes'
  <1>0. RecordTypes
    BY DEF RecordInv
  <1>1. CASE RecordFile!Watch
    BY <1>0, <1>1 DEF RecordFile!Watch, RecordTypes
  <1>2. CASE RecordFile!RebuildIndex
    BY <1>0, <1>2 DEF RecordFile!RebuildIndex, RecordTypes, Texts, RecordFile!Missing
  <1>3. ASSUME NEW w \in Writers, RecordFile!Begin(w) \/ RecordFile!TakeLock(w)
               \/ RecordFile!LockTimesOut(w) \/ RecordFile!Unlock(w)
        PROVE RecordTypes'
    <2>1. UNCHANGED <<merged, scratch, record, mirror, crossed>>
      BY <1>3 DEF RecordFile!Begin, RecordFile!TakeLock, RecordFile!LockTimesOut, RecordFile!Unlock
    <2>2. stage' \in [Writers -> Stages]
      BY <1>0, <1>3 DEF RecordFile!Begin, RecordFile!TakeLock, RecordFile!LockTimesOut,
         RecordFile!Unlock, RecordFile!Goes, RecordTypes, Stages
    <2> QED BY <1>0, <2>1, <2>2 DEF RecordTypes
  <1>4. ASSUME NEW w \in Writers, RecordFile!Read(w) PROVE RecordTypes'
    <2> DEFINE text == RecordFile!Full({w} \cup IF record.whole THEN record.fields ELSE {})
    <2>1. text \in Texts
      BY <1>0 DEF RecordTypes, Texts, RecordFile!Full
    <2>2. merged' = [merged EXCEPT ![w] = text] /\ stage' = [stage EXCEPT ![w] = "open"]
          /\ UNCHANGED <<scratch, record, mirror, crossed>>
      BY <1>4 DEF RecordFile!Read, RecordFile!Goes
    <2> HIDE DEF text
    <2> QED BY <1>0, <2>1, <2>2 DEF RecordTypes, Stages
  <1>5. ASSUME NEW w \in Writers, RecordFile!OpenScratch(w) \/ RecordFile!WriteScratch(w)
        PROVE RecordTypes'
    <2>1. scratch' \in Texts
      <3>1. merged[w] \in Texts /\ RecordFile!Partial \in Texts
        BY <1>0 DEF RecordTypes, Texts, RecordFile!Partial
      <3>2. scratch' \in {merged[w], RecordFile!Partial}
        BY <1>5 DEF RecordFile!OpenScratch, RecordFile!WriteScratch
      <3> QED BY <3>1, <3>2
    <2>2. stage' \in [Writers -> Stages]
      BY <1>0, <1>5 DEF RecordFile!OpenScratch, RecordFile!WriteScratch, RecordFile!Goes,
         RecordTypes, Stages
    <2> QED BY <1>0, <1>5, <2>1, <2>2
            DEF RecordFile!OpenScratch, RecordFile!WriteScratch, RecordTypes
  <1>6. ASSUME NEW w \in Writers, RecordFile!Swap(w) PROVE RecordTypes'
    <2>1. stage' \in [Writers -> Stages]
      BY <1>0, <1>6 DEF RecordFile!Swap, RecordFile!Goes, RecordTypes, Stages
    <2>2. scratch' \in Texts /\ record' \in Texts
      <3>1. scratch \in Texts /\ record \in Texts /\ RecordFile!Missing \in Texts
        BY <1>0 DEF RecordTypes, Texts, RecordFile!Missing
      <3>2. scratch' \in {scratch, RecordFile!Missing} /\ record' \in {scratch, record}
        BY <1>6 DEF RecordFile!Swap
      <3> QED BY <3>1, <3>2
    <2>3. crossed' = crossed \/ crossed' = (crossed \/ RecordFile!Unsynced # {})
      BY <1>6, Zenon DEF RecordFile!Swap
    <2>4. crossed' \in BOOLEAN
      BY <1>0, <2>3 DEF RecordTypes
    <2> QED BY <1>0, <1>6, <2>1, <2>2, <2>4 DEF RecordFile!Swap, RecordTypes
  <1>7. ASSUME NEW w \in Writers, RecordFile!SyncIndex(w) \/ RecordFile!Crash(w)
        PROVE RecordTypes'
    <2>1. stage' \in [Writers -> Stages]
      BY <1>0, <1>7 DEF RecordFile!SyncIndex, RecordFile!Crash, RecordFile!Goes, RecordTypes, Stages
    <2>2. mirror' \in Texts /\ crossed' \in BOOLEAN
      BY <1>0, <1>7 DEF RecordFile!SyncIndex, RecordFile!Crash, RecordTypes
    <2> QED BY <1>0, <1>7, <2>1, <2>2 DEF RecordFile!SyncIndex, RecordFile!Crash, RecordTypes
  <1> QED BY <1>1, <1>2, <1>3, <1>4, <1>5, <1>6, <1>7 DEF RecordFile!Next

\* Only TakeLock adds a holder, when there is none.
LEMMA LockKeptStep == ASSUME RecordInv, RecordFile!Next PROVE LockKept'
  <1>0. RecordTypes /\ LockKept
    BY DEF RecordInv
  <1>1. CASE RecordFile!Watch \/ RecordFile!RebuildIndex
    BY <1>0, <1>1 DEF RecordFile!Watch, RecordFile!RebuildIndex, LockKept
  <1>2. ASSUME NEW w \in Writers, RecordFile!TakeLock(w) PROVE LockKept'
    BY <1>0, <1>2 DEF RecordFile!TakeLock, RecordFile!Goes, LockKept, RecordTypes, Inside
  <1>3. ASSUME NEW w \in Writers, RecordFile!LockTimesOut(w) PROVE LockKept'
    BY <1>0, <1>3 DEF RecordFile!LockTimesOut, RecordFile!Goes, LockKept, RecordTypes, Inside
  <1>4. ASSUME NEW w \in Writers, RecordFile!Unlock(w) \/ RecordFile!Crash(w) PROVE LockKept'
    <2>1. /\ holder' = holder \ {w} /\ UNCHANGED bare
          /\ stage' \in {[stage EXCEPT ![w] = "sync"], [stage EXCEPT ![w] = "failed"],
                         [stage EXCEPT ![w] = "dead"]}
      BY <1>4 DEF RecordFile!Unlock, RecordFile!Crash, RecordFile!Goes
    <2> QED BY <1>0, <2>1 DEF LockKept, RecordTypes, Inside
  <1>5. ASSUME NEW w \in Writers,
               RecordFile!Begin(w) \/ RecordFile!Read(w) \/ RecordFile!OpenScratch(w)
               \/ RecordFile!WriteScratch(w) \/ RecordFile!Swap(w) \/ RecordFile!SyncIndex(w)
        PROVE LockKept'
    <2>1. UNCHANGED <<holder, bare>>
      BY <1>5 DEF RecordFile!Begin, RecordFile!Read, RecordFile!OpenScratch,
         RecordFile!WriteScratch, RecordFile!Swap, RecordFile!SyncIndex
    <2>2. PICK to \in Stages : stage' = [stage EXCEPT ![w] = to]
                               /\ (to \in Inside => stage[w] \in Inside)
      BY <1>5 DEF RecordFile!Begin, RecordFile!Read, RecordFile!OpenScratch,
         RecordFile!WriteScratch, RecordFile!Swap, RecordFile!SyncIndex, RecordFile!Goes,
         Stages, Inside
    <2> QED BY <1>0, <2>1, <2>2 DEF LockKept, RecordTypes
  <1> QED BY <1>1, <1>2, <1>3, <1>4, <1>5 DEF RecordFile!Next

\* A step of one writer that leaves the record and the scratch file alone.
LEMMA AloneAside ==
  ASSUME RecordInv, NEW w \in Writers, UNCHANGED <<record, scratch, merged>>, bare \subseteq bare',
         NEW to \in Stages, stage' = [stage EXCEPT ![w] = to],
         to \notin {"open", "write", "swap", "unlock"},
         to \in {"sync", "done"} => stage[w] \in {"unlock", "sync"}
  PROVE Alone'
  <1> SUFFICES ASSUME bare' = {}
               PROVE /\ record.whole /\ RecordFile!Landed' \subseteq record.fields
                     /\ \A v \in Writers :
                          /\ stage'[v] \in {"open", "write", "swap"} =>
                               merged[v] = RecordFile!Full({v} \cup record.fields)
                          /\ stage'[v] = "write" => scratch = RecordFile!Partial
                          /\ stage'[v] = "swap" => scratch = merged[v]
    BY DEF Alone, RecordFile!Full, RecordFile!Partial
  <1>1. RecordTypes /\ bare = {} /\ Alone
    BY DEF RecordInv
  <1>2. \A v \in Writers : stage'[v] = IF v = w THEN to ELSE stage[v]
    BY <1>1 DEF RecordTypes
  <1>3. RecordFile!Landed' \subseteq RecordFile!Landed
    BY <1>2 DEF RecordFile!Landed
  <1> QED BY <1>1, <1>2, <1>3 DEF Alone

LEMMA AloneStep == ASSUME RecordInv, RecordFile!Next PROVE Alone'
  <1>0. RecordTypes /\ LockKept /\ Alone
    BY DEF RecordInv
  <1>1. CASE RecordFile!Watch \/ RecordFile!RebuildIndex
    <2>1. UNCHANGED <<stage, bare, merged, scratch, record>>
      BY <1>1 DEF RecordFile!Watch, RecordFile!RebuildIndex
    <2> QED BY <1>0, <2>1 DEF Alone, RecordFile!Landed, RecordFile!Full, RecordFile!Partial
  <1>2. ASSUME NEW w \in Writers,
               RecordFile!Begin(w) \/ RecordFile!TakeLock(w) \/ RecordFile!LockTimesOut(w)
               \/ RecordFile!Unlock(w) \/ RecordFile!SyncIndex(w) \/ RecordFile!Crash(w)
        PROVE Alone'
    <2>1. UNCHANGED <<record, scratch, merged>> /\ bare \subseteq bare'
      BY <1>2 DEF RecordFile!Begin, RecordFile!TakeLock, RecordFile!LockTimesOut,
         RecordFile!Unlock, RecordFile!SyncIndex, RecordFile!Crash
    <2>2. PICK to \in Stages :
            /\ stage' = [stage EXCEPT ![w] = to]
            /\ to \notin {"open", "write", "swap", "unlock"}
            /\ to \in {"sync", "done"} => stage[w] \in {"unlock", "sync"}
      <3>1. stage = [stage EXCEPT ![w] = stage[w]] /\ stage[w] \in Stages
        BY <1>0 DEF RecordTypes
      <3> QED BY <1>2, <3>1 DEF RecordFile!Begin, RecordFile!TakeLock, RecordFile!LockTimesOut,
              RecordFile!Unlock, RecordFile!SyncIndex, RecordFile!Crash, RecordFile!Goes, Stages
    <2> QED BY <2>1, <2>2, AloneAside
  <1>3. ASSUME NEW w \in Writers,
               RecordFile!Read(w) \/ RecordFile!OpenScratch(w) \/ RecordFile!WriteScratch(w)
               \/ RecordFile!Swap(w)
        PROVE Alone'
    <2>1. CASE bare' # {}
      BY <2>1 DEF Alone
    <2>2. CASE bare' = {}
      <3>1. bare = {} /\ stage[w] \in Inside
        BY <1>3, <2>2 DEF RecordFile!Read, RecordFile!OpenScratch, RecordFile!WriteScratch,
           RecordFile!Swap, RecordFile!Goes, Inside
      <3>2. \A v \in Writers : stage[v] \in Inside => v = w
        BY <3>1, OneInside
      <3>3. PICK to \in {"open", "write", "swap", "unlock", "raise"} :
              stage' = [stage EXCEPT ![w] = to]
        BY <1>3 DEF RecordFile!Read, RecordFile!OpenScratch, RecordFile!WriteScratch,
           RecordFile!Swap, RecordFile!Goes
      <3>4. \A v \in Writers : stage'[v] = IF v = w THEN to ELSE stage[v]
        BY <1>0, <3>3 DEF RecordTypes
      <3>5. \A v \in Writers : v # w => stage'[v] \notin {"open", "write", "swap"}
        BY <3>2, <3>4 DEF Inside
      <3>6. /\ record.whole /\ RecordFile!Landed \subseteq record.fields
            /\ stage[w] \in {"open", "write", "swap"} =>
                 merged[w] = RecordFile!Full({w} \cup record.fields)
            /\ stage[w] = "write" => scratch = RecordFile!Partial
            /\ stage[w] = "swap" => scratch = merged[w]
        BY <1>0, <3>1 DEF Alone
      <3>7. CASE RecordFile!Swap(w) /\ to = "unlock"
        <4>1. scratch = merged[w] /\ merged[w] = RecordFile!Full({w} \cup record.fields)
          BY <3>6, <3>7 DEF RecordFile!Swap, RecordFile!Goes
        <4>2. stage'[w] = "unlock"
          BY <3>4, <3>7
        <4>3. record' = scratch
          BY <1>0, <3>7, <4>2 DEF RecordFile!Swap, RecordFile!Goes, RecordTypes
        <4>4. record'.whole /\ record'.fields = {w} \cup record.fields
          BY <4>1, <4>3 DEF RecordFile!Full
        <4>5. RecordFile!Landed' \subseteq RecordFile!Landed \cup {w}
          BY <3>4 DEF RecordFile!Landed
        <4>6. \A v \in Writers : stage'[v] \notin {"open", "write", "swap"}
          BY <3>5, <4>2
        <4> QED BY <3>6, <4>4, <4>5, <4>6 DEF Alone
      <3>8. CASE ~(RecordFile!Swap(w) /\ to = "unlock")
        <4>1. to # "unlock" /\ UNCHANGED record
          BY <1>0, <1>3, <3>3, <3>8 DEF RecordFile!Read, RecordFile!OpenScratch,
             RecordFile!WriteScratch, RecordFile!Swap, RecordFile!Goes, RecordTypes
        <4>2. RecordFile!Landed' \subseteq RecordFile!Landed
          BY <3>4, <4>1 DEF RecordFile!Landed
        <4>3. to \in {"open", "write", "swap"} =>
                merged'[w] = RecordFile!Full({w} \cup record.fields)
          BY <1>0, <1>3, <3>3, <3>4, <3>6 DEF RecordFile!Read, RecordFile!OpenScratch,
             RecordFile!WriteScratch, RecordFile!Swap, RecordFile!Goes, RecordTypes
        <4>4. to = "write" => scratch' = RecordFile!Partial
          BY <1>0, <1>3, <3>3, <3>4 DEF RecordFile!Read, RecordFile!OpenScratch,
             RecordFile!WriteScratch, RecordFile!Swap, RecordFile!Goes, RecordTypes
        <4>5. to = "swap" => scratch' = merged'[w]
          BY <1>0, <1>3, <3>3, <3>4, <3>6 DEF RecordFile!Read, RecordFile!OpenScratch,
             RecordFile!WriteScratch, RecordFile!Swap, RecordFile!Goes, RecordTypes
        <4>6. \A v \in Writers :
                /\ stage'[v] \in {"open", "write", "swap"} =>
                     merged'[v] = RecordFile!Full({v} \cup record.fields)
                /\ stage'[v] = "write" => scratch' = RecordFile!Partial
                /\ stage'[v] = "swap" => scratch' = merged'[v]
          BY <3>4, <3>5, <4>3, <4>4, <4>5
        <4> QED BY <3>6, <4>1, <4>2, <4>6 DEF Alone, RecordFile!Full, RecordFile!Partial
      <3> QED BY <3>7, <3>8
    <2> QED BY <2>1, <2>2
  <1> QED BY <1>1, <1>2, <1>3 DEF RecordFile!Next

LEMMA RowDueStep == ASSUME RecordInv, RecordFile!Next PROVE RowDue'
  <1> SUFFICES ASSUME bare' = {}, ~crossed'
               PROVE \/ RecordFile!Unsynced' = {} /\ mirror' = record'
                     \/ \E w \in Writers : RecordFile!Unsynced' = {w} /\ merged'[w] = record'
    BY DEF RowDue
  <1>0. RecordTypes /\ Alone /\ RowDue
    BY DEF RecordInv
  <1>1. CASE RecordFile!Watch
    BY <1>0, <1>1 DEF RecordFile!Watch, RowDue, RecordFile!Unsynced
  <1>2. CASE RecordFile!RebuildIndex
    <2>1. bare = {} /\ RecordFile!Unsynced = {} /\ UNCHANGED <<stage, record>>
      BY <1>2, Zenon DEF RecordFile!RebuildIndex
    <2>2. record.whole
      BY <1>0, <2>1 DEF Alone
    <2>3. mirror' = record /\ RecordFile!Unsynced' = {}
      BY <1>2, <2>1, <2>2 DEF RecordFile!RebuildIndex, RecordFile!Unsynced
    <2> QED BY <2>1, <2>3
  <1>3. ASSUME NEW w \in Writers,
               \/ RecordFile!Begin(w) \/ RecordFile!TakeLock(w) \/ RecordFile!LockTimesOut(w)
               \/ RecordFile!Read(w) \/ RecordFile!OpenScratch(w) \/ RecordFile!WriteScratch(w)
               \/ RecordFile!Unlock(w)
        PROVE \/ RecordFile!Unsynced' = {} /\ mirror' = record'
              \/ \E v \in Writers : RecordFile!Unsynced' = {v} /\ merged'[v] = record'
    <2>1. bare = {} /\ ~crossed /\ UNCHANGED <<record, mirror>>
      BY <1>3 DEF RecordFile!Begin, RecordFile!TakeLock, RecordFile!LockTimesOut, RecordFile!Read,
         RecordFile!OpenScratch, RecordFile!WriteScratch, RecordFile!Unlock
    <2>2. RecordFile!Unsynced' = RecordFile!Unsynced
      BY <1>0, <1>3 DEF RecordFile!Begin, RecordFile!TakeLock, RecordFile!LockTimesOut,
         RecordFile!Read, RecordFile!OpenScratch, RecordFile!WriteScratch, RecordFile!Unlock,
         RecordFile!Goes, RecordFile!Unsynced, RecordTypes
    <2>3. \A v \in RecordFile!Unsynced : merged'[v] = merged[v]
      BY <1>0, <1>3 DEF RecordFile!Begin, RecordFile!TakeLock, RecordFile!LockTimesOut,
         RecordFile!Read, RecordFile!OpenScratch, RecordFile!WriteScratch, RecordFile!Unlock,
         RecordFile!Goes, RecordFile!Unsynced, RecordTypes
    <2> QED BY <1>0, <2>1, <2>2, <2>3 DEF RowDue
  <1>4. ASSUME NEW w \in Writers, RecordFile!Swap(w)
        PROVE \/ RecordFile!Unsynced' = {} /\ mirror' = record'
              \/ \E v \in Writers : RecordFile!Unsynced' = {v} /\ merged'[v] = record'
    <2>1. bare = {} /\ ~crossed /\ stage[w] = "swap" /\ UNCHANGED <<merged, mirror>>
      BY <1>4, Zenon DEF RecordFile!Swap, RecordFile!Goes
    <2>2. CASE stage' = [stage EXCEPT ![w] = "raise"]
      <3>1. UNCHANGED record
        BY <1>0, <1>4, <2>2 DEF RecordFile!Swap, RecordFile!Goes, RecordTypes
      <3>2. RecordFile!Unsynced' = RecordFile!Unsynced
        BY <1>0, <2>1, <2>2 DEF RecordFile!Unsynced, RecordTypes
      <3> QED BY <1>0, <2>1, <3>1, <3>2 DEF RowDue
    <2>3. CASE stage' = [stage EXCEPT ![w] = "unlock"]
      <3>1. stage'[w] # "raise"
        BY <1>0, <2>3 DEF RecordTypes
      <3>2. record' = scratch /\ crossed' = (crossed \/ RecordFile!Unsynced # {})
        BY <1>0, <1>4, <3>1 DEF RecordFile!Swap, RecordFile!Goes, RecordTypes
      <3>3. RecordFile!Unsynced = {}
        BY <3>2
      <3>4. RecordFile!Unsynced' = {w}
        BY <1>0, <2>3, <3>3 DEF RecordFile!Unsynced, RecordTypes
      <3>5. merged[w] = scratch
        BY <1>0, <2>1 DEF Alone
      <3> QED BY <2>1, <3>2, <3>4, <3>5
    <2> QED BY <1>4, <2>2, <2>3 DEF RecordFile!Swap, RecordFile!Goes
  <1>5. ASSUME NEW w \in Writers, RecordFile!SyncIndex(w)
        PROVE \/ RecordFile!Unsynced' = {} /\ mirror' = record'
              \/ \E v \in Writers : RecordFile!Unsynced' = {v} /\ merged'[v] = record'
    <2>1. /\ bare = {} /\ ~crossed /\ stage[w] = "sync" /\ mirror' = merged[w]
          /\ stage' = [stage EXCEPT ![w] = "done"] /\ UNCHANGED record
      BY <1>5 DEF RecordFile!SyncIndex, RecordFile!Goes
    <2>2. w \in RecordFile!Unsynced
      BY <2>1 DEF RecordFile!Unsynced
    <2>3. RecordFile!Unsynced = {w} /\ merged[w] = record
      BY <1>0, <2>1, <2>2 DEF RowDue
    <2>4. RecordFile!Unsynced' = {}
      BY <1>0, <2>1, <2>3 DEF RecordFile!Unsynced, RecordTypes
    <2> QED BY <2>1, <2>3, <2>4
  <1>6. ASSUME NEW w \in Writers, RecordFile!Crash(w)
        PROVE \/ RecordFile!Unsynced' = {} /\ mirror' = record'
              \/ \E v \in Writers : RecordFile!Unsynced' = {v} /\ merged'[v] = record'
    <2>1. /\ bare = {} /\ ~crossed /\ w \notin RecordFile!Unsynced
          /\ stage' = [stage EXCEPT ![w] = "dead"] /\ UNCHANGED <<record, mirror, merged>>
      BY <1>6, Zenon DEF RecordFile!Crash
    <2>2. RecordFile!Unsynced' = RecordFile!Unsynced
      BY <1>0, <2>1 DEF RecordFile!Unsynced, RecordTypes
    <2> QED BY <1>0, <2>1, <2>2 DEF RowDue
  <1> QED BY <1>1, <1>2, <1>3, <1>4, <1>5, <1>6 DEF RecordFile!Next

LEMMA RecordStep == RecordInv /\ [RecordFile!Next]_(RecordFile!vars) => RecordInv'
  <1> SUFFICES ASSUME RecordInv, [RecordFile!Next]_(RecordFile!vars) PROVE RecordInv'
    OBVIOUS
  <1>1. CASE RecordFile!Next
    BY <1>1, RecordTypesStep, LockKeptStep, AloneStep, RowDueStep DEF RecordInv
  <1>2. CASE UNCHANGED RecordFile!vars
    BY <1>2 DEF RecordFile!vars, RecordInv, RecordTypes, LockKept, Alone, RowDue,
       RecordFile!Landed, RecordFile!Unsynced, RecordFile!Full, RecordFile!Partial
  <1> QED BY <1>1, <1>2

\* Any number of processes that merge their fields into one run record, crash
\* half-way or find it open: as long as none went on without the lock, the record
\* is whole and has every merge that did not raise; and the row of the index
\* follows it unless two of them met or one died on its way there
\* (write_run_json under _run_json_lock, sync_run after it).
THEOREM RecordSoundAlways == RecordFile!Spec => []RecordFile!RecordSound
  <1>1. RecordInv => RecordFile!RecordSound
    BY DEF RecordInv, Alone, RowDue, RecordFile!RecordSound, RecordFile!LockedMergesKept,
       RecordFile!MirrorFollows
  <1> QED BY <1>1, RecordInit, RecordStep, PTL DEF RecordFile!Spec

-----------------------------------------------------------------------------
(* The coverage alerts. *)

\* Every hasty alert has a lost write of its own to answer for, and so has a
\* state file that does not say what was last sent.
PingsPaid ==
  /\ hasty \in Nat /\ lost \in Nat
  /\ hasty <= lost
  /\ alertState # lastPing => hasty < lost

LEMMA WriteAlertStateStep ==
  ASSUME PingsPaid, NEW state, Alerts!WriteAlertState(state), lastPing' = state,
         hasty' \in {hasty, hasty + 1}, hasty' # hasty => alertState # lastPing
  PROVE PingsPaid'
  <1>1. CASE alertState' = state /\ UNCHANGED lost
    BY <1>1 DEF PingsPaid
  <1>2. CASE lost' = lost + 1 /\ UNCHANGED alertState
    BY <1>2 DEF PingsPaid
  <1> QED BY <1>1, <1>2 DEF Alerts!WriteAlertState

\* An alert that comes too soon finds a state file that is not up to date: one
\* that is would have called the problem standing.
LEMMA PingStep ==
  ASSUME PingsPaid, NEW result, ~Alerts!Standing(result), Alerts!Ping(result)
  PROVE PingsPaid'
  <1> DEFINE ping == [signature |-> Alerts!Signature(result), at |-> wall]
  <1>1. lastPing' = ping /\ Alerts!WriteAlertState(ping)
    BY DEF Alerts!Ping
  <1>2. hasty' = IF lastPing.signature = ping.signature /\ wall - lastPing.at < Repeat
                 THEN hasty + 1 ELSE hasty
    BY DEF Alerts!Ping
  <1>3. ping.signature = Alerts!Signature(result)
    OBVIOUS
  <1>4. hasty' # hasty => alertState # lastPing
    BY <1>2, <1>3 DEF Alerts!Standing
  <1>5. hasty' \in {hasty, hasty + 1}
    BY <1>2
  <1> HIDE DEF ping
  <1> QED BY <1>1, <1>4, <1>5, WriteAlertStateStep

LEMMA AlertsStep == PingsPaid /\ [Alerts!Next]_(Alerts!vars) => PingsPaid'
  <1> SUFFICES ASSUME PingsPaid, [Alerts!Next]_(Alerts!vars) PROVE PingsPaid'
    OBVIOUS
  <1>1. CASE Alerts!Tick \/ Alerts!Change \/ UNCHANGED Alerts!vars
    BY <1>1 DEF Alerts!Tick, Alerts!Change, Alerts!vars, PingsPaid
  <1>2. ASSUME NEW result, Alerts!Check(result) PROVE PingsPaid'
    <2>1. CASE UNCHANGED <<alertState, lastPing, hasty, lost>>
      BY <2>1 DEF PingsPaid
    <2>2. CASE ~Alerts!Standing(result) /\ Alerts!Ping(result)
      BY <2>2, PingStep
    <2>3. CASE lastPing' = Alerts!Quiet /\ Alerts!WriteAlertState(Alerts!Quiet) /\ UNCHANGED hasty
      BY <2>3, WriteAlertStateStep
    <2> QED BY <1>2, <2>1, <2>2, <2>3 DEF Alerts!Check
  <1> QED BY <1>1, <1>2 DEF Alerts!Next

\* A standing problem is reported once within Repeat, whatever comes and goes,
\* but for one report more for each write of the alert state that failed.
THEOREM PingsSpacedAlways == Alerts!Spec => []Alerts!PingsSpaced
  <1>1. Alerts!Init => PingsPaid
    BY DEF Alerts!Init, PingsPaid
  <1>2. PingsPaid => Alerts!PingsSpaced
    BY DEF PingsPaid, Alerts!PingsSpaced
  <1> QED BY <1>1, <1>2, AlertsStep, PTL DEF Alerts!Spec

-----------------------------------------------------------------------------
(* The coverage caches. *)

EntryStates == {"ok", "missing"}
Records == [at : Int, task : EntryStates \cup {"unknown"}]

CacheTypes ==
  /\ monotonic \in Nat /\ entry \in EntryStates
  /\ lastSeen \in [EntryStates -> Int] /\ lastSeen[entry] = monotonic
  /\ \A s \in EntryStates : lastSeen[s] <= monotonic
  /\ taskCache \in Records /\ coverageCache \in Records
  /\ poll \in [Pollers -> Records]

\* What was known when a record was made: the state it tells was seen at most
\* age before.
Knew(r, age) == r.task \in EntryStates => r.at - lastSeen[r.task] <= age

CacheInv ==
  /\ CacheTypes
  /\ Knew(taskCache, 0) /\ Knew(coverageCache, TaskTtl)
  /\ \A p \in Pollers : Knew(poll[p], TaskTtl)

LEMMA CacheInit ==
  ASSUME TaskTtl \in Nat, Cache!Init PROVE CacheInv
  <1>1. /\ monotonic = 0 /\ entry = "ok" /\ lastSeen = [s \in EntryStates |-> 0]
        /\ taskCache = Cache!Nothing /\ coverageCache = Cache!Nothing
        /\ poll = [p \in Pollers |-> Cache!Nothing]
    BY DEF Cache!Init, Cache!EntryStates, EntryStates
  <1>2. Cache!Nothing \in Records /\ Cache!Nothing.task = "unknown"
    BY DEF Cache!Nothing, Records
  <1>3. CacheTypes
    BY <1>1, <1>2 DEF CacheTypes, EntryStates
  <1> QED BY <1>1, <1>2, <1>3 DEF CacheInv, Knew, EntryStates

\* A record stays as well informed as it was while nothing is unseen.
LEMMA KnewStays ==
  ASSUME NEW r \in Records, NEW age \in Int, Knew(r, age), lastSeen \in [EntryStates -> Int],
         lastSeen' \in [EntryStates -> Int],
         \A s \in EntryStates : lastSeen[s] <= lastSeen'[s]
  PROVE r.task \in EntryStates => r.at - lastSeen'[r.task] <= age
  <1>1. r.at \in Int
    BY DEF Records
  <1> QED BY <1>1 DEF Knew

\* A query tells what was seen within the lifetime of the cache it comes from.
LEMMA QueriedKnows ==
  ASSUME TaskTtl \in Nat, CacheInv, NEW r \in Cache!Queried
  PROVE /\ r \in Records /\ Knew(r, 0)
        /\ r.task \in EntryStates => monotonic - lastSeen[r.task] <= TaskTtl
  <1>1. CacheTypes /\ Knew(taskCache, 0)
    BY DEF CacheInv
  <1>2. CASE Cache!Fresh(taskCache, TaskTtl)
    <2>1. r = taskCache /\ monotonic - taskCache.at < TaskTtl
      BY <1>2 DEF Cache!Queried, Cache!Fresh
    <2>2. taskCache.at \in Int /\ monotonic \in Int
      BY <1>1 DEF CacheTypes, Records
    <2>3. r.task \in EntryStates => lastSeen[r.task] \in Int
      BY <1>1 DEF CacheTypes
    <2> QED BY <1>1, <2>1, <2>2, <2>3 DEF CacheTypes, Knew
  <1>3. CASE ~Cache!Fresh(taskCache, TaskTtl)
    <2>1. PICK t \in {entry, "unknown"} : r = [at |-> monotonic, task |-> t]
      BY <1>3 DEF Cache!Queried
    <2>2. r.at = monotonic /\ r.task = t /\ r \in Records
      BY <1>1, <2>1 DEF CacheTypes, Records
    <2>3. r.task \in EntryStates => lastSeen[r.task] = monotonic
      BY <1>1, <2>1, <2>2 DEF CacheTypes, EntryStates
    <2> QED BY <1>1, <2>2, <2>3 DEF CacheTypes, Knew
  <1> QED BY <1>2, <1>3

\* Steps that only see the entry, at the old time or a new one.
LEMMA SeenStep ==
  ASSUME TaskTtl \in Nat, CacheInv, UNCHANGED <<taskCache, coverageCache, poll>>,
         monotonic' \in Nat, monotonic <= monotonic', NEW state \in EntryStates, entry' = state,
         lastSeen' = [lastSeen EXCEPT ![state] = monotonic']
  PROVE CacheInv'
  <1>1. CacheTypes
    BY DEF CacheInv
  <1>2. \A s \in EntryStates : lastSeen'[s] = IF s = state THEN monotonic' ELSE lastSeen[s]
    BY <1>1 DEF CacheTypes
  <1>3. /\ lastSeen' \in [EntryStates -> Int]
        /\ \A s \in EntryStates : lastSeen[s] <= lastSeen'[s] /\ lastSeen'[s] <= monotonic'
    BY <1>1, <1>2 DEF CacheTypes
  <1>4. CacheTypes'
    BY <1>1, <1>2, <1>3 DEF CacheTypes
  <1>5. ASSUME NEW r \in Records, NEW age \in Int, Knew(r, age)
        PROVE r.task \in EntryStates => r.at - lastSeen'[r.task] <= age
    BY <1>1, <1>3, <1>5, KnewStays DEF CacheTypes
  <1>6. Knew(taskCache, 0)' /\ Knew(coverageCache, TaskTtl)'
    BY <1>1, <1>5 DEF CacheInv, CacheTypes, Knew
  <1>7. ASSUME NEW p \in Pollers PROVE Knew(poll[p], TaskTtl)'
    <2>1. poll[p] \in Records /\ Knew(poll[p], TaskTtl) /\ TaskTtl \in Int
      BY <1>1 DEF CacheInv, CacheTypes
    <2>2. poll[p].task \in EntryStates => poll[p].at - lastSeen'[poll[p].task] <= TaskTtl
      BY <1>5, <2>1
    <2> QED BY <2>2 DEF Knew
  <1> QED BY <1>4, <1>6, <1>7 DEF CacheInv

\* Steps that only move records between the caches and the polls.
LEMMA KeptStep ==
  ASSUME CacheInv, UNCHANGED <<monotonic, entry, lastSeen>>,
         taskCache' \in Records, coverageCache' \in Records, poll' \in [Pollers -> Records],
         Knew(taskCache', 0), Knew(coverageCache', TaskTtl),
         \A p \in Pollers : Knew(poll'[p], TaskTtl)
  PROVE CacheInv'
  BY DEF CacheInv, CacheTypes, Knew

LEMMA CacheStep ==
  ASSUME TaskTtl \in Nat, CacheInv, [Cache!Next]_(Cache!vars) PROVE CacheInv'
  <1>0. CacheTypes
    BY DEF CacheInv
  <1>1. Cache!Nothing \in Records /\ \A age \in Int : Knew(Cache!Nothing, age)
    BY DEF Cache!Nothing, Records, Knew, EntryStates
  <1>2. CASE Cache!Tick
    <2>1. PICK state \in EntryStates : state = entry
      BY <1>0 DEF CacheTypes
    <2>2. /\ monotonic' = monotonic + 1 /\ entry' = state
          /\ lastSeen' = [lastSeen EXCEPT ![state] = monotonic']
          /\ UNCHANGED <<taskCache, coverageCache, poll>>
      BY <1>2, <2>1 DEF Cache!Tick
    <2>3. monotonic' \in Nat /\ monotonic <= monotonic'
      BY <1>0, <2>2 DEF CacheTypes
    <2> QED BY <2>2, <2>3, SeenStep
  <1>3. CASE Cache!Vanish \/ Cache!Rewrite
    <2>1. PICK state \in EntryStates : Cache!Becomes(state)
      BY <1>3 DEF Cache!Vanish, Cache!Rewrite, EntryStates
    <2>2. UNCHANGED <<monotonic, taskCache, coverageCache, poll>>
      BY <1>3 DEF Cache!Vanish, Cache!Rewrite
    <2>3. entry' = state /\ lastSeen' = [lastSeen EXCEPT ![state] = monotonic']
      BY <2>1, <2>2 DEF Cache!Becomes
    <2> QED BY <1>0, <2>2, <2>3, SeenStep DEF CacheTypes
  <1>4. CASE Cache!Invalidate
    <2>1. /\ taskCache' = Cache!Nothing /\ coverageCache' = Cache!Nothing
          /\ UNCHANGED <<monotonic, entry, poll, lastSeen>>
      BY <1>4 DEF Cache!Invalidate
    <2> QED BY <1>0, <1>1, <2>1, KeptStep DEF CacheInv, CacheTypes
  <1>5. CASE Cache!Check
    <2>1. /\ taskCache' \in Cache!Queried /\ coverageCache' = Cache!Nothing
          /\ UNCHANGED <<monotonic, entry, poll, lastSeen>>
      BY <1>5 DEF Cache!Check
    <2>2. taskCache' \in Records /\ Knew(taskCache', 0)
      BY <2>1, QueriedKnows
    <2> QED BY <1>0, <1>1, <2>1, <2>2, KeptStep DEF CacheInv, CacheTypes
  <1>6. ASSUME NEW p \in Pollers, Cache!PollScans(p) PROVE CacheInv'
    <2>1. PICK queried \in Cache!Queried :
            /\ taskCache' = queried
            /\ poll' = [poll EXCEPT ![p] = [at |-> monotonic, task |-> queried.task]]
      BY <1>6 DEF Cache!PollScans
    <2>2. UNCHANGED <<monotonic, entry, rewriting, coverageCache, lastSeen>>
      BY <1>6 DEF Cache!PollScans
    <2>3. /\ queried \in Records /\ Knew(queried, 0)
          /\ queried.task \in EntryStates => monotonic - lastSeen[queried.task] <= TaskTtl
      BY QueriedKnows
    <2> DEFINE scan == [at |-> monotonic, task |-> queried.task]
    <2>4. scan \in Records /\ Knew(scan, TaskTtl)
      BY <1>0, <2>3 DEF CacheTypes, Records, Knew
    <2> HIDE DEF scan
    <2>5. poll' = [poll EXCEPT ![p] = scan]
      BY <2>1 DEF scan
    <2>6. poll' \in [Pollers -> Records] /\ \A q \in Pollers : Knew(poll'[q], TaskTtl)
      <3>1. \A q \in Pollers : poll'[q] = IF q = p THEN scan ELSE poll[q]
        BY <1>0, <2>5 DEF CacheTypes
      <3>2. poll' \in [Pollers -> Records]
        BY <1>0, <2>4, <2>5 DEF CacheTypes
      <3>3. ASSUME NEW q \in Pollers PROVE Knew(poll'[q], TaskTtl)
        <4>1. CASE q = p
          BY <2>4, <3>1, <4>1
        <4>2. CASE q # p
          BY <3>1, <4>2 DEF CacheInv
        <4> QED BY <4>1, <4>2
      <3> QED BY <3>2, <3>3
    <2> QED BY <1>0, <2>1, <2>2, <2>3, <2>6, KeptStep DEF CacheInv, CacheTypes
  <1>7. ASSUME NEW p \in Pollers, Cache!PollStores(p) PROVE CacheInv'
    <2>1. /\ coverageCache' = poll[p] /\ poll' = [poll EXCEPT ![p] = Cache!Nothing]
          /\ UNCHANGED <<monotonic, entry, taskCache, lastSeen>>
      BY <1>7 DEF Cache!PollStores
    <2>2. poll' \in [Pollers -> Records] /\ \A q \in Pollers : Knew(poll'[q], TaskTtl)
      <3>1. \A q \in Pollers : poll'[q] = IF q = p THEN Cache!Nothing ELSE poll[q]
        BY <1>0, <2>1 DEF CacheTypes
      <3>2. poll' \in [Pollers -> Records]
        BY <1>0, <1>1, <2>1 DEF CacheTypes
      <3>3. ASSUME NEW q \in Pollers PROVE Knew(poll'[q], TaskTtl)
        <4>1. CASE q = p
          BY <1>1, <3>1, <4>1
        <4>2. CASE q # p
          BY <3>1, <4>2 DEF CacheInv
        <4> QED BY <4>1, <4>2
      <3> QED BY <3>2, <3>3
    <2> QED BY <1>0, <2>1, <2>2, KeptStep DEF CacheInv, CacheTypes
  <1>8. CASE UNCHANGED Cache!vars
    <2>1. UNCHANGED <<monotonic, entry, lastSeen, taskCache, coverageCache, poll>>
      BY <1>8 DEF Cache!vars
    <2> QED BY <1>0, <2>1, KeptStep DEF CacheInv, CacheTypes
  <1> QED BY <1>2, <1>3, <1>4, <1>5, <1>6, <1>7, <1>8 DEF Cache!Next

\* A coverage verdict served from the cache was so no longer ago than the two
\* caches together may keep it, for any lifetimes, any number of polls and
\* however long each of them scans (coverage_map takes the time before it scans).
THEOREM ServedRecentAlways ==
  ASSUME TaskTtl \in Nat, CoverageTtl \in Nat
  PROVE  Cache!Spec => []Cache!ServedRecent
  <1>1. Cache!Init => CacheInv
    BY CacheInit
  <1>2. CacheInv /\ [Cache!Next]_(Cache!vars) => CacheInv'
    BY CacheStep
  <1>3. CacheInv => Cache!ServedRecent
    <2> SUFFICES ASSUME CacheInv, Cache!Fresh(coverageCache, CoverageTtl),
                        coverageCache.task \in EntryStates
                 PROVE monotonic - lastSeen[coverageCache.task] < TaskTtl + CoverageTtl
      BY DEF Cache!ServedRecent, Cache!EntryStates, EntryStates
    <2>1. coverageCache.at - lastSeen[coverageCache.task] <= TaskTtl
      BY DEF CacheInv, Knew
    <2>2. monotonic - coverageCache.at < CoverageTtl
      BY DEF Cache!Fresh
    <2>3. monotonic \in Int /\ coverageCache.at \in Int /\ lastSeen[coverageCache.task] \in Int
      BY DEF CacheInv, CacheTypes, Records
    <2> QED BY <2>1, <2>2, <2>3
  <1> QED BY <1>1, <1>2, <1>3, PTL DEF Cache!Spec

-----------------------------------------------------------------------------
(* Least and greatest elements, for the proofs below. *)

LEMMA LeastOf ==
  ASSUME NEW S, S \subseteq Nat, S # {}
  PROVE  \E x \in S : \A y \in S : x <= y
  <1>1. PICK x \in S : \A y \in S : ~(<<y, x>> \in OpToRel(<, Nat))
    BY NatLessThanWellFounded, WFMin
  <1>2. ASSUME NEW y \in S PROVE x <= y
    <2>1. ~(y < x)
      BY <1>1 DEF OpToRel
    <2> QED BY <2>1
  <1> QED BY <1>2

LEMMA GreatestOf ==
  ASSUME NEW n \in Nat, NEW S, S \subseteq 0 .. n, S # {}
  PROVE  \E x \in S : \A y \in S : x >= y
  <1> DEFINE T == {k \in Nat : \A y \in S : y <= k}
  <1>1. n \in T
    OBVIOUS
  <1>2. PICK k \in T : \A j \in T : k <= j
    BY <1>1, LeastOf
  <1>3. k \in S
    <2> SUFFICES ASSUME k \notin S PROVE FALSE
      OBVIOUS
    <2>1. k \in Nat /\ \A y \in S : y <= k /\ y # k /\ y \in Nat
      OBVIOUS
    <2>2. \A y \in S : y <= k - 1
      BY <2>1
    <2>3. k - 1 \in Nat
      <3>1. PICK y \in S : TRUE
        OBVIOUS
      <3>2. y \in Nat /\ k \in Nat /\ y <= k /\ y # k
        BY <2>1, <3>1
      <3> QED BY ONLY <3>2
    <2>4. k - 1 \in T
      BY <2>2, <2>3
    <2> QED BY <1>2, <2>1, <2>4
  <1> QED BY <1>2, <1>3

-----------------------------------------------------------------------------
(* The walk along the fires, and the missed ones. *)

\* The units of time and the bounds, as the code has them.
PlanAssumption ==
  /\ Day \in Nat \ {0} /\ Week \in Nat \ {0} /\ Today \in Nat /\ WindowLength \in Nat
  /\ Grace \in Nat /\ Early \in Nat /\ MaxRuns \in Nat \ {0} /\ Cap \in Nat

\* The newest n of a finite history are n of them, unless there are fewer.
LEMMA NewestEnough ==
  ASSUME PlanAssumption, NEW n \in Nat, NEW S, S \subseteq 0 .. Today, S # Plan!Newest(n, S)
  PROVE  Plan!Cardinality(Plan!Newest(n, S)) >= n
  <1>0. \A T : Plan!Cardinality(T) = Cardinality(T)
    BY Zenon DEF Plan!Cardinality, Cardinality, Plan!IsFiniteSet, IsFiniteSet
  <1> DEFINE Old == S \ Plan!Newest(n, S)
  <1>1. Old # {} /\ Old \subseteq 0 .. Today /\ Today \in Nat
    BY DEF Plan!Newest, PlanAssumption
  <1>2. PICK m \in Old : \A s \in Old : m >= s
    BY <1>1, GreatestOf
  <1> DEFINE After == {s \in S : s > m}
  <1>3. IsFiniteSet(0 .. Today) /\ After \subseteq 0 .. Today /\ Plan!Newest(n, S) \subseteq 0 .. Today
    <2>1. IsFiniteSet(0 .. Today)
      BY <1>1, FS_Interval
    <2>2. Plan!Newest(n, S) \subseteq S
      BY DEF Plan!Newest
    <2> QED BY <2>1, <2>2
  <1>4. IsFiniteSet(After) /\ IsFiniteSet(Plan!Newest(n, S))
    BY <1>3, FS_Subset
  <1>5. After \subseteq Plan!Newest(n, S)
    <2> SUFFICES ASSUME NEW s \in S, s > m PROVE s \in Plan!Newest(n, S)
      OBVIOUS
    <2>1. s \in Int /\ m \in Int /\ ~(m >= s)
      BY <1>1, <1>2
    <2>2. s \notin Old
      BY <1>2, <2>1
    <2> QED BY <2>2
  <1>6. Cardinality(After) >= n
    <2>1. m \in S /\ ~(Plan!Cardinality(After) < n)
      BY <1>2 DEF Plan!Newest
    <2>2. Cardinality(After) \in Nat
      BY <1>4, FS_CardinalityType
    <2> QED BY <1>0, <2>1, <2>2
  <1>7. Cardinality(After) <= Cardinality(Plan!Newest(n, S))
    BY <1>4, <1>5, FS_Subset
  <1>8. Cardinality(After) \in Nat /\ Cardinality(Plan!Newest(n, S)) \in Nat
    BY <1>4, FS_CardinalityType
  <1> HIDE DEF After
  <1> QED BY <1>0, <1>6, <1>7, <1>8

\* What is not among the newest is older than each of them.
LEMMA NewestNewer ==
  ASSUME PlanAssumption, NEW n \in Nat, NEW S, S \subseteq 0 .. Today,
         NEW s \in S \ Plan!Newest(n, S), NEW t \in Plan!Newest(n, S)
  PROVE  s < t
  <1>0. \A T : Plan!Cardinality(T) = Cardinality(T)
    BY Zenon DEF Plan!Cardinality, Cardinality, Plan!IsFiniteSet, IsFiniteSet
  <1> DEFINE After(x) == {y \in S : y > x}
  <1> SUFFICES ASSUME s >= t PROVE FALSE
    BY DEF Plan!Newest
  <1>1. s \in Int /\ t \in Int /\ t \in S /\ \A y \in S : y \in Int
    BY DEF Plan!Newest
  <1>2. After(s) \subseteq After(t)
    <2> SUFFICES ASSUME NEW y \in S, y > s PROVE y > t
      OBVIOUS
    <2> QED BY <1>1
  <1>3. IsFiniteSet(0 .. Today) /\ After(t) \subseteq 0 .. Today /\ After(s) \subseteq 0 .. Today
    <2>1. 0 \in Int /\ Today \in Int
      BY DEF PlanAssumption
    <2> QED BY <2>1, FS_Interval
  <1>4. IsFiniteSet(After(t)) /\ IsFiniteSet(After(s))
    BY <1>3, FS_Subset
  <1>5. Cardinality(After(s)) <= Cardinality(After(t)) /\ Cardinality(After(s)) \in Nat
        /\ Cardinality(After(t)) \in Nat
    BY <1>2, <1>4, FS_Subset, FS_CardinalityType
  <1>6. ~(Plan!Cardinality(After(s)) < n) /\ Plan!Cardinality(After(t)) < n
    BY DEF Plan!Newest
  <1> HIDE DEF After
  <1> QED BY <1>0, <1>5, <1>6

\* Division by hand: the provers do not find these of themselves.
LEMMA Times1 ==
  ASSUME NEW d \in Nat, NEW x \in Int, NEW y \in Int, x <= y
  PROVE  d * x <= d * y /\ d * x \in Int /\ d * y \in Int
  <1>1. PICK n \in Nat : y = x + n
    <2>1. y - x \in Nat /\ y = x + (y - x)
      OBVIOUS
    <2> QED BY <2>1
  <1>2. d * n \in Nat /\ d * x \in Int
    OBVIOUS
  <1>3. d * (x + n) = d * x + d * n
    OBVIOUS
  <1> QED BY <1>1, <1>2, <1>3

LEMMA TimesNext ==
  ASSUME NEW d \in Nat, NEW x \in Int, NEW y \in Int, x < y
  PROVE  d * x + d <= d * y /\ d * x \in Int /\ d * y \in Int
  <1>1. d * (x + 1) <= d * y /\ d * y \in Int
    <2>1. x + 1 \in Int /\ x + 1 <= y
      OBVIOUS
    <2> QED BY <2>1, Times1
  <1>2. d * (x + 1) = d * x + d /\ d * x \in Int
    OBVIOUS
  <1> QED BY <1>1, <1>2

LEMMA Quotient ==
  ASSUME NEW d \in Nat \ {0}, NEW a \in Int
  PROVE  a \div d \in Int /\ a % d \in 0 .. d - 1 /\ a = d * (a \div d) + (a % d)
  OBVIOUS

LEMMA QuotientIs ==
  ASSUME NEW d \in Nat \ {0}, NEW q \in Int, NEW r \in 0 .. d - 1
  PROVE  (d * q + r) \div d = q /\ (d * q + r) % d = r
  <1> DEFINE a == d * q + r
             p == a \div d
             s == a % d
  <1>1. a \in Int
    OBVIOUS
  <1>2. p \in Int /\ s \in 0 .. d - 1 /\ a = d * p + s
    <2> HIDE DEF a
    <2> QED BY <1>1, Quotient
  <1>3. a = d * q + r /\ d * q \in Int /\ d * p \in Int
    BY <1>2
  <1> HIDE DEF a, p, s
  <1>4. ~(p < q)
    <2> SUFFICES ASSUME p < q PROVE FALSE
      OBVIOUS
    <2>1. d * p + d <= d * q
      BY <1>2, TimesNext
    <2> QED BY <1>2, <1>3, <2>1
  <1>5. ~(q < p)
    <2> SUFFICES ASSUME q < p PROVE FALSE
      OBVIOUS
    <2>1. d * q + d <= d * p
      BY <1>2, TimesNext
    <2> QED BY <1>2, <1>3, <2>1
  <1>6. p = q /\ s = r
    <2>1. p = q
      BY <1>2, <1>4, <1>5
    <2>2. d * p = d * q
      BY <2>1
    <2> QED BY <1>2, <1>3, <2>1, <2>2
  <1> QED BY <1>6 DEF a, p, s

\* Two different numbers with the same remainder are a whole divisor apart.
LEMMA SameRest ==
  ASSUME NEW d \in Nat \ {0}, NEW a \in Int, NEW b \in Int, a % d = b % d, a < b
  PROVE  a + d <= b
  <1>1. PICK p \in Int, q \in Int, r \in 0 .. d - 1 : a = d * p + r /\ b = d * q + r
    <2>1. /\ a \div d \in Int /\ a % d \in 0 .. d - 1 /\ a = d * (a \div d) + (a % d)
          /\ b \div d \in Int /\ b = d * (b \div d) + (b % d)
      BY Quotient
    <2> QED BY <2>1
  <1>2. d * p \in Int /\ d * q \in Int
    OBVIOUS
  <1>3. ~(q <= p)
    <2> SUFFICES ASSUME q <= p PROVE FALSE
      OBVIOUS
    <2>1. d * q <= d * p
      BY Times1
    <2> QED BY <1>1, <1>2, <2>1
  <1>4. d * p + d <= d * q
    BY <1>3, TimesNext
  <1> QED BY <1>1, <1>2, <1>4

\* How many days it is from day k to the next one of a given day of the week.
DaysAhead(day, k, w) == (day - (k % w)) % w

\* It lands on that day of the week, and on the first such day from k on.
LEMMA AheadIs ==
  ASSUME NEW w \in Nat \ {0}, NEW k \in Int, NEW day \in 0 .. w - 1
  PROVE  LET ahead == DaysAhead(day, k, w) IN
         /\ ahead \in 0 .. w - 1 /\ (k + ahead) % w = day /\ (k + ahead + w) % w = day
         /\ \A q \in Int : q % w = day /\ q >= k => q >= k + ahead
  <1> DEFINE ahead == DaysAhead(day, k, w)
  <1> DEFINE r == k % w
             a == k \div w
  <1>1. a \in Int /\ r \in 0 .. w - 1 /\ k = w * a + r
    BY Quotient
  <1>2. (ahead = day - r /\ day >= r) \/ (ahead = day - r + w /\ day < r)
    <2>0. ahead = (day - r) % w
      BY DEF DaysAhead
    <2> HIDE DEF a, r, ahead
    <2>1. CASE day >= r
      <3>1. PICK s \in 0 .. w - 1 : s = day - r
        BY <1>1, <2>1
      <3>2. (w * 0 + s) % w = s
        BY QuotientIs
      <3>3. w * 0 + s = day - r
        BY <3>1
      <3> QED BY <2>0, <2>1, <3>1, <3>2, <3>3
    <2>2. CASE day < r
      <3>1. PICK s \in 0 .. w - 1 : s = day - r + w
        BY <1>1, <2>2
      <3>2. (w * (-1) + s) % w = s
        BY QuotientIs
      <3>3. w * (-1) + s = day - r
        BY <1>1, <3>1
      <3> QED BY <2>0, <2>2, <3>1, <3>2, <3>3
    <2> QED BY <1>1, <2>1, <2>2
  <1> HIDE DEF a, r, ahead
  <1>a. PICK x \in Int : x = w * a /\ k = x + r
    <2>1. w * a \in Int
      BY <1>1
    <2> QED BY <1>1, <2>1
  <1>3. ahead \in 0 .. w - 1
    BY <1>1, <1>2
  <1>4. PICK e \in Int : k + ahead = w * e + day
    <2>1. CASE day >= r
      <3>1. ahead = day - r
        BY <1>1, <1>2, <2>1
      <3>2. k + ahead = x + day
        BY <1>1, <1>a, <3>1
      <3> QED BY <1>1, <1>a, <3>2
    <2>2. CASE day < r
      <3>1. w * (a + 1) = w * a + w /\ a + 1 \in Int
        BY <1>1
      <3>2. k + ahead = w * (a + 1) + day
        BY <1>1, <1>2, <1>a, <2>2, <3>1
      <3> QED BY <3>1, <3>2
    <2> QED BY <1>1, <2>1, <2>2
  <1>5. (k + ahead) % w = day
    BY <1>4, QuotientIs
  <1>6. (k + ahead + w) % w = day
    <2>1. PICK g \in Int : g = e + 1
      BY <1>4
    <2>2. k + ahead + w = w * g + day
      BY <1>3, <1>4, <2>1
    <2>3. (w * g + day) % w = day
      BY QuotientIs
    <2> QED BY <2>2, <2>3
  <1>7. ASSUME NEW q \in Int, q % w = day, q >= k PROVE q >= k + ahead
    <2>1. PICK f \in Int : f = k + ahead
      BY <1>3
    <2>2. ~(q < f)
      <3> SUFFICES ASSUME q < f PROVE FALSE
        OBVIOUS
      <3>1. q + w <= f
        BY <1>5, <1>7, <2>1, SameRest
      <3> QED BY <1>3, <1>7, <2>1, <3>1
    <2> QED BY <2>1, <2>2
  <1> QED BY <1>3, <1>5, <1>6, <1>7 DEF ahead

\* From a time of day: the next slot of that time.
LEMMA DailyFire ==
  ASSUME PlanAssumption, NEW time \in Nat, NEW m \in Plan!Slots
  PROVE  LET c == Plan!Roll(Plan!DayStart(time) + m, time, Day) IN
         /\ c \in Nat /\ c > time /\ c % Day = m
         /\ \A t \in Nat : t > time /\ t % Day = m => c <= t
  <1>0. Day \in Nat \ {0} /\ m \in 0 .. Day - 1
    BY DEF PlanAssumption, Plan!Slots
  <1>1. PICK k \in Int, j \in 0 .. Day - 1 : time = Day * k + j /\ time \div Day = k
    <2>1. time \div Day \in Int /\ time % Day \in 0 .. Day - 1
          /\ time = Day * (time \div Day) + (time % Day)
      BY <1>0, Quotient
    <2> QED BY <2>1
  <1>2. PICK base \in Int : base = Day * k
    BY <1>0
  <1>3. Plan!DayStart(time) = base
    BY <1>0, <1>1, <1>2 DEF Plan!DayStart
  <1>4. PICK c : c = Plan!Roll(base + m, time, Day)
    OBVIOUS
  <1>5. (c = base + m /\ base + m > time) \/ (c = base + m + Day /\ base + m <= time)
    BY <1>0, <1>2, <1>4 DEF Plan!Roll
  <1>6. c \in Nat /\ c > time
    BY <1>0, <1>1, <1>2, <1>5
  <1>7. c % Day = m
    <2>1. (base + m) % Day = m
      BY <1>0, <1>2, QuotientIs
    <2>2. (base + m + Day) % Day = m
      <3>1. PICK g \in Int : g = k + 1
        OBVIOUS
      <3>2. Day * g + m = base + m + Day
        BY <1>0, <1>2, <3>1
      <3> QED BY <1>0, <3>2, QuotientIs
    <2> QED BY <1>5, <2>1, <2>2
  <1>8. ASSUME NEW t \in Nat, t > time, t % Day = m PROVE c <= t
    <2> SUFFICES ASSUME t < c PROVE FALSE
      BY <1>6
    <2>1. t + Day <= c
      <3>1. t \in Int /\ c \in Int /\ t % Day = c % Day /\ t < c
        BY <1>6, <1>7, <1>8
      <3> QED BY <1>0, <3>1, SameRest
    <2> QED BY <1>0, <1>1, <1>2, <1>5, <1>8, <2>1
  <1> QED BY <1>3, <1>4, <1>6, <1>7, <1>8

\* From a time of day and a day of the week: the next such slot, over the end of
\* the week too.
LEMMA WeeklyFire ==
  ASSUME PlanAssumption, NEW time \in Nat, NEW m \in Plan!Slots, NEW day \in 0 .. Week - 1
  PROVE  LET ahead == (day - Plan!Weekday(time)) % Week
             c == Plan!Roll(Plan!DayStart(time) + m + ahead * Day, time, Week * Day) IN
         /\ c \in Nat /\ c > time /\ c % Day = m /\ Plan!Weekday(c) = day
         /\ \A t \in Nat : t > time /\ t % Day = m /\ Plan!Weekday(t) = day => c <= t
  <1>0. Day \in Nat \ {0} /\ m \in 0 .. Day - 1 /\ Week \in Nat \ {0}
    BY DEF PlanAssumption, Plan!Slots
  <1>1. PICK k \in Int, j \in 0 .. Day - 1 : time = Day * k + j /\ time \div Day = k
    <2>1. time \div Day \in Int /\ time % Day \in 0 .. Day - 1
          /\ time = Day * (time \div Day) + (time % Day)
      BY <1>0, Quotient
    <2> QED BY <2>1
  <1>2. PICK base \in Int : base = Day * k
    BY <1>0
  <1>3. Plan!DayStart(time) = base /\ Plan!Weekday(time) = k % Week
    BY <1>0, <1>1, <1>2 DEF Plan!DayStart, Plan!Weekday
  <1>4. PICK ahead : ahead = DaysAhead(day, k, Week)
    OBVIOUS
  <1>5. /\ ahead \in 0 .. Week - 1 /\ (k + ahead) % Week = day /\ (k + ahead + Week) % Week = day
        /\ \A q \in Int : q % Week = day /\ q >= k => q >= k + ahead
    <2>1. Week \in Nat \ {0}
      BY <1>0
    <2> QED BY <2>1, <1>4, AheadIs
  <1>6. PICK e \in Int, f \in Int : e = k + ahead /\ f = k + ahead + Week
    BY <1>0, <1>5
  <1>7. PICK early \in Int, late \in Int, span \in Nat :
          /\ early = Day * e + m /\ late = Day * f + m /\ span = Week * Day
    BY <1>0
  <1>8. /\ early = base + m + ahead * Day /\ late = early + span
        /\ early >= base + m /\ span >= Day
    <2>1. Day * e = Day * k + ahead * Day /\ Day * f = Day * e + Week * Day
      BY <1>0, <1>5, <1>6
    <2>2. ahead * Day \in Nat /\ Week * Day >= Day
      BY <1>0, <1>5
    <2> QED BY <1>0, <1>2, <1>7, <2>1, <2>2
  <1>9. PICK c : c = Plan!Roll(base + m + ahead * Day, time, Week * Day)
    OBVIOUS
  <1>10. (c = early /\ early > time) \/ (c = late /\ early <= time)
    BY <1>7, <1>8, <1>9 DEF Plan!Roll
  <1>11. c \in Nat /\ c > time
    BY <1>0, <1>1, <1>2, <1>7, <1>8, <1>10
  <1>12. c % Day = m /\ Plan!Weekday(c) = day
    <2>1. early % Day = m /\ early \div Day = e /\ late % Day = m /\ late \div Day = f
      BY <1>0, <1>7, QuotientIs
    <2> QED BY <1>5, <1>6, <1>10, <2>1 DEF Plan!Weekday
  <1>13. ASSUME NEW t \in Nat, t > time, t % Day = m, Plan!Weekday(t) = day PROVE c <= t
    <2>1. PICK q \in Int : t = Day * q + m /\ q % Week = day
      <3>1. t \div Day \in Int /\ t = Day * (t \div Day) + (t % Day)
        BY <1>0, Quotient
      <3> QED BY <1>13, <3>1 DEF Plan!Weekday
    <2>2. PICK due \in Int : due = Day * q
      BY <1>0
    <2>3. q >= e
      <3>1. ~(q < k)
        <4> SUFFICES ASSUME q < k PROVE FALSE
          OBVIOUS
        <4>1. due + Day <= base
          BY <1>0, <1>2, <2>2, TimesNext
        <4> QED BY <1>0, <1>1, <1>2, <1>13, <2>1, <2>2, <4>1
      <3> QED BY <1>5, <1>6, <2>1, <3>1
    <2>4. CASE c = early
      <3>1. Day * e <= Day * q
        BY <1>0, <2>3, Times1
      <3>2. Day * e \in Int /\ Day * q \in Int
        BY <1>0
      <3> QED BY <1>0, <1>7, <2>1, <2>4, <3>1, <3>2
    <2>5. CASE c = late /\ early <= time
      <3>1. q # e
        BY <1>7, <1>13, <2>1, <2>5
      <3>2. e + Week <= q
        <4>1. e % Week = q % Week /\ e < q
          BY <1>5, <1>6, <2>1, <2>3, <3>1
        <4> QED BY <1>0, <4>1, SameRest
      <3>3. f <= q
        BY <1>6, <3>2
      <3>4. Day * f <= Day * q
        BY <1>0, <3>3, Times1
      <3>5. Day * f \in Int /\ Day * q \in Int
        BY <1>0
      <3> QED BY <1>0, <1>7, <2>1, <2>5, <3>4, <3>5
    <2> QED BY <1>10, <2>4, <2>5
  <1> QED BY <1>3, <1>4, <1>9, <1>11, <1>12, <1>13 DEF DaysAhead

\* Min of a set of times is its least element.
LEMMA MinOf ==
  ASSUME NEW S, S \subseteq Nat, S # {}
  PROVE  Plan!Min(S) \in S /\ \A y \in S : Plan!Min(S) <= y
  <1>1. \E x \in S : \A y \in S : x <= y
    BY LeastOf
  <1> QED BY <1>1 DEF Plan!Min

\* What a schedule names: times of day, the time of a once job, a day of the week.
LEMMA ScheduleFacts ==
  ASSUME PlanAssumption, NEW sched \in Plan!Schedules
  PROVE  /\ sched.type \in {"daily", "daily_times", "weekly", "once", "none"}
         /\ sched.type \in {"daily", "daily_times", "weekly"} =>
              sched.at \subseteq Plan!Slots /\ sched.at # {}
         /\ sched.type = "weekly" => sched.day \in 0 .. Week - 1
         /\ sched.type = "once" => \E t \in Nat : sched.at = {t}
  <1>1. CASE sched = Plan!Unscheduled
    BY <1>1 DEF Plan!Unscheduled
  <1>2. CASE sched \in [type : {"daily"}, at : {{m} : m \in Plan!Slots}, day : {0}]
    <2>1. sched.type = "daily" /\ \E m \in Plan!Slots : sched.at = {m}
      BY <1>2
    <2> QED BY <2>1
  <1>3. CASE sched \in [type : {"daily_times"}, at : (SUBSET Plan!Slots) \ {{}}, day : {0}]
    <2>1. sched.type = "daily_times" /\ sched.at \in (SUBSET Plan!Slots) \ {{}}
      BY <1>3
    <2> QED BY <2>1
  <1>4. CASE sched \in [type : {"weekly"}, at : {{m} : m \in Plan!Slots}, day : 0 .. (Week - 1)]
    <2>1. sched.type = "weekly" /\ sched.day \in 0 .. (Week - 1) /\ \E m \in Plan!Slots : sched.at = {m}
      BY <1>4
    <2> QED BY <2>1
  <1>5. CASE sched \in [type : {"once"}, at : {{t} : t \in Plan!Past}, day : {0}]
    <2>1. sched.type = "once" /\ \E t \in Plan!Past : sched.at = {t}
      BY <1>5
    <2>2. Plan!Past \subseteq Nat
      BY DEF Plan!Past, PlanAssumption
    <2> QED BY <2>1, <2>2
  <1>6. \/ sched = Plan!Unscheduled
        \/ sched \in [type : {"daily"}, at : {{m} : m \in Plan!Slots}, day : {0}]
        \/ sched \in [type : {"daily_times"}, at : (SUBSET Plan!Slots) \ {{}}, day : {0}]
        \/ sched \in [type : {"weekly"}, at : {{m} : m \in Plan!Slots}, day : 0 .. (Week - 1)]
        \/ sched \in [type : {"once"}, at : {{t} : t \in Plan!Past}, day : {0}]
    BY Zenon DEF Plan!Schedules
  <1> QED BY <1>1, <1>2, <1>3, <1>4, <1>5, <1>6

\* The next fire is the first slot after now at which the schedule is due.
LEMMA NextFireExact ==
  ASSUME PlanAssumption, NEW sched \in Plan!Schedules, NEW time \in Nat
  PROVE  LET fire == Plan!NextFire(sched, time) IN
         /\ fire < Plan!Deadline => fire \in Nat /\ fire > time /\ Plan!Due(sched, fire)
         /\ \A t \in Nat : t > time /\ t < Plan!Deadline /\ Plan!Due(sched, t) =>
              fire <= t /\ fire < Plan!Deadline
  <1>0. /\ Today \in Nat /\ Grace \in Nat /\ Plan!Deadline \in Int
        /\ ~(Plan!Never < Plan!Deadline)
    <2>1. /\ Day \in Nat \ {0} /\ Week \in Nat \ {0} /\ Today \in Nat /\ Grace \in Nat
      BY DEF PlanAssumption
    <2>2. Week * Day \in Nat
      BY <2>1
    <2> QED BY <2>1, <2>2 DEF Plan!Never, Plan!Deadline
  <1> DEFINE fire == Plan!NextFire(sched, time)
  <1>1. ASSUME NEW Times, Times \subseteq Nat, Times # {}, fire = Plan!Min(Times),
               \A c \in Times : c > time /\ Plan!Due(sched, c),
               \A t \in Nat : t > time /\ Plan!Due(sched, t) => \E c \in Times : c <= t
        PROVE  /\ fire \in Nat /\ fire > time /\ Plan!Due(sched, fire)
               /\ \A t \in Nat : t > time /\ t < Plan!Deadline /\ Plan!Due(sched, t) =>
                    fire <= t /\ fire < Plan!Deadline
    <2>1. fire \in Times /\ \A c \in Times : fire <= c
      BY <1>1, MinOf
    <2> HIDE DEF fire
    <2>2. fire \in Nat /\ fire > time /\ Plan!Due(sched, fire)
      BY <1>1, <2>1
    <2>3. ASSUME NEW t \in Nat, t > time, t < Plan!Deadline, Plan!Due(sched, t)
          PROVE  fire <= t /\ fire < Plan!Deadline
      <3>1. PICK c \in Times : c <= t
        BY <1>1, <2>3
      <3>2. fire <= c /\ c \in Nat
        BY <1>1, <2>1
      <3> QED BY <1>0, <2>2, <2>3, <3>1, <3>2
    <2> QED BY <2>2, <2>3
  <1>3. CASE sched.type \in {"daily", "daily_times"}
    <2>1. sched.at \subseteq Plan!Slots /\ sched.at # {}
      BY <1>3, ScheduleFacts
    <2> DEFINE C(m) == Plan!Roll(Plan!DayStart(time) + m, time, Day)
               Times == {C(m) : m \in sched.at}
    <2>2. \A m \in sched.at : /\ C(m) \in Nat /\ C(m) > time /\ C(m) % Day = m
                              /\ \A t \in Nat : t > time /\ t % Day = m => C(m) <= t
      BY <2>1, DailyFire
    <2>3. fire = Plan!Min(Times)
      BY <1>3 DEF Plan!NextFire
    <2>4. \A t : Plan!Due(sched, t) <=> t % Day \in sched.at
      BY <1>3 DEF Plan!Due
    <2> HIDE DEF C, fire
    <2>5. Times \subseteq Nat /\ Times # {}
      BY <2>1, <2>2
    <2>6. \A c \in Times : c > time /\ Plan!Due(sched, c)
      BY <2>2, <2>4
    <2>7. \A t \in Nat : t > time /\ Plan!Due(sched, t) => \E c \in Times : c <= t
      BY <2>2, <2>4
    <2> HIDE DEF Times
    <2> QED BY <1>1, <2>3, <2>5, <2>6, <2>7 DEF fire
  <1>4. CASE sched.type = "weekly"
    <2>1. sched.at \subseteq Plan!Slots /\ sched.at # {} /\ sched.day \in 0 .. Week - 1
      BY <1>4, ScheduleFacts
    <2> DEFINE ahead == (sched.day - Plan!Weekday(time)) % Week
               C(m) == Plan!Roll(Plan!DayStart(time) + m + ahead * Day, time, Week * Day)
               Times == {C(m) : m \in sched.at}
    <2>2. \A m \in sched.at :
            /\ C(m) \in Nat /\ C(m) > time /\ C(m) % Day = m /\ Plan!Weekday(C(m)) = sched.day
            /\ \A t \in Nat : t > time /\ t % Day = m /\ Plan!Weekday(t) = sched.day => C(m) <= t
      BY <2>1, WeeklyFire
    <2>3. fire = Plan!Min(Times)
      BY <1>4 DEF Plan!NextFire
    <2>4. \A t : Plan!Due(sched, t) <=> t % Day \in sched.at /\ Plan!Weekday(t) = sched.day
      BY <1>4 DEF Plan!Due
    <2> HIDE DEF C, fire
    <2>5. Times \subseteq Nat /\ Times # {}
      BY <2>1, <2>2
    <2>6. \A c \in Times : c > time /\ Plan!Due(sched, c)
      BY <2>2, <2>4
    <2>7. \A t \in Nat : t > time /\ Plan!Due(sched, t) => \E c \in Times : c <= t
      BY <2>2, <2>4
    <2> HIDE DEF Times
    <2> QED BY <1>1, <2>3, <2>5, <2>6, <2>7 DEF fire
  <1>5. CASE sched.type = "once"
    <2>1. PICK at \in Nat : sched.at = {at}
      BY <1>5, ScheduleFacts
    <2>2. Plan!Min(sched.at) = at
      BY <2>1, MinOf
    <2>3. fire = IF at > time THEN at ELSE Plan!Never
      BY <1>5, <2>2 DEF Plan!NextFire
    <2>4. \A t : Plan!Due(sched, t) <=> t = at
      BY <1>5, <2>1 DEF Plan!Due
    <2> HIDE DEF fire
    <2> QED BY <1>0, <2>3, <2>4 DEF fire
  <1>6. CASE sched.type = "none"
    <2>1. fire = Plan!Never /\ \A t : ~Plan!Due(sched, t)
      BY <1>6 DEF Plan!NextFire, Plan!Due
    <2> QED BY <1>0, <2>1
  <1>7. sched.type \in {"daily", "daily_times", "weekly", "once", "none"}
    BY ScheduleFacts
  <1> HIDE DEF fire
  <1>8. /\ fire < Plan!Deadline => fire \in Nat /\ fire > time /\ Plan!Due(sched, fire)
        /\ \A t \in Nat : t > time /\ t < Plan!Deadline /\ Plan!Due(sched, t) =>
             fire <= t /\ fire < Plan!Deadline
    BY <1>3, <1>4, <1>5, <1>6, <1>7 DEF fire
  <1> QED BY <1>8 DEF fire

\* The window starts no earlier than the job, and once the history is full no
\* earlier than some run it still has.
LEMMA WindowStartType ==
  ASSUME PlanAssumption, began \in Nat, ran \subseteq 0 .. Today, pinned \subseteq ran
  PROVE  /\ Plan!WindowStart \in Nat /\ Plan!WindowStart >= began
         /\ Plan!Retained \subseteq Nat
         /\ Plan!Cardinality(Plan!Retained) >= MaxRuns =>
              \E r \in Plan!Retained : Plan!WindowStart >= r
  <1> DEFINE opens == Plan!Max({Today - WindowLength, began})
             oldest == Plan!Min(Plan!Retained)
             late == Plan!Max({opens, oldest})
  <1>0. \A a, b \in Int : /\ Plan!Max({a, b}) \in Int
                          /\ Plan!Max({a, b}) >= a /\ Plan!Max({a, b}) >= b
    <2> TAKE a, b \in Int
    <2>1. \E x \in {a, b} : \A y \in {a, b} : x >= y
      OBVIOUS
    <2>2. Plan!Max({a, b}) \in {a, b} /\ \A y \in {a, b} : Plan!Max({a, b}) >= y
      BY <2>1 DEF Plan!Max
    <2> QED BY <2>2
  <1>1. /\ Today \in Nat /\ WindowLength \in Nat /\ MaxRuns \in Nat \ {0}
        /\ Today - WindowLength \in Int /\ began \in Int
    BY DEF PlanAssumption
  <1>2. opens \in Nat /\ opens >= began
    <2> DEFINE a == Today - WindowLength
    <2>1. a \in Int /\ opens = Plan!Max({a, began})
      BY <1>1
    <2> HIDE DEF a, opens
    <2>2. opens \in Int /\ opens >= began
      BY <1>0, <1>1, <2>1
    <2> QED BY <2>2
  <1>3. Plan!Retained \subseteq Nat
    <2>1. Plan!Retained \subseteq ran
      BY DEF Plan!Retained, Plan!Newest
    <2>2. \A r \in ran : r \in Nat
      BY <1>1
    <2> QED BY <2>1, <2>2
  <1>4. Plan!WindowStart = IF Plan!Cardinality(Plan!Retained) >= MaxRuns THEN late ELSE opens
    BY DEF Plan!WindowStart
  <1>5. ASSUME Plan!Cardinality(Plan!Retained) >= MaxRuns
        PROVE  oldest \in Plan!Retained
    <2>1. Plan!Retained # {}
      <3>1. Plan!Cardinality({}) = 0
        <4>1. Plan!Cardinality({}) = Cardinality({})
          BY Zenon DEF Plan!Cardinality, Cardinality, Plan!IsFiniteSet, IsFiniteSet
        <4> QED BY <4>1, FS_EmptySet
      <3> QED BY <1>1, <1>5, <3>1
    <2> QED BY <1>3, <2>1, MinOf
  <1>6. ASSUME Plan!Cardinality(Plan!Retained) >= MaxRuns
        PROVE  late \in Nat /\ late >= began /\ late >= oldest
    <2>1. oldest \in Int
      <3>1. oldest \in Plan!Retained
        BY <1>5, <1>6
      <3> HIDE DEF oldest
      <3> QED BY <1>3, <3>1
    <2> HIDE DEF oldest, opens
    <2> QED BY <1>0, <1>2, <2>1
  <1> HIDE DEF opens, oldest, late
  <1> QED BY <1>2, <1>3, <1>4, <1>5, <1>6

\* A run that would cover the fire and is gone from the history is older than a
\* whole history of runs: the window starts at the oldest of them or later, so
\* that one, between the lost run and the fire, covers it too.
LEMMA MissIsTrue ==
  ASSUME PlanAssumption, began \in Nat, ran \subseteq 0 .. Today, pinned = {},
         NEW fire \in Nat, fire > Plan!WindowStart, ~Plan!Covers(Plan!Retained, fire)
  PROVE  fire > began /\ ~Plan!Covers(ran, fire)
  <1>0. /\ Today \in Nat /\ MaxRuns \in Nat \ {0} /\ Grace \in Nat /\ Early \in Nat
        /\ \A s \in ran : s \in Nat
    BY DEF PlanAssumption
  <1>1. Plan!WindowStart \in Nat /\ Plan!WindowStart >= began
    BY WindowStartType
  <1>2. ASSUME NEW s \in ran, fire - Early <= s, s <= fire + Grace PROVE FALSE
    <2>1. s \notin Plan!Retained
      BY <1>2 DEF Plan!Covers
    <2>2. Plan!Retained = Plan!Newest(MaxRuns, ran)
      <3>1. ran \ pinned = ran
        OBVIOUS
      <3> QED BY <3>1 DEF Plan!Retained
    <2>3. Plan!Cardinality(Plan!Retained) >= MaxRuns
      BY <1>0, <2>1, <2>2, NewestEnough
    <2>4. PICK r \in Plan!Retained : Plan!WindowStart >= r
      BY <2>3, WindowStartType
    <2>5. s < r
      BY <1>0, <2>1, <2>2, <2>4, NewestNewer
    <2>6. r \in Nat
      BY <2>4, WindowStartType
    <2>7. fire - Early <= r /\ r <= fire + Grace
      BY <1>0, <1>1, <1>2, <2>4, <2>5, <2>6
    <2> QED BY <2>4, <2>7 DEF Plan!Covers
  <1> QED BY <1>1, <1>2 DEF Plan!Covers

\* The slots of the window at which the job was due.
DueThen == {t \in Plan!Past : Plan!WindowStart < t /\ t < Plan!Deadline /\ Plan!Due(plan, t)}

\* The walk has met what was due up to the cursor, each once and in order, and a
\* miss is one of those that no retained run covers.
PlanInv ==
  /\ verdict = "none" => misses = {} /\ fires = << >>
  /\ verdict # "none" =>
       /\ pinned \subseteq ran /\ ran \subseteq 0 .. Today /\ began \in Nat
       /\ plan \in Plan!Schedules /\ (Pins = 0 => pinned = {})
       /\ cursor = Plan!WindowStart \/ (cursor \in Nat /\ cursor > Plan!WindowStart)
       /\ fires \in Seq(Nat) /\ Len(fires) <= Cap
       /\ \A i, j \in DOMAIN fires : i < j => fires[i] < fires[j]
       /\ \A i \in DOMAIN fires : fires[i] \in DueThen /\ fires[i] <= cursor
       /\ \A t \in DueThen : cursor < t \/ \E i \in DOMAIN fires : fires[i] = t
       /\ \A fire \in misses : fire \in DueThen /\ ~Plan!Covers(Plan!Retained, fire)
  /\ verdict = "given" => ~Plan!More

LEMMA PlanInit == Plan!Init => PlanInv
  BY DEF Plan!Init, PlanInv

\* A scan opens with nothing met yet.
LEMMA PlanOpens ==
  ASSUME PlanAssumption, PlanInv, Plan!Open
  PROVE  PlanInv'
  <1>1. /\ verdict' = "open" /\ misses' = {} /\ plan' \in Plan!Schedules
        /\ cursor' = Plan!WindowStart' /\ fires' = << >>
    BY DEF Plan!Open, PlanInv
  <1>2. began' \in Nat /\ ran' \subseteq 0 .. Today
    BY DEF Plan!Open, Plan!Past, Plan!kSubset, PlanAssumption
  <1>3. PICK n \in {k \in 0 .. Pins : k <= Plan!Cardinality(ran')} : pinned' \in Plan!kSubset(n, ran')
    BY DEF Plan!Open
  <1>4. pinned' \subseteq ran' /\ Plan!Cardinality(pinned') = n
    BY <1>3 DEF Plan!kSubset
  <1>5. Pins = 0 => pinned' = {}
    <2> SUFFICES ASSUME Pins = 0 PROVE pinned' = {}
      OBVIOUS
    <2>1. n = 0
      BY <1>3
    <2>2. Plan!Cardinality(pinned') = Cardinality(pinned')
      BY Zenon DEF Plan!Cardinality, Cardinality, Plan!IsFiniteSet, IsFiniteSet
    <2>3. IsFiniteSet(0 .. Today)
      <3>1. 0 \in Int /\ Today \in Int
        BY DEF PlanAssumption
      <3> QED BY <3>1, FS_Interval
    <2>4. IsFiniteSet(pinned')
      BY <1>2, <1>4, <2>3, FS_Subset
    <2> QED BY <1>4, <2>1, <2>2, <2>4, FS_EmptySet
  <1>6. cursor' = Plan!WindowStart'
    BY <1>1
  <1>7. \A t \in DueThen' : cursor' < t
    BY <1>1 DEF DueThen
  <1>8. Len(fires') <= Cap
    BY <1>1 DEF PlanAssumption
  <1> QED BY <1>1, <1>2, <1>4, <1>5, <1>6, <1>7, <1>8 DEF PlanInv

\* Between the cursor and the next fire nothing is due.
LEMMA PlanWalks ==
  ASSUME PlanAssumption, PlanInv, Plan!Walk
  PROVE  PlanInv'
  <1>1. /\ verdict # "none" /\ verdict # "given" /\ fires' = Append(fires, cursor')
        /\ cursor' = Plan!NextFire(plan, cursor) /\ Plan!NextFire(plan, cursor) < Plan!Deadline
        /\ Len(fires) < Cap
        /\ UNCHANGED <<plan, began, ran, pinned, misses, verdict>>
    BY DEF Plan!Walk, Plan!More
  <1>2. /\ Plan!WindowStart' = Plan!WindowStart /\ Plan!Retained' = Plan!Retained
        /\ DueThen' = DueThen
    BY <1>1 DEF Plan!WindowStart, Plan!Retained, DueThen
  <1>3. Plan!WindowStart \in Nat /\ plan \in Plan!Schedules /\ fires \in Seq(Nat) /\ Cap \in Nat
        /\ Today \in Nat /\ Grace \in Nat
    BY <1>1, WindowStartType DEF PlanInv, PlanAssumption
  <1>4. cursor \in Nat /\ cursor >= Plan!WindowStart
    BY <1>1, <1>3 DEF PlanInv
  <1>5. PICK fire : fire = cursor' /\ fire = Plan!NextFire(plan, cursor)
    BY <1>1
  <1>6. /\ fire \in Nat /\ fire > cursor /\ Plan!Due(plan, fire)
        /\ \A t \in Nat : t > cursor /\ t < Plan!Deadline /\ Plan!Due(plan, t) => fire <= t
    BY <1>1, <1>3, <1>4, <1>5, NextFireExact
  <1>7. fire \in DueThen
    <2>1. fire < Plan!Deadline
      BY <1>1, <1>5
    <2>2. fire \in Plan!Past /\ Plan!WindowStart < fire
      BY <1>3, <1>4, <1>6, <2>1 DEF Plan!Deadline, Plan!Past
    <2> QED BY <1>6, <2>1, <2>2 DEF DueThen
  <1>8. \A t \in DueThen : t \in Nat /\ t < Plan!Deadline /\ Plan!Due(plan, t)
    BY <1>3 DEF DueThen, Plan!Past
  <1>9. PICK s : s = Append(fires, fire)
    OBVIOUS
  <1>10. /\ s \in Seq(Nat) /\ Len(s) = Len(fires) + 1 /\ DOMAIN s = (DOMAIN fires) \cup {Len(fires) + 1}
         /\ Len(fires) + 1 \notin DOMAIN fires /\ s[Len(fires) + 1] = fire
         /\ \A i \in DOMAIN fires : s[i] = fires[i] /\ i < Len(fires) + 1 /\ i \in Nat
    BY <1>3, <1>6, <1>9
  <1>11. fires' = s /\ cursor' = fire
    BY <1>1, <1>5, <1>9
  <1>12. \A i \in DOMAIN fires : fires[i] \in DueThen /\ fires[i] <= cursor /\ fires[i] \in Nat
    BY <1>1, <1>8 DEF PlanInv
  <1>13. \A i, j \in DOMAIN s : i < j => s[i] < s[j]
    <2> SUFFICES ASSUME NEW i \in DOMAIN s, NEW j \in DOMAIN s, i < j PROVE s[i] < s[j]
      OBVIOUS
    <2>1. i \in DOMAIN fires
      BY <1>3, <1>10
    <2>2. CASE j \in DOMAIN fires
      BY <1>1, <1>10, <2>1, <2>2 DEF PlanInv
    <2>3. CASE j = Len(fires) + 1
      <3>1. s[i] = fires[i] /\ s[j] = fire
        BY <1>10, <2>1, <2>3
      <3>2. fires[i] <= cursor /\ fires[i] \in Nat
        BY <1>12, <2>1
      <3> QED BY <1>4, <1>6, <3>1, <3>2
    <2> QED BY <1>10, <2>2, <2>3
  <1>14. \A i \in DOMAIN s : s[i] \in DueThen /\ s[i] <= fire
    <2> SUFFICES ASSUME NEW i \in DOMAIN s PROVE s[i] \in DueThen /\ s[i] <= fire
      OBVIOUS
    <2>1. CASE i \in DOMAIN fires
      BY <1>4, <1>6, <1>10, <1>12, <2>1
    <2>2. CASE i = Len(fires) + 1
      BY <1>6, <1>7, <1>10, <2>2
    <2> QED BY <1>10, <2>1, <2>2
  <1>15. ASSUME NEW t \in DueThen PROVE fire < t \/ \E i \in DOMAIN s : s[i] = t
    <2>1. CASE cursor < t
      <3>1. fire <= t /\ t \in Nat
        BY <1>4, <1>6, <1>8, <2>1
      <3>2. CASE fire = t
        BY <1>10, <3>2
      <3> QED BY <1>6, <3>1, <3>2
    <2>2. CASE \E i \in DOMAIN fires : fires[i] = t
      BY <1>10, <2>2
    <2> QED BY <1>1, <2>1, <2>2 DEF PlanInv
  <1>16. Len(s) <= Cap
    BY <1>1, <1>3, <1>10
  <1>17. fire = Plan!WindowStart \/ (fire \in Nat /\ fire > Plan!WindowStart)
    BY <1>3, <1>4, <1>6
  <1>18. \A f \in misses : f \in DueThen /\ ~Plan!Covers(Plan!Retained, f)
    BY <1>1 DEF PlanInv
  <1> QED BY <1>1, <1>2, <1>10, <1>11, <1>13, <1>14, <1>15, <1>16, <1>17, <1>18
         DEF PlanInv, Plan!Covers

\* The verdict takes from what was met.
LEMMA PlanJudges ==
  ASSUME PlanAssumption, PlanInv, Plan!Judge
  PROVE  PlanInv'
  <1>1. /\ verdict # "none" /\ verdict' = "given" /\ ~Plan!More
        /\ misses' = {fires[i] : i \in {k \in DOMAIN fires : ~Plan!Covers(Plan!Retained, fires[k])}}
        /\ UNCHANGED <<plan, began, ran, pinned, cursor, fires>>
    BY DEF Plan!Judge
  <1>2. /\ Plan!WindowStart' = Plan!WindowStart /\ Plan!Retained' = Plan!Retained
        /\ DueThen' = DueThen /\ (~Plan!More)'
    BY <1>1 DEF Plan!WindowStart, Plan!Retained, DueThen, Plan!More
  <1>3. \A fire \in misses' : fire \in DueThen /\ ~Plan!Covers(Plan!Retained, fire)
    BY <1>1 DEF PlanInv
  <1> QED BY <1>1, <1>2, <1>3 DEF PlanInv, Plan!Covers

LEMMA PlanStep ==
  ASSUME PlanAssumption
  PROVE  PlanInv /\ [Plan!Next]_(Plan!vars) => PlanInv'
  <1> SUFFICES ASSUME PlanInv, UNCHANGED Plan!vars PROVE PlanInv'
    BY PlanOpens, PlanWalks, PlanJudges DEF Plan!Next
  <1>1. UNCHANGED <<plan, began, ran, pinned, cursor, fires, misses, verdict>>
    BY DEF Plan!vars
  <1>2. /\ Plan!WindowStart' = Plan!WindowStart /\ Plan!Retained' = Plan!Retained
        /\ DueThen' = DueThen /\ (Plan!More' <=> Plan!More)
    BY <1>1 DEF Plan!WindowStart, Plan!Retained, DueThen, Plan!More
  <1> QED BY <1>1, <1>2 DEF PlanInv, Plan!Covers

\* For any calendar, window, tolerances, cap, size of the history and schedule,
\* as long as no run is pinned: a fire reported as missed was due under the
\* current schedule and no run ever started near it, one whose record has been
\* pruned included (missed_fires and the clamp of its window to the oldest
\* retained run).
THEOREM NoFalseMissAlways ==
  ASSUME PlanAssumption, Pins = 0
  PROVE  Plan!Spec => []Plan!NoFalseMiss
  <1>1. PlanInv => Plan!NoFalseMiss
    <2> SUFFICES ASSUME PlanInv, NEW fire \in misses
                 PROVE fire > began /\ Plan!Due(plan, fire) /\ ~Plan!Covers(ran, fire)
      BY DEF Plan!NoFalseMiss
    <2>1. verdict # "none"
      BY DEF PlanInv
    <2>2. began \in Nat /\ ran \subseteq 0 .. Today /\ pinned = {}
          /\ fire \in DueThen /\ ~Plan!Covers(Plan!Retained, fire)
      BY <2>1 DEF PlanInv
    <2>3. fire \in Nat /\ fire > Plan!WindowStart /\ Plan!Due(plan, fire)
      <3>1. fire \in Nat /\ Plan!WindowStart < fire /\ Plan!Due(plan, fire)
        BY <2>2 DEF DueThen, Plan!Past
      <3> QED BY <3>1
    <2> QED BY <2>2, <2>3, MissIsTrue
  <1> QED BY <1>1, PlanInit, PlanStep, PTL DEF Plan!Spec

\* The fires met before the i-th are those due before it.
LEMMA MetBefore ==
  ASSUME PlanAssumption, PlanInv, verdict = "given", NEW i \in DOMAIN fires
  PROVE  /\ IsFiniteSet({u \in DueThen : u < fires[i]})
         /\ Cardinality({u \in DueThen : u < fires[i]}) < Cap
  <1>1. /\ fires \in Seq(Nat) /\ Len(fires) <= Cap /\ Cap \in Nat
        /\ \A j, k \in DOMAIN fires : j < k => fires[j] < fires[k]
        /\ \A j \in DOMAIN fires : fires[j] \in DueThen /\ fires[j] <= cursor
        /\ \A t \in DueThen : cursor < t \/ \E j \in DOMAIN fires : fires[j] = t
        /\ cursor = Plan!WindowStart \/ cursor \in Nat
    BY DEF PlanInv, PlanAssumption
  <1>2. cursor \in Nat
    BY <1>1, WindowStartType DEF PlanInv
  <1>3. DOMAIN fires = 1 .. Len(fires) /\ Len(fires) \in Nat /\ i \in 1 .. Len(fires)
        /\ \A j \in DOMAIN fires : fires[j] \in Nat
    BY <1>1
  <1> DEFINE T == {u \in DueThen : u < fires[i]}
             S == 1 .. (i - 1)
             f == [j \in S |-> fires[j]]
  <1>4. \A j \in S : j \in DOMAIN fires /\ j < i
    BY <1>3
  <1>5. \A j \in S : f[j] \in T
    BY <1>1, <1>4
  <1>6. \A u \in T : \E j \in S : f[j] = u
    <2> SUFFICES ASSUME NEW u \in T PROVE \E j \in S : f[j] = u
      OBVIOUS
    <2>1. u \in DueThen /\ u < fires[i] /\ u \in Nat
      BY DEF DueThen, Plan!Past, PlanAssumption
    <2>2. ~(cursor < u)
      BY <1>1, <1>2, <1>3, <2>1
    <2>3. PICK j \in DOMAIN fires : fires[j] = u
      BY <1>1, <2>1, <2>2
    <2>4. j < i
      <3>1. ~(i < j) /\ i # j
        <4>1. i < j => fires[i] < fires[j]
          BY <1>1, <2>3
        <4>2. fires[i] \in Nat /\ fires[j] \in Nat
          BY <1>3, <2>3
        <4> QED BY <2>1, <2>3, <4>1, <4>2
      <3> QED BY <1>3, <3>1
    <2>5. j \in S
      BY <1>3, <2>4
    <2> QED BY <2>3, <2>5
  <1>7. f \in Surjection(S, T)
    BY <1>5, <1>6 DEF Surjection
  <1>8. IsFiniteSet(S) /\ Cardinality(S) = i - 1
    <2>1. 1 \in Int /\ i \in Int /\ i >= 1
      BY <1>3
    <2>2. PICK n : n = i - 1
      OBVIOUS
    <2>b. n \in Int /\ n >= 0
      BY ONLY <2>1, <2>2
    <2>3. IsFiniteSet(1 .. n) /\ Cardinality(1 .. n) = IF 1 > n THEN 0 ELSE n - 1 + 1
      BY <2>1, <2>b, FS_Interval
    <2> QED BY <2>1, <2>2, <2>b, <2>3
  <1>9. IsFiniteSet(T) /\ Cardinality(T) <= Cardinality(S)
    BY <1>7, <1>8, FS_Surjection
  <1>10. Cardinality(T) \in Nat
    BY <1>9, FS_CardinalityType
  <1> HIDE DEF T, S
  <1>11. Cardinality(T) < Cap
    BY <1>1, <1>3, <1>8, <1>9, <1>10
  <1> QED BY <1>9, <1>11 DEF T

\* What is due after the last fire met comes after a full walk.
LEMMA LeftOut ==
  ASSUME PlanAssumption, PlanInv, verdict = "given", NEW t \in DueThen, cursor < t
  PROVE  ~(Plan!Cardinality({u \in DueThen : u < t}) < Cap)
  <1>1. /\ fires \in Seq(Nat) /\ Len(fires) <= Cap /\ Cap \in Nat
        /\ \A j, k \in DOMAIN fires : j < k => fires[j] < fires[k]
        /\ \A j \in DOMAIN fires : fires[j] \in DueThen /\ fires[j] <= cursor
        /\ cursor = Plan!WindowStart \/ cursor \in Nat
        /\ plan \in Plan!Schedules /\ ~Plan!More /\ Today \in Nat
    BY DEF PlanInv, PlanAssumption
  <1>2. cursor \in Nat
    BY <1>1, WindowStartType DEF PlanInv
  <1>3. DOMAIN fires = 1 .. Len(fires) /\ Len(fires) \in Nat
        /\ \A j \in DOMAIN fires : fires[j] \in Nat
    BY <1>1
  <1>4. t \in Nat /\ Plan!WindowStart < t /\ t < Plan!Deadline /\ Plan!Due(plan, t)
    BY DEF DueThen, Plan!Past
  <1>5. Plan!NextFire(plan, cursor) < Plan!Deadline
    BY <1>1, <1>2, <1>4, NextFireExact
  <1>6. Plan!WindowStart < Plan!Deadline
    <2>1. Plan!WindowStart \in Nat /\ Plan!Deadline \in Int
      BY <1>1, WindowStartType DEF PlanInv, Plan!Deadline, PlanAssumption
    <2> QED BY <1>4, <2>1
  <1>7. Len(fires) = Cap
    <2>1. ~(Len(fires) < Cap)
      <3>1. ~(Plan!WindowStart < Plan!Deadline /\ Len(fires) < Cap
              /\ Plan!NextFire(plan, cursor) < Plan!Deadline)
        BY <1>1 DEF Plan!More
      <3> QED BY <1>5, <1>6, <3>1
    <2>2. Len(fires) \in Nat /\ Cap \in Nat /\ Len(fires) <= Cap
      BY <1>1, <1>3
    <2> QED BY ONLY <2>1, <2>2
  <1> DEFINE T == {u \in DueThen : u < t}
             S == 1 .. Len(fires)
  <1>8. \A j \in S : fires[j] \in T
    BY <1>1, <1>2, <1>3, <1>4
  <1>9. [j \in S |-> fires[j]] \in Injection(S, T)
    <2>1. ASSUME NEW j \in S, NEW k \in S, fires[j] = fires[k] PROVE j = k
      <3>1. ~(j < k) /\ ~(k < j)
        <4>1. (j < k => fires[j] < fires[k]) /\ (k < j => fires[k] < fires[j])
          BY <1>1, <1>3
        <4>2. fires[j] \in Nat /\ fires[k] \in Nat
          BY <1>3
        <4> QED BY <2>1, <4>1, <4>2
      <3> QED BY <1>3, <3>1
    <2> HIDE DEF T, S
    <2> DEFINE g == [j \in S |-> fires[j]]
    <2>2. g \in [S -> T]
      BY <1>8
    <2>3. \A j, k \in S : g[j] = g[k] => j = k
      BY <2>1
    <2> HIDE DEF g
    <2>4. g \in Injection(S, T)
      BY <2>2, <2>3, Fun_IsInj
    <2> QED BY <2>4 DEF g
  <1>10. IsFiniteSet(T)
    <2>1. 0 \in Int /\ Today \in Int
      BY <1>1
    <2>2. IsFiniteSet(0 .. Today)
      BY <2>1, FS_Interval
    <2>3. T \subseteq 0 .. Today
      BY DEF DueThen, Plan!Past
    <2> QED BY <2>2, <2>3, FS_Subset
  <1>11. Cardinality(S) = Len(fires)
    <2>1. 1 \in Int /\ Len(fires) \in Int
      BY <1>3
    <2>2. Cardinality(S) = IF 1 > Len(fires) THEN 0 ELSE Len(fires) - 1 + 1
      BY <2>1, FS_Interval
    <2> QED BY <1>3, <2>2
  <1>12. Cardinality(S) <= Cardinality(T) /\ Cardinality(T) \in Nat
    <2> HIDE DEF S, T
    <2> QED BY <1>9, <1>10, FS_Injection, FS_CardinalityType
  <1>13. Plan!Cardinality(T) = Cardinality(T)
    BY Zenon DEF Plan!Cardinality, Cardinality, Plan!IsFiniteSet, IsFiniteSet
  <1> HIDE DEF S, T
  <1>14. ~(Plan!Cardinality(T) < Cap)
    BY <1>1, <1>7, <1>11, <1>12, <1>13
  <1> QED BY <1>14 DEF T

\* For any calendar, window, cap and history, pinned runs or not, and any schedule:
\* the walk meets the fires of its window each once, in order and without a gap, and
\* stops short of one only at the cap (upcoming_fires and the roll-forward of
\* next_fire).
THEOREM WalkExactAlways ==
  ASSUME PlanAssumption
  PROVE  Plan!Spec => []Plan!WalkExact
  <1>1. PlanInv => Plan!WalkExact
    <2> SUFFICES ASSUME PlanInv, verdict = "given" PROVE Plan!WalkExact
      BY DEF Plan!WalkExact
    <2> DEFINE met == {fires[i] : i \in DOMAIN fires}
    <2>1. \A i, j \in DOMAIN fires : i < j => fires[i] < fires[j]
      BY DEF PlanInv
    <2>2. ASSUME NEW t \in met
          PROVE  t \in DueThen /\ Plan!Cardinality({u \in DueThen : u < t}) < Cap
      <3>1. PICK i \in DOMAIN fires : t = fires[i]
        OBVIOUS
      <3>2. Cardinality({u \in DueThen : u < t}) < Cap
        BY <3>1, MetBefore
      <3>3. Plan!Cardinality({u \in DueThen : u < t}) = Cardinality({u \in DueThen : u < t})
        BY Zenon DEF Plan!Cardinality, Cardinality, Plan!IsFiniteSet, IsFiniteSet
      <3>4. t \in DueThen
        BY <3>1 DEF PlanInv
      <3> QED BY <3>2, <3>3, <3>4
    <2>3. ASSUME NEW t \in DueThen, Plan!Cardinality({u \in DueThen : u < t}) < Cap
          PROVE  t \in met
      <3>1. ~(cursor < t)
        BY <2>3, LeftOut
      <3> QED BY <3>1 DEF PlanInv
    <2>4. met = {t \in DueThen : Plan!Cardinality({u \in DueThen : u < t}) < Cap}
      <3> HIDE DEF met
      <3> QED BY <2>2, <2>3
    <2> QED BY <2>1, <2>4 DEF Plan!WalkExact, DueThen
  <1> QED BY <1>1, PlanInit, PlanStep, PTL DEF Plan!Spec

-----------------------------------------------------------------------------
(* The run history. *)

RunStatuses == {"running", "success", "failed", "skipped", "dry_run_success"}
RunRecords == [began : Nat, status : RunStatuses, dry : BOOLEAN, pinned : BOOLEAN, whole : BOOLEAN,
               anchor : Nat, seen : Nat, blind : BOOLEAN]
IndexRows == [status : RunStatuses \cup {"no row"}, pinned : BOOLEAN]
RunSteps == {"running", "sync", "remove", "done"}
Admissions == [seen : Nat, blind : BOOLEAN]

HistoryTypes ==
  /\ runs \in Seq(RunRecords) /\ rows \in Seq(IndexRows) /\ step \in Seq(RunSteps)
  /\ todo \in Seq(SUBSET Nat)
  /\ Len(rows) = Len(runs) /\ Len(step) = Len(runs) /\ Len(todo) = Len(runs)
  /\ clock \in Nat /\ kept \subseteq DOMAIN runs
  /\ pin \in [at : {"none", "write", "sync"}, run : Nat]
  /\ pin.at # "none" => pin.run \in DOMAIN runs

\* What the records, the clock and the executors have to do with each other.
Dated ==
  /\ \A r \in DOMAIN runs : /\ runs[r].began <= clock
                            /\ step[r] = "running" => runs[r].status = "running"
                            /\ runs[r].status = "dry_run_success" => runs[r].dry
  /\ \A r, s \in DOMAIN runs : r < s => runs[r].began <= runs[s].began

\* A fire past the check knew the newest fire there was, and if that was on
\* record it was a cooldown ago.
Spaced(a) ==
  /\ a.seen = 0 \/ a.seen \in History!Fires
  /\ a.blind \/ a.seen = 0 \/ clock >= runs[a.seen].began + Cooldown

Before(r) == {s \in History!Fires : s < r}
Anchored(r) == runs[r].status = "skipped" =>
                 runs[r].anchor \in DOMAIN runs /\ runs[runs[r].anchor].status \notin History!NotFires

Spacing ==
  /\ admitted \in Seq(Admissions) /\ \A i \in DOMAIN admitted : Spaced(admitted[i])
  /\ History!FiresSpaced /\ \A r \in DOMAIN runs : Anchored(r)

\* A safe run is pinned, on disk and on nobody's list; the lists are of runs.
PinsKept ==
  /\ \A r \in safe : /\ r \in DOMAIN runs /\ runs[r].pinned = TRUE /\ r \in kept
                     /\ \A s \in DOMAIN runs : r \notin todo[s]
  /\ \A r \in DOMAIN runs : runs[r].whole = TRUE \/ r \in crossed
  /\ \A r \in DOMAIN runs : todo[r] \subseteq DOMAIN runs

\* A run that no two writers met at has its directory until its row is in, and
\* a pin on its way to its row is on record.
Rowed ==
  /\ \A r \in DOMAIN runs : r \notin crossed /\ step[r] # "sync" /\ pin.run # r =>
       rows[r] = IF r \in kept THEN History!Row(runs[r]) ELSE History!NoRow
  /\ \A r \in DOMAIN runs : /\ step[r] = "running" => r \in kept
                            /\ step[r] = "sync" /\ r \notin crossed => r \in kept
  /\ pin.at = "sync" => /\ runs[pin.run].pinned = TRUE
                        /\ pin.run \in crossed \/ pin.run \in kept

HistoryInv == HistoryTypes /\ Dated /\ Spacing /\ PinsKept /\ Rowed

LEMMA HistoryInit == History!Init => HistoryInv
  <1> SUFFICES ASSUME History!Init PROVE HistoryInv
    OBVIOUS
  <1>1. /\ clock = 0 /\ runs = << >> /\ kept = {} /\ rows = << >> /\ step = << >> /\ todo = << >>
        /\ admitted = << >> /\ pin = [at |-> "none", run |-> 0] /\ safe = {} /\ crossed = {}
    BY DEF History!Init, History!NoPin
  <1>2. DOMAIN runs = {} /\ DOMAIN admitted = {} /\ Len(runs) = 0
    BY <1>1
  <1>3. HistoryTypes
    BY <1>1, <1>2 DEF HistoryTypes
  <1>4. Dated /\ PinsKept /\ Rowed
    BY <1>1, <1>2 DEF Dated, PinsKept, Rowed
  <1>5. Spacing
    <2>1. History!Fires = {}
      BY <1>2 DEF History!Fires, History!Runs
    <2> QED BY <1>1, <1>2, <2>1 DEF Spacing, History!FiresSpaced
  <1> QED BY <1>3, <1>4, <1>5 DEF HistoryInv

LEMMA AppendFacts ==
  ASSUME NEW S, NEW s \in Seq(S), NEW x \in S
  PROVE  /\ Append(s, x) \in Seq(S) /\ Len(Append(s, x)) = Len(s) + 1
         /\ DOMAIN Append(s, x) = (DOMAIN s) \cup {Len(s) + 1}
         /\ Len(s) + 1 \notin DOMAIN s /\ \A i \in DOMAIN s : i < Len(s) + 1
         /\ Append(s, x)[Len(s) + 1] = x
         /\ \A i \in DOMAIN s : Append(s, x)[i] = s[i]
  OBVIOUS

LEMMA ExceptFacts ==
  ASSUME NEW S, NEW s \in Seq(S), NEW i \in DOMAIN s, NEW x \in S
  PROVE  /\ [s EXCEPT ![i] = x] \in Seq(S) /\ Len([s EXCEPT ![i] = x]) = Len(s)
         /\ DOMAIN [s EXCEPT ![i] = x] = DOMAIN s
         /\ [s EXCEPT ![i] = x][i] = x
         /\ \A j \in DOMAIN s : j # i => [s EXCEPT ![i] = x][j] = s[j]
  <1>1. i \in 1 .. Len(s) /\ DOMAIN s = 1 .. Len(s)
    OBVIOUS
  <1> QED BY <1>1, ExceptSeq

LEMMA RunDomains ==
  ASSUME HistoryTypes
  PROVE  /\ DOMAIN runs = 1 .. Len(runs) /\ Len(runs) \in Nat
         /\ DOMAIN rows = DOMAIN runs /\ DOMAIN step = DOMAIN runs /\ DOMAIN todo = DOMAIN runs
  BY DEF HistoryTypes

\* The newest of some of the runs is one of them.
LEMMA NewestOf ==
  ASSUME HistoryTypes, NEW S, S \subseteq DOMAIN runs
  PROVE  /\ S = {} => History!Newest(S) = 0
         /\ S # {} => History!Newest(S) \in S /\ History!Newest(S) # 0
                      /\ \A r \in S : r <= History!Newest(S)
  <1>1. DOMAIN runs = 1 .. Len(runs) /\ Len(runs) \in Nat
    BY RunDomains
  <1>2. CASE S # {}
    <2>1. PICK x \in S : \A r \in S : x >= r
      BY <1>1, <1>2, GreatestOf
    <2>2. History!Max(S) \in S /\ \A r \in S : History!Max(S) >= r
      BY <2>1 DEF History!Max
    <2>3. History!Newest(S) = History!Max(S)
      BY <1>2 DEF History!Newest
    <2>4. \A r \in S : r \in Nat /\ r # 0
      BY <1>1
    <2> QED BY <1>2, <2>2, <2>3, <2>4
  <1> QED BY <1>2 DEF History!Newest

\* A new run has a record, a row, a place among the executors and a directory.
RunAdded(run, at) ==
  LET n == Len(runs) + 1 IN
  /\ Len(runs') = n /\ DOMAIN runs' = DOMAIN runs \cup {n}
  /\ n \notin DOMAIN runs /\ \A r \in DOMAIN runs : r < n
  /\ runs'[n] = run /\ rows'[n] = History!Row(run) /\ step'[n] = at
  /\ todo'[n] = IF at = "remove" THEN History!OldAfter(runs', kept') ELSE {}
  /\ \A r \in DOMAIN runs : /\ runs'[r] = runs[r] /\ rows'[r] = rows[r]
                            /\ step'[r] = step[r] /\ todo'[r] = todo[r]
  /\ kept' = kept \cup {n}
  /\ UNCHANGED <<clock, pin, safe, crossed>>

LEMMA MakeAdds ==
  ASSUME HistoryTypes, NEW run \in RunRecords, NEW at \in RunSteps, History!Make(run, at)
  PROVE  HistoryTypes' /\ RunAdded(run, at)
  <1> DEFINE n == Len(runs) + 1
             old == IF at = "remove" THEN History!OldAfter(runs', kept') ELSE {}
  <1>1. /\ runs' = Append(runs, run) /\ rows' = Append(rows, History!Row(run))
        /\ step' = Append(step, at) /\ todo' = Append(todo, old)
        /\ kept' = kept \cup {n} /\ UNCHANGED <<clock, pin, safe, crossed>>
    BY DEF History!Make
  <1>2. DOMAIN runs = 1 .. Len(runs) /\ Len(runs) \in Nat
        /\ DOMAIN rows = DOMAIN runs /\ DOMAIN step = DOMAIN runs /\ DOMAIN todo = DOMAIN runs
        /\ Len(rows) = Len(runs) /\ Len(step) = Len(runs) /\ Len(todo) = Len(runs)
    BY RunDomains DEF HistoryTypes
  <1>3. /\ runs' \in Seq(RunRecords) /\ Len(runs') = n /\ DOMAIN runs' = DOMAIN runs \cup {n}
        /\ n \notin DOMAIN runs /\ (\A r \in DOMAIN runs : r < n) /\ runs'[n] = run
        /\ \A r \in DOMAIN runs : runs'[r] = runs[r]
    BY <1>1, AppendFacts DEF HistoryTypes
  <1>4. /\ rows' \in Seq(IndexRows) /\ Len(rows') = n /\ rows'[n] = History!Row(run)
        /\ \A r \in DOMAIN runs : rows'[r] = rows[r]
    <2>1. History!Row(run) \in IndexRows
      BY DEF History!Row, RunRecords, IndexRows
    <2>2. rows \in Seq(IndexRows)
      BY DEF HistoryTypes
    <2> QED BY <1>1, <1>2, <2>1, <2>2, AppendFacts
  <1>5. /\ step' \in Seq(RunSteps) /\ Len(step') = n /\ step'[n] = at
        /\ \A r \in DOMAIN runs : step'[r] = step[r]
    <2>1. step \in Seq(RunSteps)
      BY DEF HistoryTypes
    <2> QED BY <1>1, <1>2, <2>1, AppendFacts
  <1>6. kept' \subseteq DOMAIN runs'
    BY <1>1, <1>3 DEF HistoryTypes
  <1>7. /\ todo' \in Seq(SUBSET Nat) /\ Len(todo') = n /\ todo'[n] = old
        /\ \A r \in DOMAIN runs : todo'[r] = todo[r]
    <2>1. kept' \subseteq Nat
      BY <1>2, <1>3, <1>6
    <2>2. old \in SUBSET Nat
      BY <2>1 DEF History!OldAfter, History!Unpinned
    <2>3. todo \in Seq(SUBSET Nat)
      BY DEF HistoryTypes
    <2> HIDE DEF old
    <2> QED BY <1>1, <1>2, <2>2, <2>3, AppendFacts
  <1>8. HistoryTypes'
    BY <1>1, <1>3, <1>4, <1>5, <1>6, <1>7 DEF HistoryTypes
  <1>9. RunAdded(run, at)
    BY <1>1, <1>3, <1>4, <1>5, <1>7 DEF RunAdded
  <1> QED BY <1>8, <1>9

LEMMA AddedKeeps ==
  ASSUME HistoryInv, NEW run \in RunRecords, NEW at \in RunSteps, RunAdded(run, at), HistoryTypes',
         run.began = clock, run.pinned = FALSE, run.whole = TRUE, at # "sync",
         at = "running" => run.status = "running", run.status = "dry_run_success" => run.dry
  PROVE  Dated' /\ PinsKept' /\ Rowed'
  <1> DEFINE n == Len(runs) + 1
  <1>1. /\ DOMAIN runs' = DOMAIN runs \cup {n} /\ n \notin DOMAIN runs /\ \A r \in DOMAIN runs : r < n
        /\ runs'[n] = run /\ step'[n] = at /\ rows'[n] = History!Row(run)
        /\ \A r \in DOMAIN runs : /\ runs'[r] = runs[r] /\ rows'[r] = rows[r]
                                  /\ step'[r] = step[r] /\ todo'[r] = todo[r]
        /\ kept' = kept \cup {n} /\ UNCHANGED <<clock, pin, safe, crossed>>
        /\ todo'[n] = IF at = "remove" THEN History!OldAfter(runs', kept') ELSE {}
    BY DEF RunAdded
  <1>2. DOMAIN runs = 1 .. Len(runs) /\ Len(runs) \in Nat /\ n \in Nat /\ clock \in Nat
    BY RunDomains DEF HistoryInv, HistoryTypes
  <1> HIDE DEF n
  <1>3. Dated'
    <2>1. \A r \in DOMAIN runs' : /\ runs'[r].began <= clock
                                  /\ step'[r] = "running" => runs'[r].status = "running"
                                  /\ runs'[r].status = "dry_run_success" => runs'[r].dry
      <3> TAKE r \in DOMAIN runs'
      <3>1. CASE r = n
        BY <1>1, <1>2, <3>1
      <3>2. CASE r \in DOMAIN runs
        BY <1>1, <3>2 DEF HistoryInv, Dated
      <3> QED BY <1>1, <3>1, <3>2
    <2>2. ASSUME NEW r \in DOMAIN runs', NEW s \in DOMAIN runs', r < s
          PROVE runs'[r].began <= runs'[s].began
      <3>1. r \in DOMAIN runs
        BY <1>1, <1>2, <2>2
      <3>2. CASE s = n
        BY <1>1, <3>1, <3>2 DEF HistoryInv, Dated
      <3>3. CASE s \in DOMAIN runs
        BY <1>1, <2>2, <3>1, <3>3 DEF HistoryInv, Dated
      <3> QED BY <1>1, <3>2, <3>3
    <2> QED BY <1>1, <2>1, <2>2 DEF Dated
  <1>4. PinsKept'
    <2>1. ASSUME NEW r \in safe
          PROVE /\ r \in DOMAIN runs' /\ runs'[r].pinned = TRUE /\ r \in kept'
                /\ \A s \in DOMAIN runs' : r \notin todo'[s]
      <3>1. /\ r \in DOMAIN runs /\ runs[r].pinned = TRUE /\ r \in kept
            /\ \A s \in DOMAIN runs : r \notin todo[s]
        BY <2>1 DEF HistoryInv, PinsKept
      <3>2. runs'[r].pinned = TRUE
        BY <1>1, <3>1
      <3>3. r \notin todo'[n]
        BY <1>1, <3>2 DEF History!OldAfter, History!Unpinned
      <3> QED BY <1>1, <3>1, <3>2, <3>3
    <2>2. ASSUME NEW r \in DOMAIN runs' PROVE runs'[r].whole = TRUE \/ r \in crossed'
      <3>1. CASE r = n
        BY <1>1, <3>1
      <3>2. CASE r \in DOMAIN runs
        BY <1>1, <3>2 DEF HistoryInv, PinsKept
      <3> QED BY <1>1, <3>1, <3>2
    <2>3. ASSUME NEW r \in DOMAIN runs' PROVE todo'[r] \subseteq DOMAIN runs'
      <3>1. CASE r = n
        <4>1. kept' \subseteq DOMAIN runs'
          BY DEF HistoryTypes
        <4> QED BY <1>1, <3>1, <4>1 DEF History!OldAfter, History!Unpinned
      <3>2. CASE r \in DOMAIN runs
        BY <1>1, <3>2 DEF HistoryInv, PinsKept
      <3> QED BY <1>1, <3>1, <3>2
    <2> QED BY <1>1, <2>1, <2>2, <2>3 DEF PinsKept
  <1>5. Rowed'
    <2>1. ASSUME NEW r \in DOMAIN runs', r \notin crossed', step'[r] # "sync", pin'.run # r
          PROVE rows'[r] = IF r \in kept' THEN History!Row(runs'[r]) ELSE History!NoRow
      <3>1. CASE r = n
        BY <1>1, <3>1
      <3>2. CASE r \in DOMAIN runs
        BY <1>1, <2>1, <3>2 DEF HistoryInv, Rowed
      <3> QED BY <1>1, <3>1, <3>2
    <2>2. ASSUME NEW r \in DOMAIN runs'
          PROVE /\ step'[r] = "running" => r \in kept'
                /\ step'[r] = "sync" /\ r \notin crossed' => r \in kept'
      <3>1. CASE r = n
        BY <1>1, <3>1
      <3>2. CASE r \in DOMAIN runs
        BY <1>1, <2>2, <3>2 DEF HistoryInv, Rowed
      <3> QED BY <1>1, <3>1, <3>2
    <2>3. pin'.at = "sync" => /\ runs'[pin'.run].pinned = TRUE
                              /\ pin'.run \in crossed' \/ pin'.run \in kept'
      <3> SUFFICES ASSUME pin.at = "sync"
                   PROVE  /\ runs'[pin.run].pinned = TRUE
                          /\ pin.run \in crossed \/ pin.run \in kept'
        BY <1>1
      <3>1. pin.run \in DOMAIN runs
        BY DEF HistoryInv, HistoryTypes
      <3> QED BY <1>1, <3>1 DEF HistoryInv, Rowed
    <2> QED BY <2>1, <2>2, <2>3 DEF Rowed
  <1> QED BY <1>3, <1>4, <1>5

\* As the runs go on: new ones come after the others, and of an old one only
\* the outcome, the pin and whether it is whole may change.
Aged ==
  /\ DOMAIN runs \subseteq DOMAIN runs' /\ clock <= clock'
  /\ \A n \in DOMAIN runs' : n \notin DOMAIN runs => \A r \in DOMAIN runs : r < n
  /\ \A r \in DOMAIN runs :
       /\ runs'[r].began = runs[r].began /\ runs'[r].dry = runs[r].dry
       /\ runs'[r].anchor = runs[r].anchor
       /\ runs'[r].seen = runs[r].seen /\ runs'[r].blind = runs[r].blind
       /\ \/ runs'[r].status = runs[r].status
          \/ runs[r].status = "running" /\ runs'[r].status \in {"success", "failed"}

\* What FiresSpaced says of one fire.
Spread(r) ==
  \/ Before(r) = {}
  \/ runs[r].began >= runs[History!Newest(Before(r))].began + Cooldown
  \/ runs[r].seen < History!Newest(Before(r)) \/ runs[r].blind

LEMMA SpreadAll == History!FiresSpaced <=> \A r \in History!Fires : Spread(r)
  BY DEF History!FiresSpaced, Spread, Before

\* Growing older changes nothing of what was measured before.
LEMMA AgedKeeps ==
  ASSUME Cooldown \in Nat, HistoryInv, HistoryTypes', Aged
  PROVE  /\ \A r \in DOMAIN runs : r \in History!Fires <=> r \in History!Fires'
         /\ \A r \in History!Fires : Spread(r)'
         /\ \A r \in DOMAIN runs : Anchored(r)'
         /\ \A a \in Admissions : Spaced(a) => Spaced(a)'
  <1>1. \A r \in DOMAIN runs : r \in DOMAIN runs' /\ (r \in History!Fires <=> r \in History!Fires')
    BY DEF Aged, History!Fires, History!Runs
  <1>2. History!Fires \subseteq DOMAIN runs
    BY DEF History!Fires, History!Runs
  <1>3. DOMAIN runs = 1 .. Len(runs) /\ Len(runs) \in Nat
    BY RunDomains DEF HistoryInv
  <1>4. ASSUME NEW r \in History!Fires PROVE Spread(r)'
    <2>1. Before(r)' = Before(r)
      <3>1. ASSUME NEW s, s \in Before(r)' PROVE s \in Before(r)
        <4>1. s \in History!Fires' /\ s < r /\ s \in DOMAIN runs'
          BY <3>1 DEF Before, History!Fires, History!Runs
        <4>2. DOMAIN runs' = 1 .. Len(runs') /\ Len(runs') \in Nat
          BY DEF HistoryTypes
        <4>3. s \in DOMAIN runs
          <5>1. s \notin DOMAIN runs => r < s
            BY <1>2, <4>1 DEF Aged
          <5> QED BY <1>2, <1>3, <4>1, <4>2, <5>1
        <4> QED BY <1>1, <4>1, <4>3 DEF Before
      <3>2. ASSUME NEW s, s \in Before(r) PROVE s \in Before(r)'
        BY <1>1, <1>2, <3>2 DEF Before
      <3> QED BY <3>1, <3>2
    <2>2. Before(r) \subseteq DOMAIN runs
      BY <1>2 DEF Before
    <2>3. Spread(r)
      BY SpreadAll DEF HistoryInv, Spacing
    <2> DEFINE t == History!Newest(Before(r))
    <2>4. t' = t
      BY <2>1 DEF History!Newest, History!Max
    <2>5. Before(r) # {} => t \in DOMAIN runs
      BY <2>2, NewestOf DEF HistoryInv
    <2>6. \/ Before(r) = {} \/ runs[r].began >= runs[t].began + Cooldown
          \/ runs[r].seen < t \/ runs[r].blind
      BY <2>3 DEF Spread
    <2> HIDE DEF t
    <2>7. \/ Before(r)' = {} \/ runs'[r].began >= runs'[t'].began + Cooldown
          \/ runs'[r].seen < t' \/ runs'[r].blind
      BY <1>2, <2>1, <2>4, <2>5, <2>6 DEF Aged
    <2> QED BY <2>7 DEF Spread, t
  <1>5. ASSUME NEW r \in DOMAIN runs PROVE Anchored(r)'
    <2> SUFFICES ASSUME runs'[r].status = "skipped"
                 PROVE  /\ runs'[r].anchor \in DOMAIN runs'
                        /\ runs'[runs'[r].anchor].status \notin History!NotFires
      BY DEF Anchored
    <2>1. runs[r].status = "skipped" /\ runs'[r].anchor = runs[r].anchor
      BY DEF Aged
    <2>2. runs[r].anchor \in DOMAIN runs /\ runs[runs[r].anchor].status \notin History!NotFires
      BY <2>1 DEF HistoryInv, Spacing, Anchored
    <2> QED BY <2>1, <2>2 DEF Aged, History!NotFires
  <1>6. ASSUME NEW a \in Admissions, Spaced(a) PROVE Spaced(a)'
    <2>1. a.seen = 0 \/ (a.seen \in History!Fires /\ a.seen \in DOMAIN runs /\ a.seen \in History!Fires')
      BY <1>1, <1>2, <1>6 DEF Spaced
    <2>2. clock \in Nat /\ clock' \in Nat /\ \A r \in DOMAIN runs : runs[r].began \in Nat
      <3>1. \A r \in DOMAIN runs : runs[r] \in RunRecords
        BY DEF HistoryInv, HistoryTypes
      <3> QED BY <3>1 DEF HistoryInv, HistoryTypes, RunRecords
    <2>3. a.blind \/ a.seen = 0 \/ clock >= runs[a.seen].began + Cooldown
      BY <1>6 DEF Spaced
    <2>4. a.blind \/ a.seen = 0 \/ clock' >= runs'[a.seen].began + Cooldown
      BY <2>1, <2>2, <2>3 DEF Aged
    <2> QED BY <2>1, <2>4 DEF Spaced
  <1> QED BY <1>1, <1>4, <1>5, <1>6

\* A step that makes no run keeps the spacing.
LEMMA AgedSpacing ==
  ASSUME Cooldown \in Nat, HistoryInv, HistoryTypes', Aged, DOMAIN runs' = DOMAIN runs,
         admitted' = admitted
  PROVE  Spacing'
  <1>1. History!Fires' = History!Fires
    <2>1. History!Fires' \subseteq DOMAIN runs /\ History!Fires \subseteq DOMAIN runs
      BY DEF History!Fires, History!Runs
    <2> QED BY <2>1, AgedKeeps
  <1>2. \A r \in History!Fires' : Spread(r)'
    BY <1>1, AgedKeeps
  <1>3. History!FiresSpaced'
    BY <1>2, SpreadAll DEF History!FiresSpaced, Spread, Before
  <1>4. admitted \in Seq(Admissions) /\ \A i \in DOMAIN admitted : admitted[i] \in Admissions /\ Spaced(admitted[i])
    BY DEF HistoryInv, Spacing
  <1>5. \A i \in DOMAIN admitted' : Spaced(admitted[i])'
    <2> SUFFICES ASSUME NEW i \in DOMAIN admitted PROVE Spaced(admitted[i])'
      OBVIOUS
    <2>1. PICK a \in Admissions : a = admitted[i] /\ Spaced(a)
      BY <1>4
    <2>2. Spaced(a)' /\ a = admitted'[i]
      BY <2>1, AgedKeeps
    <2> QED BY <2>2 DEF Spaced
  <1>6. \A r \in DOMAIN runs' : Anchored(r)'
    BY AgedKeeps
  <1> QED BY <1>3, <1>4, <1>5, <1>6 DEF Spacing

\* What a step that adds a run has to show of that run for the spacing to hold.
LEMMA AddedSpacing ==
  ASSUME Cooldown \in Nat, HistoryInv, HistoryTypes', NEW run \in RunRecords, NEW at \in RunSteps,
         RunAdded(run, at), run.began = clock,
         admitted' \in Seq(Admissions),
         \A i \in DOMAIN admitted' : \E a \in Admissions : a = admitted'[i] /\ Spaced(a),
         run.status = "skipped" =>
           run.anchor \in DOMAIN runs /\ runs[run.anchor].status \notin History!NotFires,
         \/ run.dry \/ run.status = "skipped"
         \/ \E a \in Admissions : Spaced(a) /\ run.seen = a.seen /\ run.blind = a.blind
  PROVE  Spacing'
  <1>0. PICK n : n = Len(runs) + 1
    OBVIOUS
  <1>1. /\ DOMAIN runs' = DOMAIN runs \cup {n} /\ n \notin DOMAIN runs /\ \A r \in DOMAIN runs : r < n
        /\ runs'[n] = run /\ \A r \in DOMAIN runs : runs'[r] = runs[r]
        /\ clock' = clock
    BY <1>0 DEF RunAdded
  <1>2. DOMAIN runs = 1 .. Len(runs) /\ Len(runs) \in Nat /\ n \in Nat /\ clock \in Nat
    BY <1>0, RunDomains DEF HistoryInv, HistoryTypes
  <1>3. Aged
    BY <1>1, <1>2 DEF Aged
  <1>4. History!Fires \subseteq DOMAIN runs
    BY DEF History!Fires, History!Runs
  <1>5. n \in History!Fires' => Spread(n)'
    <2> SUFFICES ASSUME n \in History!Fires' PROVE Spread(n)'
      OBVIOUS
    <2>1. run.dry = FALSE /\ run.status # "skipped"
      <3>1. ~run.dry /\ run.status # "skipped"
        BY <1>1 DEF History!Fires, History!Runs
      <3>2. run.dry \in BOOLEAN
        BY DEF RunRecords
      <3> QED BY <3>1, <3>2
    <2>2. PICK a \in Admissions : Spaced(a) /\ run.seen = a.seen /\ run.blind = a.blind
      BY <2>1
    <2>3. Before(n)' = History!Fires
      <3>1. ASSUME NEW s, s \in Before(n)' PROVE s \in History!Fires
        <4>1. s \in History!Fires' /\ s \in DOMAIN runs' /\ s < n
          BY <3>1 DEF Before, History!Fires, History!Runs
        <4>2. s # n
          BY <1>2, <4>1
        <4> QED BY <1>1, <1>3, <4>1, <4>2, AgedKeeps
      <3>2. ASSUME NEW s, s \in History!Fires PROVE s \in Before(n)'
        <4>1. s \in DOMAIN runs /\ s < n
          BY <1>1, <1>4, <3>2
        <4>2. s \in History!Fires'
          BY <1>3, <3>2, <4>1, AgedKeeps
        <4> QED BY <4>1, <4>2 DEF Before
      <3> QED BY <3>1, <3>2
    <2> DEFINE t == History!Newest(History!Fires)
    <2>4. History!Newest(Before(n)') = t
      BY <2>3
    <2>5. History!Fires # {} => t \in History!Fires /\ t \in DOMAIN runs /\ t # 0
                               /\ \A r \in History!Fires : r <= t
      BY <1>4, NewestOf DEF HistoryInv
    <2> HIDE DEF t
    <2>6. CASE History!Fires = {}
      BY <2>3, <2>6 DEF Spread
    <2>7. CASE History!Fires # {} /\ a.seen # t
      <3>1. a.seen < t
        <4>1. a.seen = 0 \/ (a.seen \in DOMAIN runs /\ a.seen <= t)
          BY <1>4, <2>2, <2>5, <2>7 DEF Spaced
        <4> QED BY <1>2, <2>5, <2>7, <4>1
      <3>2. runs'[n].seen < History!Newest(Before(n)')
        BY <1>1, <2>2, <2>4, <3>1
      <3> QED BY <3>2 DEF Spread
    <2>8. CASE History!Fires # {} /\ a.seen = t
      <3>1. a.blind \/ clock >= runs[t].began + Cooldown
        BY <2>2, <2>5, <2>8 DEF Spaced
      <3>2. runs'[n].blind \/ runs'[n].began >= runs'[History!Newest(Before(n)')].began + Cooldown
        BY <1>1, <2>2, <2>4, <2>5, <2>8, <3>1
      <3> QED BY <3>2 DEF Spread
    <2> QED BY <2>6, <2>7, <2>8
  <1>6. History!FiresSpaced'
    <2>1. ASSUME NEW r \in History!Fires' PROVE Spread(r)'
      <3>1. r \in DOMAIN runs'
        BY DEF History!Fires, History!Runs
      <3>2. CASE r = n
        BY <1>5, <3>2
      <3>3. CASE r \in DOMAIN runs
        BY <1>3, <3>3, AgedKeeps
      <3> QED BY <1>1, <3>1, <3>2, <3>3
    <2> QED BY <2>1 DEF History!FiresSpaced, Spread, Before
  <1>7. ASSUME NEW r \in DOMAIN runs' PROVE Anchored(r)'
    <2>1. CASE r = n
      BY <1>1, <2>1 DEF Anchored
    <2>2. CASE r \in DOMAIN runs
      BY <1>3, <2>2, AgedKeeps
    <2> QED BY <1>1, <2>1, <2>2
  <1>8. ASSUME NEW i \in DOMAIN admitted' PROVE Spaced(admitted[i])'
    <2>1. PICK a \in Admissions : a = admitted'[i] /\ Spaced(a)
      OBVIOUS
    <2>2. Spaced(a)' /\ a = admitted'[i]
      BY <1>3, <2>1, AgedKeeps
    <2> QED BY <2>2 DEF Spaced
  <1> QED BY <1>6, <1>7, <1>8 DEF Spacing

LEMMA RunIsRecord ==
  ASSUME HistoryTypes, NEW result \in RunStatuses, NEW dry \in BOOLEAN
  PROVE  /\ History!Run(result, dry) \in RunRecords
         /\ History!Run(result, dry).began = clock /\ History!Run(result, dry).status = result
         /\ History!Run(result, dry).dry = dry /\ History!Run(result, dry).pinned = FALSE
         /\ History!Run(result, dry).whole = TRUE
  <1>1. clock \in Nat
    BY DEF HistoryTypes
  <1> QED BY <1>1 DEF History!Run, RunRecords

\* The fires past the check that are still to make their directory.
LEMMA AdmittedSpaced ==
  ASSUME HistoryInv
  PROVE  /\ admitted \in Seq(Admissions)
         /\ \A i \in DOMAIN admitted : admitted[i] \in Admissions /\ Spaced(admitted[i])
  BY DEF HistoryInv, Spacing

LEMMA CreateKeeps ==
  ASSUME Cooldown \in Nat, HistoryInv, History!Create
  PROVE  HistoryInv'
  <1>1. /\ admitted # << >> /\ admitted' = Tail(admitted)
        /\ History!Make([History!Run("running", FALSE) EXCEPT !.seen = Head(admitted).seen,
                                                              !.blind = Head(admitted).blind],
                        "running")
    BY DEF History!Create
  <1>2. PICK a \in Admissions : a = Head(admitted) /\ Spaced(a)
    <2>1. admitted \in Seq(Admissions) /\ 1 \in DOMAIN admitted /\ Head(admitted) = admitted[1]
      BY <1>1, AdmittedSpaced
    <2> QED BY <2>1, AdmittedSpaced
  <1>3. PICK plain \in RunRecords : plain = History!Run("running", FALSE)
    BY RunIsRecord DEF HistoryInv, RunStatuses
  <1>4. plain.began = clock /\ plain.status = "running" /\ plain.dry = FALSE
        /\ plain.pinned = FALSE /\ plain.whole = TRUE
    BY <1>3, RunIsRecord DEF HistoryInv, RunStatuses
  <1>5. PICK run : run = [plain EXCEPT !.seen = a.seen, !.blind = a.blind]
    OBVIOUS
  <1>6. /\ run \in RunRecords /\ run.seen = a.seen /\ run.blind = a.blind
        /\ run.began = clock /\ run.status = "running" /\ run.pinned = FALSE /\ run.whole = TRUE
    <2>1. a.seen \in Nat /\ a.blind \in BOOLEAN
      BY DEF Admissions
    <2> QED BY <1>4, <1>5, <2>1 DEF RunRecords
  <1>7. History!Make(run, "running")
    BY <1>1, <1>2, <1>3, <1>5
  <1>8. HistoryTypes' /\ RunAdded(run, "running")
    BY <1>6, <1>7, MakeAdds DEF HistoryInv, RunSteps
  <1>9. Dated' /\ PinsKept' /\ Rowed'
    <2>1. "running" \in RunSteps
      BY DEF RunSteps
    <2> QED BY <1>6, <1>8, <2>1, AddedKeeps
  <1>10. Spacing'
    <2>1. admitted' \in Seq(Admissions)
          /\ \A i \in DOMAIN admitted' : i + 1 \in DOMAIN admitted /\ admitted'[i] = admitted[i + 1]
      BY <1>1, AdmittedSpaced
    <2>2. \A i \in DOMAIN admitted' : \E b \in Admissions : b = admitted'[i] /\ Spaced(b)
      <3> TAKE i \in DOMAIN admitted'
      <3>1. i + 1 \in DOMAIN admitted /\ admitted'[i] = admitted[i + 1]
        BY <2>1
      <3> QED BY <3>1, AdmittedSpaced
    <2>3. "running" \in RunSteps
      BY DEF RunSteps
    <2>4. run.status # "skipped"
      BY <1>6
    <2> QED BY <1>2, <1>6, <1>8, <2>1, <2>2, <2>3, <2>4, AddedSpacing
  <1> QED BY <1>8, <1>9, <1>10 DEF HistoryInv

\* The runs nobody fires: they are no fires, and a skip is measured from one that began.
LEMMA UnfiredKeeps ==
  ASSUME Cooldown \in Nat, HistoryInv, NEW run \in RunRecords, NEW at \in RunSteps,
         History!Make(run, at), admitted' = admitted,
         run.began = clock, run.pinned = FALSE, run.whole = TRUE, at # "sync",
         at = "running" => run.status = "running", run.status = "dry_run_success" => run.dry,
         run.dry \/ run.status = "skipped",
         run.status = "skipped" =>
           run.anchor \in DOMAIN runs /\ runs[run.anchor].status \notin History!NotFires
  PROVE  HistoryInv'
  <1>1. HistoryTypes' /\ RunAdded(run, at)
    BY MakeAdds DEF HistoryInv
  <1>2. Dated' /\ PinsKept' /\ Rowed'
    BY <1>1, AddedKeeps
  <1>3. admitted' \in Seq(Admissions)
        /\ \A i \in DOMAIN admitted' : \E b \in Admissions : b = admitted'[i] /\ Spaced(b)
    BY AdmittedSpaced
  <1>4. Spacing'
    BY <1>1, <1>3, AddedSpacing
  <1> QED BY <1>1, <1>2, <1>4 DEF HistoryInv

\* The newest run that began, of those on record.
LEMMA AnchorOf ==
  ASSUME HistoryInv
  PROVE  /\ History!Anchor(kept) # 0 =>
              History!Anchor(kept) \in kept
              /\ runs[History!Anchor(kept)].status \notin History!NotFires
         /\ \A r \in kept : runs[r].status \notin History!NotFires =>
              History!Anchor(kept) # 0 /\ r <= History!Anchor(kept)
  <1> DEFINE since == {r \in kept : runs[r].status \notin History!NotFires}
  <1>1. History!Anchor(kept) = History!Newest(since)
    BY DEF History!Anchor
  <1>2. since \subseteq DOMAIN runs
    BY DEF HistoryInv, HistoryTypes
  <1>3. /\ since = {} => History!Newest(since) = 0
        /\ since # {} => History!Newest(since) \in since /\ History!Newest(since) # 0
                         /\ \A r \in since : r <= History!Newest(since)
    <2> HIDE DEF since
    <2> QED BY <1>2, NewestOf DEF HistoryInv
  <1> QED BY <1>1, <1>3

LEMMA SkipKeeps ==
  ASSUME Cooldown \in Nat, HistoryInv, History!Skip
  PROVE  HistoryInv'
  <1>1. /\ History!Anchor(kept) # 0 /\ admitted' = admitted
        /\ History!Make([History!Run("skipped", FALSE) EXCEPT !.anchor = History!Anchor(kept)], "remove")
    BY DEF History!Skip, History!Cooling
  <1>2. PICK plain \in RunRecords : plain = History!Run("skipped", FALSE)
    BY RunIsRecord DEF HistoryInv, RunStatuses
  <1>3. plain.began = clock /\ plain.status = "skipped" /\ plain.pinned = FALSE /\ plain.whole = TRUE
    BY <1>2, RunIsRecord DEF HistoryInv, RunStatuses
  <1>4. PICK s \in Nat : s = History!Anchor(kept) /\ s \in DOMAIN runs /\ runs[s].status \notin History!NotFires
    <2>1. History!Anchor(kept) \in DOMAIN runs
      BY <1>1, AnchorOf DEF HistoryInv, HistoryTypes
    <2>2. History!Anchor(kept) \in Nat
      BY <2>1, RunDomains DEF HistoryInv
    <2> QED BY <1>1, <2>1, <2>2, AnchorOf
  <1>5. PICK run : run = [plain EXCEPT !.anchor = s]
    OBVIOUS
  <1>6. /\ run \in RunRecords /\ run.anchor = s
        /\ run.began = clock /\ run.status = "skipped" /\ run.pinned = FALSE /\ run.whole = TRUE
    BY <1>3, <1>5 DEF RunRecords
  <1>7. History!Make(run, "remove")
    BY <1>1, <1>2, <1>4, <1>5
  <1>8. "remove" \in RunSteps /\ "remove" # "running" /\ "remove" # "sync"
        /\ run.status # "dry_run_success"
    BY <1>6 DEF RunSteps
  <1> QED BY <1>1, <1>4, <1>6, <1>7, <1>8, UnfiredKeeps

LEMMA DryKeeps ==
  ASSUME Cooldown \in Nat, HistoryInv, History!DryCheck \/ History!DryExecute
  PROVE  HistoryInv'
  <1>1. CASE History!DryCheck
    <2>1. History!Make(History!Run("dry_run_success", TRUE), "done") /\ admitted' = admitted
      BY <1>1 DEF History!DryCheck
    <2>2. PICK run \in RunRecords : run = History!Run("dry_run_success", TRUE)
      BY RunIsRecord DEF HistoryInv, RunStatuses
    <2>3. run.began = clock /\ run.status = "dry_run_success" /\ run.dry = TRUE
          /\ run.pinned = FALSE /\ run.whole = TRUE
      BY <2>2, RunIsRecord DEF HistoryInv, RunStatuses
    <2>4. History!Make(run, "done") /\ run.status # "skipped"
      BY <2>1, <2>2, <2>3
    <2>5. "done" \in RunSteps /\ "done" # "running" /\ "done" # "sync"
      BY DEF RunSteps
    <2> QED BY <2>1, <2>3, <2>4, <2>5, UnfiredKeeps
  <1>2. CASE History!DryExecute
    <2>1. History!Make(History!Run("running", TRUE), "running") /\ admitted' = admitted
      BY <1>2 DEF History!DryExecute
    <2>2. PICK run \in RunRecords : run = History!Run("running", TRUE)
      BY RunIsRecord DEF HistoryInv, RunStatuses
    <2>3. run.began = clock /\ run.status = "running" /\ run.dry = TRUE
          /\ run.pinned = FALSE /\ run.whole = TRUE
      BY <2>2, RunIsRecord DEF HistoryInv, RunStatuses
    <2>4. History!Make(run, "running") /\ run.status # "skipped" /\ run.status # "dry_run_success"
      BY <2>1, <2>2, <2>3
    <2>5. "running" \in RunSteps /\ "running" # "sync"
      BY DEF RunSteps
    <2> QED BY <2>1, <2>3, <2>4, <2>5, UnfiredKeeps
  <1> QED BY <1>1, <1>2

LEMMA AdmitKeeps ==
  ASSUME Cooldown \in Nat, HistoryInv, History!Admit
  PROVE  HistoryInv'
  <1> DEFINE t == History!Newest(History!Fires)
             blind == History!Fires # {} /\ t \notin kept
  <1>1. /\ ~History!Cooling /\ admitted' = Append(admitted, [seen |-> t, blind |-> blind])
        /\ UNCHANGED <<clock, keep, runs, kept, rows, step, todo, pin, pins, told, calm, safe, crossed>>
    BY DEF History!Admit
  <1>2. HistoryTypes' /\ Dated' /\ PinsKept' /\ Rowed'
    BY <1>1 DEF HistoryInv, HistoryTypes, Dated, PinsKept, Rowed
  <1>3. History!Fires \subseteq DOMAIN runs /\ DOMAIN runs = 1 .. Len(runs) /\ Len(runs) \in Nat
    BY RunDomains DEF HistoryInv, History!Fires, History!Runs
  <1>4. (History!Fires = {} /\ t = 0) \/ (History!Fires # {} /\ t \in History!Fires /\ t \in DOMAIN runs)
    BY <1>3, NewestOf DEF HistoryInv
  <1>5. PICK a \in Admissions : a = [seen |-> t, blind |-> blind]
    <2>1. t \in Nat
      BY <1>3, <1>4
    <2>2. blind \in BOOLEAN
      OBVIOUS
    <2> HIDE DEF t, blind
    <2> QED BY <2>1, <2>2 DEF Admissions
  <1>6. Spaced(a)
    <2>1. CASE History!Fires = {}
      BY <1>4, <1>5, <2>1 DEF Spaced
    <2>2. CASE History!Fires # {} /\ t \notin kept
      <3>1. a.blind = TRUE
        BY <1>5, <2>2
      <3> QED BY <1>4, <1>5, <2>2, <3>1 DEF Spaced
    <2>3. CASE History!Fires # {} /\ t \in kept
      <3>1. a.seen = t /\ t \in History!Fires /\ t \in DOMAIN runs
        BY <1>4, <1>5, <2>3
      <3> HIDE DEF t
      <3>2. /\ ~runs[t].dry /\ runs[t].status # "skipped" /\ runs[t] \in RunRecords
        BY <3>1 DEF HistoryInv, HistoryTypes, History!Fires
      <3>3. runs[t].status # "dry_run_success"
        BY <3>1, <3>2 DEF HistoryInv, Dated
      <3>4. runs[t].status \notin History!NotFires
        BY <3>2, <3>3 DEF RunRecords, RunStatuses, History!NotFires
      <3>5. PICK s : s = History!Anchor(kept)
        OBVIOUS
      <3>6. s # 0 /\ t <= s /\ s \in kept /\ s \in DOMAIN runs
        BY <2>3, <3>4, <3>5, AnchorOf DEF HistoryInv, HistoryTypes
      <3>7. ~(clock < runs[s].began + Cooldown)
        BY <1>1, <3>5, <3>6 DEF History!Cooling
      <3>8. runs[t].began <= runs[s].began
        <4>1. CASE t = s
          <5>1. runs[s] \in RunRecords
            BY <3>6 DEF HistoryInv, HistoryTypes
          <5> QED BY <4>1, <5>1 DEF RunRecords
        <4>2. CASE t < s
          BY <3>1, <3>6, <4>2 DEF HistoryInv, Dated
        <4> QED BY <1>3, <3>1, <3>6, <4>1, <4>2
      <3>9. clock \in Nat /\ runs[s].began \in Nat /\ runs[t].began \in Nat
        <4>1. runs[s] \in RunRecords /\ clock \in Nat
          BY <3>6 DEF HistoryInv, HistoryTypes
        <4> QED BY <3>2, <4>1 DEF RunRecords
      <3>10. clock >= runs[t].began + Cooldown
        BY <3>7, <3>8, <3>9
      <3> QED BY <3>1, <3>10 DEF Spaced
    <2> QED BY <2>1, <2>2, <2>3
  <1>7. admitted' = Append(admitted, a)
    BY <1>1, <1>5
  <1>8. /\ admitted' \in Seq(Admissions)
        /\ \A i \in DOMAIN admitted' : admitted'[i] \in Admissions /\ Spaced(admitted'[i])
    <2>1. /\ admitted' \in Seq(Admissions) /\ admitted'[Len(admitted) + 1] = a
          /\ DOMAIN admitted' = (DOMAIN admitted) \cup {Len(admitted) + 1}
          /\ \A i \in DOMAIN admitted : admitted'[i] = admitted[i]
      BY <1>7, AdmittedSpaced, AppendFacts
    <2> QED BY <1>6, <2>1, AdmittedSpaced
  <1>9. Spacing'
    <2>1. /\ History!FiresSpaced /\ \A r \in DOMAIN runs : Anchored(r)
      BY DEF HistoryInv, Spacing
    <2>2. History!FiresSpaced' /\ \A r \in DOMAIN runs' : Anchored(r)'
      BY <1>1, <2>1 DEF History!FiresSpaced, History!Fires, History!Runs, History!Newest,
                        History!Max, Anchored
    <2>3. \A i \in DOMAIN admitted' : Spaced(admitted[i])'
      <3> SUFFICES ASSUME NEW i \in DOMAIN admitted' PROVE Spaced(admitted[i])'
        OBVIOUS
      <3>1. Spaced(admitted'[i])
        BY <1>8
      <3> QED BY <1>1, <3>1 DEF Spaced, History!Fires, History!Runs
    <2> QED BY <1>8, <2>2, <2>3 DEF Spacing
  <1> QED BY <1>2, <1>9 DEF HistoryInv

LEMMA TickKeeps ==
  ASSUME Cooldown \in Nat, HistoryInv, History!Tick
  PROVE  HistoryInv'
  <1>1. /\ clock' = clock + 1 /\ admitted' = admitted
        /\ UNCHANGED <<runs, kept, rows, step, todo, pin, safe, crossed>>
    BY DEF History!Tick
  <1>2. HistoryTypes' /\ PinsKept' /\ Rowed'
    BY <1>1 DEF HistoryInv, HistoryTypes, PinsKept, Rowed
  <1>3. clock \in Nat /\ \A r \in DOMAIN runs : runs[r].began \in Nat
    <2>1. clock \in Nat /\ \A r \in DOMAIN runs : runs[r] \in RunRecords
      BY DEF HistoryInv, HistoryTypes
    <2> QED BY <2>1 DEF RunRecords
  <1>4. Dated'
    BY <1>1, <1>3 DEF HistoryInv, Dated
  <1>5. Aged
    BY <1>1, <1>3 DEF Aged
  <1>6. Spacing'
    BY <1>1, <1>2, <1>5, AgedSpacing
  <1> QED BY <1>2, <1>4, <1>6 DEF HistoryInv

\* A step that leaves the records and the clock as they are keeps what they say.
LEMMA RecordsStill ==
  ASSUME Cooldown \in Nat, HistoryInv, HistoryTypes', UNCHANGED <<clock, runs, admitted>>
  PROVE  Spacing'
  <1>1. clock \in Nat
    BY DEF HistoryInv, HistoryTypes
  <1>2. Aged
    BY <1>1 DEF Aged
  <1> QED BY <1>2, AgedSpacing

\* The steps of an executor at the end of its run.
LEMMA FinishKeeps ==
  ASSUME Cooldown \in Nat, HistoryInv, NEW r \in DOMAIN runs, NEW outcome \in {"success", "failed"},
         History!Finish(r, outcome)
  PROVE  HistoryInv'
  <1>1. /\ step[r] = "running" /\ step' = [step EXCEPT ![r] = "sync"]
        /\ runs' = [runs EXCEPT ![r].status = outcome]
        /\ crossed' = IF pin.run = r THEN crossed \cup {r} ELSE crossed
        /\ UNCHANGED <<clock, kept, rows, todo, admitted, pin, safe>>
    BY DEF History!Finish, History!Goes
  <1>2. DOMAIN runs = 1 .. Len(runs) /\ Len(runs) \in Nat /\ DOMAIN step = DOMAIN runs
        /\ Len(step) = Len(runs)
    BY RunDomains DEF HistoryInv, HistoryTypes
  <1>3. PICK run \in RunRecords : run = [runs[r] EXCEPT !.status = outcome]
    <2>1. runs[r] \in RunRecords
      BY DEF HistoryInv, HistoryTypes
    <2> QED BY <2>1 DEF RunRecords, RunStatuses
  <1>4. /\ run.status = outcome /\ run.began = runs[r].began /\ run.dry = runs[r].dry
        /\ run.pinned = runs[r].pinned /\ run.whole = runs[r].whole /\ run.anchor = runs[r].anchor
        /\ run.seen = runs[r].seen /\ run.blind = runs[r].blind
    <2>1. runs[r] \in RunRecords
      BY DEF HistoryInv, HistoryTypes
    <2> QED BY <1>3, <2>1 DEF RunRecords
  <1>5. /\ runs' \in Seq(RunRecords) /\ Len(runs') = Len(runs) /\ DOMAIN runs' = DOMAIN runs
        /\ runs'[r] = run /\ \A s \in DOMAIN runs : s # r => runs'[s] = runs[s]
    <2>1. runs' = [runs EXCEPT ![r] = run] /\ runs \in Seq(RunRecords)
      BY <1>1, <1>3 DEF HistoryInv, HistoryTypes
    <2> QED BY <2>1, ExceptFacts
  <1>6. /\ step' \in Seq(RunSteps) /\ Len(step') = Len(step)
        /\ step'[r] = "sync" /\ \A s \in DOMAIN runs : s # r => step'[s] = step[s]
    <2>1. step \in Seq(RunSteps) /\ "sync" \in RunSteps
      BY DEF HistoryInv, HistoryTypes, RunSteps
    <2> QED BY <1>1, <1>2, <2>1, ExceptFacts
  <1>7. HistoryTypes'
    BY <1>1, <1>5, <1>6 DEF HistoryInv, HistoryTypes
  <1>8. runs[r].status = "running" /\ clock \in Nat
    BY <1>1 DEF HistoryInv, HistoryTypes, Dated
  <1>9. Aged
    BY <1>1, <1>4, <1>5, <1>8 DEF Aged
  <1>10. Spacing'
    BY <1>1, <1>5, <1>7, <1>9, AgedSpacing
  <1>11. Dated'
    <2>1. \A s \in DOMAIN runs : runs'[s].began = runs[s].began
      BY <1>4, <1>5
    <2>2. \A s \in DOMAIN runs' : /\ step'[s] = "running" => runs'[s].status = "running"
                                  /\ runs'[s].status = "dry_run_success" => runs'[s].dry
      BY <1>4, <1>5, <1>6 DEF HistoryInv, Dated
    <2> QED BY <1>1, <1>5, <2>1, <2>2 DEF HistoryInv, Dated
  <1>12. PinsKept'
    BY <1>1, <1>4, <1>5 DEF HistoryInv, PinsKept
  <1>13. Rowed'
    <2>1. \A s \in DOMAIN runs : s # r /\ s \notin crossed' => s \notin crossed
      BY <1>1
    <2>2. ASSUME NEW s \in DOMAIN runs', s \notin crossed', step'[s] # "sync", pin'.run # s
          PROVE rows'[s] = IF s \in kept' THEN History!Row(runs'[s]) ELSE History!NoRow
      BY <1>1, <1>5, <1>6, <2>1, <2>2 DEF HistoryInv, Rowed
    <2>3. ASSUME NEW s \in DOMAIN runs'
          PROVE /\ step'[s] = "running" => s \in kept'
                /\ step'[s] = "sync" /\ s \notin crossed' => s \in kept'
      <3>1. CASE s = r
        BY <1>1, <3>1 DEF HistoryInv, Rowed
      <3>2. CASE s # r
        BY <1>1, <1>5, <1>6, <2>1, <3>2 DEF HistoryInv, Rowed
      <3> QED BY <3>1, <3>2
    <2>4. pin'.at = "sync" => /\ runs'[pin'.run].pinned = TRUE
                              /\ pin'.run \in crossed' \/ pin'.run \in kept'
      <3> SUFFICES ASSUME pin.at = "sync"
                   PROVE  /\ runs'[pin.run].pinned = TRUE
                          /\ pin.run \in crossed' \/ pin.run \in kept
        BY <1>1
      <3>1. pin.run \in DOMAIN runs /\ runs[pin.run].pinned = TRUE
            /\ (pin.run \in crossed \/ pin.run \in kept)
        BY DEF HistoryInv, HistoryTypes, Rowed
      <3> QED BY <1>1, <1>4, <1>5, <3>1
    <2> QED BY <2>2, <2>3, <2>4 DEF Rowed
  <1> QED BY <1>7, <1>10, <1>11, <1>12, <1>13 DEF HistoryInv

\* What a prune puts on its list is on disk and not pinned.
LEMMA OldOnes ==
  ASSUME HistoryInv
  PROVE  /\ History!OldAfter(runs, kept) \in SUBSET Nat
         /\ \A s \in History!OldAfter(runs, kept) : s \in kept /\ runs[s].pinned # TRUE
  <1>1. kept \subseteq Nat
    BY RunDomains DEF HistoryInv, HistoryTypes
  <1> QED BY <1>1 DEF History!OldAfter, History!Unpinned

LEMMA ListOldKeeps ==
  ASSUME Cooldown \in Nat, HistoryInv, NEW r \in DOMAIN runs, History!ListOld(r)
  PROVE  HistoryInv'
  <1>1. /\ step[r] = "sync" /\ step' = [step EXCEPT ![r] = "remove"]
        /\ todo' = [todo EXCEPT ![r] = History!OldAfter(runs, kept)]
        /\ UNCHANGED <<clock, runs, kept, admitted, pin, safe, crossed>>
    BY DEF History!ListOld, History!Goes
  <1>2. DOMAIN runs = 1 .. Len(runs) /\ Len(runs) \in Nat /\ DOMAIN step = DOMAIN runs
        /\ DOMAIN rows = DOMAIN runs /\ DOMAIN todo = DOMAIN runs
        /\ Len(rows) = Len(runs) /\ Len(step) = Len(runs) /\ Len(todo) = Len(runs)
        /\ runs[r] \in RunRecords
    BY RunDomains DEF HistoryInv, HistoryTypes
  <1>3. PICK flag \in {runs[r].pinned} \cup (IF r \in crossed THEN {FALSE} ELSE {}) :
          rows' = [rows EXCEPT ![r] = [status |-> runs[r].status, pinned |-> flag]]
    BY DEF History!ListOld
  <1>4. PICK row : row = [status |-> runs[r].status, pinned |-> flag]
    OBVIOUS
  <1>5. row \in IndexRows /\ (r \notin crossed => row = History!Row(runs[r]))
    BY <1>2, <1>4 DEF IndexRows, RunRecords, History!Row
  <1>6. /\ rows' \in Seq(IndexRows) /\ Len(rows') = Len(rows)
        /\ rows'[r] = row /\ \A s \in DOMAIN runs : s # r => rows'[s] = rows[s]
    <2>1. rows \in Seq(IndexRows) /\ rows' = [rows EXCEPT ![r] = row]
      BY <1>3, <1>4 DEF HistoryInv, HistoryTypes
    <2> QED BY <1>2, <1>5, <2>1, ExceptFacts
  <1>7. /\ step' \in Seq(RunSteps) /\ Len(step') = Len(step)
        /\ step'[r] = "remove" /\ \A s \in DOMAIN runs : s # r => step'[s] = step[s]
    <2>1. step \in Seq(RunSteps) /\ "remove" \in RunSteps
      BY DEF HistoryInv, HistoryTypes, RunSteps
    <2> QED BY <1>1, <1>2, <2>1, ExceptFacts
  <1>8. /\ todo' \in Seq(SUBSET Nat) /\ Len(todo') = Len(todo)
        /\ todo'[r] = History!OldAfter(runs, kept)
        /\ \A s \in DOMAIN runs : s # r => todo'[s] = todo[s]
    <2>1. todo \in Seq(SUBSET Nat)
      BY DEF HistoryInv, HistoryTypes
    <2>2. PICK old \in SUBSET Nat : old = History!OldAfter(runs, kept)
      BY OldOnes
    <2>3. todo' = [todo EXCEPT ![r] = old]
      BY <1>1, <2>2
    <2> QED BY <1>2, <2>1, <2>2, <2>3, ExceptFacts
  <1>9. HistoryTypes'
    BY <1>1, <1>2, <1>6, <1>7, <1>8 DEF HistoryInv, HistoryTypes
  <1>10. Spacing'
    BY <1>1, <1>9, RecordsStill
  <1>11. Dated'
    <2>1. \A s \in DOMAIN runs : step'[s] = "running" => step[s] = "running"
      BY <1>7
    <2> QED BY <1>1, <2>1 DEF HistoryInv, Dated
  <1>12. PinsKept'
    <2>1. ASSUME NEW s \in safe PROVE s \notin todo'[r]
      BY <1>8, OldOnes DEF HistoryInv, PinsKept
    <2>2. \A s \in safe : \A t \in DOMAIN runs : s \notin todo'[t]
      BY <1>8, <2>1 DEF HistoryInv, PinsKept
    <2>3. \A t \in DOMAIN runs : todo'[t] \subseteq DOMAIN runs
      <3>1. todo'[r] \subseteq DOMAIN runs
        BY <1>8, OldOnes DEF HistoryInv, HistoryTypes
      <3> QED BY <1>8, <3>1 DEF HistoryInv, PinsKept
    <2> QED BY <1>1, <2>2, <2>3 DEF HistoryInv, PinsKept
  <1>13. Rowed'
    <2>1. ASSUME NEW s \in DOMAIN runs', s \notin crossed', step'[s] # "sync", pin'.run # s
          PROVE rows'[s] = IF s \in kept' THEN History!Row(runs'[s]) ELSE History!NoRow
      <3>1. CASE s = r
        BY <1>1, <1>5, <1>6, <2>1, <3>1 DEF HistoryInv, Rowed
      <3>2. CASE s # r
        BY <1>1, <1>6, <1>7, <2>1, <3>2 DEF HistoryInv, Rowed
      <3> QED BY <3>1, <3>2
    <2>2. \A s \in DOMAIN runs : /\ step'[s] = "running" => step[s] = "running"
                                 /\ step'[s] = "sync" => step[s] = "sync"
      BY <1>7
    <2> QED BY <1>1, <2>1, <2>2 DEF HistoryInv, Rowed
  <1> QED BY <1>9, <1>10, <1>11, <1>12, <1>13 DEF HistoryInv

LEMMA RemoveOldKeeps ==
  ASSUME Cooldown \in Nat, HistoryInv, NEW r \in DOMAIN runs, History!RemoveOld(r)
  PROVE  HistoryInv'
  <1>1. PICK s : s = History!Newest(todo[r])
    OBVIOUS
  <1>2. /\ todo' = [todo EXCEPT ![r] = @ \ {s}] /\ s # 0
        /\ UNCHANGED <<clock, runs, step, admitted, pin, safe>>
        /\ IF s \notin kept \/ runs[s].status = "running" THEN UNCHANGED <<kept, rows, crossed>>
           ELSE /\ kept' = kept \ {s} /\ rows' = [rows EXCEPT ![s] = History!NoRow]
                /\ crossed' = IF step[s] = "sync" \/ pin.run = s THEN crossed \cup {s} ELSE crossed
    BY <1>1 DEF History!RemoveOld
  <1>3. DOMAIN runs = 1 .. Len(runs) /\ Len(runs) \in Nat /\ DOMAIN step = DOMAIN runs
        /\ DOMAIN rows = DOMAIN runs /\ DOMAIN todo = DOMAIN runs
        /\ Len(rows) = Len(runs) /\ Len(step) = Len(runs) /\ Len(todo) = Len(runs)
    BY RunDomains DEF HistoryInv, HistoryTypes
  <1>4. s \in todo[r] /\ s \in DOMAIN runs
    <2>1. todo[r] \subseteq DOMAIN runs
      BY DEF HistoryInv, PinsKept
    <2>2. todo[r] # {}
      BY <1>1, <1>2 DEF History!Newest
    <2> QED BY <1>1, <2>1, <2>2, NewestOf DEF HistoryInv
  <1>5. /\ todo' \in Seq(SUBSET Nat) /\ Len(todo') = Len(todo)
        /\ \A t \in DOMAIN runs : todo'[t] \subseteq todo[t]
    <2>1. todo \in Seq(SUBSET Nat)
      BY DEF HistoryInv, HistoryTypes
    <2>2. PICK left \in SUBSET Nat : left = todo[r] \ {s}
      <3>1. todo[r] \subseteq Nat
        BY <1>3 DEF HistoryInv, PinsKept
      <3> QED BY <3>1
    <2>3. todo' = [todo EXCEPT ![r] = left]
      BY <1>2, <2>2
    <2>4. /\ todo' \in Seq(SUBSET Nat) /\ Len(todo') = Len(todo) /\ todo'[r] = left
          /\ \A t \in DOMAIN todo : t # r => todo'[t] = todo[t]
      BY <1>3, <2>1, <2>3, ExceptFacts
    <2> QED BY <1>3, <2>2, <2>4
  <1>6. s \notin safe
    BY <1>4 DEF HistoryInv, PinsKept
  <1>7. CASE s \notin kept \/ runs[s].status = "running"
    <2>1. UNCHANGED <<clock, runs, kept, rows, step, admitted, pin, safe, crossed>>
      BY <1>2, <1>7
    <2>2. HistoryTypes' /\ Dated' /\ Rowed'
      BY <1>3, <1>5, <2>1 DEF HistoryInv, HistoryTypes, Dated, Rowed
    <2>3. PinsKept'
      BY <1>5, <2>1 DEF HistoryInv, PinsKept
    <2>4. Spacing'
      BY <2>1, <2>2, RecordsStill
    <2> QED BY <2>2, <2>3, <2>4 DEF HistoryInv
  <1>8. CASE s \in kept /\ runs[s].status # "running"
    <2>1. /\ kept' = kept \ {s} /\ rows' = [rows EXCEPT ![s] = History!NoRow]
          /\ crossed' = IF step[s] = "sync" \/ pin.run = s THEN crossed \cup {s} ELSE crossed
          /\ UNCHANGED <<clock, runs, step, admitted, pin, safe>>
      BY <1>2, <1>8
    <2>2. /\ rows' \in Seq(IndexRows) /\ Len(rows') = Len(rows) /\ rows'[s] = History!NoRow
          /\ \A t \in DOMAIN runs : t # s => rows'[t] = rows[t]
      <3>1. rows \in Seq(IndexRows) /\ History!NoRow \in IndexRows
        BY DEF HistoryInv, HistoryTypes, History!NoRow, IndexRows
      <3> QED BY <1>3, <1>4, <2>1, <3>1, ExceptFacts
    <2>3. HistoryTypes'
      BY <1>3, <1>5, <2>1, <2>2 DEF HistoryInv, HistoryTypes
    <2>4. Dated'
      BY <2>1 DEF HistoryInv, Dated
    <2>5. Spacing'
      BY <2>1, <2>3, RecordsStill
    <2>6. PinsKept'
      BY <1>5, <1>6, <2>1 DEF HistoryInv, PinsKept
    <2>7. Rowed'
      <3>1. ASSUME NEW t \in DOMAIN runs', t \notin crossed', step'[t] # "sync", pin'.run # t
            PROVE rows'[t] = IF t \in kept' THEN History!Row(runs'[t]) ELSE History!NoRow
        <4>1. CASE t = s
          BY <2>1, <2>2, <4>1
        <4>2. CASE t # s
          BY <2>1, <2>2, <3>1, <4>2 DEF HistoryInv, Rowed
        <4> QED BY <4>1, <4>2
      <3>2. step[s] # "running"
        BY <1>4, <1>8 DEF HistoryInv, Dated
      <3>3. ASSUME NEW t \in DOMAIN runs'
            PROVE /\ step'[t] = "running" => t \in kept'
                  /\ step'[t] = "sync" /\ t \notin crossed' => t \in kept'
        <4>1. CASE t = s
          BY <2>1, <3>2, <4>1
        <4>2. CASE t # s
          BY <2>1, <4>2 DEF HistoryInv, Rowed
        <4> QED BY <4>1, <4>2
      <3>4. pin'.at = "sync" => /\ runs'[pin'.run].pinned = TRUE
                                /\ pin'.run \in crossed' \/ pin'.run \in kept'
        BY <2>1 DEF HistoryInv, Rowed
      <3> QED BY <3>1, <3>3, <3>4 DEF Rowed
    <2> QED BY <2>3, <2>4, <2>5, <2>6, <2>7 DEF HistoryInv
  <1> QED BY <1>7, <1>8

LEMMA NotifyKeeps ==
  ASSUME Cooldown \in Nat, HistoryInv, NEW r \in DOMAIN runs, History!Notify(r)
  PROVE  HistoryInv'
  <1>1. /\ step[r] = "remove" /\ step' = [step EXCEPT ![r] = "done"]
        /\ UNCHANGED <<clock, runs, kept, rows, todo, admitted, pin, safe, crossed>>
    BY DEF History!Notify, History!Goes
  <1>2. DOMAIN runs = 1 .. Len(runs) /\ DOMAIN step = DOMAIN runs /\ Len(step) = Len(runs)
    BY RunDomains DEF HistoryInv, HistoryTypes
  <1>3. /\ step' \in Seq(RunSteps) /\ Len(step') = Len(step)
        /\ step'[r] = "done" /\ \A s \in DOMAIN runs : s # r => step'[s] = step[s]
    <2>1. step \in Seq(RunSteps) /\ "done" \in RunSteps
      BY DEF HistoryInv, HistoryTypes, RunSteps
    <2> QED BY <1>1, <1>2, <2>1, ExceptFacts
  <1>4. \A s \in DOMAIN runs : /\ step'[s] = "running" => step[s] = "running"
                               /\ step'[s] = "sync" <=> step[s] = "sync"
    BY <1>1, <1>3
  <1>5. HistoryTypes'
    BY <1>1, <1>2, <1>3 DEF HistoryInv, HistoryTypes
  <1>6. Dated' /\ PinsKept' /\ Rowed'
    <2>1. Dated'
      BY <1>1, <1>4 DEF HistoryInv, Dated
    <2>2. PinsKept'
      BY <1>1 DEF HistoryInv, PinsKept
    <2>3. Rowed'
      BY <1>1, <1>4 DEF HistoryInv, Rowed
    <2> QED BY <2>1, <2>2, <2>3
  <1>7. Spacing'
    BY <1>1, <1>5, RecordsStill
  <1> QED BY <1>5, <1>6, <1>7 DEF HistoryInv

\* The three steps of a pin.
LEMMA AskPinKeeps ==
  ASSUME Cooldown \in Nat, HistoryInv, NEW r \in DOMAIN runs, History!AskPin(r)
  PROVE  HistoryInv'
  <1>1. /\ pin = [at |-> "none", run |-> 0] /\ pin' = [at |-> "write", run |-> r] /\ r \in Nat
        /\ UNCHANGED <<clock, runs, kept, rows, step, todo, admitted, safe, crossed>>
    BY RunDomains DEF History!AskPin, History!NoPin, HistoryInv
  <1>2. HistoryTypes'
    BY <1>1 DEF HistoryInv, HistoryTypes
  <1>3. Dated' /\ PinsKept'
    BY <1>1 DEF HistoryInv, Dated, PinsKept
  <1>4. Rowed'
    <2>1. \A s \in DOMAIN runs : s # 0
      BY RunDomains DEF HistoryInv
    <2>2. pin.run = 0 /\ pin'.at # "sync"
      BY <1>1
    <2> QED BY <1>1, <2>1, <2>2 DEF HistoryInv, Rowed
  <1>5. Spacing'
    BY <1>1, <1>2, RecordsStill
  <1> QED BY <1>2, <1>3, <1>4, <1>5 DEF HistoryInv

LEMMA WritePinKeeps ==
  ASSUME Cooldown \in Nat, HistoryInv, History!WritePin
  PROVE  HistoryInv'
  <1>1. PICK r : r = pin.run
    OBVIOUS
  <1> DEFINE stays == r \in kept /\ \A s \in DOMAIN runs : r \notin todo[s]
  <1>2. /\ pin.at = "write" /\ pin' = [pin EXCEPT !.at = "sync"]
        /\ runs' = [runs EXCEPT ![r].pinned = TRUE, ![r].whole = r \in kept]
        /\ kept' = kept \cup {r}
        /\ safe' = IF stays THEN safe \cup {r} ELSE safe
        /\ crossed' = IF stays /\ step[r] # "sync" THEN crossed ELSE crossed \cup {r}
        /\ UNCHANGED <<clock, rows, step, todo, admitted>>
    BY <1>1 DEF History!WritePin, History!Runs
  <1>3. /\ r \in DOMAIN runs /\ pin'.at = "sync" /\ pin'.run = r
        /\ pin' \in [at : {"none", "write", "sync"}, run : Nat]
    BY <1>1, <1>2 DEF HistoryInv, HistoryTypes
  <1>4. runs[r] \in RunRecords /\ clock \in Nat /\ runs \in Seq(RunRecords)
    BY <1>3 DEF HistoryInv, HistoryTypes
  <1>5. PICK run : run = [runs[r] EXCEPT !.pinned = TRUE, !.whole = r \in kept]
    OBVIOUS
  <1>6. /\ run \in RunRecords /\ run.status = runs[r].status /\ run.began = runs[r].began
        /\ run.dry = runs[r].dry /\ run.pinned = TRUE /\ run.anchor = runs[r].anchor
        /\ run.seen = runs[r].seen /\ run.blind = runs[r].blind
    <2>1. (r \in kept) \in BOOLEAN
      OBVIOUS
    <2> QED BY <1>4, <1>5, <2>1 DEF RunRecords
  <1>7. r \in kept => run.whole = TRUE
    <2>1. ASSUME r \in kept PROVE (r \in kept) = TRUE
      BY <2>1
    <2>2. run.whole = (r \in kept)
      BY <1>4, <1>5 DEF RunRecords
    <2> QED BY <2>1, <2>2
  <1>8. /\ runs' \in Seq(RunRecords) /\ Len(runs') = Len(runs) /\ DOMAIN runs' = DOMAIN runs
        /\ runs'[r] = run /\ \A s \in DOMAIN runs : s # r => runs'[s] = runs[s]
    <2>1. runs' = [runs EXCEPT ![r] = run]
      BY <1>2, <1>4, <1>5
    <2> QED BY <1>3, <1>4, <1>6, <2>1, ExceptFacts
  <1>9. HistoryTypes'
    BY <1>2, <1>3, <1>8 DEF HistoryInv, HistoryTypes
  <1>10. Aged
    BY <1>2, <1>4, <1>6, <1>8 DEF Aged
  <1>11. Spacing'
    BY <1>2, <1>8, <1>9, <1>10, AgedSpacing
  <1>12. Dated'
    <2>1. \A s \in DOMAIN runs : runs'[s].began = runs[s].began /\ runs'[s].status = runs[s].status
                                 /\ runs'[s].dry = runs[s].dry
      BY <1>6, <1>8
    <2> QED BY <1>2, <1>8, <2>1 DEF HistoryInv, Dated
  <1>13. PinsKept'
    <2>1. ASSUME NEW s \in safe'
          PROVE /\ s \in DOMAIN runs' /\ runs'[s].pinned = TRUE /\ s \in kept'
                /\ \A t \in DOMAIN runs' : s \notin todo'[t]
      <3>1. CASE s \in safe
        BY <1>2, <1>6, <1>8, <3>1 DEF HistoryInv, PinsKept
      <3>2. CASE s = r /\ stays
        BY <1>2, <1>3, <1>6, <1>8, <3>2
      <3> QED BY <1>2, <2>1, <3>1, <3>2
    <2>2. ASSUME NEW s \in DOMAIN runs' PROVE runs'[s].whole = TRUE \/ s \in crossed'
      <3>1. CASE s = r
        BY <1>2, <1>7, <1>8, <3>1
      <3>2. CASE s # r
        BY <1>2, <1>8, <3>2 DEF HistoryInv, PinsKept
      <3> QED BY <3>1, <3>2
    <2>3. \A s \in DOMAIN runs' : todo'[s] \subseteq DOMAIN runs'
      BY <1>2, <1>8 DEF HistoryInv, PinsKept
    <2> QED BY <2>1, <2>2, <2>3 DEF PinsKept
  <1>14. Rowed'
    <2> HIDE DEF stays
    <2>1. ASSUME NEW s \in DOMAIN runs', s \notin crossed', step'[s] # "sync", pin'.run # s
          PROVE rows'[s] = IF s \in kept' THEN History!Row(runs'[s]) ELSE History!NoRow
      <3>1. s # r /\ s \notin crossed /\ pin.run # s /\ step[s] # "sync"
        BY <1>1, <1>2, <1>3, <2>1
      <3> QED BY <1>2, <1>8, <3>1 DEF HistoryInv, Rowed
    <2>2. ASSUME NEW s \in DOMAIN runs'
          PROVE /\ step'[s] = "running" => s \in kept'
                /\ step'[s] = "sync" /\ s \notin crossed' => s \in kept'
      BY <1>2, <1>8 DEF HistoryInv, Rowed
    <2>3. runs'[pin'.run].pinned = TRUE /\ pin'.run \in kept'
      BY <1>2, <1>3, <1>6, <1>8
    <2> QED BY <2>1, <2>2, <2>3 DEF Rowed
  <1> QED BY <1>9, <1>11, <1>12, <1>13, <1>14 DEF HistoryInv

LEMMA SyncPinKeeps ==
  ASSUME Cooldown \in Nat, HistoryInv, History!SyncPin
  PROVE  HistoryInv'
  <1>1. PICK r : r = pin.run
    OBVIOUS
  <1>2. /\ pin.at = "sync" /\ pin' = [at |-> "none", run |-> 0]
        /\ UNCHANGED <<clock, runs, kept, step, todo, admitted, safe, crossed>>
    BY DEF History!SyncPin, History!NoPin
  <1>3. PICK result \in {runs[r].status} \cup (IF r \in crossed THEN {"running"} ELSE {}) :
          rows' = [rows EXCEPT ![r] = [status |-> result, pinned |-> TRUE]]
    BY <1>1 DEF History!SyncPin
  <1>4. PICK row : row = [status |-> result, pinned |-> TRUE]
    OBVIOUS
  <1>5. /\ r \in DOMAIN runs /\ runs[r] \in RunRecords /\ runs[r].pinned = TRUE
        /\ r \in crossed \/ r \in kept
    BY <1>1, <1>2 DEF HistoryInv, HistoryTypes, Rowed
  <1>6. row \in IndexRows /\ (r \notin crossed => row = History!Row(runs[r]))
    <2>1. result \in RunStatuses /\ (r \notin crossed => result = runs[r].status)
      BY <1>3, <1>5 DEF RunRecords, RunStatuses
    <2> QED BY <1>4, <1>5, <2>1 DEF IndexRows, History!Row
  <1>7. DOMAIN rows = DOMAIN runs /\ Len(rows) = Len(runs)
    BY RunDomains DEF HistoryInv, HistoryTypes
  <1>8. /\ rows' \in Seq(IndexRows) /\ Len(rows') = Len(rows)
        /\ rows'[r] = row /\ \A s \in DOMAIN runs : s # r => rows'[s] = rows[s]
    <2>1. rows \in Seq(IndexRows) /\ rows' = [rows EXCEPT ![r] = row]
      BY <1>3, <1>4 DEF HistoryInv, HistoryTypes
    <2> QED BY <1>5, <1>6, <1>7, <2>1, ExceptFacts
  <1>9. HistoryTypes'
    BY <1>2, <1>8 DEF HistoryInv, HistoryTypes
  <1>10. Dated' /\ PinsKept'
    BY <1>2 DEF HistoryInv, Dated, PinsKept
  <1>11. Spacing'
    BY <1>2, <1>9, RecordsStill
  <1>12. Rowed'
    <2>1. ASSUME NEW s \in DOMAIN runs', s \notin crossed', step'[s] # "sync", pin'.run # s
          PROVE rows'[s] = IF s \in kept' THEN History!Row(runs'[s]) ELSE History!NoRow
      <3>1. CASE s = r
        BY <1>2, <1>5, <1>6, <1>8, <2>1, <3>1
      <3>2. CASE s # r
        BY <1>1, <1>2, <1>8, <2>1, <3>2 DEF HistoryInv, Rowed
      <3> QED BY <3>1, <3>2
    <2>2. pin'.at # "sync"
      BY <1>2
    <2> QED BY <1>2, <2>1, <2>2 DEF HistoryInv, Rowed
  <1> QED BY <1>9, <1>10, <1>11, <1>12 DEF HistoryInv

LEMMA HistoryStep ==
  ASSUME Cooldown \in Nat
  PROVE  HistoryInv /\ [History!Next]_(History!vars) => HistoryInv'
  <1> SUFFICES ASSUME HistoryInv, [History!Next]_(History!vars) PROVE HistoryInv'
    OBVIOUS
  <1>1. CASE History!Admit
    BY <1>1, AdmitKeeps
  <1>2. CASE History!Create
    BY <1>2, CreateKeeps
  <1>3. CASE History!Skip
    BY <1>3, SkipKeeps
  <1>4. CASE History!DryCheck \/ History!DryExecute
    BY <1>4, DryKeeps
  <1>5. CASE History!WritePin
    BY <1>5, WritePinKeeps
  <1>6. CASE History!SyncPin
    BY <1>6, SyncPinKeeps
  <1>7. CASE History!Tick
    BY <1>7, TickKeeps
  <1>8. ASSUME NEW r \in DOMAIN runs,
               \/ History!ListOld(r) \/ History!RemoveOld(r) \/ History!Notify(r)
               \/ History!AskPin(r)
               \/ \E outcome \in {"success", "failed"} : History!Finish(r, outcome)
        PROVE HistoryInv'
    BY <1>8, ListOldKeeps, RemoveOldKeeps, NotifyKeeps, AskPinKeeps, FinishKeeps
  <1>9. CASE UNCHANGED History!vars
    <2>1. UNCHANGED <<clock, runs, kept, rows, step, todo, admitted, pin, safe, crossed>>
      BY <1>9 DEF History!vars
    <2>2. HistoryTypes' /\ Dated' /\ PinsKept' /\ Rowed'
      BY <2>1 DEF HistoryInv, HistoryTypes, Dated, PinsKept, Rowed
    <2> QED BY <2>1, <2>2, RecordsStill DEF HistoryInv
  <1> QED BY <1>1, <1>2, <1>3, <1>4, <1>5, <1>6, <1>7, <1>8, <1>9 DEF History!Next, History!Runs

\* PinsHold, FiresSpaced, SkipsAnchored and RowsFollow: whichever executors start,
\* end and prune meanwhile and whenever the pin is set, a pin taken in time keeps its
\* directory, two fires are a cooldown apart but for those past the check together or
\* after the anchor was pruned, a skip is measured from a run that began, and the row of
\* a run one writer has written is its record.
THEOREM HistoryKeptAlways ==
  ASSUME Cooldown \in Nat
  PROVE  History!Spec => [](History!PinsHold /\ History!FiresSpaced
                            /\ History!SkipsAnchored /\ History!RowsFollow)
  <1>1. History!Init => HistoryInv
    BY HistoryInit
  <1>2. HistoryInv => History!PinsHold /\ History!FiresSpaced
                      /\ History!SkipsAnchored /\ History!RowsFollow
    <2> SUFFICES ASSUME HistoryInv
                 PROVE  History!PinsHold /\ History!FiresSpaced
                        /\ History!SkipsAnchored /\ History!RowsFollow
      OBVIOUS
    <2>1. History!PinsHold
      <3>1. kept \subseteq DOMAIN runs
        BY DEF HistoryInv, HistoryTypes
      <3> QED BY <3>1 DEF HistoryInv, PinsKept, History!PinsHold
    <2>2. History!FiresSpaced
      BY DEF HistoryInv, Spacing
    <2>3. History!SkipsAnchored
      <3>1. \A r \in DOMAIN runs : r # 0
        BY RunDomains DEF HistoryInv
      <3> QED BY <3>1 DEF HistoryInv, Spacing, Anchored, History!SkipsAnchored, History!Runs
    <2>4. History!RowsFollow
      BY DEF HistoryInv, Rowed, History!RowsFollow, History!Runs
    <2> QED BY <2>1, <2>2, <2>3, <2>4
  <1> QED BY <1>1, <1>2, HistoryStep, PTL DEF History!Spec

\* A streak comes to its length with run r: that many runs up to it failed, and the
\* one before them did not.
EndsStreak(r) ==
  /\ r >= Streak /\ \A s \in (r - Streak + 1) .. r : runs[s].status = "failed"
  /\ r > Streak => runs[r - Streak].status # "failed"

\* Whoever prunes, the newest keep runs have their directories; beside a calm run no other
\* was under way; and a calm run that is over told of a streak if and only if it ended one.
Recent ==
  /\ keep \in Nat
  /\ \A d \in DOMAIN runs : d \in kept \/ d + keep <= Len(runs)
  /\ \A r \in DOMAIN runs : \A d \in todo[r] : d + keep <= Len(runs)

InTurn ==
  /\ calm \subseteq DOMAIN runs
  /\ \A r \in calm : \A s \in DOMAIN runs : s < r => step[s] = "done"
  /\ \A r \in calm : \A s \in DOMAIN runs : r < s => step[r] = "done"

Told ==
  /\ told \subseteq DOMAIN runs /\ \A r \in told : step[r] = "done"
  /\ \A r \in calm : step[r] = "done" /\ runs[r].status = "failed" /\ Streak < keep =>
       (r \in told <=> EndsStreak(r))

StreakInv == Recent /\ InTurn /\ Told

\* So many above it leave a run that far from the newest.
LEMMA AboveIt ==
  ASSUME NEW n \in Nat, NEW S, S \subseteq 1 .. n, NEW d \in S, keep \in Nat,
         History!Cardinality({t \in S : t > d}) >= keep
  PROVE  d + keep <= n
  <1>1. d \in Int /\ n \in Int /\ d <= n /\ d + 1 \in Int
    OBVIOUS
  <1>2. IsFiniteSet((d + 1) .. n)
        /\ Cardinality((d + 1) .. n) = IF d + 1 > n THEN 0 ELSE n - (d + 1) + 1
    BY <1>1, FS_Interval
  <1>3. {t \in S : t > d} \subseteq (d + 1) .. n
    <2> SUFFICES ASSUME NEW t \in S, t > d PROVE t \in (d + 1) .. n
      OBVIOUS
    <2>1. t \in 1 .. n
      OBVIOUS
    <2> QED BY <1>1, <2>1
  <1>4. /\ Cardinality({t \in S : t > d}) <= Cardinality((d + 1) .. n)
        /\ IsFiniteSet({t \in S : t > d})
    BY <1>2, <1>3, FS_Subset
  <1>5. Cardinality({t \in S : t > d}) \in Nat
    BY <1>4, FS_CardinalityType
  <1>6. History!Cardinality({t \in S : t > d}) = Cardinality({t \in S : t > d})
    BY Zenon DEF History!Cardinality, Cardinality, History!IsFiniteSet, IsFiniteSet
  <1>7. Cardinality((d + 1) .. n) = n - d
    BY <1>1, <1>2
  <1> QED BY <1>1, <1>4, <1>5, <1>6, <1>7

LEMMA EndsStill ==
  ASSUME HistoryTypes, NEW r \in DOMAIN runs, Streak \in Nat,
         \A s \in DOMAIN runs : s <= r => runs'[s].status = runs[s].status
  PROVE  EndsStreak(r)' <=> EndsStreak(r)
  <1>1. DOMAIN runs = 1 .. Len(runs) /\ Len(runs) \in Nat
    BY RunDomains
  <1>2. r >= Streak => \A s \in (r - Streak + 1) .. r : s \in DOMAIN runs /\ s <= r
    BY <1>1
  <1>3. r > Streak => r - Streak \in DOMAIN runs /\ r - Streak <= r
    BY <1>1
  <1> QED BY <1>2, <1>3 DEF EndsStreak

\* The failures an executor counts at its end are a streak exactly when its run ends one.
LEMMA FailuresAre ==
  ASSUME HistoryTypes, Recent, Streak \in Nat, Streak < keep, NEW n \in DOMAIN runs, n = Len(runs)
  PROVE  History!Failures = Streak <=> EndsStreak(n)
  <1> DEFINE Failed(s) == runs[s].status = "failed"
             A == {r \in kept : \A s \in kept : s >= r => Failed(s)}
  <1>1. DOMAIN runs = 1 .. n /\ n \in Nat /\ n >= 1 /\ kept \subseteq 1 .. n /\ keep \in Nat
    BY RunDomains DEF HistoryTypes, Recent
  <1>2. \A q \in 1 .. n : q + Streak >= n => q \in kept
    <2> SUFFICES ASSUME NEW q \in 1 .. n, q + Streak >= n PROVE q \in kept
      OBVIOUS
    <2>1. ~(q + keep <= n)
      BY <1>1
    <2> QED BY <1>1, <2>1 DEF Recent
  <1>3. A \subseteq 1 .. n
    BY <1>1
  <1>4. \A a, b \in Int : IsFiniteSet(a .. b) /\ Cardinality(a .. b) = IF a > b THEN 0 ELSE b - a + 1
    BY FS_Interval
  <1>5. IsFiniteSet(A) /\ Cardinality(A) \in Nat
    <2>1. IsFiniteSet(1 .. n)
      BY <1>1, <1>4
    <2> QED BY <1>3, <2>1, FS_Subset, FS_CardinalityType
  <1>6. History!Failures = Cardinality(A)
    <2>1. History!Failures = History!Cardinality(A)
      BY DEF History!Failures
    <2>2. History!Cardinality(A) = Cardinality(A)
      BY Zenon DEF History!Cardinality, Cardinality, History!IsFiniteSet, IsFiniteSet
    <2> QED BY <2>1, <2>2
  <1>7. ASSUME EndsStreak(n) PROVE Cardinality(A) = Streak
    <2>1. /\ n >= Streak /\ \A s \in (n - Streak + 1) .. n : Failed(s)
          /\ n > Streak => ~Failed(n - Streak)
      BY <1>7 DEF EndsStreak
    <2> HIDE DEF Failed
    <2>2. ASSUME NEW q \in (n - Streak + 1) .. n PROVE q \in A
      <3>1. q \in 1 .. n /\ q + Streak >= n
        BY <1>1, <2>1
      <3>2. \A s \in kept : s >= q => s \in (n - Streak + 1) .. n
        BY <1>1, <2>1
      <3> QED BY <1>2, <2>1, <3>1, <3>2
    <2>3. ASSUME NEW q \in A PROVE q \in (n - Streak + 1) .. n
      <3>1. q \in 1 .. n
        BY <1>3
      <3> SUFFICES ASSUME q <= n - Streak PROVE FALSE
        BY <1>1, <3>1
      <3>2. n > Streak /\ n - Streak \in 1 .. n /\ (n - Streak) + Streak >= n
        BY <1>1, <3>1
      <3>3. n - Streak \in kept /\ n - Streak >= q
        BY <1>2, <3>1, <3>2
      <3> QED BY <2>1, <3>2, <3>3
    <2>4. A = (n - Streak + 1) .. n
      <3> HIDE DEF A
      <3>1. \A q \in (n - Streak + 1) .. n : q \in A
        BY <2>2
      <3>2. \A q \in A : q \in (n - Streak + 1) .. n
        BY <2>3
      <3> QED BY <3>1, <3>2
    <2>5. n - Streak + 1 \in Int /\ n \in Int
      BY <1>1
    <2>6. Cardinality((n - Streak + 1) .. n) = Streak
      <3>1. Cardinality((n - Streak + 1) .. n)
              = IF n - Streak + 1 > n THEN 0 ELSE n - (n - Streak + 1) + 1
        BY <1>4, <2>5
      <3> QED BY <1>1, <3>1
    <2> QED BY <2>4, <2>6
  <1>8. ASSUME Cardinality(A) = Streak PROVE EndsStreak(n)
    <2>1. ASSUME NEW S, A \subseteq S, IsFiniteSet(S) PROVE Streak <= Cardinality(S) /\ Cardinality(S) \in Nat
      <3> HIDE DEF A
      <3> QED BY <1>8, <2>1, FS_Subset, FS_CardinalityType
    <2>2. n >= Streak
      <3>1. 1 \in Int /\ n \in Int
        BY <1>1
      <3>2. IsFiniteSet(1 .. n) /\ Cardinality(1 .. n) = n
        BY <1>1, <1>4, <3>1
      <3>3. Streak <= Cardinality(1 .. n)
        BY <1>3, <2>1, <3>2
      <3> QED BY <3>2, <3>3
    <2>3. ASSUME NEW j \in (n - Streak + 1) .. n, ~Failed(j) PROVE FALSE
      <3>1. j \in 1 .. n /\ j + Streak > n /\ j + 1 \in Int /\ n \in Int
        BY <1>1, <2>2
      <3>2. j \in kept
        BY <1>1, <1>2, <3>1
      <3>3. A \subseteq (j + 1) .. n
        <4> SUFFICES ASSUME NEW q \in A PROVE q \in (j + 1) .. n
          OBVIOUS
        <4>1. q \in 1 .. n /\ ~(j >= q)
          BY <1>3, <2>3, <3>2
        <4> QED BY <3>1, <4>1
      <3>4. IsFiniteSet((j + 1) .. n)
            /\ Cardinality((j + 1) .. n) = IF j + 1 > n THEN 0 ELSE n - (j + 1) + 1
        BY <1>4, <3>1
      <3>5. Streak <= Cardinality((j + 1) .. n)
        BY <2>1, <3>3, <3>4
      <3> QED BY <3>1, <3>4, <3>5
    <2>4. ASSUME n > Streak, Failed(n - Streak) PROVE FALSE
      <3>1. n - Streak \in Int /\ n \in Int
        BY <1>1
      <3>2. (n - Streak) .. n \subseteq A
        <4> SUFFICES ASSUME NEW q \in (n - Streak) .. n PROVE q \in A
          OBVIOUS
        <4>1. q \in 1 .. n /\ q + Streak >= n
          BY <1>1, <2>4
        <4>2. ASSUME NEW s \in kept, s >= q PROVE Failed(s)
          <5>1. s = n - Streak \/ s \in (n - Streak + 1) .. n
            BY <1>1, <4>1, <4>2
          <5> QED BY <2>3, <2>4, <5>1
        <4> HIDE DEF Failed
        <4> QED BY <1>2, <4>1, <4>2
      <3>3. Cardinality((n - Streak) .. n) = Streak + 1
        <4>1. Cardinality((n - Streak) .. n) = IF n - Streak > n THEN 0 ELSE n - (n - Streak) + 1
          BY <1>4, <3>1
        <4> QED BY <1>1, <4>1
      <3>4. Cardinality((n - Streak) .. n) <= Cardinality(A)
        <4> HIDE DEF A
        <4> QED BY <1>5, <3>2, FS_Subset
      <3> QED BY <1>8, <3>3, <3>4
    <2>5. \A s \in (n - Streak + 1) .. n : runs[s].status = "failed"
      BY <2>3
    <2>6. n > Streak => runs[n - Streak].status # "failed"
      BY <2>4
    <2> QED BY <2>2, <2>5, <2>6 DEF EndsStreak
  <1> HIDE DEF A
  <1> QED BY <1>6, <1>7, <1>8

\* Steps that make no run, end none and leave the outcomes of those that ended.
LEMMA StreakStays ==
  ASSUME HistoryTypes, HistoryTypes', StreakInv, Streak \in Nat,
         keep' = keep, calm' = calm, told' = told, Len(runs') = Len(runs),
         \A s \in DOMAIN runs : step'[s] = "done" <=> step[s] = "done",
         \A s \in DOMAIN runs : step[s] = "done" => runs'[s].status = runs[s].status,
         \A d \in DOMAIN runs : d \in kept => d \in kept' \/ d + keep <= Len(runs),
         \A r \in DOMAIN runs : \A d \in todo'[r] : d + keep <= Len(runs)
  PROVE  StreakInv'
  <1>1. DOMAIN runs' = DOMAIN runs
    BY DEF HistoryTypes
  <1>2. Recent'
    BY <1>1 DEF StreakInv, Recent
  <1>3. InTurn'
    BY <1>1 DEF StreakInv, InTurn
  <1>4. ASSUME NEW r \in calm, step[r] = "done"
        PROVE  runs'[r].status = runs[r].status /\ (EndsStreak(r)' <=> EndsStreak(r))
    <2>1. r \in DOMAIN runs /\ DOMAIN runs = 1 .. Len(runs) /\ Len(runs) \in Nat
      BY RunDomains DEF StreakInv, InTurn
    <2>2. \A s \in DOMAIN runs : s <= r => s < r \/ s = r
      BY <2>1
    <2>3. \A s \in DOMAIN runs : s <= r => runs'[s].status = runs[s].status
      BY <1>4, <2>2 DEF StreakInv, InTurn
    <2>4. r <= r
      BY <2>1
    <2> QED BY <2>1, <2>3, <2>4, EndsStill
  <1>5. Told'
    <2>1. told' \subseteq DOMAIN runs' /\ \A r \in told' : step'[r] = "done"
      BY <1>1 DEF StreakInv, Told
    <2>2. ASSUME NEW r \in calm', step'[r] = "done", runs'[r].status = "failed", (Streak < keep)'
          PROVE  r \in told' <=> EndsStreak(r)'
      <3>1. r \in calm /\ r \in DOMAIN runs /\ step[r] = "done"
        BY <2>2 DEF StreakInv, InTurn
      <3>2. runs[r].status = "failed" /\ (EndsStreak(r)' <=> EndsStreak(r))
        BY <1>4, <2>2, <3>1
      <3>3. r \in told <=> EndsStreak(r)
        BY <2>2, <3>1, <3>2 DEF StreakInv, Told
      <3> QED BY <3>2, <3>3
    <2> QED BY <2>1, <2>2 DEF Told
  <1> QED BY <1>2, <1>3, <1>5 DEF StreakInv

\* A new run finds the others done, or takes their calm from those that are not.
LEMMA StreakAdds ==
  ASSUME HistoryTypes, StreakInv, Streak \in Nat, NEW run \in RunRecords, NEW at \in RunSteps,
         History!Make(run, at), at = "done" => run.status # "failed"
  PROVE  StreakInv'
  <1> DEFINE n == Len(runs) + 1
             busy == {s \in DOMAIN runs : step[s] # "done"}
  <1>1. HistoryTypes' /\ RunAdded(run, at)
    BY MakeAdds
  <1>2. /\ Len(runs') = n /\ DOMAIN runs' = DOMAIN runs \cup {n}
        /\ n \notin DOMAIN runs /\ (\A r \in DOMAIN runs : r < n)
        /\ runs'[n] = run /\ step'[n] = at /\ kept' = kept \cup {n}
        /\ todo'[n] = IF at = "remove" THEN History!OldAfter(runs', kept') ELSE {}
        /\ \A r \in DOMAIN runs : runs'[r] = runs[r] /\ step'[r] = step[r] /\ todo'[r] = todo[r]
    BY <1>1 DEF RunAdded
  <1>3. /\ calm' = IF busy = {} THEN calm \cup {n} ELSE calm \ busy
        /\ keep' = keep /\ told' = told
    BY DEF History!Make, History!Runs
  <1>4. DOMAIN runs = 1 .. Len(runs) /\ Len(runs) \in Nat /\ n \in Nat /\ keep \in Nat
        /\ DOMAIN runs' = 1 .. n
    BY <1>1, <1>2, RunDomains DEF StreakInv, Recent
  <1>5. \A d \in todo'[n] : d + keep <= n
    <2> SUFFICES ASSUME NEW d \in todo'[n] PROVE d + keep <= n
      OBVIOUS
    <2>1. PICK S : S = History!Unpinned(runs', kept')
      OBVIOUS
    <2>2. d \in S /\ History!Cardinality({t \in S : t > d}) >= keep
      BY <1>2, <2>1 DEF History!OldAfter
    <2>3. S \subseteq 1 .. n
      <3>1. kept' \subseteq DOMAIN runs'
        BY <1>1 DEF HistoryTypes
      <3> QED BY <1>4, <2>1, <3>1 DEF History!Unpinned
    <2> HIDE DEF n
    <2> QED BY <1>4, <2>2, <2>3, AboveIt
  <1>6. \A r \in DOMAIN runs : \A d \in todo[r] : d \in Nat
    <2>1. \A r \in DOMAIN todo : todo[r] \in SUBSET Nat
      BY DEF HistoryTypes
    <2> QED BY <2>1, RunDomains
  <1>7. Recent'
    <2>1. ASSUME NEW d \in DOMAIN runs' PROVE d \in kept' \/ d + keep <= n
      <3>1. CASE d = n
        BY <1>2, <3>1
      <3>2. CASE d \in DOMAIN runs
        <4>1. d \in kept \/ d + keep <= Len(runs)
          BY <3>2 DEF StreakInv, Recent
        <4>2. d + keep <= Len(runs) => d + keep <= n
          BY <1>4, <3>2
        <4> QED BY <1>2, <4>1, <4>2
      <3> QED BY <1>2, <3>1, <3>2
    <2>2. ASSUME NEW r \in DOMAIN runs', NEW d \in todo'[r] PROVE d + keep <= n
      <3>1. CASE r = n
        BY <1>5, <2>2, <3>1
      <3>2. CASE r \in DOMAIN runs
        <4>1. d \in todo[r]
          BY <1>2, <2>2, <3>2
        <4>2. d + keep <= Len(runs) /\ d \in Nat
          BY <1>6, <3>2, <4>1 DEF StreakInv, Recent
        <4> QED BY <1>4, <4>2
      <3> QED BY <1>2, <3>1, <3>2
    <2> QED BY <1>2, <1>3, <1>4, <2>1, <2>2 DEF Recent
  <1> HIDE DEF n, busy
  <1>8. ASSUME NEW r \in calm', r # n
        PROVE  r \in calm /\ r \in DOMAIN runs /\ step[r] = "done" /\ step'[r] = "done" /\ r < n
    <2>1. r \in calm /\ (busy = {} \/ r \notin busy)
      BY <1>3, <1>8
    <2>2. r \in DOMAIN runs
      BY <2>1 DEF StreakInv, InTurn
    <2>3. step[r] = "done"
      BY <2>1, <2>2 DEF busy
    <2> QED BY <1>2, <2>1, <2>2, <2>3
  <1>9. n \in calm' => \A s \in DOMAIN runs : step'[s] = "done"
    <2> SUFFICES ASSUME n \in calm' PROVE \A s \in DOMAIN runs : step'[s] = "done"
      OBVIOUS
    <2>1. n \notin calm
      BY <1>2 DEF StreakInv, InTurn
    <2>2. busy = {}
      BY <1>3, <2>1
    <2> QED BY <1>2, <2>2 DEF busy
  <1>10. InTurn'
    <2>1. calm' \subseteq DOMAIN runs'
      BY <1>2, <1>8
    <2>2. ASSUME NEW r \in calm', NEW s \in DOMAIN runs'
          PROVE  (s < r => step'[s] = "done") /\ (r < s => step'[r] = "done")
      <3>1. CASE r = n
        <4>1. ~(r < s) /\ (s < r => s \in DOMAIN runs)
          BY <1>2, <1>4, <3>1
        <4> QED BY <1>9, <3>1, <4>1
      <3>2. CASE r # n
        <4>1. r \in calm /\ step'[r] = "done" /\ r < n /\ r \in DOMAIN runs
          BY <1>8, <3>2
        <4>2. s < r => s \in DOMAIN runs
          BY <1>2, <1>4, <4>1
        <4>3. s < r => step'[s] = "done"
          BY <1>2, <4>1, <4>2 DEF StreakInv, InTurn
        <4> QED BY <4>1, <4>3
      <3> QED BY <3>1, <3>2
    <2> QED BY <2>1, <2>2 DEF InTurn
  <1>11. Told'
    <2>1. told' \subseteq DOMAIN runs' /\ \A r \in told' : step'[r] = "done"
      BY <1>2, <1>3 DEF StreakInv, Told
    <2>2. ASSUME NEW r \in calm', step'[r] = "done", runs'[r].status = "failed", (Streak < keep)'
          PROVE  r \in told' <=> EndsStreak(r)'
      <3>1. r # n
        BY <1>2, <2>2
      <3>2. r \in calm /\ r \in DOMAIN runs /\ step[r] = "done"
        BY <1>8, <3>1
      <3>3. r \in told <=> EndsStreak(r)
        BY <1>2, <1>3, <2>2, <3>2 DEF StreakInv, Told
      <3>4. EndsStreak(r)' <=> EndsStreak(r)
        BY <1>2, <3>2, EndsStill
      <3> QED BY <1>3, <3>3, <3>4
    <2> QED BY <2>1, <2>2 DEF Told
  <1> QED BY <1>7, <1>10, <1>11 DEF StreakInv

\* The end of a run: what it counts decides what it tells.
LEMMA StreakTells ==
  ASSUME HistoryTypes, HistoryTypes', StreakInv, Streak \in Nat,
         NEW r \in DOMAIN runs, History!Notify(r)
  PROVE  StreakInv'
  <1>1. /\ step[r] = "remove" /\ step' = [step EXCEPT ![r] = "done"]
        /\ told' = IF runs[r].status = "failed" /\ History!Failures = Streak
                   THEN told \cup {r} ELSE told
        /\ UNCHANGED <<runs, kept, todo, calm, keep>>
    BY DEF History!Notify, History!Goes
  <1>2. DOMAIN runs = 1 .. Len(runs) /\ Len(runs) \in Nat /\ DOMAIN step = DOMAIN runs
    BY RunDomains
  <1>3. step'[r] = "done" /\ \A s \in DOMAIN runs : s # r => step'[s] = step[s]
    <2>1. step \in Seq(RunSteps) /\ "done" \in RunSteps
      BY DEF HistoryTypes, RunSteps
    <2> QED BY <1>1, <1>2, <2>1, ExceptFacts
  <1>4. Recent'
    BY <1>1 DEF StreakInv, Recent
  <1>5. \A s \in DOMAIN runs : step[s] = "done" => step'[s] = "done"
    BY <1>3
  <1>6. InTurn'
    BY <1>1, <1>5 DEF StreakInv, InTurn
  <1>7. EndsStreak(r)' <=> EndsStreak(r)
    BY <1>1 DEF EndsStreak
  <1>8. Told'
    <2>1. told' \subseteq DOMAIN runs' /\ \A s \in told' : step'[s] = "done"
      BY <1>1, <1>3, <1>5 DEF StreakInv, Told
    <2>2. ASSUME NEW q \in calm', step'[q] = "done", runs'[q].status = "failed", (Streak < keep)'
          PROVE  q \in told' <=> EndsStreak(q)'
      <3>1. q \in calm /\ q \in DOMAIN runs /\ runs[q].status = "failed" /\ Streak < keep
        BY <1>1, <2>2 DEF StreakInv, InTurn
      <3>2. EndsStreak(q)' <=> EndsStreak(q)
        BY <1>1 DEF EndsStreak
      <3>3. CASE q # r
        <4>1. step[q] = "done" /\ (q \in told' <=> q \in told)
          BY <1>1, <1>3, <2>2, <3>1, <3>3
        <4>2. q \in told <=> EndsStreak(q)
          BY <3>1, <4>1 DEF StreakInv, Told
        <4> QED BY <3>2, <4>1, <4>2
      <3>4. CASE q = r
        <4>1. r \notin told
          BY <1>1 DEF StreakInv, Told
        <4>2. r = Len(runs)
          <5>1. \A s \in DOMAIN runs : ~(r < s)
            BY <1>1, <3>1, <3>4 DEF StreakInv, InTurn
          <5>2. r \in 1 .. Len(runs) /\ Len(runs) \in DOMAIN runs
            BY <1>2
          <5> QED BY <1>2, <5>1, <5>2
        <4>3. History!Failures = Streak <=> EndsStreak(r)
          BY <3>1, <4>2, FailuresAre DEF StreakInv
        <4>4. r \in told' <=> History!Failures = Streak
          BY <1>1, <3>1, <3>4, <4>1
        <4> QED BY <3>2, <3>4, <4>3, <4>4
      <3> QED BY <3>3, <3>4
    <2> QED BY <2>1, <2>2 DEF Told
  <1> QED BY <1>4, <1>6, <1>8 DEF StreakInv

LEMMA StreakInit ==
  ASSUME Keeps \subseteq Nat PROVE History!Init => StreakInv
  <1> SUFFICES ASSUME History!Init PROVE StreakInv
    OBVIOUS
  <1>1. runs = << >> /\ told = {} /\ calm = {} /\ keep \in Nat
    BY DEF History!Init
  <1>2. DOMAIN runs = {}
    BY <1>1
  <1> QED BY <1>1, <1>2 DEF StreakInv, Recent, InTurn, Told

LEMMA StreakStep ==
  ASSUME Cooldown \in Nat, Streak \in Nat
  PROVE  HistoryInv /\ StreakInv /\ [History!Next]_(History!vars) => StreakInv'
  <1> SUFFICES ASSUME HistoryInv, StreakInv, [History!Next]_(History!vars) PROVE StreakInv'
    OBVIOUS
  <1>1. HistoryTypes /\ HistoryTypes'
    BY HistoryStep DEF HistoryInv
  <1>2. /\ DOMAIN runs = 1 .. Len(runs) /\ Len(runs) \in Nat /\ DOMAIN step = DOMAIN runs
        /\ DOMAIN todo = DOMAIN runs /\ keep \in Nat
        /\ \A r \in DOMAIN runs : \A d \in todo[r] : d + keep <= Len(runs)
        /\ \A d \in DOMAIN runs : d \in kept \/ d + keep <= Len(runs)
    BY <1>1, RunDomains DEF StreakInv, Recent
  <1>3. CASE UNCHANGED <<keep, calm, told, step, runs, todo, kept>>
    BY <1>1, <1>2, <1>3, StreakStays
  <1>4. CASE History!Admit \/ History!Tick \/ History!SyncPin \/ \E r \in History!Runs : History!AskPin(r)
    <2>1. UNCHANGED <<keep, calm, told, step, runs, todo, kept>>
      BY <1>4 DEF History!Admit, History!Tick, History!SyncPin, History!AskPin
    <2> QED BY <1>3, <2>1
  <1>5. CASE History!Create
    <2>1. PICK run : run = [History!Run("running", FALSE) EXCEPT !.seen = Head(admitted).seen,
                                                                 !.blind = Head(admitted).blind]
      OBVIOUS
    <2>2. History!Make(run, "running") /\ admitted # << >>
      BY <1>5, <2>1 DEF History!Create
    <2>3. PICK a \in Admissions : a = Head(admitted)
      <3>1. admitted \in Seq(Admissions) /\ 1 \in DOMAIN admitted /\ Head(admitted) = admitted[1]
        BY <2>2, AdmittedSpaced
      <3> QED BY <3>1
    <2>4. PICK plain \in RunRecords : plain = History!Run("running", FALSE)
      BY RunIsRecord DEF HistoryInv, RunStatuses
    <2>5. run \in RunRecords
      <3>1. run = [plain EXCEPT !.seen = a.seen, !.blind = a.blind]
        BY <2>1, <2>3, <2>4
      <3>2. a.seen \in Nat /\ a.blind \in BOOLEAN
        BY DEF Admissions
      <3> QED BY <3>1, <3>2 DEF RunRecords
    <2>6. "running" \in RunSteps
      BY DEF RunSteps
    <2> QED BY <1>1, <2>2, <2>5, <2>6, StreakAdds
  <1>6. CASE History!Skip
    <2>1. PICK run : run = [History!Run("skipped", FALSE) EXCEPT !.anchor = History!Anchor(kept)]
      OBVIOUS
    <2>2. History!Make(run, "remove")
      BY <1>6, <2>1 DEF History!Skip
    <2>3. run \in RunRecords /\ "remove" \in RunSteps
      <3>1. PICK plain \in RunRecords : plain = History!Run("skipped", FALSE)
        BY RunIsRecord DEF HistoryInv, RunStatuses
      <3>2. History!Anchor(kept) \in Nat
        <4>1. PICK S : S = {r \in kept : runs[r].status \notin History!NotFires}
          OBVIOUS
        <4>2. S \subseteq DOMAIN runs /\ History!Anchor(kept) = History!Newest(S)
          BY <1>1, <4>1 DEF History!Anchor, HistoryTypes
        <4> QED BY <1>1, <1>2, <4>2, NewestOf
      <3> QED BY <2>1, <3>1, <3>2 DEF RunRecords, RunSteps
    <2> QED BY <1>1, <2>2, <2>3, StreakAdds
  <1>7. CASE History!DryCheck \/ History!DryExecute
    <2>1. PICK result \in {"dry_run_success", "running"}, at \in {"done", "running"} :
            History!Make(History!Run(result, TRUE), at) /\ (at = "done" => result = "dry_run_success")
      BY <1>7 DEF History!DryCheck, History!DryExecute
    <2>2. result \in RunStatuses /\ at \in RunSteps
      BY DEF RunStatuses, RunSteps
    <2>3. PICK run \in RunRecords : run = History!Run(result, TRUE) /\ run.status = result
      BY <2>2, RunIsRecord DEF HistoryInv
    <2> QED BY <1>1, <2>1, <2>2, <2>3, StreakAdds
  <1>8. CASE History!WritePin
    <2>1. PICK r : r = pin.run
      OBVIOUS
    <2>2. /\ r \in DOMAIN runs
          /\ runs' = [runs EXCEPT ![r].pinned = TRUE, ![r].whole = r \in kept]
          /\ kept' = kept \cup {r} /\ UNCHANGED <<step, todo, told, calm, keep>>
      BY <1>1, <1>8, <2>1 DEF History!WritePin, HistoryTypes
    <2>3. Len(runs') = Len(runs) /\ \A s \in DOMAIN runs : runs'[s].status = runs[s].status
      <3>1. runs \in Seq(RunRecords) /\ runs[r] \in RunRecords
        BY <1>1, <2>2 DEF HistoryTypes
      <3>2. PICK run : run = [runs[r] EXCEPT !.pinned = TRUE, !.whole = r \in kept]
        OBVIOUS
      <3>3. run \in RunRecords /\ run.status = runs[r].status
        <4>1. (r \in kept) \in BOOLEAN
          OBVIOUS
        <4> QED BY <3>1, <3>2, <4>1 DEF RunRecords
      <3>4. runs' = [runs EXCEPT ![r] = run]
        BY <2>2, <3>1, <3>2
      <3> QED BY <2>2, <3>1, <3>3, <3>4, ExceptFacts
    <2> QED BY <1>1, <1>2, <2>2, <2>3, StreakStays
  <1>9. ASSUME NEW r \in DOMAIN runs, NEW outcome \in {"success", "failed"}, History!Finish(r, outcome)
        PROVE  StreakInv'
    <2>1. /\ step[r] = "running" /\ step' = [step EXCEPT ![r] = "sync"]
          /\ runs' = [runs EXCEPT ![r].status = outcome]
          /\ UNCHANGED <<kept, todo, told, calm, keep>>
      BY <1>9 DEF History!Finish, History!Goes
    <2>2. \A s \in DOMAIN runs : step'[s] = "done" <=> step[s] = "done"
      BY <1>2, <2>1
    <2>3. Len(runs') = Len(runs) /\ \A s \in DOMAIN runs : s # r => runs'[s] = runs[s]
      <3>1. runs \in Seq(RunRecords) /\ runs[r] \in RunRecords
        BY <1>1 DEF HistoryTypes
      <3>2. PICK run \in RunRecords : run = [runs[r] EXCEPT !.status = outcome]
        BY <3>1 DEF RunRecords, RunStatuses
      <3>3. runs' = [runs EXCEPT ![r] = run]
        BY <2>1, <3>1, <3>2
      <3> QED BY <3>1, <3>2, <3>3, ExceptFacts
    <2> QED BY <1>1, <1>2, <2>1, <2>2, <2>3, StreakStays
  <1>10. ASSUME NEW r \in DOMAIN runs, History!ListOld(r) PROVE StreakInv'
    <2>1. /\ step[r] = "sync" /\ step' = [step EXCEPT ![r] = "remove"]
          /\ todo' = [todo EXCEPT ![r] = History!OldAfter(runs, kept)]
          /\ UNCHANGED <<runs, kept, told, calm, keep>>
      BY <1>10 DEF History!ListOld, History!Goes
    <2>2. \A s \in DOMAIN runs : step'[s] = "done" <=> step[s] = "done"
      BY <1>2, <2>1
    <2>3. \A d \in History!OldAfter(runs, kept) : d + keep <= Len(runs)
      <3> SUFFICES ASSUME NEW d \in History!OldAfter(runs, kept) PROVE d + keep <= Len(runs)
        OBVIOUS
      <3>1. PICK S : S = History!Unpinned(runs, kept)
        OBVIOUS
      <3>2. d \in S /\ History!Cardinality({t \in S : t > d}) >= keep
        BY <3>1 DEF History!OldAfter
      <3>3. S \subseteq 1 .. Len(runs)
        BY <1>1, <1>2, <3>1 DEF History!Unpinned, HistoryTypes
      <3> QED BY <1>2, <3>2, <3>3, AboveIt
    <2>4. \A s \in DOMAIN runs : \A d \in todo'[s] : d + keep <= Len(runs)
      BY <1>2, <2>1, <2>3
    <2> QED BY <1>1, <1>2, <2>1, <2>2, <2>4, StreakStays
  <1>11. ASSUME NEW r \in DOMAIN runs, History!RemoveOld(r) PROVE StreakInv'
    <2>1. PICK s : s = History!Newest(todo[r])
      OBVIOUS
    <2>2. /\ s # 0 /\ todo' = [todo EXCEPT ![r] = @ \ {s}]
          /\ kept' = kept \/ kept' = kept \ {s}
          /\ UNCHANGED <<runs, step, told, calm, keep>>
      BY <1>11, <2>1 DEF History!RemoveOld
    <2>3. s \in todo[r]
      <3>1. todo[r] \subseteq DOMAIN runs
        BY DEF HistoryInv, PinsKept
      <3> QED BY <1>1, <2>1, <2>2, <3>1, NewestOf
    <2>4. \A q \in DOMAIN runs : \A d \in todo'[q] : d + keep <= Len(runs)
      <3>1. \A q \in DOMAIN runs : todo'[q] \subseteq todo[q]
        BY <1>2, <2>2
      <3> QED BY <1>2, <3>1
    <2>5. \A d \in DOMAIN runs : d \in kept => d \in kept' \/ d + keep <= Len(runs)
      BY <1>2, <2>2, <2>3
    <2> QED BY <1>1, <2>2, <2>4, <2>5, StreakStays
  <1>12. ASSUME NEW r \in DOMAIN runs, History!Notify(r) PROVE StreakInv'
    BY <1>1, <1>12, StreakTells
  <1>13. CASE UNCHANGED History!vars
    BY <1>3, <1>13 DEF History!vars
  <1> QED BY <1>4, <1>5, <1>6, <1>7, <1>8, <1>9, <1>10, <1>11, <1>12, <1>13
          DEF History!Next, History!Runs

\* All that the run history promises: what HistoryKeptAlways says, and that of runs one
\* after the other one told of a streak if and only if it was the one that made its
\* length (_maybe_notify_failure, consecutive_failed_runs and the prune before it).
THEOREM HistorySoundAlways ==
  ASSUME Cooldown \in Nat, Streak \in Nat, Keeps \subseteq Nat
  PROVE  History!Spec => []History!HistorySound
  <1>1. HistoryInv /\ StreakInv => History!StreakTold
    <2> SUFFICES ASSUME HistoryInv, StreakInv, NEW r \in History!Runs, step[r] = "done",
                        runs[r].status = "failed", 1 .. r \subseteq calm, Streak < keep
                 PROVE  r \in told <=> EndsStreak(r)
      BY DEF History!StreakTold, EndsStreak
    <2>1. r \in DOMAIN runs /\ r \in 1 .. r
      <3>1. r \in 1 .. Len(runs)
        BY RunDomains DEF HistoryInv, History!Runs
      <3> QED BY <3>1 DEF History!Runs
    <2> QED BY <2>1 DEF StreakInv, Told
  <1>2. History!Spec => [](HistoryInv /\ StreakInv)
    BY HistoryInit, HistoryStep, StreakInit, StreakStep, PTL DEF History!Spec
  <1>3. History!Spec => [](History!PinsHold /\ History!FiresSpaced
                           /\ History!SkipsAnchored /\ History!RowsFollow)
    BY HistoryKeptAlways
  <1>4. History!PinsHold /\ History!FiresSpaced /\ History!SkipsAnchored /\ History!RowsFollow
        /\ History!StreakTold => History!HistorySound
    BY DEF History!HistorySound
  <1> QED BY <1>1, <1>2, <1>3, <1>4, PTL

-----------------------------------------------------------------------------
(* The live output of a run. *)

StreamAssumption == MaxBytes \in Nat /\ TailBytes \in Nat /\ LineEnds \subseteq Nat

StreamTypes ==
  /\ size \in 0 .. MaxBytes /\ found \in 0 .. MaxBytes /\ offset \in 0 .. MaxBytes
  /\ status \in {"running", "done", "gone"} /\ running \in BOOLEAN /\ byOthers \in BOOLEAN
  /\ first \in BOOLEAN /\ heard \in {"unread", "running", "done"}
  /\ pc \in {"record", "stat", "read", "end", "closed", "broken"}

Pieces == page \in Seq(Nat \X Nat) /\ \A i \in DOMAIN page : page[i][1] <= page[i][2]

\* Where the output shown so far ends.
Shown == page[Len(page)][2]

\* The tail may reach past the size read for it; every piece after it ends where the next begins.
Joined ==
  /\ (first <=> page = <<>>) /\ (first => offset = 0)
  /\ pc \in {"end", "closed", "broken"} => ~first
  /\ Len(page) > 1 => Shown = offset
  /\ status # "gone" /\ ~first => offset <= Shown /\ Shown <= size
  /\ pc = "read" /\ status # "gone" => offset <= found /\ found <= size

\* A record finalised by the executor alone is of an output that is whole.
Whole ==
  /\ status = "gone" => size = 0 /\ ~running
  /\ status = "running" => running
  /\ status = "done" /\ ~byOthers => ~running
  /\ heard = "done" /\ pc # "record" => status # "running"
  /\ pc = "closed" => heard = "done"
  /\ ~byOthers /\ heard = "done" /\ status # "gone" =>
       /\ pc = "read" => found = size
       /\ pc \in {"end", "closed"} => Shown = size

StreamInv == StreamTypes /\ Pieces /\ Stream!NoGap /\ Joined /\ Whole /\ Stream!BrokenForCause

LEMMA StreamInit == ASSUME StreamAssumption, Stream!Init PROVE StreamInv
  <1>1. /\ size = 0 /\ running = TRUE /\ status = "running" /\ byOthers = FALSE /\ pc = "record"
        /\ heard = "unread" /\ found = 0 /\ offset = 0 /\ first = TRUE /\ page = <<>>
    BY DEF Stream!Init
  <1>2. 0 \in 0 .. MaxBytes
    BY DEF StreamAssumption
  <1>3. StreamTypes
    BY <1>1, <1>2 DEF StreamTypes
  <1>4. page \in Seq(Nat \X Nat) /\ Len(page) = 0 /\ DOMAIN page = {}
    BY <1>1
  <1>5. Pieces /\ Stream!NoGap /\ Stream!BrokenForCause
    BY <1>1, <1>4 DEF Pieces, Stream!NoGap, Stream!BrokenForCause
  <1>6. Joined /\ Whole
    BY <1>1, <1>4 DEF Joined, Whole
  <1> QED BY <1>3, <1>5, <1>6 DEF StreamInv

\* A tail is part of the file.
LEMMA TailInFile ==
  ASSUME StreamAssumption, size \in Nat
  PROVE  Stream!TailFrom \in 0 .. size
  <1> DEFINE ends == {i \in LineEnds : i > size - TailBytes /\ i <= size}
  <1>1. CASE size <= TailBytes
    BY <1>1 DEF Stream!TailFrom
  <1>2. CASE ~(size <= TailBytes) /\ ends = {}
    BY <1>2 DEF Stream!TailFrom
  <1>3. CASE ~(size <= TailBytes) /\ ends # {}
    <2>1. ASSUME NEW i \in ends PROVE i \in 0 .. size /\ i \in Nat
      <3>1. i \in Nat /\ i <= size
        BY DEF StreamAssumption
      <3> QED BY <3>1
    <2>2. \E x \in ends : \A y \in ends : x <= y
      <3> HIDE DEF ends
      <3>1. ends \subseteq Nat
        BY <2>1
      <3> QED BY <1>3, <3>1, LeastOf
    <2>3. Stream!Min(ends) \in ends
      <3> HIDE DEF ends
      <3> QED BY <2>2 DEF Stream!Min
    <2>4. Stream!TailFrom = Stream!Min(ends)
      BY <1>3 DEF Stream!TailFrom
    <2> QED BY <2>1, <2>3, <2>4
  <1> QED BY <1>1, <1>2, <1>3

\* What the job, the executor, a kill and a prune do to the file and the record.
LEMMA FileKeeps ==
  ASSUME StreamAssumption, StreamInv,
         Stream!Write \/ Stream!Finish \/ Stream!FinaliseEarly \/ Stream!Prune
  PROVE  StreamInv'
  <1>1. StreamTypes /\ Pieces /\ Stream!NoGap /\ Joined /\ Whole /\ Stream!BrokenForCause
    BY DEF StreamInv
  <1>2. UNCHANGED <<pc, heard, found, offset, first, page>>
    BY DEF Stream!Write, Stream!Finish, Stream!FinaliseEarly, Stream!Prune
  <1>3. Shown' = Shown /\ Stream!NoGap' /\ Pieces'
    BY <1>1, <1>2 DEF Shown, Stream!NoGap, Pieces
  <1>4. ~first => Shown \in Nat
    <2> SUFFICES ASSUME ~first PROVE Shown \in Nat
      OBVIOUS
    <2>1. page \in Seq(Nat \X Nat) /\ page # <<>>
      BY <1>1 DEF Pieces, Joined
    <2>2. page[Len(page)] \in Nat \X Nat
      BY <2>1
    <2> QED BY <2>2 DEF Shown
  <1>5. CASE Stream!Write
    <2>1. /\ running /\ status # "gone" /\ size < MaxBytes /\ size' \in (size + 1) .. MaxBytes
          /\ UNCHANGED <<running, status, byOthers>>
      BY <1>5 DEF Stream!Write
    <2>2. size' \in 0 .. MaxBytes /\ size' > size
      BY <1>1, <2>1 DEF StreamTypes, StreamAssumption
    <2>3. StreamTypes'
      BY <1>1, <1>2, <2>1, <2>2 DEF StreamTypes
    <2>4. Joined'
      BY <1>1, <1>2, <1>3, <1>4, <2>1, <2>2 DEF Joined, StreamTypes
    <2>5. Whole'
      BY <1>1, <1>2, <1>3, <2>1 DEF Whole, StreamTypes
    <2>6. Stream!BrokenForCause'
      BY <1>1, <1>2, <2>1 DEF Stream!BrokenForCause
    <2> QED BY <1>3, <2>3, <2>4, <2>5, <2>6 DEF StreamInv
  <1>6. CASE Stream!Finish
    <2>1. /\ running /\ status # "gone" /\ running' = FALSE /\ status' = "done"
          /\ UNCHANGED <<size, byOthers>>
      BY <1>6 DEF Stream!Finish
    <2>2. StreamTypes'
      BY <1>1, <1>2, <2>1 DEF StreamTypes
    <2>3. Joined'
      BY <1>1, <1>2, <1>3, <2>1 DEF Joined
    <2>4. Whole'
      BY <1>1, <1>2, <1>3, <2>1 DEF Whole, StreamTypes
    <2>5. Stream!BrokenForCause'
      BY <1>1, <1>2, <2>1 DEF Stream!BrokenForCause
    <2> QED BY <1>3, <2>2, <2>3, <2>4, <2>5 DEF StreamInv
  <1>7. CASE Stream!FinaliseEarly
    <2>1. /\ running /\ status = "running" /\ status' = "done" /\ byOthers' = TRUE
          /\ UNCHANGED <<size, running>>
      BY <1>7 DEF Stream!FinaliseEarly
    <2>2. StreamTypes'
      BY <1>1, <1>2, <2>1 DEF StreamTypes
    <2>3. Joined'
      BY <1>1, <1>2, <1>3, <2>1 DEF Joined
    <2>4. Whole'
      BY <1>1, <1>2, <1>3, <2>1 DEF Whole
    <2>5. Stream!BrokenForCause'
      BY <1>1, <1>2, <2>1 DEF Stream!BrokenForCause
    <2> QED BY <1>3, <2>2, <2>3, <2>4, <2>5 DEF StreamInv
  <1>8. CASE Stream!Prune
    <2>1. /\ ~running /\ status = "done" /\ status' = "gone" /\ size' = 0
          /\ UNCHANGED <<running, byOthers>>
      BY <1>8 DEF Stream!Prune
    <2>2. StreamTypes'
      BY <1>1, <1>2, <2>1 DEF StreamTypes, StreamAssumption
    <2>3. Joined'
      BY <1>1, <1>2, <1>3, <2>1 DEF Joined
    <2>4. Whole'
      BY <1>1, <1>2, <1>3, <2>1 DEF Whole
    <2>5. Stream!BrokenForCause'
      BY <2>1 DEF Stream!BrokenForCause
    <2> QED BY <1>3, <2>2, <2>3, <2>4, <2>5 DEF StreamInv
  <1> QED BY <1>5, <1>6, <1>7, <1>8

\* What the route does without output to send.
LEMMA LooksKeep ==
  ASSUME StreamAssumption, StreamInv, Stream!ReadRecord \/ Stream!Stat \/ Stream!End
  PROVE  StreamInv'
  <1>1. StreamTypes /\ Pieces /\ Stream!NoGap /\ Joined /\ Whole /\ Stream!BrokenForCause
    BY DEF StreamInv
  <1>2. UNCHANGED <<size, running, status, byOthers, offset, first, page>>
    BY DEF Stream!ReadRecord, Stream!Stat, Stream!End, Stream!file
  <1>3. Shown' = Shown /\ Stream!NoGap' /\ Pieces'
    BY <1>1, <1>2 DEF Shown, Stream!NoGap, Pieces
  <1>4. CASE Stream!ReadRecord
    <2>1. /\ pc = "record" /\ pc' = "stat" /\ heard' = IF status = "gone" THEN "running" ELSE status
          /\ found' = found
      BY <1>4 DEF Stream!ReadRecord
    <2>2. StreamTypes'
      BY <1>1, <1>2, <2>1 DEF StreamTypes
    <2>3. Joined'
      BY <1>1, <1>2, <1>3, <2>1 DEF Joined
    <2>4. Whole'
      BY <1>1, <1>2, <1>3, <2>1 DEF Whole
    <2>5. Stream!BrokenForCause'
      BY <2>1 DEF Stream!BrokenForCause
    <2> QED BY <1>3, <2>2, <2>3, <2>4, <2>5 DEF StreamInv
  <1>5. CASE Stream!Stat
    <2>1. pc = "stat" /\ pc' = "read" /\ found' = size /\ heard' = heard
      BY <1>5 DEF Stream!Stat
    <2>2. StreamTypes'
      BY <1>1, <1>2, <2>1 DEF StreamTypes
    <2>3. Joined'
      <3>1. status # "gone" => offset <= size
        <4>1. CASE first
          BY <1>1, <4>1 DEF Joined, StreamTypes
        <4>2. CASE ~first
          <5>1. page \in Seq(Nat \X Nat) /\ page # <<>>
            BY <1>1, <4>2 DEF Pieces, Joined
          <5>2. page[Len(page)] \in Nat \X Nat
            BY <5>1
          <5>3. Shown \in Nat
            BY <5>2 DEF Shown
          <5> QED BY <1>1, <4>2, <5>3 DEF Joined, StreamTypes
        <4> QED BY <4>1, <4>2
      <3> QED BY <1>1, <1>2, <1>3, <2>1, <3>1 DEF Joined, StreamTypes
    <2>4. Whole'
      BY <1>1, <1>2, <1>3, <2>1 DEF Whole
    <2>5. Stream!BrokenForCause'
      BY <2>1 DEF Stream!BrokenForCause
    <2> QED BY <1>3, <2>2, <2>3, <2>4, <2>5 DEF StreamInv
  <1>6. CASE Stream!End
    <2>1. /\ pc = "end" /\ pc' = IF heard = "done" THEN "closed" ELSE "record"
          /\ UNCHANGED <<heard, found>>
      BY <1>6 DEF Stream!End
    <2>2. StreamTypes'
      BY <1>1, <1>2, <2>1 DEF StreamTypes
    <2>3. Joined'
      BY <1>1, <1>2, <1>3, <2>1 DEF Joined
    <2>4. Whole'
      BY <1>1, <1>2, <1>3, <2>1 DEF Whole
    <2>5. Stream!BrokenForCause'
      BY <2>1 DEF Stream!BrokenForCause
    <2> QED BY <1>3, <2>2, <2>3, <2>4, <2>5 DEF StreamInv
  <1> QED BY <1>4, <1>5, <1>6

LEMMA ReadKeeps == ASSUME StreamAssumption, StreamInv, Stream!Read PROVE StreamInv'
  <1>1. StreamTypes /\ Pieces /\ Stream!NoGap /\ Joined /\ Whole /\ Stream!BrokenForCause
    BY DEF StreamInv
  <1>2. pc = "read" /\ UNCHANGED <<size, running, status, byOthers, heard, found>>
    BY DEF Stream!Read, Stream!file
  <1>3. size \in Nat /\ found \in Nat /\ offset \in Nat
    BY <1>1 DEF StreamTypes, StreamAssumption
  <1>4. ASSUME first \/ found < offset PROVE StreamInv'
    <2>1. page' = <<<<Stream!TailFrom, size>>>> /\ offset' = found /\ first' = FALSE /\ pc' = "end"
      BY <1>4 DEF Stream!Read
    <2>2. Stream!TailFrom \in Nat /\ Stream!TailFrom <= size
      BY <1>3, TailInFile
    <2>3. /\ page' \in Seq(Nat \X Nat) /\ Len(page') = 1 /\ page' # <<>>
          /\ page'[1][1] <= page'[1][2] /\ page'[1][2] = size
      BY <1>3, <2>1, <2>2
    <2>4. Shown' = size
      BY <2>3 DEF Shown
    <2>5. StreamTypes' /\ Pieces'
      <3>1. StreamTypes'
        BY <1>1, <1>2, <2>1 DEF StreamTypes
      <3>2. DOMAIN page' = {1}
        BY <2>3
      <3> QED BY <2>3, <3>1, <3>2 DEF Pieces
    <2>6. Stream!NoGap'
      BY <2>3 DEF Stream!NoGap
    <2>7. Joined'
      BY <1>1, <1>2, <1>3, <2>1, <2>3, <2>4 DEF Joined
    <2>8. Whole'
      BY <1>1, <1>2, <2>1, <2>4 DEF Whole
    <2>9. Stream!BrokenForCause'
      BY <2>1 DEF Stream!BrokenForCause
    <2> QED BY <2>5, <2>6, <2>7, <2>8, <2>9 DEF StreamInv
  <1>5. ASSUME ~first, ~(found < offset) PROVE StreamInv'
    <2>1. /\ page \in Seq(Nat \X Nat) /\ page # <<>> /\ Len(page) \in Nat \ {0}
          /\ page[Len(page)] \in Nat \X Nat
      BY <1>1, <1>5 DEF Pieces, Joined
    <2>2. Shown \in Nat
      BY <2>1 DEF Shown
    <2>3. CASE found = offset
      <3>1. pc' = "end" /\ UNCHANGED <<page, offset, first>>
        BY <1>5, <2>3 DEF Stream!Read
      <3>2. Shown' = Shown
        BY <3>1 DEF Shown
      <3>3. StreamTypes' /\ Pieces'
        BY <1>1, <1>2, <3>1 DEF StreamTypes, Pieces
      <3>4. Stream!NoGap'
        BY <1>1, <3>1 DEF Stream!NoGap
      <3>5. Joined'
        BY <1>1, <1>2, <1>5, <3>1, <3>2 DEF Joined
      <3>6. Whole'
        BY <1>1, <1>2, <1>3, <1>5, <2>2, <2>3, <3>1, <3>2 DEF Whole, Joined
      <3>7. Stream!BrokenForCause'
        BY <3>1 DEF Stream!BrokenForCause
      <3> QED BY <3>3, <3>4, <3>5, <3>6, <3>7 DEF StreamInv
    <2>4. CASE found # offset /\ size = 0
      <3>1. pc' = "broken" /\ UNCHANGED <<page, offset, first>>
        BY <1>5, <2>4 DEF Stream!Read
      <3>2. Shown' = Shown
        BY <3>1 DEF Shown
      <3>3. StreamTypes' /\ Pieces'
        BY <1>1, <1>2, <3>1 DEF StreamTypes, Pieces
      <3>4. Stream!NoGap'
        BY <1>1, <3>1 DEF Stream!NoGap
      <3>5. Joined'
        BY <1>1, <1>2, <1>5, <3>1, <3>2 DEF Joined
      <3>6. Whole'
        BY <1>1, <1>2, <3>1, <3>2 DEF Whole
      <3>7. status = "gone"
        BY <1>1, <1>2, <1>3, <1>5, <2>4 DEF Joined
      <3>8. Stream!BrokenForCause'
        BY <1>2, <3>7 DEF Stream!BrokenForCause
      <3> QED BY <3>3, <3>4, <3>5, <3>6, <3>8 DEF StreamInv
    <2>5. CASE found # offset /\ size # 0
      <3>1. /\ page' = Append(page, <<offset, found>>) /\ offset' = found /\ pc' = "end"
            /\ first' = first
        BY <1>5, <2>5 DEF Stream!Read
      <3>2. <<offset, found>> \in Nat \X Nat /\ offset <= found
        BY <1>3, <1>5
      <3>3. /\ page' \in Seq(Nat \X Nat) /\ Len(page') = Len(page) + 1 /\ page' # <<>>
            /\ page'[Len(page) + 1] = <<offset, found>>
            /\ \A i \in 1 .. Len(page) : page'[i] = page[i]
        BY <2>1, <3>1, <3>2
      <3>4. DOMAIN page' = 1 .. Len(page) + 1 /\ DOMAIN page = 1 .. Len(page)
        BY <2>1, <3>3
      <3>5. Shown' = found
        BY <3>3 DEF Shown
      <3>6. status # "gone"
        BY <1>1, <2>5 DEF Whole
      <3>7. StreamTypes' /\ Pieces'
        <4>1. ASSUME NEW i \in DOMAIN page' PROVE page'[i][1] <= page'[i][2]
          <5>1. CASE i = Len(page) + 1
            BY <3>2, <3>3, <5>1
          <5>2. CASE i # Len(page) + 1
            <6>1. i \in 1 .. Len(page)
              BY <2>1, <3>4, <5>2
            <6> QED BY <1>1, <3>3, <3>4, <6>1 DEF Pieces
          <5> QED BY <5>1, <5>2
        <4>2. StreamTypes'
          BY <1>1, <1>2, <3>1 DEF StreamTypes
        <4> QED BY <3>3, <4>1, <4>2 DEF Pieces
      <3>8. Stream!NoGap'
        <4>1. ASSUME NEW i \in 2 .. Len(page')
              PROVE  IF i = 2 THEN page'[i][1] <= page'[1][2] ELSE page'[i][1] = page'[i - 1][2]
          <5>1. CASE i = Len(page) + 1
            <6>1. page'[i][1] = offset /\ i - 1 = Len(page) /\ Len(page) \in 1 .. Len(page)
              BY <2>1, <3>3, <5>1
            <6>2. page'[i - 1][2] = Shown
              BY <3>3, <6>1 DEF Shown
            <6>3. offset <= Shown
              BY <1>1, <1>5, <3>6 DEF Joined
            <6>4. CASE Len(page) = 1
              BY <5>1, <6>1, <6>2, <6>3, <6>4
            <6>5. CASE Len(page) > 1
              BY <1>1, <5>1, <6>1, <6>2, <6>5 DEF Joined
            <6>6. Len(page) = 1 \/ Len(page) > 1
              <7> DEFINE n == Len(page)
              <7>1. n \in Nat \ {0}
                BY <2>1
              <7> HIDE DEF n
              <7>2. n = 1 \/ n > 1
                BY <7>1
              <7> QED BY <7>2 DEF n
            <6> QED BY <6>4, <6>5, <6>6
          <5>2. CASE i # Len(page) + 1
            <6> DEFINE n == Len(page)
            <6>0. n \in Nat \ {0} /\ i \in 2 .. n + 1
              BY <2>1, <3>3
            <6> HIDE DEF n
            <6>1. i \in 2 .. n /\ i - 1 \in 1 .. n /\ i \in 1 .. n /\ 1 \in 1 .. n
              BY <5>2, <6>0 DEF n
            <6>2. page'[i] = page[i] /\ page'[i - 1] = page[i - 1] /\ page'[1] = page[1]
              BY <3>3, <6>1 DEF n
            <6> QED BY <1>1, <6>1, <6>2 DEF Stream!NoGap, n
          <5> QED BY <5>1, <5>2
        <4> QED BY <4>1 DEF Stream!NoGap
      <3>9. Joined'
        BY <1>1, <1>2, <1>3, <1>5, <3>1, <3>3, <3>5 DEF Joined
      <3>10. Whole'
        BY <1>1, <1>2, <3>1, <3>5 DEF Whole
      <3>11. Stream!BrokenForCause'
        BY <3>1 DEF Stream!BrokenForCause
      <3> QED BY <3>7, <3>8, <3>9, <3>10, <3>11 DEF StreamInv
    <2> QED BY <2>3, <2>4, <2>5
  <1> QED BY <1>4, <1>5

LEMMA StreamStep ==
  ASSUME StreamAssumption PROVE StreamInv /\ [Stream!Next]_(Stream!vars) => StreamInv'
  <1> SUFFICES ASSUME StreamInv, [Stream!Next]_(Stream!vars) PROVE StreamInv'
    OBVIOUS
  <1>1. CASE Stream!Next
    BY <1>1, FileKeeps, LooksKeep, ReadKeeps DEF Stream!Next
  <1>2. CASE UNCHANGED Stream!vars
    <2>1. UNCHANGED <<size, running, status, byOthers, pc, heard, found, offset, first, page>>
      BY <1>2 DEF Stream!vars
    <2>2. Stream!NoGap' /\ Stream!BrokenForCause'
      BY <2>1 DEF StreamInv, Stream!NoGap, Stream!BrokenForCause
    <2> QED BY <2>1, <2>2 DEF StreamInv, StreamTypes, Pieces, Joined, Whole, Shown
  <1> QED BY <1>1, <1>2

\* Wherever lines end and however long a tail is, with a kill, a reap or a prune at any
\* moment: a page that follows a run gets its output without a gap, to the last byte if it is
\* told that the run is over, and is cut off only if the run is gone (stream_job_run,
\* read_output_tail).
THEOREM StreamTrueAlways ==
  ASSUME StreamAssumption
  PROVE  Stream!Spec => [](Stream!TypeOK /\ Stream!StreamTrue)
  <1>1. Stream!Init => StreamInv
    BY StreamInit
  <1>2. StreamInv => Stream!TypeOK /\ Stream!StreamTrue
    <2> SUFFICES ASSUME StreamInv PROVE Stream!TypeOK /\ Stream!StreamTrue
      OBVIOUS
    <2>1. StreamTypes /\ Pieces /\ Joined /\ Whole /\ Stream!NoGap /\ Stream!BrokenForCause
      BY DEF StreamInv
    <2>2. Stream!TypeOK
      BY <2>1 DEF StreamTypes, Pieces, Stream!TypeOK, StreamAssumption
    <2>3. Stream!WholeAtEnd
      BY <2>1 DEF Joined, Whole, Shown, Stream!WholeAtEnd
    <2> QED BY <2>1, <2>2, <2>3 DEF Stream!StreamTrue
  <1> QED BY <1>1, <1>2, StreamStep, PTL DEF Stream!Spec

-----------------------------------------------------------------------------
(* The issue cards of the Board. *)

IssuesAssumption ==
  IsFiniteSet(Issues) /\ Meta \subseteq Issues /\ Limit \in Nat /\ Day \in Nat \ {0} /\ MaxTime \in Nat

Times == -1 .. MaxTime
Fetches ==
  [stage : {"idle", "asked", "opened", "queried"}, at : Times, of : Groups \cup {Gitlab!NoGroup},
   issues : SUBSET Issues, done : SUBSET Issues]
Caches ==
  [at : Times, issues : SUBSET Issues, done : SUBSET Issues, error : BOOLEAN,
   of : Groups \cup {Gitlab!NoGroup}]
IssuesTypes ==
  /\ now \in 0 .. MaxTime
  /\ closedAt \in [Issues -> Times] /\ changed \in [Issues -> Times]
  /\ fetch \in [Pages -> Fetches] /\ cache \in Caches
  /\ \A i \in Issues : changed[i] <= now /\ (closedAt[i] # Gitlab!Open => closedAt[i] = changed[i])

\* What a query that began at this time, or after it, may say of an open issue, and leave out.
OpenTold(at, of, heardOf) ==
  /\ \A i \in heardOf : i \in Issues \ Meta /\ GroupOf[i] = of
                     /\ (closedAt[i] = Gitlab!Open \/ changed[i] >= at)
  /\ \A i \in Issues \ Meta :
       GroupOf[i] = of /\ changed[i] < at /\ closedAt[i] = Gitlab!Open => i \in heardOf \/ Gitlab!Crowded(i)

\* And of a closed one.
DoneTold(at, of, heardOf) ==
  /\ \A i \in heardOf : i \in Issues \ Meta /\ GroupOf[i] = of
                     /\ (changed[i] >= at \/ (closedAt[i] # Gitlab!Open /\ closedAt[i] >= Gitlab!DayOf(at)))
  /\ \A i \in Issues \ Meta :
       GroupOf[i] = of /\ changed[i] < at /\ closedAt[i] # Gitlab!Open /\ closedAt[i] >= Gitlab!Midnight =>
         i \in heardOf \/ Gitlab!Crowded(i)

FetchSound(f) ==
  /\ f.at <= now /\ (f.stage # "idle" => f.at \in 0 .. now)
  /\ f.stage \in {"opened", "queried"} => OpenTold(f.at, f.of, f.issues)
  /\ f.stage = "queried" => DoneTold(f.at, f.of, f.done)
CacheSound(c) ==
  /\ c.at <= now
  /\ c.at # Gitlab!None => c.at \in 0 .. now /\ OpenTold(c.at, c.of, c.issues) /\ DoneTold(c.at, c.of, c.done)
  /\ c.at = Gitlab!None => c.issues = {} /\ c.done = {}

IssuesInv ==
  /\ IssuesTypes /\ CacheSound(cache)
  /\ \A p \in Pages : FetchSound(fetch[p])

LEMMA IssuesInit == ASSUME IssuesAssumption, Gitlab!Init PROVE IssuesInv
  <1>1. /\ closedAt = [i \in Issues |-> -1] /\ changed = [i \in Issues |-> -1]
        /\ now = 0 /\ fetch = [p \in Pages |-> Gitlab!Idle] /\ cache = Gitlab!Empty
    BY DEF Gitlab!Init, Gitlab!Open
  <1>2. Gitlab!Idle \in Fetches /\ Gitlab!Idle.stage = "idle" /\ Gitlab!Idle.at = -1
    BY DEF Gitlab!Idle, Gitlab!None, Fetches, Times, IssuesAssumption
  <1>3. /\ Gitlab!Empty \in Caches /\ Gitlab!Empty.at = Gitlab!None
        /\ Gitlab!Empty.issues = {} /\ Gitlab!Empty.done = {}
    BY DEF Gitlab!Empty, Gitlab!None, Caches, Times, IssuesAssumption
  <1>4. now \in 0 .. MaxTime /\ -1 \in Times /\ -1 <= now
    BY <1>1 DEF IssuesAssumption, Times
  <1>5. IssuesTypes
    BY <1>1, <1>2, <1>3, <1>4 DEF IssuesTypes, Gitlab!Open
  <1>6. \A p \in Pages : fetch[p].stage = "idle" /\ fetch[p].at = -1
    BY <1>1, <1>2
  <1>7. Gitlab!None = -1
    BY DEF Gitlab!None
  <1> QED BY <1>1, <1>3, <1>4, <1>5, <1>7, <1>6 DEF IssuesInv, CacheSound, FetchSound

\* Days come one after the other.
LEMMA DayFacts ==
  ASSUME IssuesAssumption, NEW s \in Nat, NEW t \in Nat, s <= t
  PROVE  /\ Gitlab!DayOf(s) \in Int /\ Gitlab!DayOf(t) \in Int
         /\ Gitlab!DayOf(s) <= Gitlab!DayOf(t) /\ Gitlab!DayOf(t) <= t
  <1>1. Day \in Nat \ {0}
    BY DEF IssuesAssumption
  <1> DEFINE a == s \div Day
             b == t \div Day
  <1>2. /\ a \in Int /\ s % Day \in 0 .. Day - 1 /\ s = Day * a + (s % Day)
        /\ b \in Int /\ t % Day \in 0 .. Day - 1 /\ t = Day * b + (t % Day)
    BY <1>1, Quotient
  <1>3. Gitlab!DayOf(s) = s - (s % Day) /\ Gitlab!DayOf(t) = t - (t % Day)
    BY DEF Gitlab!DayOf
  <1> HIDE DEF a, b
  <1>4. Day * a \in Int /\ Day * b \in Int
    BY <1>1, <1>2
  <1>5. CASE b < a
    <2>1. Day * b + Day <= Day * a
      BY <1>1, <1>2, <1>5, TimesNext
    <2> QED BY <1>1, <1>2, <1>4, <2>1
  <1>6. CASE a <= b
    <2>1. Day * a <= Day * b
      BY <1>1, <1>2, <1>6, Times1
    <2> QED BY <1>1, <1>2, <1>3, <1>4, <2>1
  <1> QED BY <1>2, <1>5, <1>6

\* The more issues of its group are changed since, the more crowded it is.
LEMMA CrowdedKeeps ==
  ASSUME IssuesAssumption, IssuesTypes, IssuesTypes', NEW i \in Issues, changed'[i] = changed[i],
         \A j \in Issues : changed'[j] >= changed[j], Gitlab!Crowded(i)
  PROVE  Gitlab!Crowded(i)'
  <1> DEFINE A == {j \in Issues \ {i} : GroupOf[j] = GroupOf[i] /\ changed[j] >= changed[i]}
             B == {j \in Issues \ {i} : GroupOf[j] = GroupOf[i] /\ changed'[j] >= changed'[i]}
  <1>1. A \subseteq B
    <2> SUFFICES ASSUME NEW j \in A PROVE changed'[j] >= changed'[i]
      OBVIOUS
    <2>1. changed[j] \in Int /\ changed'[j] \in Int /\ changed[i] \in Int
      BY DEF IssuesTypes, Times
    <2>2. changed'[j] >= changed[j] /\ changed[j] >= changed[i]
      OBVIOUS
    <2> QED BY <2>1, <2>2
  <1>2. IsFiniteSet(B)
    BY FS_Subset DEF IssuesAssumption
  <1>3. Cardinality(A) \in Nat /\ Cardinality(B) \in Nat /\ Cardinality(A) <= Cardinality(B)
    BY <1>1, <1>2, FS_Subset, FS_CardinalityType
  <1>4. Cardinality(A) >= Limit
    BY DEF Gitlab!Crowded, Gitlab!Cardinality, Cardinality
  <1>5. Cardinality(B) >= Limit
    BY <1>3, <1>4 DEF IssuesAssumption
  <1> QED BY <1>5 DEF Gitlab!Crowded, Gitlab!Cardinality, Cardinality

\* What an answer leaves out is crowded out.
LEMMA LeftOutIsCrowded ==
  ASSUME IssuesAssumption, IssuesTypes, NEW entries \in SUBSET Issues, NEW S \in Gitlab!Answer(entries),
         NEW of, \A j \in entries : GroupOf[j] = of, NEW i \in entries \ S
  PROVE  Gitlab!Crowded(i)
  <1> DEFINE least == Gitlab!Min({Limit, Gitlab!Cardinality(entries)})
             A == {j \in Issues \ {i} : GroupOf[j] = GroupOf[i] /\ changed[j] >= changed[i]}
  <1>1. /\ S \subseteq entries /\ Gitlab!Cardinality(S) = least
        /\ \A j \in S : changed[j] >= changed[i]
    BY DEF Gitlab!Answer
  <1>2. IsFiniteSet(entries) /\ IsFiniteSet(S) /\ IsFiniteSet(A)
    BY <1>1, FS_Subset DEF IssuesAssumption
  <1>3. Cardinality(S) \in Nat /\ Cardinality(entries) \in Nat /\ Cardinality(A) \in Nat
    BY <1>2, FS_CardinalityType
  <1>4. Cardinality(S) # Cardinality(entries)
    BY <1>1, <1>2, FS_Subset
  <1>5. Gitlab!Cardinality(S) = Cardinality(S) /\ Gitlab!Cardinality(entries) = Cardinality(entries)
    BY DEF Gitlab!Cardinality, Cardinality
  <1>6. \A a, b \in Nat : Gitlab!Min({a, b}) \in {a, b}
    <2> SUFFICES ASSUME NEW a \in Nat, NEW b \in Nat PROVE Gitlab!Min({a, b}) \in {a, b}
      OBVIOUS
    <2>1. \E x \in {a, b} : \A y \in {a, b} : x <= y
      <3>1. CASE a <= b
        BY <3>1
      <3>2. CASE b <= a
        BY <3>2
      <3> QED BY <3>1, <3>2
    <2> QED BY <2>1 DEF Gitlab!Min
  <1>7. Cardinality(S) = Limit
    BY <1>1, <1>3, <1>4, <1>5, <1>6 DEF IssuesAssumption
  <1>8. S \subseteq A
    BY <1>1
  <1>9. Cardinality(S) <= Cardinality(A)
    BY <1>2, <1>8, FS_Subset
  <1> HIDE DEF A
  <1>10. Cardinality(A) >= Limit
    BY <1>3, <1>7, <1>9 DEF IssuesAssumption
  <1> QED BY <1>10 DEF A, Gitlab!Crowded, Gitlab!Cardinality, Cardinality

\* Time passes, issues are closed and reopened: what was heardOf of them from a time before stays so.
LEMMA WorldMoves ==
  ASSUME IssuesAssumption, IssuesInv, IssuesTypes', now <= now', UNCHANGED <<fetch, cache>>,
         \A i \in Issues : \/ changed'[i] = changed[i] /\ closedAt'[i] = closedAt[i]
                           \/ changed'[i] = now
  PROVE  IssuesInv'
  <1>1. /\ IssuesTypes /\ CacheSound(cache) /\ \A p \in Pages : FetchSound(fetch[p])
        /\ now \in Nat /\ now' \in Nat
    BY DEF IssuesInv, IssuesTypes, IssuesAssumption
  <1>2. ASSUME NEW i \in Issues
        PROVE  /\ changed[i] \in Int /\ changed'[i] \in Int /\ changed'[i] >= changed[i]
               /\ closedAt[i] \in Int
    BY <1>1 DEF IssuesTypes, Times
  <1>3. ASSUME NEW i \in Issues, changed'[i] = changed[i], Gitlab!Crowded(i) PROVE Gitlab!Crowded(i)'
    BY <1>1, <1>2, <1>3, CrowdedKeeps
  <1>4. ASSUME NEW at \in 0 .. now, NEW of, NEW heardOf, OpenTold(at, of, heardOf)
        PROVE  OpenTold(at, of, heardOf)'
    <2>1. ASSUME NEW i \in heardOf
          PROVE  i \in Issues \ Meta /\ GroupOf[i] = of /\ (closedAt'[i] = Gitlab!Open \/ changed'[i] >= at)
      <3>1. i \in Issues \ Meta /\ GroupOf[i] = of /\ (closedAt[i] = Gitlab!Open \/ changed[i] >= at)
        BY <1>4, <2>1 DEF OpenTold
      <3> QED BY <1>1, <1>2, <3>1
    <2>2. ASSUME NEW i \in Issues \ Meta, GroupOf[i] = of, changed'[i] < at, closedAt'[i] = Gitlab!Open
          PROVE  i \in heardOf \/ Gitlab!Crowded(i)'
      <3>1. changed'[i] # now
        BY <1>1, <2>2
      <3>2. changed'[i] = changed[i] /\ closedAt'[i] = closedAt[i]
        BY <3>1
      <3>3. i \in heardOf \/ Gitlab!Crowded(i)
        BY <1>4, <2>2, <3>2 DEF OpenTold
      <3> QED BY <1>3, <3>2, <3>3
    <2> QED BY <2>1, <2>2 DEF OpenTold, Gitlab!Open
  <1>5. ASSUME NEW at \in 0 .. now, NEW of, NEW heardOf, DoneTold(at, of, heardOf)
        PROVE  DoneTold(at, of, heardOf)'
    <2>1. ASSUME NEW i \in heardOf
          PROVE  /\ i \in Issues \ Meta /\ GroupOf[i] = of
                 /\ changed'[i] >= at \/ (closedAt'[i] # Gitlab!Open /\ closedAt'[i] >= Gitlab!DayOf(at))
      <3>1. /\ i \in Issues \ Meta /\ GroupOf[i] = of
            /\ changed[i] >= at \/ (closedAt[i] # Gitlab!Open /\ closedAt[i] >= Gitlab!DayOf(at))
        BY <1>5, <2>1 DEF DoneTold
      <3> QED BY <1>1, <1>2, <3>1
    <2>2. ASSUME NEW i \in Issues \ Meta, GroupOf[i] = of, changed'[i] < at, closedAt'[i] # Gitlab!Open,
                 closedAt'[i] >= Gitlab!DayOf(now')
          PROVE  i \in heardOf \/ Gitlab!Crowded(i)'
      <3>1. changed'[i] # now
        BY <1>1, <2>2
      <3>2. changed'[i] = changed[i] /\ closedAt'[i] = closedAt[i]
        BY <3>1
      <3>3. /\ Gitlab!DayOf(now) \in Int /\ Gitlab!DayOf(now') \in Int
            /\ Gitlab!DayOf(now) <= Gitlab!DayOf(now')
        BY <1>1, DayFacts
      <3>4. closedAt[i] >= Gitlab!DayOf(now)
        BY <1>2, <2>2, <3>2, <3>3
      <3>5. i \in heardOf \/ Gitlab!Crowded(i)
        BY <1>5, <2>2, <3>2, <3>4 DEF DoneTold, Gitlab!Midnight
      <3> QED BY <1>3, <3>2, <3>5
    <2> QED BY <2>1, <2>2 DEF DoneTold, Gitlab!Open, Gitlab!DayOf, Gitlab!Midnight
  <1>6. ASSUME NEW p \in Pages PROVE FetchSound(fetch[p])'
    <2>1. PICK f : f = fetch[p] /\ fetch'[p] = f
      OBVIOUS
    <2>2. FetchSound(f) /\ f \in Fetches
      BY <1>1, <2>1 DEF IssuesTypes
    <2>3. FetchSound(f)'
      <3>1. f.at <= now' /\ (f.stage # "idle" => f.at \in 0 .. now')
        BY <1>1, <2>2 DEF FetchSound, Fetches, Times
      <3>2. f.stage \in {"opened", "queried"} => OpenTold(f.at, f.of, f.issues)'
        BY <1>4, <2>2 DEF FetchSound
      <3>3. f.stage = "queried" => DoneTold(f.at, f.of, f.done)'
        BY <1>5, <2>2 DEF FetchSound
      <3> QED BY <3>1, <3>2, <3>3 DEF FetchSound
    <2> QED BY <2>1, <2>3
  <1>7. CacheSound(cache)'
    <2>1. PICK c : c = cache /\ cache' = c
      OBVIOUS
    <2>2. CacheSound(c) /\ c \in Caches
      BY <1>1, <2>1 DEF IssuesTypes
    <2>3. c.at <= now' /\ (c.at # Gitlab!None => c.at \in 0 .. now)
      BY <1>1, <2>2 DEF CacheSound, Caches, Times
    <2>4. CacheSound(c)'
      <3>1. c.at # Gitlab!None => OpenTold(c.at, c.of, c.issues)' /\ DoneTold(c.at, c.of, c.done)'
        BY <1>4, <1>5, <2>2, <2>3 DEF CacheSound
      <3>2. c.at # Gitlab!None => c.at \in 0 .. now'
        BY <1>1, <2>3
      <3> QED BY <2>2, <2>3, <3>1, <3>2 DEF CacheSound, Gitlab!None
    <2> QED BY <2>1, <2>4
  <1> QED BY <1>6, <1>7 DEF IssuesInv

LEMMA IssuesTickStep == ASSUME IssuesAssumption, IssuesInv, Gitlab!Tick PROVE IssuesInv'
  <1>1. IssuesTypes
    BY DEF IssuesInv
  <1>2. now < MaxTime /\ now' = now + 1 /\ UNCHANGED <<closedAt, changed, fetch, cache>>
    BY DEF Gitlab!Tick
  <1>3. now \in Nat /\ now' \in 0 .. MaxTime /\ now <= now'
    BY <1>1, <1>2 DEF IssuesTypes, IssuesAssumption
  <1>4. \A i \in Issues : changed[i] \in Int /\ changed[i] <= now
    BY <1>1 DEF IssuesTypes, Times
  <1>5. \A i \in Issues : changed[i] <= now'
    BY <1>3, <1>4
  <1>6. IssuesTypes'
    BY <1>1, <1>2, <1>3, <1>5 DEF IssuesTypes, Gitlab!Open
  <1> QED BY <1>2, <1>3, <1>6, WorldMoves

LEMMA CloseOrReopenStep ==
  ASSUME IssuesAssumption, IssuesInv, NEW i \in Issues, Gitlab!CloseOrReopen(i) PROVE IssuesInv'
  <1>1. IssuesTypes /\ now \in Nat /\ now \in Times /\ now <= now /\ -1 \in Times
    BY DEF IssuesInv, IssuesTypes, IssuesAssumption, Times
  <1>2. PICK at : /\ at \in {now, -1} /\ closedAt' = [closedAt EXCEPT ![i] = at]
    BY DEF Gitlab!CloseOrReopen, Gitlab!Open
  <1>3. /\ changed' = [changed EXCEPT ![i] = now] /\ UNCHANGED <<now, fetch, cache>>
    BY DEF Gitlab!CloseOrReopen
  <1>4. /\ closedAt' \in [Issues -> Times] /\ changed' \in [Issues -> Times]
        /\ changed'[i] = now /\ closedAt'[i] = at
        /\ \A j \in Issues \ {i} : changed'[j] = changed[j] /\ closedAt'[j] = closedAt[j]
    BY <1>1, <1>2, <1>3 DEF IssuesTypes
  <1>5. \A j \in Issues : changed'[j] <= now' /\ (closedAt'[j] # -1 => closedAt'[j] = changed'[j])
    <2> SUFFICES ASSUME NEW j \in Issues
                 PROVE  changed'[j] <= now' /\ (closedAt'[j] # -1 => closedAt'[j] = changed'[j])
      OBVIOUS
    <2>1. CASE j = i
      BY <1>1, <1>2, <1>3, <1>4, <2>1
    <2>2. CASE j # i
      BY <1>1, <1>3, <1>4, <2>2 DEF IssuesTypes, Gitlab!Open
    <2> QED BY <2>1, <2>2
  <1>6. IssuesTypes'
    BY <1>1, <1>3, <1>4, <1>5 DEF IssuesTypes, Gitlab!Open
  <1>7. \A j \in Issues : \/ changed'[j] = changed[j] /\ closedAt'[j] = closedAt[j]
                          \/ changed'[j] = now
    BY <1>4
  <1> QED BY <1>1, <1>3, <1>6, <1>7, WorldMoves

\* A page's request goes on, and the cache with it or not.
LEMMA FetchChanges ==
  ASSUME IssuesInv, NEW p \in Pages, NEW f \in Fetches, fetch' = [fetch EXCEPT ![p] = f], FetchSound(f),
         NEW c \in Caches, cache' = c, CacheSound(c), UNCHANGED <<closedAt, changed, now>>
  PROVE  IssuesInv'
  <1>1. IssuesTypes /\ \A q \in Pages : FetchSound(fetch[q])
    BY DEF IssuesInv
  <1>2. fetch'[p] = f /\ \A q \in Pages \ {p} : fetch'[q] = fetch[q]
    BY <1>1 DEF IssuesTypes
  <1>3. IssuesTypes'
    BY <1>1 DEF IssuesTypes, Gitlab!Open
  <1>4. ASSUME NEW of, NEW heardOf, NEW at
        PROVE  /\ OpenTold(at, of, heardOf) => OpenTold(at, of, heardOf)'
               /\ DoneTold(at, of, heardOf) => DoneTold(at, of, heardOf)'
    <2>1. Gitlab!Midnight' = Gitlab!Midnight
      BY DEF Gitlab!Midnight, Gitlab!DayOf
    <2>2. ASSUME NEW i PROVE Gitlab!Crowded(i)' = Gitlab!Crowded(i)
      BY DEF Gitlab!Crowded
    <2>3. OpenTold(at, of, heardOf) => OpenTold(at, of, heardOf)'
      BY <2>2 DEF OpenTold, Gitlab!Open
    <2>4. DoneTold(at, of, heardOf) => DoneTold(at, of, heardOf)'
      BY <2>1, <2>2 DEF DoneTold, Gitlab!Open, Gitlab!DayOf
    <2> QED BY <2>3, <2>4
  <1>5. \A x : FetchSound(x) => FetchSound(x)'
    BY <1>4 DEF FetchSound
  <1>6. CacheSound(c)'
    BY <1>4 DEF CacheSound, Gitlab!None
  <1>7. ASSUME NEW q \in Pages PROVE FetchSound(fetch[q])'
    <2>1. PICK x : x = fetch'[q]
      OBVIOUS
    <2>2. FetchSound(x)
      BY <1>1, <1>2, <2>1
    <2> QED BY <1>5, <2>1, <2>2
  <1>8. CacheSound(cache)'
    BY <1>6
  <1> QED BY <1>3, <1>7, <1>8 DEF IssuesInv

LEMMA AskStep ==
  ASSUME IssuesAssumption, IssuesInv, NEW p \in Pages, NEW group \in Groups, Gitlab!Ask(p, group)
  PROVE  IssuesInv'
  <1>1. IssuesTypes /\ CacheSound(cache) /\ FetchSound(fetch[p])
    BY DEF IssuesInv
  <1>2. UNCHANGED <<closedAt, changed, now>>
    BY DEF Gitlab!Ask
  <1>3. CASE group = Gitlab!NoGroup
    <2>1. fetch' = fetch /\ cache' = [cache EXCEPT !.error = TRUE]
      BY <1>3 DEF Gitlab!Ask
    <2>2. PICK c : c = [cache EXCEPT !.error = TRUE]
      OBVIOUS
    <2>3. cache \in Caches
      BY <1>1 DEF IssuesTypes
    <2>4. /\ c \in Caches /\ c.at = cache.at /\ c.issues = cache.issues /\ c.done = cache.done
          /\ c.of = cache.of
      BY <2>2, <2>3 DEF Caches
    <2>5. CacheSound(c)
      BY <1>1, <2>4 DEF CacheSound
    <2>6. fetch[p] \in Fetches /\ fetch' = [fetch EXCEPT ![p] = fetch[p]]
      BY <1>1, <2>1 DEF IssuesTypes
    <2> QED BY <1>1, <1>2, <2>1, <2>2, <2>4, <2>5, <2>6, FetchChanges
  <1>4. CASE group # Gitlab!NoGroup
    <2>1. /\ cache' = cache
          /\ fetch' = [fetch EXCEPT ![p] =
                         [Gitlab!Idle EXCEPT !.stage = "asked", !.at = now, !.of = group]]
      BY <1>4 DEF Gitlab!Ask
    <2> DEFINE idle == Gitlab!Idle
               f == [idle EXCEPT !.stage = "asked", !.at = now, !.of = group]
    <2>2. idle \in Fetches
      BY DEF Gitlab!Idle, Gitlab!None, Fetches, Times, IssuesAssumption
    <2>3. now \in Times /\ now \in 0 .. now /\ now <= now
      BY <1>1 DEF IssuesTypes, IssuesAssumption, Times
    <2> HIDE DEF idle
    <2>4. f \in Fetches /\ f.stage = "asked" /\ f.at = now
      BY <2>2, <2>3 DEF Fetches
    <2>5. fetch' = [fetch EXCEPT ![p] = f]
      BY <2>1 DEF idle
    <2> HIDE DEF f
    <2>6. FetchSound(f)
      BY <2>3, <2>4 DEF FetchSound
    <2>7. cache \in Caches
      BY <1>1 DEF IssuesTypes
    <2> QED BY <1>1, <1>2, <2>1, <2>4, <2>5, <2>6, <2>7, FetchChanges
  <1> QED BY <1>3, <1>4

\* What a query answers, and what it leaves out.
LEMMA AnswerFacts ==
  ASSUME IssuesAssumption, IssuesTypes, NEW entries \in SUBSET Issues, NEW S \in Gitlab!Answer(entries),
         NEW of, \A j \in entries : GroupOf[j] = of
  PROVE  S \subseteq entries /\ \A i \in entries : i \in S \/ Gitlab!Crowded(i)
  <1>1. S \subseteq entries
    BY DEF Gitlab!Answer
  <1>2. ASSUME NEW i \in entries, i \notin S PROVE Gitlab!Crowded(i)
    <2>1. i \in entries \ S
      BY <1>2
    <2> QED BY <2>1, LeftOutIsCrowded
  <1> QED BY <1>1, <1>2

LEMMA QueryOpenStep ==
  ASSUME IssuesAssumption, IssuesInv, NEW p \in Pages, Gitlab!QueryOpen(p) PROVE IssuesInv'
  <1>1. IssuesTypes /\ CacheSound(cache) /\ FetchSound(fetch[p]) /\ fetch[p] \in Fetches /\ cache \in Caches
    BY DEF IssuesInv, IssuesTypes
  <1> DEFINE of == fetch[p].of
             open == {i \in Issues : GroupOf[i] = of /\ closedAt[i] = Gitlab!Open}
  <1>2. PICK entries \in Gitlab!Answer(open) :
          fetch' = [fetch EXCEPT ![p] = [fetch[p] EXCEPT !.stage = "opened", !.issues = entries \ Meta]]
    BY <1>1 DEF Gitlab!QueryOpen, IssuesTypes
  <1>3. fetch[p].stage = "asked" /\ UNCHANGED <<closedAt, changed, now, cache>>
    BY DEF Gitlab!QueryOpen
  <1>4. open \in SUBSET Issues /\ \A i \in open : GroupOf[i] = of
    OBVIOUS
  <1>5. entries \subseteq open /\ \A i \in open : i \in entries \/ Gitlab!Crowded(i)
    <2> HIDE DEF open, of
    <2> QED BY <1>1, <1>4, AnswerFacts
  <1> DEFINE f == [fetch[p] EXCEPT !.stage = "opened", !.issues = entries \ Meta]
  <1>6. /\ f \in Fetches /\ f.stage = "opened" /\ f.issues = entries \ Meta
        /\ f.at = fetch[p].at /\ f.of = fetch[p].of
    BY <1>1, <1>5 DEF Fetches
  <1> HIDE DEF f
  <1>7. OpenTold(f.at, f.of, f.issues)
    BY <1>5, <1>6 DEF OpenTold
  <1>8. FetchSound(f)
    BY <1>1, <1>3, <1>6, <1>7 DEF FetchSound
  <1>9. fetch' = [fetch EXCEPT ![p] = f]
    BY <1>2 DEF f
  <1> QED BY <1>1, <1>3, <1>6, <1>8, <1>9, FetchChanges

LEMMA QueryDoneStep ==
  ASSUME IssuesAssumption, IssuesInv, NEW p \in Pages, Gitlab!QueryDone(p) PROVE IssuesInv'
  <1>1. IssuesTypes /\ CacheSound(cache) /\ FetchSound(fetch[p]) /\ fetch[p] \in Fetches /\ cache \in Caches
    BY DEF IssuesInv, IssuesTypes
  <1> DEFINE of == fetch[p].of
             closed == {i \in Issues : /\ GroupOf[i] = of /\ closedAt[i] # Gitlab!Open
                                       /\ changed[i] >= Gitlab!Midnight}
  <1>2. PICK entries \in Gitlab!Answer(closed) :
          fetch' = [fetch EXCEPT ![p] =
            [fetch[p] EXCEPT !.stage = "queried",
                             !.done = {i \in entries \ Meta : closedAt[i] >= Gitlab!Midnight}]]
    BY <1>1 DEF Gitlab!QueryDone, IssuesTypes
  <1>3. fetch[p].stage = "opened" /\ UNCHANGED <<closedAt, changed, now, cache>>
    BY DEF Gitlab!QueryDone
  <1>4. closed \in SUBSET Issues /\ \A i \in closed : GroupOf[i] = of
    OBVIOUS
  <1>5. entries \subseteq closed /\ \A i \in closed : i \in entries \/ Gitlab!Crowded(i)
    <2> HIDE DEF closed, of
    <2> QED BY <1>1, <1>4, AnswerFacts
  <1> DEFINE heardOf == {i \in entries \ Meta : closedAt[i] >= Gitlab!Midnight}
             f == [fetch[p] EXCEPT !.stage = "queried", !.done = heardOf]
  <1>6. /\ f \in Fetches /\ f.stage = "queried" /\ f.done = heardOf
        /\ f.at = fetch[p].at /\ f.of = fetch[p].of /\ f.issues = fetch[p].issues
    BY <1>1, <1>5 DEF Fetches
  <1>7. f.at \in Nat /\ f.at <= now /\ now \in Nat
    BY <1>1, <1>3, <1>6 DEF FetchSound, IssuesTypes
  <1>8. /\ Gitlab!DayOf(f.at) \in Int /\ Gitlab!Midnight \in Int /\ Gitlab!DayOf(f.at) <= Gitlab!Midnight
    BY <1>7, DayFacts DEF Gitlab!Midnight
  <1>9. DoneTold(f.at, f.of, heardOf)
    <2>1. ASSUME NEW i \in heardOf
          PROVE  /\ i \in Issues \ Meta /\ GroupOf[i] = f.of
                 /\ closedAt[i] # Gitlab!Open /\ closedAt[i] >= Gitlab!DayOf(f.at)
      <3>1. closedAt[i] \in Int /\ closedAt[i] >= Gitlab!Midnight
        BY <1>1, <1>5, <2>1 DEF IssuesTypes, Times
      <3> HIDE DEF f
      <3> QED BY <1>5, <1>6, <1>8, <3>1
    <2>2. ASSUME NEW i \in Issues \ Meta, GroupOf[i] = f.of, closedAt[i] # Gitlab!Open,
                 closedAt[i] >= Gitlab!Midnight
          PROVE  i \in heardOf \/ Gitlab!Crowded(i)
      <3>1. closedAt[i] = changed[i]
        BY <1>1, <2>2 DEF IssuesTypes
      <3>2. i \in closed
        BY <1>6, <2>2, <3>1
      <3> QED BY <1>5, <2>2, <3>2
    <2> HIDE DEF heardOf, f
    <2> QED BY <2>1, <2>2 DEF DoneTold
  <1> HIDE DEF f, heardOf
  <1>10. FetchSound(f)
    BY <1>1, <1>3, <1>6, <1>9 DEF FetchSound
  <1>11. fetch' = [fetch EXCEPT ![p] = f]
    BY <1>2 DEF f, heardOf
  <1> QED BY <1>1, <1>3, <1>6, <1>10, <1>11, FetchChanges

LEMMA IdleFetch ==
  ASSUME IssuesAssumption, IssuesTypes
  PROVE  Gitlab!Idle \in Fetches /\ FetchSound(Gitlab!Idle)
  <1>1. /\ Gitlab!Idle \in Fetches /\ Gitlab!Idle.stage = "idle" /\ Gitlab!Idle.at = -1
    BY DEF Gitlab!Idle, Gitlab!None, Fetches, Times, IssuesAssumption
  <1>2. -1 <= now
    BY DEF IssuesTypes, IssuesAssumption
  <1> QED BY <1>1, <1>2 DEF FetchSound

LEMMA RefreshStep ==
  ASSUME IssuesAssumption, IssuesInv, NEW p \in Pages, Gitlab!Refresh(p) PROVE IssuesInv'
  <1>1. IssuesTypes /\ FetchSound(fetch[p]) /\ fetch[p] \in Fetches
    BY DEF IssuesInv, IssuesTypes
  <1>2. /\ fetch[p].stage = "queried" /\ fetch' = [fetch EXCEPT ![p] = Gitlab!Idle]
        /\ UNCHANGED <<closedAt, changed, now>>
    BY DEF Gitlab!Refresh
  <1>3. PICK c : /\ cache' = c
                 /\ c = [at |-> fetch[p].at, issues |-> fetch[p].issues, done |-> fetch[p].done,
                         error |-> FALSE, of |-> fetch[p].of]
    BY DEF Gitlab!Refresh
  <1>4. /\ c \in Caches /\ c.at = fetch[p].at /\ c.issues = fetch[p].issues /\ c.done = fetch[p].done
        /\ c.of = fetch[p].of
    BY <1>1, <1>3 DEF Fetches, Caches
  <1>5. fetch[p].at \in 0 .. now /\ fetch[p].at <= now /\ fetch[p].at # Gitlab!None
    BY <1>1, <1>2 DEF FetchSound, Gitlab!None
  <1>6. CacheSound(c)
    BY <1>1, <1>2, <1>4, <1>5 DEF CacheSound, FetchSound
  <1> QED BY <1>1, <1>2, <1>3, <1>4, <1>6, IdleFetch, FetchChanges

LEMMA FailStep ==
  ASSUME IssuesAssumption, IssuesInv, NEW p \in Pages, Gitlab!Fail(p) PROVE IssuesInv'
  <1>1. IssuesTypes /\ CacheSound(cache) /\ cache \in Caches
    BY DEF IssuesInv, IssuesTypes
  <1>2. /\ fetch' = [fetch EXCEPT ![p] = Gitlab!Idle] /\ cache' = [cache EXCEPT !.error = TRUE]
        /\ UNCHANGED <<closedAt, changed, now>>
    BY DEF Gitlab!Fail
  <1>3. PICK c : c = [cache EXCEPT !.error = TRUE]
    OBVIOUS
  <1>4. /\ c \in Caches /\ c.at = cache.at /\ c.issues = cache.issues /\ c.done = cache.done
        /\ c.of = cache.of
    BY <1>1, <1>3 DEF Caches
  <1>5. CacheSound(c)
    BY <1>1, <1>4 DEF CacheSound
  <1> QED BY <1>1, <1>2, <1>3, <1>4, <1>5, IdleFetch, FetchChanges

LEMMA IssuesStep == ASSUME IssuesAssumption, IssuesInv, [Gitlab!Next]_(Gitlab!vars) PROVE IssuesInv'
  <1>1. CASE UNCHANGED Gitlab!vars
    <2>1. UNCHANGED <<closedAt, changed, now, fetch, cache>>
      BY <1>1 DEF Gitlab!vars
    <2>2. IssuesTypes' /\ now <= now'
      BY <2>1 DEF IssuesInv, IssuesTypes, IssuesAssumption, Gitlab!Open
    <2> QED BY <2>1, <2>2, WorldMoves
  <1>2. CASE \E p \in Pages : \/ Gitlab!QueryOpen(p) \/ Gitlab!QueryDone(p)
                              \/ Gitlab!Refresh(p) \/ Gitlab!Fail(p)
    BY <1>2, QueryOpenStep, QueryDoneStep, RefreshStep, FailStep
  <1>3. CASE \E i \in Issues : Gitlab!CloseOrReopen(i)
    BY <1>3, CloseOrReopenStep
  <1>4. CASE \E p \in Pages, group \in Groups : Gitlab!Ask(p, group)
    BY <1>4, AskStep
  <1> QED BY <1>1, <1>2, <1>3, <1>4, IssuesTickStep DEF Gitlab!Next

LEMMA IssuesMeans ==
  ASSUME IssuesAssumption, IssuesInv PROVE Gitlab!TypeOK /\ Gitlab!IssuesTrue
  <1>1. IssuesTypes /\ CacheSound(cache) /\ \A p \in Pages : FetchSound(fetch[p])
    BY DEF IssuesInv
  <1>2. Gitlab!TypeOK
    <2>1. \A p \in Pages : fetch[p].stage \in {"idle", "asked", "opened", "queried"}
      BY <1>1 DEF IssuesTypes, Fetches
    <2>2. cache.issues \cup cache.done \subseteq Issues
      BY <1>1 DEF IssuesTypes, Caches
    <2> QED BY <1>1, <2>1, <2>2 DEF FetchSound, CacheSound, Gitlab!TypeOK
  <1>3. Gitlab!CardsTrue
    <2> SUFFICES ASSUME cache.at # Gitlab!None, NEW i \in Issues \ Meta,
                        GroupOf[i] = cache.of, changed[i] < cache.at
                 PROVE  /\ i \in cache.issues => closedAt[i] = Gitlab!Open
                        /\ i \in cache.done => closedAt[i] # Gitlab!Open
                                               /\ closedAt[i] >= Gitlab!DayOf(cache.at)
                        /\ closedAt[i] = Gitlab!Open => i \in cache.issues \/ Gitlab!Crowded(i)
                        /\ closedAt[i] # Gitlab!Open /\ closedAt[i] >= Gitlab!Midnight =>
                             i \in cache.done \/ Gitlab!Crowded(i)
      BY DEF Gitlab!CardsTrue, Gitlab!Backlog, Gitlab!Done
    <2>1. OpenTold(cache.at, cache.of, cache.issues) /\ DoneTold(cache.at, cache.of, cache.done)
      BY <1>1 DEF CacheSound
    <2>2. ~(changed[i] >= cache.at)
      <3>1. changed[i] \in Int /\ cache.at \in Int
        BY <1>1 DEF IssuesTypes, Caches, Times
      <3> QED BY <3>1
    <2> QED BY <2>1, <2>2 DEF OpenTold, DoneTold
  <1>4. Gitlab!CardsForCause
    <2>1. CASE cache.at = Gitlab!None
      BY <1>1, <2>1 DEF CacheSound, Gitlab!CardsForCause, Gitlab!Backlog, Gitlab!Done
    <2>2. CASE cache.at # Gitlab!None
      <3>1. OpenTold(cache.at, cache.of, cache.issues) /\ DoneTold(cache.at, cache.of, cache.done)
        BY <1>1, <2>2 DEF CacheSound
      <3> QED BY <3>1 DEF OpenTold, DoneTold, Gitlab!CardsForCause, Gitlab!Backlog, Gitlab!Done
    <2> QED BY <2>1, <2>2
  <1> QED BY <1>2, <1>3, <1>4 DEF Gitlab!IssuesTrue

\* Whatever order the refreshes of several pages end in: an issue not touched since the time the
\* board shows is in the column it belongs to, or was crowded out of the answer, and a card is
\* of the group fetched (refresh, search_open_issues, search_done_today).
THEOREM IssuesTrueAlways ==
  ASSUME IssuesAssumption
  PROVE  Gitlab!Spec => [](Gitlab!TypeOK /\ Gitlab!IssuesTrue)
<1>1. Gitlab!Init => IssuesInv
  BY IssuesInit
<1>2. IssuesInv /\ [Gitlab!Next]_(Gitlab!vars) => IssuesInv'
  BY IssuesStep
<1>3. IssuesInv => Gitlab!TypeOK /\ Gitlab!IssuesTrue
  BY IssuesMeans
<1> QED BY <1>1, <1>2, <1>3, PTL DEF Gitlab!Spec

-----------------------------------------------------------------------------
(* The chains of the jobs file. *)

\* Every chain names a job there is, and no set of jobs chains within itself for ever.
Chained(cfg) ==
  /\ cfg \in Registry!Files
  /\ \A j \in Registry!Ids(cfg) : cfg[j].chain \subseteq Registry!Ids(cfg)
  /\ ~Registry!DetectChainCycle(cfg)

\* The file is sound as it is found.
RegistryAssumption == IsFiniteSet(Jobs) /\ "none" \in Types /\ Chained(StoredRows)

\* A registry as the program may hold it.
SoundFiles == {cfg \in Registry!Files : Chained(cfg)}

\* A sync, a deletion or a cleanup under way.
WorkStages == {"running", "query", "others", "delete", "create", "load", "save"}
Workers ==
  [kind : {"sync", "delete", "cleanup"}, job : Jobs, row : Registry!Rows \cup {Registry!Absent},
   at : WorkStages,
   known : SUBSET Registry!Names, todo : SUBSET Registry!Names, alone : BOOLEAN,
   cfg : SoundFiles]
RoutesAt == [kind : {"route"}, request : Registry!Requests, cfg : SoundFiles]
RegistryInv ==
  /\ Chained(file)
  /\ route \in RoutesAt \cup {Registry!Idle}
  /\ writers \in [1 .. MaxEvents -> Workers \cup {Registry!Idle}]

LEMMA RowFacts ==
  /\ Registry!Absent \notin Registry!Rows
  /\ Registry!Idle \notin Workers /\ Registry!Idle \notin RoutesAt
  /\ Registry!Idle.kind = "none"
  <1>1. ASSUME NEW r \in Registry!Rows PROVE r # Registry!Absent
    <2>1. "schedule" \in DOMAIN r
      BY DEF Registry!Rows
    <2>2. DOMAIN Registry!Absent = {"absent"}
      BY DEF Registry!Absent
    <2> QED BY <2>1, <2>2
  <1>2. Registry!Idle.kind = "none"
    BY DEF Registry!Idle
  <1>3. ASSUME NEW w \in Workers PROVE w.kind # "none"
    BY DEF Workers
  <1>4. ASSUME NEW r \in RoutesAt PROVE r.kind # "none"
    BY DEF RoutesAt
  <1> QED BY <1>1, <1>2, <1>3, <1>4

\* An edit that leaves the chains alone.
LEMMA ChainsLeft ==
  ASSUME NEW cfg, Chained(cfg), NEW j \in Registry!Ids(cfg), NEW row \in Registry!Rows,
         row.chain = cfg[j].chain
  PROVE  Chained([cfg EXCEPT ![j] = row])
  <1> DEFINE after == [cfg EXCEPT ![j] = row]
  <1>1. cfg \in [Jobs -> Registry!Rows \cup {Registry!Absent}] /\ j \in Jobs
    BY DEF Chained, Registry!Files, Registry!Ids
  <1>2. /\ after \in Registry!Files /\ after[j] = row
        /\ \A k \in Jobs \ {j} : after[k] = cfg[k]
    BY <1>1 DEF Registry!Files
  <1> HIDE DEF after
  <1>3. Registry!Ids(after) = Registry!Ids(cfg)
    BY <1>2, RowFacts DEF Registry!Ids
  <1>4. \A k \in Registry!Ids(cfg) : after[k].chain = cfg[k].chain
    BY <1>2 DEF Registry!Ids
  <1>5. \A k \in Registry!Ids(after) : after[k].chain \subseteq Registry!Ids(after)
    BY <1>3, <1>4 DEF Chained
  <1>6. ~Registry!DetectChainCycle(after)
    <2> SUFFICES ASSUME NEW loop \in (SUBSET Registry!Ids(after)) \ {{}},
                        \A k \in loop : after[k].chain \cap loop # {}
                 PROVE  FALSE
      BY DEF Registry!DetectChainCycle
    <2>1. loop \in (SUBSET Registry!Ids(cfg)) \ {{}} /\ \A k \in loop : cfg[k].chain \cap loop # {}
      BY <1>3, <1>4
    <2> QED BY <2>1 DEF Chained, Registry!DetectChainCycle
  <1> QED BY <1>2, <1>5, <1>6 DEF Chained, after

\* A job is removed, and with it the chains to it.
LEMMA JobRemoved ==
  ASSUME NEW cfg, Chained(cfg), NEW j \in Jobs
  PROVE  Chained(Registry!RemoveById(cfg, j))
  <1> DEFINE after == Registry!RemoveById(cfg, j)
  <1>1. cfg \in [Jobs -> Registry!Rows \cup {Registry!Absent}]
    BY DEF Chained, Registry!Files
  <1>2. ASSUME NEW k \in Jobs
        PROVE  IF k = j \/ cfg[k] = Registry!Absent THEN after[k] = Registry!Absent
               ELSE after[k] \in Registry!Rows /\ after[k].chain = cfg[k].chain \ {j}
    <2>1. after[k] = IF k = j \/ cfg[k] = Registry!Absent THEN Registry!Absent
                     ELSE [cfg[k] EXCEPT !.chain = cfg[k].chain \ {j}]
      BY DEF Registry!RemoveById
    <2>2. CASE k = j \/ cfg[k] = Registry!Absent
      BY <2>1, <2>2
    <2>3. CASE ~(k = j \/ cfg[k] = Registry!Absent)
      <3>1. cfg[k] \in Registry!Rows
        BY <1>1, <2>3
      <3> QED BY <2>1, <2>3, <3>1 DEF Registry!Rows
    <2> QED BY <2>2, <2>3
  <1>3. after \in Registry!Files
    <2>1. after = [k \in Jobs |-> after[k]]
      BY DEF Registry!RemoveById
    <2>2. \A k \in Jobs : after[k] \in Registry!Rows \cup {Registry!Absent}
      BY <1>2
    <2> HIDE DEF after
    <2> QED BY <2>1, <2>2 DEF Registry!Files
  <1> HIDE DEF after
  <1>4. Registry!Ids(after) = Registry!Ids(cfg) \ {j}
    BY <1>2, RowFacts DEF Registry!Ids
  <1>5. \A k \in Registry!Ids(after) : after[k].chain = cfg[k].chain \ {j}
    BY <1>2 DEF Registry!Ids
  <1>6. \A k \in Registry!Ids(after) : after[k].chain \subseteq Registry!Ids(after)
    BY <1>4, <1>5 DEF Chained
  <1>7. ~Registry!DetectChainCycle(after)
    <2> SUFFICES ASSUME NEW loop \in (SUBSET Registry!Ids(after)) \ {{}},
                        \A k \in loop : after[k].chain \cap loop # {}
                 PROVE  FALSE
      BY DEF Registry!DetectChainCycle
    <2>1. loop \in (SUBSET Registry!Ids(cfg)) \ {{}} /\ \A k \in loop : cfg[k].chain \cap loop # {}
      BY <1>4, <1>5
    <2> QED BY <2>1 DEF Chained, Registry!DetectChainCycle
  <1> QED BY <1>3, <1>6, <1>7 DEF Chained, after

\* What has been validated is sound.
LEMMA ValidatedIsChained ==
  ASSUME NEW cfg \in Registry!Files, Registry!ValidateChainConsistency(cfg) PROVE Chained(cfg)
  BY DEF Chained, Registry!ValidateChainConsistency, Registry!CheckChainReferences

\* An accepted edit leaves the registry sound.
LEMMA EditIsSound ==
  ASSUME NEW cfg \in SoundFiles, NEW r \in Registry!Requests, Registry!Accepted(cfg, r),
         RegistryAssumption
  PROVE  Registry!After(cfg, r) \in SoundFiles
  <1> DEFINE after == Registry!After(cfg, r)
  <1> SUFFICES Chained(after)
    BY DEF Chained, SoundFiles
  <1>1. /\ Chained(cfg) /\ r.job \in Jobs
        /\ cfg \in [Jobs -> Registry!Rows \cup {Registry!Absent}]
    BY DEF Registry!Requests, SoundFiles, Registry!Files
  <1>2. r.kind # "add" => r.job \in Registry!Ids(cfg) /\ cfg[r.job] \in Registry!Rows
    BY <1>1 DEF Registry!Accepted, Registry!Ids
  <1>3. ASSUME NEW row \in Registry!Rows, r.kind # "add", row.chain = cfg[r.job].chain,
               after = [cfg EXCEPT ![r.job] = row]
        PROVE  Chained(after)
    <2> DEFINE j == r.job
    <2>1. j \in Registry!Ids(cfg) /\ row.chain = cfg[j].chain
      BY <1>2, <1>3
    <2> HIDE DEF j
    <2>2. Chained([cfg EXCEPT ![j] = row])
      BY <1>1, <1>3, <2>1, ChainsLeft
    <2> QED BY <1>3, <2>2 DEF j
  <1>4. CASE r.kind = "add"
    <2>1. r.schedule \in Types /\ r.chain \in SUBSET Jobs
      BY <1>4 DEF Registry!Requests
    <2>2. after = [cfg EXCEPT ![r.job] = Registry!Row(r.schedule, r.chain)]
      BY <1>4 DEF Registry!After, Registry!AddJob
    <2>3. Registry!Row(r.schedule, r.chain) \in Registry!Rows
      BY <2>1 DEF Registry!Row, Registry!Rows
    <2>4. after \in Registry!Files
      BY <1>1, <2>2, <2>3 DEF Registry!Files
    <2>5. Registry!ValidateChainConsistency(after)
      BY <1>4 DEF Registry!Accepted
    <2> QED BY <2>4, <2>5, ValidatedIsChained
  <1>5. CASE r.kind = "chain"
    <2>1. r.chain \in SUBSET Jobs
      BY <1>5 DEF Registry!Requests
    <2>2. after = [cfg EXCEPT ![r.job] = [cfg[r.job] EXCEPT !.chain = r.chain]]
      BY <1>5 DEF Registry!After
    <2>3. [cfg[r.job] EXCEPT !.chain = r.chain] \in Registry!Rows
      BY <1>2, <1>5, <2>1 DEF Registry!Rows
    <2>4. after \in Registry!Files
      BY <1>1, <2>2, <2>3 DEF Registry!Files
    <2>5. Registry!ValidateChainConsistency(after)
      BY <1>5 DEF Registry!Accepted
    <2> QED BY <2>4, <2>5, ValidatedIsChained
  <1>6. CASE r.kind = "schedule"
    <2>1. r.schedule \in Types
      BY <1>6 DEF Registry!Requests
    <2> DEFINE row == [cfg[r.job] EXCEPT !.schedule = r.schedule]
    <2>2. after = [cfg EXCEPT ![r.job] = row]
      BY <1>6 DEF Registry!After
    <2>3. row \in Registry!Rows /\ row.chain = cfg[r.job].chain
      BY <1>2, <1>6, <2>1 DEF Registry!Rows
    <2> QED BY <1>3, <1>6, <2>2, <2>3
  <1>7. CASE r.kind = "elevated"
    <2>1. r.elevated \in BOOLEAN
      BY <1>7 DEF Registry!Requests
    <2> DEFINE row == [cfg[r.job] EXCEPT !.elevated = r.elevated]
    <2>2. after = [cfg EXCEPT ![r.job] = row]
      BY <1>7 DEF Registry!After
    <2>3. row \in Registry!Rows /\ row.chain = cfg[r.job].chain
      BY <1>2, <1>7, <2>1 DEF Registry!Rows
    <2> QED BY <1>3, <1>7, <2>2, <2>3
  <1>8. CASE r.kind = "pause"
    <2>1. after = Registry!PauseJob(cfg, r.job)
      BY <1>8 DEF Registry!After
    <2>2. CASE cfg[r.job].parked # Registry!NotParked
      BY <1>1, <2>1, <2>2 DEF Registry!PauseJob
    <2>3. CASE cfg[r.job].parked = Registry!NotParked
      <3> DEFINE row == [cfg[r.job] EXCEPT !.parked = cfg[r.job].schedule, !.schedule = "none"]
      <3>1. after = [cfg EXCEPT ![r.job] = row]
        BY <1>1, <1>2, <1>8, <2>1, <2>3 DEF Registry!PauseJob
      <3>2. row \in Registry!Rows /\ row.chain = cfg[r.job].chain
        BY <1>2, <1>8 DEF Registry!Rows, RegistryAssumption
      <3> QED BY <1>3, <1>8, <3>1, <3>2
    <2> QED BY <2>2, <2>3
  <1>9. CASE r.kind = "resume"
    <2>1. after = Registry!ResumeJob(cfg, r.job)
      BY <1>9 DEF Registry!After
    <2>2. CASE cfg[r.job].parked = Registry!NotParked
      BY <1>1, <2>1, <2>2 DEF Registry!ResumeJob
    <2>3. CASE cfg[r.job].parked # Registry!NotParked
      <3> DEFINE row == [cfg[r.job] EXCEPT !.schedule = cfg[r.job].parked, !.parked = Registry!NotParked]
      <3>1. after = [cfg EXCEPT ![r.job] = row]
        BY <1>1, <1>2, <1>9, <2>1, <2>3 DEF Registry!ResumeJob
      <3>2. row \in Registry!Rows /\ row.chain = cfg[r.job].chain
        BY <1>2, <1>9, <2>3 DEF Registry!Rows
      <3> QED BY <1>3, <1>9, <3>1, <3>2
    <2> QED BY <2>2, <2>3
  <1>10. CASE r.kind = "delete"
    <2>1. after = Registry!RemoveById(cfg, r.job)
      BY <1>10 DEF Registry!After
    <2> QED BY <1>1, <2>1, JobRemoved
  <1>11. r.kind \in {"add", "schedule", "chain", "elevated", "pause", "resume", "delete"}
    BY DEF Registry!Requests
  <1> QED BY <1>4, <1>5, <1>6, <1>7, <1>8, <1>9, <1>10, <1>11

LEMMA NamesAreNames ==
  /\ \A j \in Jobs, s \in {0} \cup Registry!Slots : Registry!TaskName(j, s) \in Registry!Names
  /\ \A schedule, j : j \in Jobs => \A t \in Registry!Wanted(j, schedule) : t[1] \in Registry!Names
  /\ Registry!Known \in SUBSET Registry!Names
  <1>1. \A j \in Jobs, s \in {0} \cup Registry!Slots : Registry!TaskName(j, s) \in Registry!Names
    BY DEF Registry!Names
  <1>2. ASSUME NEW j \in Jobs, NEW schedule, NEW t \in Registry!Wanted(j, schedule)
        PROVE  t[1] \in Registry!Names
    <2>1. Registry!SlotsOf(schedule) \subseteq {0} \cup Registry!Slots
      BY DEF Registry!SlotsOf
    <2>2. PICK s \in Registry!SlotsOf(schedule) :
            t = <<Registry!TaskName(j, s), [job |-> j, schedule |-> schedule, slot |-> s]>>
      BY <1>2 DEF Registry!Wanted
    <2>3. t[1] = Registry!TaskName(j, s)
      BY <2>2
    <2> QED BY <1>1, <2>1, <2>2, <2>3
  <1>3. Registry!Known \in SUBSET Registry!Names
    BY DEF Registry!Known
  <1> QED BY <1>1, <1>2, <1>3

\* One field of a worker at a time.
LEMMA WorkerFields ==
  ASSUME NEW w \in Workers
  PROVE  /\ \A at \in WorkStages : [w EXCEPT !.at = at] \in Workers
         /\ \A names \in SUBSET Registry!Names : [w EXCEPT !.known = names] \in Workers
         /\ \A names \in SUBSET Registry!Names : [w EXCEPT !.todo = names] \in Workers
         /\ \A alone \in BOOLEAN : [w EXCEPT !.alone = alone] \in Workers
         /\ \A cfg \in SoundFiles : [w EXCEPT !.cfg = cfg] \in Workers
  BY DEF Workers

\* Another writer starts: those it meets hear of it, nothing else of them changes.
LEMMA BeginTyped ==
  ASSUME NEW ws \in [1 .. MaxEvents -> Workers \cup {Registry!Idle}], NEW i \in 1 .. MaxEvents,
         NEW w \in Workers
  PROVE  Registry!Begin(ws, i, w) \in [1 .. MaxEvents -> Workers \cup {Registry!Idle}]
  <1> DEFINE met == Registry!Rivals(ws, w.job) \ {i}
             after == Registry!Begin(ws, i, w)
  <1>1. w.alone \in BOOLEAN
    BY DEF Workers
  <1>2. after = [k \in 1 .. MaxEvents |->
                   IF k = i THEN [w EXCEPT !.alone = w.alone /\ met = {}]
                   ELSE IF k \in met THEN [ws[k] EXCEPT !.alone = FALSE] ELSE ws[k]]
    BY DEF Registry!Begin
  <1>3. [w EXCEPT !.alone = w.alone /\ met = {}] \in Workers
    <2>1. (w.alone /\ met = {}) \in BOOLEAN
      OBVIOUS
    <2> HIDE DEF met
    <2> QED BY <2>1, WorkerFields
  <1>4. ASSUME NEW k \in met PROVE [ws[k] EXCEPT !.alone = FALSE] \in Workers
    <2>1. k \in 1 .. MaxEvents /\ ws[k].kind # "none"
      BY DEF Registry!Rivals, Registry!Working
    <2>2. ws[k] \in Workers
      BY <2>1, RowFacts
    <2> QED BY <2>2, WorkerFields
  <1> HIDE DEF met, after
  <1>5. ASSUME NEW k \in 1 .. MaxEvents PROVE after[k] \in Workers \cup {Registry!Idle}
    BY <1>2, <1>3, <1>4
  <1>6. after \in [1 .. MaxEvents -> Workers \cup {Registry!Idle}]
    BY <1>2, <1>5
  <1> QED BY <1>6 DEF after

\* Writers whose rows are taken back under them stay what they are.
LEMMA DisturbTyped ==
  ASSUME NEW ws \in [1 .. MaxEvents -> Workers \cup {Registry!Idle}], NEW set
  PROVE  Registry!Disturb(ws, set) \in [1 .. MaxEvents -> Workers \cup {Registry!Idle}]
  <1> DEFINE after == Registry!Disturb(ws, set)
  <1>1. after = [k \in 1 .. MaxEvents |->
                   IF Registry!Working(ws[k]) /\ ws[k].job \in set
                   THEN [ws[k] EXCEPT !.alone = FALSE] ELSE ws[k]]
    BY DEF Registry!Disturb
  <1>2. ASSUME NEW k \in 1 .. MaxEvents, Registry!Working(ws[k])
        PROVE  [ws[k] EXCEPT !.alone = FALSE] \in Workers
    <2>1. ws[k] \in Workers
      BY <1>2, RowFacts DEF Registry!Working
    <2> QED BY <2>1, WorkerFields
  <1> HIDE DEF after
  <1>3. after \in [1 .. MaxEvents -> Workers \cup {Registry!Idle}]
    BY <1>1, <1>2
  <1> QED BY <1>3 DEF after

\* What is at work is a worker.
LEMMA AtWork ==
  ASSUME RegistryInv, NEW i \in DOMAIN writers, writers[i].kind # "none"
  PROVE  writers[i] \in Workers
  BY RowFacts DEF RegistryInv

\* A step that touches no file, no route and one worker.
LEMMA OneWorker ==
  ASSUME RegistryInv, NEW i \in DOMAIN writers, NEW w \in Workers \cup {Registry!Idle},
         writers' = [writers EXCEPT ![i] = w], UNCHANGED <<file, route>>
  PROVE  RegistryInv'
  <1>1. writers' \in [1 .. MaxEvents -> Workers \cup {Registry!Idle}]
    BY DEF RegistryInv
  <1>2. Chained(file)'
    BY DEF RegistryInv, Chained, Registry!Files, Registry!Ids, Registry!DetectChainCycle
  <1> QED BY <1>1, <1>2 DEF RegistryInv

LEMMA RouteSteps ==
  ASSUME RegistryInv, RegistryAssumption,
         (\E r \in Registry!Requests : Registry!RouteLoad(r)) \/ Registry!RouteRefused
  PROVE  RegistryInv'
  <1>1. Chained(file)'
    BY DEF RegistryInv, Chained, Registry!Files, Registry!Ids, Registry!DetectChainCycle,
           Registry!RouteLoad, Registry!RouteRefused
  <1>2. writers' = writers
    BY DEF Registry!RouteLoad, Registry!RouteRefused
  <1>3. route' \in RoutesAt \cup {Registry!Idle}
    <2>1. CASE Registry!RouteRefused
      BY <2>1 DEF Registry!RouteRefused
    <2>2. ASSUME NEW r \in Registry!Requests, Registry!RouteLoad(r) PROVE route' \in RoutesAt
      <3>1. file \in SoundFiles
        BY DEF RegistryInv, Chained, SoundFiles
      <3>2. route' = [kind |-> "route", request |-> r, cfg |-> file]
        BY <2>2 DEF Registry!RouteLoad
      <3> QED BY <3>1, <3>2 DEF RoutesAt
    <2> QED BY <2>1, <2>2
  <1> QED BY <1>1, <1>2, <1>3 DEF RegistryInv

\* A new worker, as it is made.
LEMMA MadeTyped ==
  ASSUME RegistryAssumption, NEW kind \in {"sync", "delete", "cleanup"}, NEW j \in Jobs,
         NEW row \in Registry!Rows \cup {Registry!Absent}, NEW at \in WorkStages
  PROVE  Registry!Writer(kind, j, row, at) \in Workers
  <1>1. StoredRows \in SoundFiles
    BY DEF RegistryAssumption, Chained, SoundFiles
  <1> QED BY <1>1 DEF Registry!Writer, Workers

LEMMA RouteSaveStep ==
  ASSUME RegistryInv, RegistryAssumption, Registry!RouteSave PROVE RegistryInv'
  <1> DEFINE r == route.request
             cfg == Registry!After(route.cfg, r)
             kind == IF r.kind = "delete" THEN "delete" ELSE "sync"
             made == Registry!Writer(kind, r.job, cfg[r.job], "query")
  <1>1. route \in RoutesAt /\ Registry!Accepted(route.cfg, r)
    BY DEF RegistryInv, Registry!RouteSave
  <1>2. r \in Registry!Requests /\ route.cfg \in SoundFiles
    BY <1>1 DEF RoutesAt
  <1>3. cfg \in SoundFiles
    BY <1>1, <1>2, EditIsSound
  <1>4. r.job \in Jobs /\ kind \in {"sync", "delete", "cleanup"}
    BY <1>2 DEF Registry!Requests
  <1>5. cfg[r.job] \in Registry!Rows \cup {Registry!Absent}
    BY <1>3, <1>4 DEF SoundFiles, Registry!Files
  <1>6. made \in Workers
    <2>1. "query" \in WorkStages
      BY DEF WorkStages
    <2> HIDE DEF kind, cfg, r
    <2> QED BY <1>4, <1>5, <2>1, MadeTyped
  <1>7. PICK saved \in {file, cfg}, i \in DOMAIN writers :
          /\ file' = saved
          /\ writers' = Registry!Begin(Registry!Disturb(writers, Registry!TakenBack(saved, r.job)), i,
               [made EXCEPT !.alone = Registry!Fires(cfg[r.job]) = Registry!Fires(saved[r.job])])
          /\ route' = Registry!Idle
    BY DEF Registry!RouteSave
  <1>8. file \in SoundFiles
    BY DEF RegistryInv, Chained, SoundFiles
  <1> HIDE DEF made, cfg
  <1>9. file' \in SoundFiles
    BY <1>3, <1>7, <1>8
  <1>10. writers' \in [1 .. MaxEvents -> Workers \cup {Registry!Idle}]
    <2> DEFINE alone == Registry!Fires(cfg[r.job]) = Registry!Fires(saved[r.job])
               ws == Registry!Disturb(writers, Registry!TakenBack(saved, r.job))
    <2>1. alone \in BOOLEAN
      OBVIOUS
    <2>2. writers' = Registry!Begin(ws, i, [made EXCEPT !.alone = alone])
      BY <1>7
    <2>3. ws \in [1 .. MaxEvents -> Workers \cup {Registry!Idle}] /\ i \in 1 .. MaxEvents
      BY DisturbTyped DEF RegistryInv
    <2> HIDE DEF alone, ws
    <2>4. [made EXCEPT !.alone = alone] \in Workers
      BY <1>6, <2>1, WorkerFields
    <2> QED BY <2>2, <2>3, <2>4, BeginTyped
  <1>11. Chained(file)'
    <2>1. file' \in SoundFiles => Chained(file)'
      BY DEF SoundFiles, Chained, Registry!Files, Registry!Ids, Registry!DetectChainCycle
    <2> QED BY <1>9, <2>1
  <1> QED BY <1>7, <1>10, <1>11 DEF RegistryInv

LEMMA OnceFiresStep ==
  ASSUME RegistryInv, RegistryAssumption, NEW j \in Jobs, Registry!OnceFires(j) PROVE RegistryInv'
  <1>1. PICK i \in DOMAIN writers :
          writers' = [writers EXCEPT ![i] = Registry!Writer("cleanup", j, file[j], "running")]
    BY DEF Registry!OnceFires
  <1>2. file[j] \in Registry!Rows \cup {Registry!Absent}
    BY DEF RegistryInv, Chained, Registry!Files
  <1>3. "running" \in WorkStages /\ "cleanup" \in {"sync", "delete", "cleanup"}
    BY DEF WorkStages
  <1>4. Registry!Writer("cleanup", j, file[j], "running") \in Workers
    BY <1>2, <1>3, MadeTyped
  <1>5. UNCHANGED <<file, route>>
    BY DEF Registry!OnceFires
  <1> QED BY <1>1, <1>4, <1>5, OneWorker

LEMMA CleanupBeginsStep ==
  ASSUME RegistryInv, NEW i \in DOMAIN writers, Registry!CleanupBegins(i) PROVE RegistryInv'
  <1> DEFINE w == writers[i]
             alone == (file[w.job] = w.row)
             begun == [w EXCEPT !.at = "query", !.alone = alone]
  <1>1. w \in Workers
    BY AtWork DEF Registry!CleanupBegins, Registry!At
  <1>2. begun \in Workers
    <2>1. alone \in BOOLEAN /\ "query" \in WorkStages
      BY DEF WorkStages
    <2> DEFINE moved == [w EXCEPT !.at = "query"]
    <2>2. begun = [moved EXCEPT !.alone = alone]
      BY <1>1 DEF Workers
    <2>3. moved \in Workers
      BY <1>1, <2>1, WorkerFields
    <2> HIDE DEF moved, begun, alone
    <2> QED BY <2>1, <2>2, <2>3, WorkerFields
  <1>3. writers' = Registry!Begin(writers, i, begun) /\ UNCHANGED <<file, route>>
    BY DEF Registry!CleanupBegins
  <1> HIDE DEF begun
  <1>4. writers' \in [1 .. MaxEvents -> Workers \cup {Registry!Idle}]
    BY <1>2, <1>3, BeginTyped DEF RegistryInv
  <1>5. Chained(file)'
    BY <1>3 DEF RegistryInv, Chained, Registry!Files, Registry!Ids, Registry!DetectChainCycle
  <1> QED BY <1>3, <1>4, <1>5 DEF RegistryInv

\* The fields a step of a worker may change together.
LEMMA WorkerMoves ==
  ASSUME NEW w \in Workers, NEW known \in SUBSET Registry!Names,
         NEW todo_ \in SUBSET Registry!Names, NEW at \in WorkStages, NEW cfg \in SoundFiles
  PROVE  /\ [w EXCEPT !.known = known, !.at = at] \in Workers
         /\ [w EXCEPT !.todo = todo_, !.known = known, !.at = at] \in Workers
         /\ [w EXCEPT !.todo = todo_, !.at = at] \in Workers
         /\ [w EXCEPT !.todo = todo_, !.alone = FALSE] \in Workers
         /\ [w EXCEPT !.cfg = cfg, !.at = at] \in Workers
  BY DEF Workers

LEMMA QueryStep ==
  ASSUME RegistryInv, NEW i \in DOMAIN writers, Registry!Query(i) PROVE RegistryInv'
  <1> DEFINE w == writers[i]
  <1>1. w \in Workers
    BY AtWork DEF Registry!Query, Registry!At, Registry!Deleting
  <1>2. w.job \in Jobs /\ "others" \in WorkStages
    BY <1>1 DEF Workers, WorkStages
  <1>3. PICK known \in SUBSET Registry!Names :
          writers' = [writers EXCEPT ![i].known = known, ![i].at = "others"]
    <2>1. Registry!Known \in SUBSET Registry!Names
      BY NamesAreNames
    <2>2. {Registry!TaskName(w.job, s) : s \in {0} \cup Registry!Slots} \in SUBSET Registry!Names
      BY <1>2, NamesAreNames
    <2> QED BY <2>1, <2>2 DEF Registry!Query
  <1>4. writers' = [writers EXCEPT ![i] = [w EXCEPT !.known = known, !.at = "others"]]
    BY <1>3
  <1>5. [w EXCEPT !.known = known, !.at = "others"] \in Workers
    <2>1. w.cfg \in SoundFiles /\ w.todo \in SUBSET Registry!Names
      BY <1>1 DEF Workers
    <2> QED BY <1>1, <1>2, <2>1, WorkerMoves
  <1>6. UNCHANGED <<file, route>>
    BY DEF Registry!Query
  <1> QED BY <1>4, <1>5, <1>6, OneWorker

LEMMA OthersStep ==
  ASSUME RegistryInv, NEW i \in DOMAIN writers, Registry!Others(i) PROVE RegistryInv'
  <1> DEFINE w == writers[i]
             owned == {n \in w.known : Registry!Owns(w.job, Registry!Ids(file) \ {w.job}, n)}
  <1>1. w \in Workers
    BY AtWork DEF Registry!Others, Registry!At, Registry!Deleting
  <1>2. owned \in SUBSET Registry!Names /\ {} \in SUBSET Registry!Names /\ w.cfg \in SoundFiles
        /\ "delete" \in WorkStages
    BY <1>1 DEF Workers, WorkStages
  <1>3. writers' = [writers EXCEPT ![i].todo = owned, ![i].known = {}, ![i].at = "delete"]
    BY DEF Registry!Others
  <1> HIDE DEF owned
  <1>4. writers' = [writers EXCEPT ![i] = [w EXCEPT !.todo = owned, !.known = {}, !.at = "delete"]]
    BY <1>3
  <1>5. [w EXCEPT !.todo = owned, !.known = {}, !.at = "delete"] \in Workers
    BY <1>1, <1>2, WorkerMoves
  <1>6. UNCHANGED <<file, route>>
    BY DEF Registry!Others
  <1> QED BY <1>4, <1>5, <1>6, OneWorker

\* One task is dealt with, well or badly.
LEMMA TaskSteps ==
  ASSUME RegistryInv, NEW i \in DOMAIN writers, Registry!DeleteTask(i) \/ Registry!CreateTask(i)
  PROVE  RegistryInv'
  <1> DEFINE w == writers[i]
  <1>1. w \in Workers
    BY AtWork DEF Registry!DeleteTask, Registry!CreateTask, Registry!At, Registry!Deleting
  <1>2. PICK n : \/ writers' = [writers EXCEPT ![i].todo = @ \ {n}]
                 \/ writers' = [writers EXCEPT ![i].todo = @ \ {n}, ![i].alone = FALSE]
    BY DEF Registry!DeleteTask, Registry!CreateTask
  <1> DEFINE left == w.todo \ {n}
  <1>3. left \in SUBSET Registry!Names /\ w.cfg \in SoundFiles /\ w.known \in SUBSET Registry!Names
        /\ w.at \in WorkStages
    BY <1>1 DEF Workers
  <1>4. PICK made \in {[w EXCEPT !.todo = left], [w EXCEPT !.todo = left, !.alone = FALSE]} :
          writers' = [writers EXCEPT ![i] = made]
    <2>1. CASE writers' = [writers EXCEPT ![i].todo = @ \ {n}]
      BY <2>1
    <2>2. CASE writers' = [writers EXCEPT ![i].todo = @ \ {n}, ![i].alone = FALSE]
      <3>1. writers' = [writers EXCEPT ![i] = [w EXCEPT !.todo = left, !.alone = FALSE]]
        BY <2>2
      <3> QED BY <3>1
    <2> QED BY <1>2, <2>1, <2>2
  <1> HIDE DEF left
  <1>5. made \in Workers
    BY <1>1, <1>3, <1>4, WorkerFields, WorkerMoves
  <1>6. UNCHANGED <<file, route>>
    BY DEF Registry!DeleteTask, Registry!CreateTask
  <1> QED BY <1>4, <1>5, <1>6, OneWorker

LEMMA DeletedStep ==
  ASSUME RegistryInv, NEW i \in DOMAIN writers, Registry!Deleted(i) \/ Registry!Created(i)
  PROVE  RegistryInv'
  <1> DEFINE w == writers[i]
             wanted == {t[1] : t \in Registry!Wanted(w.job, w.row.schedule)}
  <1>1. w \in Workers
    BY AtWork DEF Registry!Deleted, Registry!Created, Registry!At, Registry!Deleting
  <1>2. w.job \in Jobs /\ w.cfg \in SoundFiles /\ w.known \in SUBSET Registry!Names
        /\ "load" \in WorkStages /\ "create" \in WorkStages
    BY <1>1 DEF Workers, WorkStages
  <1>3. wanted \in SUBSET Registry!Names
    BY <1>2, NamesAreNames
  <1>4. UNCHANGED <<file, route>>
    BY DEF Registry!Deleted, Registry!Created
  <1>5. \/ writers' = [writers EXCEPT ![i].at = "load"]
        \/ writers' = [writers EXCEPT ![i].todo = wanted, ![i].at = "create"]
        \/ writers' = [writers EXCEPT ![i] = Registry!Idle]
    BY DEF Registry!Deleted, Registry!Created, Registry!Finish
  <1> HIDE DEF wanted
  <1>6. CASE writers' = [writers EXCEPT ![i].at = "load"]
    <2>1. writers' = [writers EXCEPT ![i] = [w EXCEPT !.at = "load"]]
      BY <1>6
    <2>2. [w EXCEPT !.at = "load"] \in Workers
      BY <1>1, <1>2, WorkerFields
    <2> QED BY <1>4, <2>1, <2>2, OneWorker
  <1>7. CASE writers' = [writers EXCEPT ![i].todo = wanted, ![i].at = "create"]
    <2>1. writers' = [writers EXCEPT ![i] = [w EXCEPT !.todo = wanted, !.at = "create"]]
      BY <1>7
    <2>2. [w EXCEPT !.todo = wanted, !.at = "create"] \in Workers
      BY <1>1, <1>2, <1>3, WorkerMoves
    <2> QED BY <1>4, <2>1, <2>2, OneWorker
  <1>8. CASE writers' = [writers EXCEPT ![i] = Registry!Idle]
    BY <1>4, <1>8, OneWorker
  <1> QED BY <1>5, <1>6, <1>7, <1>8

LEMMA CleanupLoadStep ==
  ASSUME RegistryInv, NEW i \in DOMAIN writers, Registry!CleanupLoad(i) PROVE RegistryInv'
  <1> DEFINE w == writers[i]
  <1>1. w \in Workers
    BY AtWork DEF Registry!CleanupLoad, Registry!At
  <1>2. file \in SoundFiles /\ "save" \in WorkStages /\ w.known \in SUBSET Registry!Names
    BY <1>1 DEF RegistryInv, Chained, SoundFiles, WorkStages, Workers
  <1>3. writers' = [writers EXCEPT ![i] = [w EXCEPT !.cfg = file, !.at = "save"]]
    BY DEF Registry!CleanupLoad
  <1>4. [w EXCEPT !.cfg = file, !.at = "save"] \in Workers
    BY <1>1, <1>2, WorkerMoves
  <1>5. UNCHANGED <<file, route>>
    BY DEF Registry!CleanupLoad
  <1> QED BY <1>3, <1>4, <1>5, OneWorker

LEMMA CleanupSaveStep ==
  ASSUME RegistryInv, RegistryAssumption, NEW i \in DOMAIN writers, Registry!CleanupSave(i)
  PROVE  RegistryInv'
  <1> DEFINE w == writers[i]
             row == [w.cfg[w.job] EXCEPT !.schedule = "none"]
  <1>1. w \in Workers
    BY AtWork DEF Registry!CleanupSave, Registry!At
  <1>2. w.job \in Jobs /\ w.cfg \in SoundFiles /\ file \in SoundFiles
    BY <1>1 DEF RegistryInv, Chained, SoundFiles, Workers
  <1>3. \/ file' = file
        \/ w.cfg[w.job] # Registry!Absent /\ file' = [w.cfg EXCEPT ![w.job] = row]
    BY DEF Registry!CleanupSave
  <1>4. file' \in SoundFiles
    <2>1. CASE file' = file
      BY <1>2, <2>1
    <2>2. CASE w.cfg[w.job] # Registry!Absent /\ file' = [w.cfg EXCEPT ![w.job] = row]
      <3> DEFINE cfg == w.cfg
                 j == w.job
      <3>1. Chained(cfg) /\ j \in Registry!Ids(cfg) /\ cfg[j] \in Registry!Rows
        BY <1>2, <2>2 DEF SoundFiles, Registry!Files, Registry!Ids
      <3>2. row \in Registry!Rows /\ row.chain = cfg[j].chain
        BY <3>1 DEF Registry!Rows, RegistryAssumption
      <3> HIDE DEF cfg, j, row
      <3>3. Chained([cfg EXCEPT ![j] = row])
        BY <3>1, <3>2, ChainsLeft
      <3>4. [cfg EXCEPT ![j] = row] \in SoundFiles
        BY <3>3 DEF SoundFiles, Chained
      <3> QED BY <2>2, <3>4 DEF cfg, j
    <2> QED BY <1>3, <2>1, <2>2
  <1>5. Chained(file)'
    BY <1>4 DEF SoundFiles, Chained, Registry!Files, Registry!Ids, Registry!DetectChainCycle
  <1>6. writers' \in [1 .. MaxEvents -> Workers \cup {Registry!Idle}] /\ route' = route
    <2> DEFINE ws == [writers EXCEPT ![i] = Registry!Idle]
    <2>1. PICK set : writers' = Registry!Disturb(ws, set)
      BY DEF Registry!CleanupSave
    <2>2. ws \in [1 .. MaxEvents -> Workers \cup {Registry!Idle}]
      BY DEF RegistryInv
    <2> HIDE DEF ws
    <2> QED BY <2>1, <2>2, DisturbTyped DEF Registry!CleanupSave
  <1> QED BY <1>5, <1>6 DEF RegistryInv

LEMMA RegistryInit == RegistryAssumption /\ Registry!Init => RegistryInv
  BY DEF RegistryAssumption, Registry!Init, RegistryInv, Chained, Registry!Files, Registry!Ids,
         Registry!DetectChainCycle

LEMMA RegistryStep ==
  ASSUME RegistryInv, RegistryAssumption, [Registry!Next]_(Registry!vars) PROVE RegistryInv'
  <1>1. CASE UNCHANGED Registry!vars
    BY <1>1 DEF RegistryInv, Registry!vars, Chained, Registry!Files, Registry!Ids,
         Registry!DetectChainCycle
  <1>2. CASE Registry!Next
    <2>1. ASSUME NEW r \in Registry!Requests, Registry!RouteLoad(r) PROVE RegistryInv'
      BY <2>1, RouteSteps
    <2>2. CASE Registry!RouteRefused
      BY <2>2, RouteSteps
    <2>3. CASE Registry!RouteSave
      BY <2>3, RouteSaveStep
    <2>4. ASSUME NEW j \in Jobs, Registry!OnceFires(j) PROVE RegistryInv'
      BY <2>4, OnceFiresStep
    <2>5. ASSUME NEW i \in DOMAIN writers, Registry!CleanupBegins(i) PROVE RegistryInv'
      BY <2>5, CleanupBeginsStep
    <2>6. ASSUME NEW i \in DOMAIN writers, Registry!Query(i) PROVE RegistryInv'
      BY <2>6, QueryStep
    <2>7. ASSUME NEW i \in DOMAIN writers, Registry!Others(i) PROVE RegistryInv'
      BY <2>7, OthersStep
    <2>8. ASSUME NEW i \in DOMAIN writers, Registry!DeleteTask(i) \/ Registry!CreateTask(i)
          PROVE  RegistryInv'
      BY <2>8, TaskSteps
    <2>9. ASSUME NEW i \in DOMAIN writers, Registry!Deleted(i) \/ Registry!Created(i)
          PROVE  RegistryInv'
      BY <2>9, DeletedStep
    <2>10. ASSUME NEW i \in DOMAIN writers, Registry!CleanupLoad(i) PROVE RegistryInv'
      BY <2>10, CleanupLoadStep
    <2>11. ASSUME NEW i \in DOMAIN writers, Registry!CleanupSave(i) PROVE RegistryInv'
      BY <2>11, CleanupSaveStep
    <2>12. CASE Registry!Rest
      BY <1>1, <2>12 DEF Registry!Rest
    <2> QED BY <1>2, <2>1, <2>2, <2>3, <2>4, <2>5, <2>6, <2>7, <2>8, <2>9, <2>10, <2>11, <2>12
         DEF Registry!Next
  <1> QED BY <1>1, <1>2

\* Jobs that no set of them chains within itself for ever can be put in an order.
Ordered(cfg, S, rank) == \A j \in S : \A k \in cfg[j].chain \cap S : rank[j] < rank[k]
Orderable(cfg, S) == \E rank \in [S -> 1 .. Cardinality(S)] : Ordered(cfg, S, rank)

\* One more job at the end of the order, if it chains to none of the others.
LEMMA OneMoreInOrder ==
  ASSUME NEW cfg, NEW S, IsFiniteSet(S), NEW j \in S, cfg[j].chain \cap S = {},
         Orderable(cfg, S \ {j})
  PROVE  Orderable(cfg, S)
  <1> DEFINE T == S \ {j}
  <1>1. /\ Cardinality(T) = Cardinality(S) - 1 /\ Cardinality(S) \in Nat /\ Cardinality(T) \in Nat
    BY FS_RemoveElement, FS_CardinalityType
  <1>2. PICK low \in [T -> 1 .. Cardinality(T)] : Ordered(cfg, T, low)
    BY DEF Orderable
  <1> DEFINE rank == [x \in S |-> IF x = j THEN Cardinality(S) ELSE low[x]]
  <1>3. \A x \in T : rank[x] = low[x] /\ low[x] \in 1 .. Cardinality(T)
    BY <1>2
  <1>4. rank[j] = Cardinality(S)
    OBVIOUS
  <1>5. rank \in [S -> 1 .. Cardinality(S)]
    BY <1>1, <1>3, <1>4
  <1>6. ASSUME NEW a \in S, NEW k \in cfg[a].chain \cap S PROVE rank[a] < rank[k]
    <2>1. a \in T
      BY <1>6
    <2>2. rank[a] \in 1 .. Cardinality(T)
      BY <1>3, <2>1
    <2>3. CASE k = j
      <3>1. rank[k] = Cardinality(S)
        BY <1>4, <2>3
      <3> HIDE DEF rank
      <3> QED BY <1>1, <2>2, <3>1
    <2>4. CASE k # j
      <3>1. k \in T
        BY <1>6, <2>4
      <3>2. low[a] < low[k]
        BY <1>2, <1>6, <2>1, <3>1 DEF Ordered
      <3> QED BY <1>3, <2>1, <3>1, <3>2
    <2> QED BY <2>3, <2>4
  <1> HIDE DEF rank
  <1>7. Ordered(cfg, S, rank)
    BY <1>6 DEF Ordered
  <1> QED BY <1>5, <1>7 DEF Orderable

LEMMA NoLoopOrders ==
  ASSUME NEW cfg, Chained(cfg), IsFiniteSet(Registry!Ids(cfg))
  PROVE  Orderable(cfg, Registry!Ids(cfg))
  <1> DEFINE All == Registry!Ids(cfg)
             Bad == {S \in SUBSET All : ~Orderable(cfg, S)}
             Sizes == {Cardinality(S) : S \in Bad}
  <1>1. \A S \in SUBSET All : IsFiniteSet(S) /\ Cardinality(S) \in Nat
    BY FS_Subset, FS_CardinalityType
  <1>2. ASSUME Bad # {} PROVE FALSE
    <2>1. Sizes \subseteq Nat /\ Sizes # {}
      BY <1>1, <1>2
    <2>2. PICK n \in Sizes : \A m \in Sizes : n <= m
      <3> HIDE DEF Sizes
      <3> QED BY <2>1, LeastOf
    <2>3. PICK S \in Bad : \A R \in Bad : Cardinality(S) <= Cardinality(R)
      BY <2>2
    <2>4. S # {}
      <3>1. ASSUME S = {} PROVE Orderable(cfg, S)
        <4> DEFINE rank == [x \in {} |-> 1]
        <4>1. rank \in [S -> 1 .. Cardinality(S)] /\ Ordered(cfg, S, rank)
          BY <3>1 DEF Ordered
        <4> QED BY <4>1 DEF Orderable
      <3> QED BY <3>1
    <2>5. PICK j \in S : cfg[j].chain \cap S = {}
      <3>1. S \in (SUBSET All) \ {{}}
        BY <2>4
      <3> QED BY <3>1 DEF Chained, Registry!DetectChainCycle
    <2>6. Cardinality(S \ {j}) < Cardinality(S)
      <3>1. Cardinality(S \ {j}) = Cardinality(S) - 1 /\ Cardinality(S) \in Nat
        BY <1>1, FS_RemoveElement
      <3> QED BY <3>1
    <2>7. S \ {j} \in SUBSET All /\ IsFiniteSet(S) /\ Cardinality(S) \in Nat
          /\ Cardinality(S \ {j}) \in Nat
      BY <1>1
    <2>8. Orderable(cfg, S \ {j})
      BY <2>3, <2>6, <2>7
    <2> QED BY <2>5, <2>7, <2>8, OneMoreInOrder
  <1> QED BY <1>2

(* Whatever edits, once runs with their cleanups and lost updates go by,    *)
(* the chains of jobs.json name jobs there are and can be put in an order,  *)
(* so that no finishing run sets off a loop: every validated edit and every *)
(* save of the file keeps them so, the executor's own save of what it read  *)
(* before included (_validate_chain_consistency, remove_by_id).             *)
THEOREM ChainsSoundAlways ==
  ASSUME RegistryAssumption
  PROVE  Registry!Spec => []Registry!ChainsSound
  <1>1. Registry!Init => RegistryInv
    BY RegistryInit
  <1>2. RegistryInv /\ [Registry!Next]_(Registry!vars) => RegistryInv'
    BY RegistryStep
  <1>3. RegistryInv => Registry!ChainsSound
    <2> SUFFICES ASSUME RegistryInv PROVE Registry!ChainsSound
      OBVIOUS
    <2> DEFINE All == Registry!Ids(file)
    <2>1. Chained(file) /\ All \subseteq Jobs
      BY DEF RegistryInv, Registry!Ids
    <2>2. /\ IsFiniteSet(All) /\ Cardinality(All) \in Nat /\ Cardinality(Jobs) \in Nat
          /\ Cardinality(All) <= Cardinality(Jobs)
      BY <2>1, FS_Subset, FS_CardinalityType DEF RegistryAssumption
    <2>3. PICK low \in [All -> 1 .. Cardinality(All)] : Ordered(file, All, low)
      BY <2>1, <2>2, NoLoopOrders DEF Orderable
    <2>4. \A j \in Jobs : 1 <= Cardinality(Jobs)
      BY FS_EmptySet, FS_CardinalityType DEF RegistryAssumption
    <2> DEFINE rank == [j \in Jobs |-> IF j \in All THEN low[j] ELSE 1]
    <2>5. ASSUME NEW j \in Jobs PROVE rank[j] \in 1 .. Cardinality(Jobs)
      BY <2>2, <2>3, <2>4
    <2>6. rank \in [Jobs -> 1 .. Cardinality(Jobs)]
      BY <2>5
    <2>7. ASSUME NEW j \in All, NEW k \in file[j].chain PROVE rank[j] < rank[k] /\ k \in All
      <3>1. k \in All
        BY <2>1, <2>7 DEF Chained
      <3>2. low[j] < low[k]
        BY <2>3, <2>7, <3>1 DEF Ordered
      <3>3. rank[j] = low[j] /\ rank[k] = low[k]
        BY <2>1, <3>1
      <3> QED BY <3>1, <3>2, <3>3
    <2> HIDE DEF rank
    <2>8. \A j \in All : file[j].chain \subseteq All
      BY <2>7
    <2>9. Registry!Cardinality(Jobs) = Cardinality(Jobs)
      BY DEF Registry!Cardinality, Cardinality
    <2> QED BY <2>6, <2>7, <2>8, <2>9 DEF Registry!ChainsSound
  <1> QED BY <1>1, <1>2, <1>3, PTL DEF Registry!Spec

-----------------------------------------------------------------------------
(* The tasks of the jobs file. *)

\* A job's id can be spelled like a slot of one other job: the one it is spelled after, less
\* the number at its end.
LookalikeAssumption ==
  /\ DOMAIN Lookalike \subseteq Jobs \X Registry!Slots
  /\ \A x \in DOMAIN Lookalike : Lookalike[x] \in Jobs /\ Lookalike[x] # x[1]
  /\ \A x, y \in DOMAIN Lookalike : Lookalike[x] = Lookalike[y] => x = y

Spelled(j, n) == \E s \in {0} \cup Registry!Slots : n = Registry!TaskName(j, s)

\* What a file has the Scheduler hold for a job, what it holds, and what is the job's to delete.
Wants(f, j) == Registry!Wanted(j, Registry!Fires(f[j]))
Mine(ts, j, n) == n \in Registry!Names /\ ts[n] # Registry!NoTask /\ ts[n].job = j
Ours(f, j, n) == Registry!Owns(j, Registry!Ids(f) \ {j}, n)

LEMMA NameFacts ==
  ASSUME LookalikeAssumption, NEW j \in Jobs
  PROVE  /\ Registry!TaskName(j, 0) = <<j, 0>>
         /\ \A s \in Registry!Slots :
              Registry!TaskName(j, s)
                = IF <<j, s>> \in DOMAIN Lookalike THEN <<Lookalike[<<j, s>>], 0>> ELSE <<j, s>>
  <1>1. 0 \notin Registry!Slots
    BY DEF Registry!Slots
  <1>2. <<j, 0>> \notin DOMAIN Lookalike
    BY <1>1 DEF LookalikeAssumption
  <1> QED BY <1>2 DEF Registry!TaskName

\* Two slots spelled alike are one slot, or one of them is the bare task of a kin job.
LEMMA SlotsApart ==
  ASSUME LookalikeAssumption, NEW j \in Jobs, NEW k \in Jobs,
         NEW s \in Registry!Slots, NEW t \in Registry!Slots
  PROVE  /\ Registry!TaskName(j, s) = Registry!TaskName(k, t) => j = k /\ s = t
         /\ Registry!TaskName(j, s) # Registry!TaskName(j, 0)
  <1>1. s # 0 /\ t # 0
    BY DEF Registry!Slots
  <1> DEFINE x == <<j, s>>
             y == <<k, t>>
  <1>2. Registry!TaskName(j, s) = IF x \in DOMAIN Lookalike THEN <<Lookalike[x], 0>> ELSE x
    BY NameFacts
  <1>3. Registry!TaskName(k, t) = IF y \in DOMAIN Lookalike THEN <<Lookalike[y], 0>> ELSE y
    BY NameFacts
  <1>4. Registry!TaskName(j, 0) = <<j, 0>>
    BY NameFacts
  <1>5. x \in DOMAIN Lookalike => Lookalike[x] # j
    BY DEF LookalikeAssumption
  <1>6. Registry!TaskName(j, s) # Registry!TaskName(j, 0)
    BY <1>1, <1>2, <1>4, <1>5
  <1>7. ASSUME Registry!TaskName(j, s) = Registry!TaskName(k, t) PROVE x = y
    <2>1. CASE x \in DOMAIN Lookalike /\ y \in DOMAIN Lookalike
      <3>1. Lookalike[x] = Lookalike[y]
        BY <1>2, <1>3, <1>7, <2>1
      <3> QED BY <2>1, <3>1 DEF LookalikeAssumption
    <2>2. CASE ~(x \in DOMAIN Lookalike /\ y \in DOMAIN Lookalike)
      BY <1>1, <1>2, <1>3, <1>7, <2>2
    <2> QED BY <2>1, <2>2
  <1> QED BY <1>6, <1>7

LEMMA KinFacts ==
  ASSUME NEW j \in Jobs
  PROVE  /\ j \in Registry!Kin(j)
         /\ Registry!Kin(j) \subseteq Jobs
         /\ \A k \in Jobs : k \in Registry!Kin(j) <=> j \in Registry!Kin(k)
  BY DEF Registry!Kin

\* A name two jobs share is the bare task of one of them, not of both.
LEMMA NamesShared ==
  ASSUME LookalikeAssumption, NEW j \in Jobs, NEW k \in Jobs, j # k, NEW n,
         Spelled(j, n), Spelled(k, n)
  PROVE  /\ j \in Registry!Kin(k) /\ k \in Registry!Kin(j)
         /\ n = Registry!Bare(j) \/ n = Registry!Bare(k)
         /\ Registry!Bare(j) # Registry!Bare(k)
  <1>1. Registry!Bare(j) = <<j, 0>> /\ Registry!Bare(k) = <<k, 0>>
    BY NameFacts DEF Registry!Bare
  <1>2. PICK s \in {0} \cup Registry!Slots : n = Registry!TaskName(j, s)
    BY DEF Spelled
  <1>3. PICK t \in {0} \cup Registry!Slots : n = Registry!TaskName(k, t)
    BY DEF Spelled
  <1>4. s = 0 \/ t = 0
    BY <1>2, <1>3, SlotsApart
  <1>5. n = Registry!Bare(j) \/ n = Registry!Bare(k)
    BY <1>2, <1>3, <1>4 DEF Registry!Bare
  <1>8. ASSUME NEW u \in Registry!Slots,
                 \/ Registry!TaskName(k, u) = Registry!Bare(j)
                 \/ Registry!TaskName(j, u) = Registry!Bare(k)
          PROVE  j \in Registry!Kin(k) /\ k \in Registry!Kin(j)
    BY <1>8 DEF Registry!Kin
  <1>9. Registry!Bare(j) # Registry!Bare(k)
    BY <1>1
  <1>6. ASSUME n = Registry!Bare(j) PROVE j \in Registry!Kin(k) /\ k \in Registry!Kin(j)
    <2>1. t # 0
      BY <1>1, <1>3, <1>6, <1>9 DEF Registry!Bare
    <2>2. Registry!TaskName(k, t) = Registry!Bare(j)
      BY <1>3, <1>6
    <2>3. j \in Registry!Kin(k) /\ k \in Registry!Kin(j)
      BY <1>8, <2>1, <2>2
    <2> QED BY <2>3
  <1>7. ASSUME n = Registry!Bare(k) PROVE j \in Registry!Kin(k) /\ k \in Registry!Kin(j)
    <2>1. s # 0
      BY <1>1, <1>2, <1>7, <1>9 DEF Registry!Bare
    <2>2. Registry!TaskName(j, s) = Registry!Bare(k)
      BY <1>2, <1>7
    <2>3. j \in Registry!Kin(k) /\ k \in Registry!Kin(j)
      BY <1>8, <2>1, <2>2
    <2> QED BY <2>3
  <1> QED BY <1>5, <1>6, <1>7, <1>9

LEMMA WantedFacts ==
  ASSUME LookalikeAssumption, NEW j \in Jobs, NEW schedule
  PROVE  /\ \A t \in Registry!Wanted(j, schedule) :
              /\ t = <<t[1], t[2]>> /\ t[1] \in Registry!Names /\ Spelled(j, t[1])
              /\ t[2].job = j /\ t[2].schedule = schedule /\ t[2] # Registry!NoTask
         /\ \A t, u \in Registry!Wanted(j, schedule) : t[1] = u[1] => t = u
         /\ Registry!Wanted(j, "none") = {}
  <1> DEFINE task(s) == [job |-> j, schedule |-> schedule, slot |-> s]
             name(s) == Registry!TaskName(j, s)
  <1>1. ASSUME NEW t \in Registry!Wanted(j, schedule)
        PROVE  \E s \in {0} \cup Registry!Slots : t = <<name(s), task(s)>>
    BY DEF Registry!Wanted, Registry!SlotsOf
  <1>2. ASSUME NEW s PROVE task(s).job = j /\ task(s).schedule = schedule /\ task(s) # Registry!NoTask
    <2>1. "job" \in DOMAIN task(s) /\ DOMAIN Registry!NoTask = {"nothing"}
      BY DEF Registry!NoTask
    <2>2. task(s) # Registry!NoTask
      BY <2>1
    <2> QED BY <2>2
  <1>3. \A s, t \in {0} \cup Registry!Slots : name(s) = name(t) => s = t
    BY SlotsApart
  <1>4. Registry!Wanted(j, "none") = {}
    BY DEF Registry!Wanted, Registry!SlotsOf
  <1> HIDE DEF task
  <1>5. ASSUME NEW t \in Registry!Wanted(j, schedule)
        PROVE  /\ t = <<t[1], t[2]>> /\ t[1] \in Registry!Names /\ Spelled(j, t[1])
               /\ t[2].job = j /\ t[2].schedule = schedule /\ t[2] # Registry!NoTask
    <2>1. PICK s \in {0} \cup Registry!Slots : t = <<name(s), task(s)>>
      BY <1>1
    <2>2. t[1] = name(s) /\ t[2] = task(s)
      BY <2>1
    <2> HIDE DEF name
    <2>3. name(s) \in Registry!Names /\ Spelled(j, name(s))
      BY NamesAreNames DEF name, Spelled
    <2> QED BY <1>2, <2>1, <2>2, <2>3
  <1>6. ASSUME NEW t \in Registry!Wanted(j, schedule), NEW u \in Registry!Wanted(j, schedule),
               t[1] = u[1]
        PROVE  t = u
    <2>1. PICK s \in {0} \cup Registry!Slots : t = <<name(s), task(s)>>
      BY <1>1
    <2>2. PICK v \in {0} \cup Registry!Slots : u = <<name(v), task(v)>>
      BY <1>1
    <2>3. name(s) = name(v)
      BY <1>6, <2>1, <2>2
    <2>4. s = v
      BY <1>3, <2>3
    <2> QED BY <2>1, <2>2, <2>4
  <1> QED BY <1>4, <1>5, <1>6

\* A job owns its bare task and the slots that are nobody else's bare task.
LEMMA OursFacts ==
  ASSUME LookalikeAssumption, NEW j \in Jobs, NEW f, NEW n
  PROVE  /\ Ours(f, j, n) => Spelled(j, n)
         /\ Ours(f, j, Registry!Bare(j))
         /\ Spelled(j, n) /\ ~Ours(f, j, n) =>
              \E k \in Registry!Kin(j) \ {j} : n = Registry!Bare(k) /\ f[k] # Registry!Absent
         /\ \A k \in Jobs \ {j} :
              Ours(f, j, n) /\ n = Registry!Bare(k) /\ n # Registry!Bare(j) => f[k] = Registry!Absent
  <1>1. Registry!Bare(j) = Registry!TaskName(j, 0)
    BY DEF Registry!Bare
  <1>2. Ours(f, j, n) <=> \/ n = Registry!Bare(j)
                          \/ /\ \E s \in Registry!Slots : n = Registry!TaskName(j, s)
                             /\ \A k \in Registry!Ids(f) \ {j} : n # Registry!Bare(k)
    BY DEF Ours, Registry!Owns
  <1>3. Ours(f, j, n) => Spelled(j, n)
    BY <1>1, <1>2 DEF Spelled
  <1>4. Ours(f, j, Registry!Bare(j))
    BY DEF Ours, Registry!Owns
  <1>5. ASSUME Spelled(j, n), ~Ours(f, j, n)
        PROVE  \E k \in Registry!Kin(j) \ {j} : n = Registry!Bare(k) /\ f[k] # Registry!Absent
    <2>1. PICK s \in Registry!Slots : n = Registry!TaskName(j, s)
      BY <1>1, <1>2, <1>5 DEF Spelled
    <2>2. PICK k \in Registry!Ids(f) \ {j} : n = Registry!Bare(k)
      BY <1>2, <1>5, <2>1
    <2>3. k \in Registry!Kin(j) /\ f[k] # Registry!Absent
      BY <2>1, <2>2 DEF Registry!Kin, Registry!Ids
    <2> QED BY <2>2, <2>3
  <1>6. ASSUME NEW k \in Jobs \ {j}, Ours(f, j, n), n = Registry!Bare(k), n # Registry!Bare(j)
        PROVE  f[k] = Registry!Absent
    BY <1>2, <1>6 DEF Registry!Ids
  <1> QED BY <1>3, <1>4, <1>5, <1>6

\* What is a job's depends on which of its kin there are.
LEMMA OursAlike ==
  ASSUME LookalikeAssumption, NEW j \in Jobs, NEW f, NEW g, NEW n, Ours(g, j, n),
         \A k \in Registry!Kin(j) \ {j} :
            f[k] # Registry!Absent /\ n = Registry!Bare(k) => g[k] # Registry!Absent
  PROVE  Ours(f, j, n)
  <1> SUFFICES ASSUME ~Ours(f, j, n) PROVE FALSE
    OBVIOUS
  <1>1. PICK k \in Registry!Kin(j) \ {j} : n = Registry!Bare(k) /\ f[k] # Registry!Absent
    BY OursFacts
  <1>2. k \in Jobs \ {j} /\ g[k] # Registry!Absent
    BY <1>1, KinFacts
  <1>3. n = Registry!Bare(j)
    BY <1>1, <1>2, OursFacts
  <1> QED BY <1>3, OursFacts

\* A writer is yet to delete what is there under its job's bare name.
Meant(w, n) ==
  /\ Registry!Working(w) /\ n = Registry!Bare(w.job)
  /\ \/ w.at = "query"
     \/ w.at = "others" /\ n \in w.known
     \/ w.at = "delete" /\ n \in w.todo

\* Every task is one that its own job's schedule asks for.
TasksMade(ts) ==
  \A n \in Registry!Names : ts[n] # Registry!NoTask =>
    ts[n].job \in Jobs /\ <<n, ts[n]>> \in Registry!Wanted(ts[n].job, ts[n].schedule)

\* Nothing the file asks for is missing; nothing else is there, but for what a kin job's
\* writer is about to delete, the name being its bare one by now.
NoneMissing(f, ts, j) == \A t \in Wants(f, j) : ts[t[1]] = t[2]
NoneOver(f, ts, ws, j) ==
  \A n : Mine(ts, j, n) /\ Ours(f, j, n) =>
    \/ <<n, ts[n]>> \in Wants(f, j)
    \/ n # Registry!Bare(j) /\ \E i \in DOMAIN ws : Meant(ws[i], n)

\* A writer as its kind and stage have it.
Formed(w) ==
  /\ \A n \in w.todo : Spelled(w.job, n)
  /\ w.kind = "sync" => w.row # Registry!Absent
  /\ w.kind = "delete" => w.row = Registry!Absent
  /\ w.at = "create" => w.kind = "sync" /\ ~w.row.elevated
  /\ w.at \in {"running", "load", "save"} => w.kind = "cleanup"

\* It deletes no kin job's bare task, unless that one is out of step already.
Spares(f, sy, w) ==
  w.at = "delete" =>
    \A n \in w.todo : \A j \in Jobs :
      n = Registry!Bare(j) /\ n # Registry!Bare(w.job) => ~sy[j] \/ f[j] = Registry!Absent

\* How far a writer on its own has come.
Progress(f, ts, w) ==
  w.alone =>
    /\ w.kind # "cleanup" => Registry!Fires(f[w.job]) = Registry!Fires(w.row)
    /\ w.at = "others" => \A n : Mine(ts, w.job, n) => n \in w.known
    /\ w.at = "delete" => \A n : Mine(ts, w.job, n) /\ Ours(f, w.job, n) => n \in w.todo
    /\ w.at = "create" =>
         /\ \A n : Mine(ts, w.job, n) /\ Ours(f, w.job, n) =>
              <<n, ts[n]>> \in Registry!Wanted(w.job, w.row.schedule)
         /\ \A t \in Registry!Wanted(w.job, w.row.schedule) : t[1] \in w.todo \/ ts[t[1]] = t[2]
    /\ w.at \in {"load", "save"} => \A n : Mine(ts, w.job, n) => ~Ours(f, w.job, n)
    /\ w.at = "save" => \A k \in Registry!Kin(w.job) \ {w.job} :
         (w.cfg[k] = Registry!Absent) = (f[k] = Registry!Absent)

Settled(f, ts, sy, w) ==
  w.kind # "none" =>
    /\ Formed(w)
    /\ Registry!Working(w) => ~sy[w.job] /\ Spares(f, sy, w) /\ Progress(f, ts, w)

\* Writers that share a name know of each other.
Apart(ws) ==
  \A i, k \in DOMAIN ws :
    i # k /\ Registry!Working(ws[i]) /\ Registry!Working(ws[k])
      /\ ws[k].job \in Registry!Kin(ws[i].job) => ~ws[i].alone /\ ~ws[k].alone

TasksInv ==
  /\ RegistryInv
  /\ synced \in [Jobs -> BOOLEAN] /\ DOMAIN tasks = Registry!Names
  /\ TasksMade(tasks)
  /\ \A j \in Jobs : synced[j] => NoneMissing(file, tasks, j) /\ NoneOver(file, tasks, writers, j)
  /\ \A i \in DOMAIN writers : Settled(file, tasks, synced, writers[i])
  /\ Apart(writers)

LEMMA MineIsSpelled ==
  ASSUME LookalikeAssumption, NEW ts, TasksMade(ts), NEW j \in Jobs, NEW n, Mine(ts, j, n)
  PROVE  Spelled(j, n)
  <1>1. ts[n].job = j /\ <<n, ts[n]>> \in Registry!Wanted(j, ts[n].schedule)
    BY DEF TasksMade, Mine
  <1> QED BY <1>1, WantedFacts

\* What is at work is a worker on a job.
LEMMA AtWorkOn ==
  ASSUME TasksInv, NEW i \in DOMAIN writers, writers[i].kind # "none"
  PROVE  writers[i] \in Workers /\ writers[i].job \in Jobs
  <1>1. writers[i] \in Workers
    BY AtWork DEF TasksInv
  <1> QED BY <1>1 DEF Workers

\* One writer goes a step further, with nothing else changed.
LEMMA OneMoves ==
  ASSUME TasksInv, RegistryInv', NEW i \in DOMAIN writers, NEW v \in Workers,
         writers' = [writers EXCEPT ![i] = v], UNCHANGED <<file, tasks, synced>>, Formed(v),
         \A n \in Registry!Names : tasks[n] # Registry!NoTask /\ Meant(writers[i], n) => Meant(v, n),
         Registry!Working(v) =>
           /\ Registry!Working(writers[i]) /\ v.job = writers[i].job /\ (v.alone => writers[i].alone)
           /\ Spares(file, synced, v) /\ Progress(file, tasks, v)
  PROVE  TasksInv'
  <1>1. /\ DOMAIN writers' = DOMAIN writers /\ writers'[i] = v
        /\ \A k \in DOMAIN writers \ {i} : writers'[k] = writers[k]
    BY DEF TasksInv, RegistryInv
  <1>2. ASSUME NEW j \in Jobs, synced[j] PROVE NoneOver(file, tasks, writers', j)
    <2>1. NoneOver(file, tasks, writers, j)
      BY <1>2 DEF TasksInv
    <2>2. ASSUME NEW n, Mine(tasks, j, n), NEW k \in DOMAIN writers, Meant(writers[k], n)
          PROVE  Meant(writers'[k], n)
      BY <1>1, <2>2 DEF Mine
    <2> QED BY <1>1, <2>1, <2>2 DEF NoneOver
  <1>3. ASSUME NEW k \in DOMAIN writers PROVE Settled(file, tasks, synced, writers'[k])
    <2>1. Settled(file, tasks, synced, writers[k])
      BY DEF TasksInv
    <2>2. CASE k = i
      <3>1. Registry!Working(v) => ~synced[v.job]
        BY <2>1, <2>2 DEF Settled, Registry!Working
      <3> QED BY <1>1, <2>2, <3>1 DEF Settled
    <2> QED BY <1>1, <2>1, <2>2
  <1>4. Apart(writers')
    <2> SUFFICES ASSUME NEW a \in DOMAIN writers, NEW b \in DOMAIN writers, a # b,
                        Registry!Working(writers'[a]), Registry!Working(writers'[b]),
                        writers'[b].job \in Registry!Kin(writers'[a].job)
                 PROVE  ~writers'[a].alone /\ ~writers'[b].alone
      BY <1>1 DEF Apart
    <2>1. ASSUME NEW k \in DOMAIN writers, Registry!Working(writers'[k])
          PROVE  /\ Registry!Working(writers[k]) /\ writers'[k].job = writers[k].job
                 /\ writers'[k].alone => writers[k].alone
      BY <1>1, <2>1
    <2>2. ~writers[a].alone /\ ~writers[b].alone
      BY <2>1 DEF TasksInv, Apart
    <2> QED BY <2>1, <2>2
  <1> QED BY <1>1, <1>2, <1>3, <1>4 DEF TasksInv

LEMMA OnceFiresTasks ==
  ASSUME TasksInv, RegistryInv', RegistryAssumption, NEW j \in Jobs, Registry!OnceFires(j)
  PROVE  TasksInv'
  <1> DEFINE v == Registry!Writer("cleanup", j, file[j], "running")
  <1>1. PICK i \in DOMAIN writers : Registry!Spare(i) /\ writers' = [writers EXCEPT ![i] = v]
    BY DEF Registry!OnceFires
  <1>2. file[j] \in Registry!Rows \cup {Registry!Absent}
    BY DEF TasksInv, RegistryInv, Chained, Registry!Files
  <1>3. v \in Workers
    <2>1. "running" \in WorkStages /\ "cleanup" \in {"sync", "delete", "cleanup"}
      BY DEF WorkStages
    <2> QED BY <1>2, <2>1, MadeTyped
  <1>4. v.kind = "cleanup" /\ v.at = "running" /\ v.todo = {}
    BY DEF Registry!Writer
  <1>5. ~Registry!Working(writers[i])
    BY <1>1, RowFacts DEF Registry!Spare, Registry!Free, Registry!Working
  <1>6. UNCHANGED <<file, tasks, synced>>
    BY DEF Registry!OnceFires
  <1> HIDE DEF v
  <1>7. Formed(v) /\ ~Registry!Working(v)
    BY <1>4 DEF Formed, Registry!Working
  <1> QED BY <1>1, <1>3, <1>5, <1>6, <1>7, OneMoves DEF Meant

LEMMA QueryTasks ==
  ASSUME TasksInv, RegistryInv', LookalikeAssumption, NEW i \in DOMAIN writers, Registry!Query(i)
  PROVE  TasksInv'
  <1> DEFINE w == writers[i]
             spelled == {Registry!TaskName(w.job, s) : s \in {0} \cup Registry!Slots}
  <1>1. /\ w.kind # "none" /\ w.at = "query" /\ Registry!Working(w)
        /\ UNCHANGED <<file, tasks, synced>>
    BY DEF Registry!Query, Registry!At, Registry!Deleting, Registry!Working
  <1>2. w \in Workers /\ w.job \in Jobs
    BY <1>1, AtWorkOn
  <1>3. PICK names \in {Registry!Known, spelled} :
          writers' = [writers EXCEPT ![i] = [w EXCEPT !.known = names, !.at = "others"]]
    BY <1>2 DEF Registry!Query, Workers
  <1> DEFINE v == [w EXCEPT !.known = names, !.at = "others"]
  <1>4. v \in Workers
    <2>1. names \in SUBSET Registry!Names
      BY <1>2, <1>3, NamesAreNames
    <2>2. "others" \in WorkStages /\ w.cfg \in SoundFiles /\ w.todo \in SUBSET Registry!Names
      BY <1>2 DEF WorkStages, Workers
    <2> QED BY <1>2, <2>1, <2>2, WorkerMoves
  <1>5. /\ v.kind = w.kind /\ v.job = w.job /\ v.at = "others" /\ v.todo = w.todo /\ v.row = w.row
        /\ v.known = names /\ v.alone = w.alone
    BY <1>2 DEF Workers
  <1>6. Settled(file, tasks, synced, w)
    BY DEF TasksInv
  <1> HIDE DEF v, spelled
  <1>7. ASSUME NEW n \in Registry!Names, tasks[n] # Registry!NoTask, Spelled(w.job, n) PROVE n \in names
    BY <1>3, <1>7 DEF spelled, Registry!Known, Spelled
  <1>8. Formed(v) /\ Registry!Working(v)
    BY <1>1, <1>5, <1>6 DEF Settled, Formed, Registry!Working
  <1>9. ASSUME NEW n \in Registry!Names, tasks[n] # Registry!NoTask, Meant(w, n) PROVE Meant(v, n)
    <2>1. Spelled(w.job, n)
      BY <1>9 DEF Meant, Spelled, Registry!Bare
    <2> QED BY <1>5, <1>7, <1>8, <1>9, <2>1 DEF Meant
  <1>10. Spares(file, synced, v) /\ Progress(file, tasks, v)
    <2>1. Spares(file, synced, v)
      BY <1>5 DEF Spares
    <2>2. ASSUME NEW n, Mine(tasks, w.job, n) PROVE n \in names
      <3>1. Spelled(w.job, n)
        BY <1>2, <2>2, MineIsSpelled DEF TasksInv
      <3> QED BY <1>7, <2>2, <3>1 DEF Mine
    <2>3. w.alone /\ w.kind # "cleanup" => Registry!Fires(file[w.job]) = Registry!Fires(w.row)
      BY <1>1, <1>6 DEF Settled, Progress
    <2> QED BY <1>5, <2>1, <2>2, <2>3 DEF Progress
  <1>11. writers' = [writers EXCEPT ![i] = v]
    BY <1>3 DEF v
  <1> QED BY <1>1, <1>4, <1>5, <1>8, <1>9, <1>10, <1>11, OneMoves

LEMMA OthersTasks ==
  ASSUME TasksInv, RegistryInv', LookalikeAssumption, NEW i \in DOMAIN writers, Registry!Others(i)
  PROVE  TasksInv'
  <1> DEFINE w == writers[i]
             owned == {n \in w.known : Ours(file, w.job, n)}
  <1>1. /\ w.kind # "none" /\ w.at = "others" /\ Registry!Working(w)
        /\ UNCHANGED <<file, tasks, synced>>
    BY DEF Registry!Others, Registry!At, Registry!Deleting, Registry!Working
  <1>2. w \in Workers /\ w.job \in Jobs
    BY <1>1, AtWorkOn
  <1>3. writers' = [writers EXCEPT ![i].todo = owned, ![i].known = {}, ![i].at = "delete"]
    BY DEF Registry!Others, Ours
  <1> HIDE DEF owned
  <1> DEFINE v == [w EXCEPT !.todo = owned, !.known = {}, !.at = "delete"]
  <1>4. writers' = [writers EXCEPT ![i] = v]
    BY <1>3
  <1>5. v \in Workers
    <2>1. owned \in SUBSET Registry!Names /\ {} \in SUBSET Registry!Names
      BY <1>2 DEF owned, Workers
    <2>2. "delete" \in WorkStages /\ w.cfg \in SoundFiles
      BY <1>2 DEF WorkStages, Workers
    <2> QED BY <1>2, <2>1, <2>2, WorkerMoves
  <1>6. /\ v.kind = w.kind /\ v.job = w.job /\ v.at = "delete" /\ v.todo = owned /\ v.row = w.row
        /\ v.alone = w.alone
    BY <1>2 DEF Workers
  <1>7. Settled(file, tasks, synced, w)
    BY DEF TasksInv
  <1> HIDE DEF v
  <1>8. Formed(v) /\ Registry!Working(v)
    <2>1. \A n \in owned : Spelled(w.job, n)
      BY <1>2, OursFacts DEF owned
    <2> QED BY <1>1, <1>6, <1>7, <2>1 DEF Settled, Formed, Registry!Working
  <1>9. ASSUME NEW n \in Registry!Names, Meant(w, n) PROVE Meant(v, n)
    <2>1. n \in w.known /\ n = Registry!Bare(w.job)
      BY <1>1, <1>9 DEF Meant
    <2>2. n \in owned
      BY <1>2, <2>1, OursFacts DEF owned
    <2> QED BY <1>6, <1>8, <2>1, <2>2 DEF Meant
  <1>10. Spares(file, synced, v)
    <2> SUFFICES ASSUME NEW n \in owned, NEW j \in Jobs, n = Registry!Bare(j),
                        n # Registry!Bare(w.job)
                 PROVE  file[j] = Registry!Absent
      BY <1>6 DEF Spares
    <2>1. j \in Jobs \ {w.job} /\ Ours(file, w.job, n)
      BY DEF owned
    <2> QED BY <1>2, <2>1, OursFacts
  <1>11. Progress(file, tasks, v)
    <2>1. w.alone => \A n : Mine(tasks, w.job, n) => n \in w.known
      BY <1>1, <1>7 DEF Settled, Progress
    <2>2. w.alone => \A n : Mine(tasks, w.job, n) /\ Ours(file, w.job, n) => n \in owned
      BY <2>1 DEF owned
    <2>3. w.alone /\ w.kind # "cleanup" => Registry!Fires(file[w.job]) = Registry!Fires(w.row)
      BY <1>1, <1>7 DEF Settled, Progress
    <2> QED BY <1>6, <2>2, <2>3 DEF Progress
  <1> QED BY <1>1, <1>4, <1>5, <1>6, <1>8, <1>9, <1>10, <1>11, OneMoves

LEMMA CleanupLoadTasks ==
  ASSUME TasksInv, RegistryInv', NEW i \in DOMAIN writers, Registry!CleanupLoad(i)
  PROVE  TasksInv'
  <1> DEFINE w == writers[i]
             v == [w EXCEPT !.cfg = file, !.at = "save"]
  <1>1. /\ w.kind = "cleanup" /\ w.at = "load" /\ Registry!Working(w)
        /\ UNCHANGED <<file, tasks, synced>>
    BY DEF Registry!CleanupLoad, Registry!At, Registry!Working
  <1>2. w \in Workers /\ w.job \in Jobs
    BY <1>1, AtWorkOn
  <1>3. writers' = [writers EXCEPT ![i] = v]
    BY DEF Registry!CleanupLoad
  <1>4. v \in Workers
    <2>1. file \in SoundFiles /\ "save" \in WorkStages /\ w.known \in SUBSET Registry!Names
          /\ w.todo \in SUBSET Registry!Names
      BY <1>2 DEF TasksInv, RegistryInv, Chained, SoundFiles, WorkStages, Workers
    <2> QED BY <1>2, <2>1, WorkerMoves
  <1>5. /\ v.kind = "cleanup" /\ v.job = w.job /\ v.at = "save" /\ v.todo = w.todo /\ v.row = w.row
        /\ v.alone = w.alone /\ v.cfg = file
    BY <1>1, <1>2 DEF Workers
  <1>6. Settled(file, tasks, synced, w)
    BY DEF TasksInv
  <1> HIDE DEF v
  <1>7. Formed(v) /\ Registry!Working(v)
    BY <1>1, <1>5, <1>6 DEF Settled, Formed, Registry!Working
  <1>8. Spares(file, synced, v) /\ \A n : ~Meant(w, n)
    BY <1>1, <1>5 DEF Spares, Meant
  <1>9. Progress(file, tasks, v)
    <2>1. w.alone => \A n : Mine(tasks, w.job, n) => ~Ours(file, w.job, n)
      BY <1>1, <1>6 DEF Settled, Progress
    <2> QED BY <1>5, <2>1 DEF Progress
  <1> QED BY <1>1, <1>3, <1>4, <1>5, <1>7, <1>8, <1>9, OneMoves

\* A writer is done, and its job is as it left it unless it met another.
LEMMA Finished ==
  ASSUME TasksInv, RegistryInv', LookalikeAssumption, NEW i \in DOMAIN writers,
         Registry!Working(writers[i]), Registry!Finish(i, synced), UNCHANGED <<file, tasks>>,
         \A n : ~Meant(writers[i], n),
         writers[i].alone =>
           /\ NoneMissing(file, tasks, writers[i].job)
           /\ \A n : Mine(tasks, writers[i].job, n) /\ Ours(file, writers[i].job, n) =>
                <<n, tasks[n]>> \in Wants(file, writers[i].job)
  PROVE  TasksInv'
  <1> DEFINE w == writers[i]
  <1>1. w.kind # "none"
    BY DEF Registry!Working
  <1>2. w \in Workers /\ w.job \in Jobs /\ w.alone \in BOOLEAN
    BY <1>1, AtWorkOn DEF Workers
  <1>3. /\ DOMAIN writers' = DOMAIN writers /\ writers'[i] = Registry!Idle
        /\ \A k \in DOMAIN writers \ {i} : writers'[k] = writers[k]
    BY DEF TasksInv, RegistryInv, Registry!Finish
  <1>4. ~Registry!Working(Registry!Idle) /\ Registry!Idle.kind = "none"
    BY RowFacts DEF Registry!Working
  <1>5. /\ synced' \in [Jobs -> BOOLEAN] /\ synced'[w.job] = w.alone
        /\ \A j \in Jobs \ {w.job} : synced'[j] = synced[j]
    BY <1>2 DEF TasksInv, Registry!Finish
  <1> HIDE DEF w
  <1>6. ASSUME NEW k \in DOMAIN writers \ {i}, Registry!Working(writers[k]), w.alone
        PROVE  writers[k] \in Workers /\ writers[k].job \in Jobs
               /\ writers[k].job \notin Registry!Kin(w.job) /\ w.job \notin Registry!Kin(writers[k].job)
    <2>1. writers[k] \in Workers /\ writers[k].job \in Jobs
      BY <1>6, AtWorkOn DEF Registry!Working
    <2>2. writers[k].job \notin Registry!Kin(w.job)
      BY <1>6 DEF TasksInv, Apart, w
    <2> QED BY <1>2, <2>1, <2>2, KinFacts
  <1>7. ASSUME NEW j \in Jobs, synced'[j]
        PROVE  NoneMissing(file, tasks, j) /\ NoneOver(file, tasks, writers', j)
    <2>1. CASE j = w.job
      BY <1>5, <1>7, <2>1 DEF NoneOver, w
    <2>2. CASE j # w.job
      <3>1. NoneMissing(file, tasks, j) /\ NoneOver(file, tasks, writers, j)
        BY <1>5, <1>7, <2>2 DEF TasksInv
      <3>2. ASSUME NEW n, NEW k \in DOMAIN writers, Meant(writers[k], n) PROVE Meant(writers'[k], n)
        BY <1>3, <3>2
      <3> QED BY <1>3, <3>1, <3>2 DEF NoneOver
    <2> QED BY <2>1, <2>2
  <1>8. ASSUME NEW k \in DOMAIN writers PROVE Settled(file, tasks, synced', writers'[k])
    <2>1. CASE k = i
      BY <1>3, <1>4, <2>1 DEF Settled
    <2>2. CASE k # i
      <3> DEFINE v == writers[k]
      <3>1. writers'[k] = v /\ Settled(file, tasks, synced, v)
        BY <1>3, <2>2 DEF TasksInv
      <3>2. ASSUME Registry!Working(v) PROVE ~synced'[v.job] /\ Spares(file, synced', v)
        <4>1. v \in Workers /\ v.job \in Jobs /\ ~synced[v.job] /\ Spares(file, synced, v) /\ Formed(v)
          BY <3>1, <3>2, AtWorkOn DEF Settled, Registry!Working
        <4>2. ~synced'[v.job]
          <5>1. CASE v.job # w.job
            BY <1>5, <4>1, <5>1
          <5>2. CASE v.job = w.job
            BY <1>2, <1>5, <1>6, <2>2, <3>2, <5>2, KinFacts
          <5> QED BY <5>1, <5>2
        <4>3. ASSUME v.at = "delete", NEW n \in v.todo, NEW j \in Jobs, n = Registry!Bare(j),
                     n # Registry!Bare(v.job)
              PROVE  ~synced'[j] \/ file[j] = Registry!Absent
          <5>1. CASE j # w.job
            BY <1>5, <4>1, <4>3, <5>1 DEF Spares
          <5>2. CASE j = w.job
            <6>1. Spelled(v.job, n) /\ Spelled(j, n) /\ v.job # j
              BY <4>1, <4>3 DEF Formed, Spelled, Registry!Bare
            <6>2. w.job \in Registry!Kin(v.job)
              BY <4>1, <5>2, <6>1, NamesShared
            <6> QED BY <1>2, <1>5, <1>6, <2>2, <3>2, <5>2, <6>2
          <5> QED BY <5>1, <5>2
        <4> HIDE DEF v
        <4> QED BY <4>2, <4>3 DEF Spares
      <3> HIDE DEF v
      <3> QED BY <3>1, <3>2 DEF Settled
    <2> QED BY <2>1, <2>2
  <1>9. Apart(writers')
    <2>1. Apart(writers)
      BY DEF TasksInv
    <2> QED BY <1>3, <1>4, <2>1 DEF Apart
  <1> QED BY <1>3, <1>5, <1>7, <1>8, <1>9 DEF TasksInv

\* What a row fires that was not made for the Scheduler.
LEMMA FiresFacts ==
  /\ Registry!Fires(Registry!Absent) = "none"
  /\ \A r : r # Registry!Absent /\ r.elevated => Registry!Fires(r) = "none"
  /\ \A r : r # Registry!Absent /\ ~r.elevated => Registry!Fires(r) = r.schedule
  BY DEF Registry!Fires

LEMMA DeletedTasks ==
  ASSUME TasksInv, RegistryInv', LookalikeAssumption, NEW i \in DOMAIN writers, Registry!Deleted(i)
  PROVE  TasksInv'
  <1> DEFINE w == writers[i]
             names == {t[1] : t \in Registry!Wanted(w.job, w.row.schedule)}
  <1>1. /\ w.kind \in Registry!Deleting /\ w.kind # "none" /\ w.at = "delete" /\ Registry!Working(w)
        /\ w.todo = {} /\ UNCHANGED <<file, tasks>>
    BY DEF Registry!Deleted, Registry!At, Registry!Deleting, Registry!Working
  <1>2. w \in Workers /\ w.job \in Jobs
    BY <1>1, AtWorkOn
  <1>3. Formed(w) /\ Progress(file, tasks, w)
    BY <1>1 DEF TasksInv, Settled
  <1>4. \A n : ~Meant(w, n)
    BY <1>1 DEF Meant
  <1>5. w.alone => \A n : Mine(tasks, w.job, n) => ~Ours(file, w.job, n)
    BY <1>1, <1>3 DEF Progress
  <1>6. ASSUME w.kind = "cleanup", writers' = [writers EXCEPT ![i].at = "load"], UNCHANGED synced
        PROVE  TasksInv'
    <2> DEFINE v == [w EXCEPT !.at = "load"]
    <2>1. writers' = [writers EXCEPT ![i] = v]
      BY <1>6
    <2>2. v \in Workers
      <3>1. "load" \in WorkStages
        BY DEF WorkStages
      <3> QED BY <1>2, <3>1, WorkerFields
    <2>3. /\ v.kind = w.kind /\ v.job = w.job /\ v.at = "load" /\ v.todo = w.todo /\ v.row = w.row
          /\ v.alone = w.alone
      BY <1>2 DEF Workers
    <2> HIDE DEF v
    <2>4. Formed(v) /\ Registry!Working(v)
      BY <1>1, <1>3, <1>6, <2>3 DEF Formed, Registry!Working
    <2>5. Spares(file, synced, v) /\ Progress(file, tasks, v)
      BY <1>5, <1>6, <2>3 DEF Spares, Progress
    <2> QED BY <1>1, <1>4, <1>6, <2>1, <2>2, <2>3, <2>4, <2>5, OneMoves
  <1>7. ASSUME w.kind = "sync", ~w.row.elevated, UNCHANGED synced,
               writers' = [writers EXCEPT ![i].todo = names, ![i].at = "create"]
        PROVE  TasksInv'
    <2> DEFINE v == [w EXCEPT !.todo = names, !.at = "create"]
    <2> HIDE DEF names
    <2>1. writers' = [writers EXCEPT ![i] = v]
      BY <1>7
    <2>2. v \in Workers
      <3>1. "create" \in WorkStages /\ w.cfg \in SoundFiles /\ w.known \in SUBSET Registry!Names
        BY <1>2 DEF WorkStages, Workers
      <3>2. names \in SUBSET Registry!Names
        BY <1>2, NamesAreNames DEF names
      <3> QED BY <1>2, <3>1, <3>2, WorkerMoves
    <2>3. /\ v.kind = w.kind /\ v.job = w.job /\ v.at = "create" /\ v.todo = names /\ v.row = w.row
          /\ v.alone = w.alone
      BY <1>2 DEF Workers
    <2> HIDE DEF v
    <2>4. \A n \in names : Spelled(w.job, n)
      BY <1>2, WantedFacts DEF names
    <2>5. Formed(v) /\ Registry!Working(v)
      BY <1>1, <1>3, <1>7, <2>3, <2>4 DEF Formed, Registry!Working
    <2>6. Spares(file, synced, v)
      BY <2>3 DEF Spares
    <2>7. Progress(file, tasks, v)
      <3>1. w.alone => Registry!Fires(file[w.job]) = Registry!Fires(w.row)
        BY <1>3, <1>7 DEF Progress
      <3>2. \A t \in Registry!Wanted(w.job, w.row.schedule) : t[1] \in names
        BY DEF names
      <3> QED BY <1>5, <2>3, <3>1, <3>2 DEF Progress
    <2> QED BY <1>1, <1>4, <1>7, <2>1, <2>2, <2>3, <2>5, <2>6, <2>7, OneMoves
  <1>8. ASSUME w.kind = "delete" \/ (w.kind = "sync" /\ w.row.elevated), Registry!Finish(i, synced)
        PROVE  TasksInv'
    <2>1. Registry!Fires(w.row) = "none"
      BY <1>3, <1>8, FiresFacts DEF Formed
    <2>2. w.alone => Wants(file, w.job) = {}
      <3>1. w.alone => Registry!Fires(file[w.job]) = "none"
        BY <1>3, <1>8, <2>1 DEF Progress
      <3> QED BY <1>2, <3>1, WantedFacts DEF Wants
    <2>3. w.alone => NoneMissing(file, tasks, w.job)
      BY <2>2 DEF NoneMissing
    <2> QED BY <1>1, <1>4, <1>5, <1>8, <2>3, Finished
  <1> HIDE DEF names
  <1>9. \/ w.kind = "cleanup" /\ writers' = [writers EXCEPT ![i].at = "load"] /\ UNCHANGED synced
        \/ /\ w.kind = "sync" /\ ~w.row.elevated /\ UNCHANGED synced
           /\ writers' = [writers EXCEPT ![i].todo = names, ![i].at = "create"]
        \/ /\ w.kind = "delete" \/ (w.kind = "sync" /\ w.row.elevated)
           /\ Registry!Finish(i, synced)
    BY DEF Registry!Deleted, names
  <1> QED BY <1>6, <1>7, <1>8, <1>9

LEMMA CreatedTasks ==
  ASSUME TasksInv, RegistryInv', LookalikeAssumption, NEW i \in DOMAIN writers, Registry!Created(i)
  PROVE  TasksInv'
  <1> DEFINE w == writers[i]
  <1>1. /\ w.kind = "sync" /\ w.kind # "none" /\ w.at = "create" /\ Registry!Working(w)
        /\ w.todo = {} /\ UNCHANGED <<file, tasks>> /\ Registry!Finish(i, synced)
    BY DEF Registry!Created, Registry!At, Registry!Working
  <1>2. w \in Workers /\ w.job \in Jobs
    BY <1>1, AtWorkOn
  <1>3. Formed(w) /\ Progress(file, tasks, w)
    BY <1>1 DEF TasksInv, Settled
  <1>4. \A n : ~Meant(w, n)
    BY <1>1 DEF Meant
  <1>5. Registry!Fires(w.row) = w.row.schedule
    BY <1>1, <1>3, FiresFacts DEF Formed
  <1>6. w.alone => Wants(file, w.job) = Registry!Wanted(w.job, w.row.schedule)
    <2>1. w.alone => Registry!Fires(file[w.job]) = Registry!Fires(w.row)
      BY <1>1, <1>3 DEF Progress
    <2> QED BY <1>5, <2>1 DEF Wants
  <1>7. w.alone => NoneMissing(file, tasks, w.job)
    BY <1>1, <1>3, <1>6 DEF NoneMissing, Progress
  <1>8. w.alone => \A n : Mine(tasks, w.job, n) /\ Ours(file, w.job, n) =>
                     <<n, tasks[n]>> \in Wants(file, w.job)
    BY <1>1, <1>3, <1>6 DEF Progress
  <1> QED BY <1>1, <1>4, <1>7, <1>8, Finished

\* One writer has dealt with one task, and others of its job's may be gone or new.
Dealt(ws, wt, i, n) ==
  /\ DOMAIN wt = DOMAIN ws
  /\ \A k \in DOMAIN ws \ {i} : wt[k] = ws[k]
  /\ wt[i].kind = ws[i].kind /\ wt[i].job = ws[i].job /\ wt[i].at = ws[i].at /\ wt[i].row = ws[i].row
  /\ wt[i].todo = ws[i].todo \ {n} /\ wt[i].known = ws[i].known /\ wt[i].cfg = ws[i].cfg
  /\ wt[i].alone => ws[i].alone
  /\ Registry!Working(wt[i]) /\ (Formed(ws[i]) => Formed(wt[i]))
  /\ Apart(wt)
  /\ \A m : m # n /\ (\E k \in DOMAIN ws : Meant(ws[k], m)) => \E k \in DOMAIN wt : Meant(wt[k], m)

LEMMA OneDealt ==
  ASSUME TasksInv, NEW i \in DOMAIN writers, Registry!Working(writers[i]), NEW n,
         \/ writers' = [writers EXCEPT ![i].todo = @ \ {n}]
         \/ writers' = [writers EXCEPT ![i].todo = @ \ {n}, ![i].alone = FALSE]
  PROVE  Dealt(writers, writers', i, n)
  <1> DEFINE w == writers[i]
             v == writers'[i]
  <1>1. w \in Workers
    BY AtWorkOn DEF Registry!Working
  <1>2. DOMAIN writers' = DOMAIN writers /\ \A k \in DOMAIN writers \ {i} : writers'[k] = writers[k]
    OBVIOUS
  <1>3. /\ v.kind = w.kind /\ v.job = w.job /\ v.at = w.at /\ v.row = w.row
        /\ v.todo = w.todo \ {n} /\ v.known = w.known /\ v.cfg = w.cfg
        /\ v.alone => w.alone
    <2>1. v = [w EXCEPT !.todo = w.todo \ {n}] \/ v = [w EXCEPT !.todo = w.todo \ {n}, !.alone = FALSE]
      OBVIOUS
    <2> HIDE DEF v, w
    <2> QED BY <1>1, <2>1 DEF Workers
  <1>4. Registry!Working(w)
    OBVIOUS
  <1> HIDE DEF v, w
  <1>5. Registry!Working(v) /\ (Formed(w) => Formed(v))
    BY <1>3, <1>4 DEF Registry!Working, Formed
  <1>6. Apart(writers')
    <2> SUFFICES ASSUME NEW a \in DOMAIN writers, NEW b \in DOMAIN writers, a # b,
                        Registry!Working(writers'[a]), Registry!Working(writers'[b]),
                        writers'[b].job \in Registry!Kin(writers'[a].job)
                 PROVE  ~writers'[a].alone /\ ~writers'[b].alone
      BY <1>2 DEF Apart
    <2>1. ASSUME NEW k \in DOMAIN writers, Registry!Working(writers'[k])
          PROVE  /\ Registry!Working(writers[k]) /\ writers'[k].job = writers[k].job
                 /\ writers'[k].alone => writers[k].alone
      BY <1>2, <1>3, <1>4, <2>1 DEF v, w
    <2>2. ~writers[a].alone /\ ~writers[b].alone
      BY <2>1 DEF TasksInv, Apart
    <2> QED BY <2>1, <2>2
  <1>7. ASSUME NEW m, m # n, NEW k \in DOMAIN writers, Meant(writers[k], m)
        PROVE  Meant(writers'[k], m)
    <2>1. CASE k = i
      <3>1. Meant(w, m)
        BY <1>7, <2>1 DEF w
      <3>2. Meant(v, m)
        BY <1>3, <1>5, <1>7, <3>1 DEF Meant
      <3> QED BY <2>1, <3>2 DEF v
    <2>2. CASE k # i
      BY <1>2, <1>7, <2>2
    <2> QED BY <2>1, <2>2
  <1>8. \A m : m # n /\ (\E k \in DOMAIN writers : Meant(writers[k], m)) =>
          \E k \in DOMAIN writers' : Meant(writers'[k], m)
    BY <1>2, <1>7
  <1> QED BY <1>2, <1>3, <1>5, <1>6, <1>8 DEF v, w, Dealt

\* Tasks of other jobs do not count.
LEMMA ProgressStays ==
  ASSUME NEW f, NEW ts, NEW tt, NEW w, Progress(f, ts, w),
         \A n : Mine(tt, w.job, n) => Mine(ts, w.job, n) /\ tt[n] = ts[n],
         \A t \in Registry!Wanted(w.job, w.row.schedule) : tt[t[1]] = ts[t[1]]
  PROVE  Progress(f, tt, w)
  <1> SUFFICES ASSUME w.alone PROVE Progress(f, tt, w)
    BY DEF Progress
  <1>1. w.kind # "cleanup" => Registry!Fires(f[w.job]) = Registry!Fires(w.row)
    BY DEF Progress
  <1>2. w.at = "others" => \A n : Mine(tt, w.job, n) => n \in w.known
    BY DEF Progress
  <1>3. w.at = "delete" => \A n : Mine(tt, w.job, n) /\ Ours(f, w.job, n) => n \in w.todo
    BY DEF Progress
  <1>4. ASSUME w.at = "create", NEW n, Mine(tt, w.job, n), Ours(f, w.job, n)
        PROVE  <<n, tt[n]>> \in Registry!Wanted(w.job, w.row.schedule)
    <2>1. Mine(ts, w.job, n) /\ tt[n] = ts[n]
      BY <1>4
    <2>2. <<n, ts[n]>> \in Registry!Wanted(w.job, w.row.schedule)
      BY <1>4, <2>1 DEF Progress
    <2> QED BY <2>1, <2>2
  <1>5. ASSUME w.at = "create", NEW t \in Registry!Wanted(w.job, w.row.schedule)
        PROVE  t[1] \in w.todo \/ tt[t[1]] = t[2]
    <2>1. t[1] \in w.todo \/ ts[t[1]] = t[2]
      BY <1>5 DEF Progress
    <2> QED BY <2>1
  <1>6. w.at \in {"load", "save"} => \A n : Mine(tt, w.job, n) => ~Ours(f, w.job, n)
    BY DEF Progress
  <1>7. w.at = "save" => \A k \in Registry!Kin(w.job) \ {w.job} :
          (w.cfg[k] = Registry!Absent) = (f[k] = Registry!Absent)
    BY DEF Progress
  <1> QED BY <1>1, <1>2, <1>3, <1>4, <1>5, <1>6, <1>7 DEF Progress

\* A writer that works on the same names as one on its own is that one.
LEMMA OnlyOne ==
  ASSUME TasksInv, LookalikeAssumption, NEW i \in DOMAIN writers, NEW k \in DOMAIN writers,
         Registry!Working(writers[i]), Registry!Working(writers[k]), writers[k].alone, k # i, NEW n,
         Spelled(writers[i].job, n)
  PROVE  ~Spelled(writers[k].job, n) /\ writers[k].job # writers[i].job
  <1>1. writers[i].job \in Jobs /\ writers[k].job \in Jobs
    BY AtWorkOn DEF Registry!Working
  <1>2. writers[i].job \notin Registry!Kin(writers[k].job)
    BY DEF TasksInv, Apart
  <1>3. writers[k].job # writers[i].job
    BY <1>1, <1>2, KinFacts
  <1> QED BY <1>1, <1>2, <1>3, NamesShared

LEMMA DeleteTaskTasks ==
  ASSUME TasksInv, RegistryInv', LookalikeAssumption, NEW i \in DOMAIN writers,
         Registry!DeleteTask(i)
  PROVE  TasksInv'
  <1> DEFINE w == writers[i]
             v == writers'[i]
  <1>1. /\ w.kind # "none" /\ w.at = "delete" /\ Registry!Working(w) /\ file' = file
    BY DEF Registry!DeleteTask, Registry!At, Registry!Deleting, Registry!Working
  <1>2. w \in Workers /\ w.job \in Jobs
    BY <1>1, AtWorkOn
  <1>3. PICK n \in w.todo :
          \/ /\ tasks' = [tasks EXCEPT ![n] = Registry!NoTask]
             /\ writers' = [writers EXCEPT ![i].todo = @ \ {n}]
             /\ synced' = Registry!Outdated(IF n = Registry!Bare(w.job)
                                            THEN Registry!Usurped(w.job, n) ELSE {})
          \/ /\ writers' = [writers EXCEPT ![i].todo = @ \ {n}, ![i].alone = FALSE]
             /\ synced' = Registry!Outdated(IF tasks[n] = Registry!NoTask THEN {} ELSE {tasks[n].job})
             /\ UNCHANGED tasks
    BY DEF Registry!DeleteTask
  <1>4. n \in Registry!Names
    BY <1>2 DEF Workers
  <1>5. /\ DOMAIN writers' = DOMAIN writers
        /\ \A k \in DOMAIN writers \ {i} : writers'[k] = writers[k]
        /\ v.kind = w.kind /\ v.job = w.job /\ v.at = w.at /\ v.row = w.row
        /\ v.todo = w.todo \ {n} /\ v.known = w.known /\ v.cfg = w.cfg
        /\ v.alone => w.alone
        /\ Registry!Working(v) /\ (Formed(w) => Formed(v))
        /\ Apart(writers')
        /\ \A m : m # n /\ (\E k \in DOMAIN writers : Meant(writers[k], m)) =>
             \E k \in DOMAIN writers' : Meant(writers'[k], m)
    <2>1. Dealt(writers, writers', i, n)
      BY <1>1, <1>3, OneDealt
    <2> QED BY <2>1 DEF Dealt
  <1>6. Settled(file, tasks, synced, w) /\ Formed(w) /\ Spares(file, synced, w)
        /\ Progress(file, tasks, w) /\ ~synced[w.job] /\ Spelled(w.job, n)
    BY <1>1 DEF TasksInv, Settled, Formed
  <1>7. synced' \in [Jobs -> BOOLEAN] /\ \A j \in Jobs : synced'[j] => synced[j]
    BY <1>3 DEF TasksInv, Registry!Outdated
  <1>8. ASSUME NEW k \in DOMAIN writers PROVE Settled(file, tasks, synced, writers[k])
    BY DEF TasksInv
  \* What every outcome leaves of the writers.
  <1>9. ASSUME NEW k \in DOMAIN writers, k = i => Progress(file, tasks', v),
               k # i /\ Registry!Working(writers[k]) => Progress(file, tasks', writers[k])
        PROVE  Settled(file, tasks', synced', writers'[k])
    <2>1. CASE k = i
      <3>1. ~synced'[v.job]
        BY <1>2, <1>5, <1>6, <1>7
      <3>2. Spares(file, synced', v)
        BY <1>5, <1>6, <1>7 DEF Spares
      <3> HIDE DEF v, w
      <3>3. Settled(file, tasks', synced', v)
        BY <1>5, <1>6, <1>9, <2>1, <3>1, <3>2 DEF Settled
      <3> QED BY <2>1, <3>3 DEF v
    <2>2. CASE k # i
      <3> DEFINE u == writers[k]
      <3>1. /\ writers'[k] = u /\ Settled(file, tasks, synced, u)
            /\ Registry!Working(u) => Progress(file, tasks', u)
        BY <1>5, <1>8, <1>9, <2>2
      <3>2. u.kind # "none" => u.job \in Jobs
        BY AtWorkOn
      <3> HIDE DEF u
      <3>3. Spares(file, synced, u) => Spares(file, synced', u)
        BY <1>7 DEF Spares
      <3> QED BY <1>7, <3>1, <3>2, <3>3 DEF Settled
    <2> QED BY <2>1, <2>2
  <1>10. CASE /\ tasks' = [tasks EXCEPT ![n] = Registry!NoTask]
              /\ synced' = Registry!Outdated(IF n = Registry!Bare(w.job)
                                             THEN Registry!Usurped(w.job, n) ELSE {})
    <2>1. /\ DOMAIN tasks' = Registry!Names /\ tasks'[n] = Registry!NoTask
          /\ \A m \in Registry!Names \ {n} : tasks'[m] = tasks[m]
      BY <1>4, <1>10 DEF TasksInv
    <2>2. \A j, m : Mine(tasks', j, m) => Mine(tasks, j, m) /\ m # n /\ tasks'[m] = tasks[m]
      BY <2>1 DEF Mine
    <2>3. TasksMade(tasks')
      BY <2>1 DEF TasksInv, TasksMade
    <2>4. ASSUME NEW j \in Jobs, synced'[j]
          PROVE  NoneMissing(file, tasks', j) /\ NoneOver(file, tasks', writers', j)
      <3>1. NoneMissing(file, tasks, j) /\ NoneOver(file, tasks, writers, j) /\ j # w.job
        BY <1>6, <1>7, <2>4 DEF TasksInv
      <3>2. ASSUME NEW t \in Wants(file, j) PROVE t[1] # n /\ t[1] \in Registry!Names
        <4>1. Spelled(j, t[1]) /\ t[1] \in Registry!Names
          BY <3>2, WantedFacts DEF Wants
        <4>2. ASSUME t[1] = n PROVE FALSE
          <5>1. n = Registry!Bare(w.job) \/ n = Registry!Bare(j)
            BY <1>2, <1>6, <3>1, <4>1, <4>2, NamesShared
          <5>2. CASE n = Registry!Bare(w.job)
            <6>1. j \in Registry!Usurped(w.job, n)
              BY <3>1, <3>2, <4>2 DEF Registry!Usurped, Wants
            <6> QED BY <1>10, <2>4, <5>2, <6>1 DEF Registry!Outdated
          <5>3. CASE n # Registry!Bare(w.job)
            <6>1. ~synced[j] \/ file[j] = Registry!Absent
              BY <1>1, <1>6, <5>1, <5>3 DEF Spares
            <6>2. file[j] = Registry!Absent
              BY <1>7, <2>4, <6>1
            <6>3. Wants(file, j) = {}
              BY <6>2, FiresFacts, WantedFacts DEF Wants
            <6> QED BY <3>2, <6>3
          <5> QED BY <5>2, <5>3
        <4> QED BY <4>1, <4>2
      <3>3. NoneMissing(file, tasks', j)
        BY <2>1, <3>1, <3>2 DEF NoneMissing
      <3>4. NoneOver(file, tasks', writers', j)
        BY <1>5, <2>2, <3>1 DEF NoneOver
      <3> QED BY <3>3, <3>4
    <2>5. ASSUME NEW k \in DOMAIN writers, k # i, Registry!Working(writers[k])
          PROVE  Progress(file, tasks', writers[k])
      <3> DEFINE u == writers[k]
      <3>1. CASE ~u.alone
        BY <3>1 DEF Progress
      <3>2. CASE u.alone
        <4>1. Progress(file, tasks, u) /\ u.job \in Jobs
          BY <1>8, <2>5, AtWorkOn DEF Settled, Registry!Working
        <4>2. ~Spelled(u.job, n)
          BY <1>1, <1>6, <2>5, <3>2, OnlyOne
        <4>3. \A t \in Registry!Wanted(u.job, u.row.schedule) : t[1] # n /\ t[1] \in Registry!Names
          BY <4>1, <4>2, WantedFacts
        <4> HIDE DEF u
        <4>4. \A t \in Registry!Wanted(u.job, u.row.schedule) : tasks'[t[1]] = tasks[t[1]]
          BY <2>1, <4>3
        <4>5. \A m : Mine(tasks', u.job, m) => Mine(tasks, u.job, m) /\ tasks'[m] = tasks[m]
          BY <2>2
        <4>6. Progress(file, tasks', u)
          BY <4>1, <4>4, <4>5, ProgressStays
        <4> QED BY <4>6 DEF u
      <3> QED BY <3>1, <3>2
    <2>6. Progress(file, tasks', v)
      <3> HIDE DEF v, w
      <3> QED BY <1>1, <1>5, <1>6, <2>2 DEF Progress
    <2>7. \A k \in DOMAIN writers' : Settled(file, tasks', synced', writers'[k])
      BY <1>5, <1>9, <2>5, <2>6
    <2> QED BY <1>1, <1>5, <1>7, <2>1, <2>3, <2>4, <2>7 DEF TasksInv
  <1>11. CASE /\ writers' = [writers EXCEPT ![i].todo = @ \ {n}, ![i].alone = FALSE]
              /\ synced' = Registry!Outdated(IF tasks[n] = Registry!NoTask THEN {} ELSE {tasks[n].job})
              /\ UNCHANGED tasks
    <2>1. ~v.alone
      BY <1>2, <1>11 DEF Workers
    <2>2. ASSUME NEW k \in DOMAIN writers PROVE Settled(file, tasks', synced', writers'[k])
      <3>1. tasks' = tasks
        BY <1>11
      <3>2. Progress(file, tasks', v)
        BY <2>1 DEF Progress
      <3>3. Registry!Working(writers[k]) => Progress(file, tasks', writers[k])
        BY <1>8, <3>1 DEF Settled, Registry!Working
      <3> QED BY <1>9, <3>2, <3>3
    <2>3. ASSUME NEW j \in Jobs, synced'[j]
          PROVE  NoneMissing(file, tasks', j) /\ NoneOver(file, tasks', writers', j)
      <3>1. NoneMissing(file, tasks, j) /\ NoneOver(file, tasks, writers, j)
        BY <1>7, <2>3 DEF TasksInv
      <3>2. ASSUME NEW m, Mine(tasks, j, m) PROVE m # n
        BY <1>11, <2>3, <3>2 DEF Registry!Outdated, Mine
      <3> QED BY <1>5, <1>11, <3>1, <3>2 DEF NoneOver
    <2> QED BY <1>1, <1>5, <1>7, <1>11, <2>2, <2>3 DEF TasksInv
  <1> QED BY <1>3, <1>10, <1>11

LEMMA CreateTaskTasks ==
  ASSUME TasksInv, RegistryInv', LookalikeAssumption, NEW i \in DOMAIN writers,
         Registry!CreateTask(i)
  PROVE  TasksInv'
  <1> DEFINE w == writers[i]
             v == writers'[i]
  <1>1. /\ w.kind = "sync" /\ w.kind # "none" /\ w.at = "create" /\ Registry!Working(w)
        /\ file' = file
    BY DEF Registry!CreateTask, Registry!At, Registry!Working
  <1>2. w \in Workers /\ w.job \in Jobs
    BY <1>1, AtWorkOn
  <1>3. PICK t \in Registry!Wanted(w.job, w.row.schedule) :
          /\ t[1] \in w.todo
          /\ \/ /\ tasks' = [tasks EXCEPT ![t[1]] = t[2]]
                /\ writers' = [writers EXCEPT ![i].todo = @ \ {t[1]}]
                /\ synced' = Registry!Outdated(Registry!Usurped(w.job, t[1]))
             \/ /\ writers' = [writers EXCEPT ![i].todo = @ \ {t[1]}, ![i].alone = FALSE]
                /\ UNCHANGED <<tasks, synced>>
    BY DEF Registry!CreateTask
  <1> DEFINE n == t[1]
  <1>4. /\ n \in Registry!Names /\ Spelled(w.job, n) /\ t = <<n, t[2]>>
        /\ t[2].job = w.job /\ t[2].schedule = w.row.schedule /\ t[2] # Registry!NoTask
    BY <1>2, WantedFacts
  <1>5. /\ DOMAIN writers' = DOMAIN writers
        /\ \A k \in DOMAIN writers \ {i} : writers'[k] = writers[k]
        /\ v.kind = w.kind /\ v.job = w.job /\ v.at = w.at /\ v.row = w.row
        /\ v.todo = w.todo \ {n} /\ v.known = w.known /\ v.cfg = w.cfg
        /\ v.alone => w.alone
        /\ Registry!Working(v) /\ (Formed(w) => Formed(v))
        /\ Apart(writers')
    <2>1. Dealt(writers, writers', i, n)
      BY <1>1, <1>3, OneDealt
    <2> QED BY <2>1 DEF Dealt
  <1>6. Settled(file, tasks, synced, w) /\ Formed(w) /\ Progress(file, tasks, w) /\ ~synced[w.job]
    BY <1>1 DEF TasksInv, Settled
  <1>7. synced' \in [Jobs -> BOOLEAN] /\ \A j \in Jobs : synced'[j] => synced[j]
    BY <1>3 DEF TasksInv, Registry!Outdated
  <1>8. ASSUME NEW k \in DOMAIN writers PROVE Settled(file, tasks, synced, writers[k])
    BY DEF TasksInv
  \* A writer that is creating is not one that is yet to delete.
  <1>9. ASSUME NEW k \in DOMAIN writers, NEW m, Meant(writers[k], m) PROVE Meant(writers'[k], m)
    <2>1. k # i
      BY <1>1, <1>9 DEF Meant
    <2> QED BY <1>5, <1>9, <2>1
  <1>10. ASSUME NEW k \in DOMAIN writers, k = i => Progress(file, tasks', v),
                k # i /\ Registry!Working(writers[k]) => Progress(file, tasks', writers[k])
         PROVE  Settled(file, tasks', synced', writers'[k])
    <2>1. CASE k = i
      <3>1. ~synced'[v.job] /\ Spares(file, synced', v)
        BY <1>1, <1>2, <1>5, <1>6, <1>7 DEF Spares
      <3> HIDE DEF v, w
      <3>2. Settled(file, tasks', synced', v)
        BY <1>5, <1>6, <1>10, <2>1, <3>1 DEF Settled
      <3> QED BY <2>1, <3>2 DEF v
    <2>2. CASE k # i
      <3> DEFINE u == writers[k]
      <3>1. /\ writers'[k] = u /\ Settled(file, tasks, synced, u)
            /\ Registry!Working(u) => Progress(file, tasks', u)
        BY <1>5, <1>8, <1>10, <2>2
      <3>2. u.kind # "none" => u.job \in Jobs
        BY AtWorkOn
      <3> HIDE DEF u
      <3>3. Spares(file, synced, u) => Spares(file, synced', u)
        BY <1>7 DEF Spares
      <3> QED BY <1>7, <3>1, <3>2, <3>3 DEF Settled
    <2> QED BY <2>1, <2>2
  <1> HIDE DEF n
  <1>11. CASE /\ tasks' = [tasks EXCEPT ![n] = t[2]]
              /\ synced' = Registry!Outdated(Registry!Usurped(w.job, n))
    <2>1. /\ DOMAIN tasks' = Registry!Names /\ tasks'[n] = t[2]
          /\ \A m \in Registry!Names \ {n} : tasks'[m] = tasks[m]
      BY <1>4, <1>11 DEF TasksInv
    <2>2. \A j, m : m # n /\ Mine(tasks', j, m) => Mine(tasks, j, m) /\ tasks'[m] = tasks[m]
      BY <2>1 DEF Mine
    <2>3. \A j : Mine(tasks', j, n) => j = w.job
      BY <1>4, <2>1 DEF Mine
    <2>4. TasksMade(tasks')
      <3>1. ASSUME NEW m \in Registry!Names, tasks'[m] # Registry!NoTask
            PROVE  /\ tasks'[m].job \in Jobs
                   /\ <<m, tasks'[m]>> \in Registry!Wanted(tasks'[m].job, tasks'[m].schedule)
        <4>1. CASE m = n
          BY <1>2, <1>4, <2>1, <4>1
        <4>2. CASE m # n
          BY <2>1, <3>1, <4>2 DEF TasksInv, TasksMade
        <4> QED BY <4>1, <4>2
      <3> QED BY <3>1 DEF TasksMade
    <2>5. ASSUME NEW j \in Jobs, synced'[j]
          PROVE  NoneMissing(file, tasks', j) /\ NoneOver(file, tasks', writers', j)
      <3>1. NoneMissing(file, tasks, j) /\ NoneOver(file, tasks, writers, j) /\ j # w.job
        BY <1>6, <1>7, <2>5 DEF TasksInv
      <3>2. ASSUME NEW s \in Wants(file, j) PROVE s[1] # n /\ s[1] \in Registry!Names
        <4>1. s[1] \in Registry!Names
          BY <3>2, WantedFacts DEF Wants
        <4>2. s[1] = n => j \in Registry!Usurped(w.job, n)
          BY <3>1, <3>2 DEF Registry!Usurped, Wants
        <4> QED BY <1>11, <2>5, <4>1, <4>2 DEF Registry!Outdated
      <3>3. NoneMissing(file, tasks', j)
        BY <2>1, <3>1, <3>2 DEF NoneMissing
      <3>4. \A m : Mine(tasks', j, m) => Mine(tasks, j, m) /\ tasks'[m] = tasks[m]
        BY <2>2, <2>3, <3>1
      <3>5. NoneOver(file, tasks', writers', j)
        BY <1>5, <1>9, <3>1, <3>4 DEF NoneOver
      <3> QED BY <3>3, <3>5
    <2>6. ASSUME NEW k \in DOMAIN writers, k # i, Registry!Working(writers[k])
          PROVE  Progress(file, tasks', writers[k])
      <3> DEFINE u == writers[k]
      <3>1. CASE ~u.alone
        BY <3>1 DEF Progress
      <3>2. CASE u.alone
        <4>1. Progress(file, tasks, u) /\ u.job \in Jobs
          BY <1>8, <2>6, AtWorkOn DEF Settled, Registry!Working
        <4>2. ~Spelled(u.job, n) /\ u.job # w.job
          BY <1>1, <1>4, <2>6, <3>2, OnlyOne
        <4>3. \A s \in Registry!Wanted(u.job, u.row.schedule) : s[1] # n /\ s[1] \in Registry!Names
          BY <4>1, <4>2, WantedFacts
        <4> HIDE DEF u
        <4>4. \A s \in Registry!Wanted(u.job, u.row.schedule) : tasks'[s[1]] = tasks[s[1]]
          BY <2>1, <4>3
        <4>5. \A m : Mine(tasks', u.job, m) => Mine(tasks, u.job, m) /\ tasks'[m] = tasks[m]
          BY <2>2, <2>3, <4>2
        <4>6. Progress(file, tasks', u)
          BY <4>1, <4>4, <4>5, ProgressStays
        <4> QED BY <4>6 DEF u
      <3> QED BY <3>1, <3>2
    <2>7. Progress(file, tasks', v)
      <3>1. ASSUME w.alone, NEW m, Mine(tasks', w.job, m), Ours(file, w.job, m)
            PROVE  <<m, tasks'[m]>> \in Registry!Wanted(w.job, w.row.schedule)
        <4>1. CASE m = n
          BY <1>4, <2>1, <4>1
        <4>2. CASE m # n
          <5>1. Mine(tasks, w.job, m) /\ tasks'[m] = tasks[m]
            BY <2>2, <3>1, <4>2
          <5>2. <<m, tasks[m]>> \in Registry!Wanted(w.job, w.row.schedule)
            BY <1>1, <1>6, <3>1, <5>1 DEF Progress
          <5> QED BY <5>1, <5>2
        <4> QED BY <4>1, <4>2
      <3>2. ASSUME w.alone, NEW s \in Registry!Wanted(w.job, w.row.schedule)
            PROVE  s[1] \in w.todo \ {n} \/ tasks'[s[1]] = s[2]
        <4>1. CASE s[1] = n
          <5>1. s = t
            BY <1>2, <4>1, WantedFacts DEF n
          <5> QED BY <2>1, <4>1, <5>1
        <4>2. CASE s[1] # n
          <5>1. s[1] \in Registry!Names /\ (s[1] \in w.todo \/ tasks[s[1]] = s[2])
            BY <1>1, <1>2, <1>6, <3>2, WantedFacts DEF Progress
          <5> QED BY <2>1, <4>2, <5>1
        <4> QED BY <4>1, <4>2
      <3>3. w.alone /\ w.kind # "cleanup" => Registry!Fires(file[w.job]) = Registry!Fires(w.row)
        BY <1>6 DEF Progress
      <3> HIDE DEF v, w
      <3> QED BY <1>1, <1>5, <3>1, <3>2, <3>3 DEF Progress
    <2>8. \A k \in DOMAIN writers' : Settled(file, tasks', synced', writers'[k])
      BY <1>5, <1>10, <2>6, <2>7
    <2> QED BY <1>1, <1>5, <1>7, <2>1, <2>4, <2>5, <2>8 DEF TasksInv
  <1>12. CASE /\ writers' = [writers EXCEPT ![i].todo = @ \ {n}, ![i].alone = FALSE]
              /\ UNCHANGED <<tasks, synced>>
    <2>1. ~v.alone
      BY <1>2, <1>12 DEF Workers
    <2>2. tasks' = tasks /\ synced' = synced
      BY <1>12
    <2>3. ASSUME NEW k \in DOMAIN writers PROVE Settled(file, tasks', synced', writers'[k])
      <3>1. Progress(file, tasks', v)
        BY <2>1 DEF Progress
      <3>2. Registry!Working(writers[k]) => Progress(file, tasks', writers[k])
        BY <1>8, <2>2 DEF Settled, Registry!Working
      <3> QED BY <1>10, <3>1, <3>2
    <2>4. ASSUME NEW j \in Jobs, synced[j]
          PROVE  NoneMissing(file, tasks, j) /\ NoneOver(file, tasks, writers', j)
      <3>1. NoneMissing(file, tasks, j) /\ NoneOver(file, tasks, writers, j)
        BY <2>4 DEF TasksInv
      <3> QED BY <1>5, <1>9, <3>1 DEF NoneOver
    <2> QED BY <1>1, <1>5, <2>2, <2>3, <2>4 DEF TasksInv
  <1> QED BY <1>3, <1>11, <1>12 DEF n

\* A writer of which nothing has changed but that it may know of another.
Hears(u, v, hit) == IF hit THEN v = [u EXCEPT !.alone = FALSE] ELSE v = u

LEMMA HearsFacts ==
  ASSUME NEW u \in Workers, NEW v, NEW hit, Hears(u, v, hit)
  PROVE  /\ v \in Workers /\ v.kind = u.kind /\ v.job = u.job /\ v.row = u.row /\ v.at = u.at
         /\ v.known = u.known /\ v.todo = u.todo /\ v.cfg = u.cfg
         /\ v.alone => u.alone /\ ~hit
         /\ Registry!Working(v) <=> Registry!Working(u)
         /\ \A n : Meant(u, n) <=> Meant(v, n)
  <1>1. /\ v \in Workers /\ v.kind = u.kind /\ v.job = u.job /\ v.row = u.row /\ v.at = u.at
        /\ v.known = u.known /\ v.todo = u.todo /\ v.cfg = u.cfg
        /\ v.alone => u.alone /\ ~hit
    BY DEF Hears, Workers
  <1>2. Registry!Working(v) <=> Registry!Working(u)
    BY <1>1 DEF Registry!Working
  <1>3. \A n : Meant(u, n) <=> Meant(v, n)
    BY <1>1, <1>2 DEF Meant
  <1> QED BY <1>1, <1>2, <1>3

LEMMA DisturbFacts ==
  ASSUME NEW ws, NEW set
  PROVE  LET wt == Registry!Disturb(ws, set) IN
         /\ DOMAIN wt = DOMAIN ws
         /\ \A k \in DOMAIN ws :
              Hears(ws[k], wt[k], Registry!Working(ws[k]) /\ ws[k].job \in set)
  BY DEF Registry!Disturb, Hears

\* It meets nobody.
Clear(ws, i, j) == Registry!Rivals(ws, j) \ {i} = {}
Begun(ws, i, w) == [w EXCEPT !.alone = w.alone /\ Clear(ws, i, w.job)]

LEMMA BeginFacts ==
  ASSUME NEW ws, NEW i \in DOMAIN ws, NEW w
  PROVE  LET wt == Registry!Begin(ws, i, w) IN
         /\ DOMAIN wt = DOMAIN ws
         /\ \A k \in DOMAIN ws \ {i} :
              Hears(ws[k], wt[k], Registry!Working(ws[k]) /\ ws[k].job \in Registry!Kin(w.job))
         /\ wt[i] = Begun(ws, i, w)
  BY DEF Registry!Begin, Registry!Rivals, Hears, Clear, Begun

\* The one that begins, and what it has met.
LEMMA BegunFacts ==
  ASSUME NEW ws, NEW i \in DOMAIN ws, NEW w \in Workers, NEW v, v = Begun(ws, i, w)
  PROVE  /\ v \in Workers /\ v.kind = w.kind /\ v.job = w.job /\ v.row = w.row /\ v.at = w.at
         /\ v.known = w.known /\ v.todo = w.todo /\ v.cfg = w.cfg
         /\ v.alone => w.alone
         /\ \A k \in DOMAIN ws \ {i} :
              v.alone /\ Registry!Working(ws[k]) => ws[k].job \notin Registry!Kin(w.job)
  <1> DEFINE clear == Clear(ws, i, w.job)
  <1>1. v = [w EXCEPT !.alone = w.alone /\ clear]
    BY DEF Begun
  <1>2. clear => \A k \in DOMAIN ws \ {i} :
                   Registry!Working(ws[k]) => ws[k].job \notin Registry!Kin(w.job)
    BY DEF Clear, Registry!Rivals
  <1>3. clear \in BOOLEAN
    BY DEF Clear
  <1> HIDE DEF clear
  <1>4. /\ v \in Workers /\ v.kind = w.kind /\ v.job = w.job /\ v.row = w.row /\ v.at = w.at
        /\ v.known = w.known /\ v.todo = w.todo /\ v.cfg = w.cfg
        /\ v.alone <=> w.alone /\ clear
    BY <1>1, <1>3 DEF Workers
  <1> QED BY <1>2, <1>4

LEMMA CleanupBeginsTasks ==
  ASSUME TasksInv, RegistryInv', NEW i \in DOMAIN writers, Registry!CleanupBegins(i)
  PROVE  TasksInv'
  <1> DEFINE w == writers[i]
             begun == [w EXCEPT !.at = "query", !.alone = (file[w.job] = w.row)]
             v == writers'[i]
  <1>1. /\ w.kind = "cleanup" /\ w.kind # "none" /\ w.at = "running" /\ ~Registry!Working(w)
        /\ writers' = Registry!Begin(writers, i, begun) /\ synced' = [synced EXCEPT ![w.job] = FALSE]
        /\ UNCHANGED <<file, tasks>>
    BY DEF Registry!CleanupBegins, Registry!At, Registry!Working
  <1>2. w \in Workers /\ w.job \in Jobs
    BY <1>1, AtWorkOn
  <1>3. /\ begun \in Workers /\ begun.kind = "cleanup" /\ begun.job = w.job /\ begun.row = w.row
        /\ begun.at = "query" /\ begun.todo = w.todo
    <2>1. "query" \in WorkStages /\ (file[w.job] = w.row) \in BOOLEAN
      BY DEF WorkStages
    <2> DEFINE same == file[w.job] = w.row
    <2>2. begun = [w EXCEPT !.at = "query", !.alone = same] /\ same \in BOOLEAN
      OBVIOUS
    <2> HIDE DEF same, begun
    <2> QED BY <1>1, <1>2, <2>1, <2>2 DEF Workers
  <1> HIDE DEF begun
  <1>4. /\ DOMAIN writers' = DOMAIN writers
        /\ \A k \in DOMAIN writers \ {i} :
             Hears(writers[k], writers'[k],
                   Registry!Working(writers[k]) /\ writers[k].job \in Registry!Kin(begun.job))
        /\ v = Begun(writers, i, begun)
    <2>1. writers' = Registry!Begin(writers, i, begun)
      BY <1>1
    <2> HIDE DEF w
    <2> QED BY <2>1, BeginFacts
  <1> HIDE DEF v, w
  <1>5. /\ v \in Workers /\ v.kind = "cleanup" /\ v.job = w.job /\ v.at = "query" /\ v.todo = w.todo
        /\ v.row = w.row
        /\ \A k \in DOMAIN writers \ {i} :
             v.alone /\ Registry!Working(writers[k]) => writers[k].job \notin Registry!Kin(w.job)
    <2>1. v = Begun(writers, i, begun)
      BY <1>4
    <2>2. /\ v \in Workers /\ v.kind = begun.kind /\ v.job = begun.job /\ v.row = begun.row
          /\ v.at = begun.at /\ v.todo = begun.todo
          /\ \A k \in DOMAIN writers \ {i} :
               v.alone /\ Registry!Working(writers[k]) => writers[k].job \notin Registry!Kin(begun.job)
      BY <1>3, <2>1, BegunFacts
    <2> QED BY <1>3, <2>2
  <1>6. synced' \in [Jobs -> BOOLEAN] /\ ~synced'[w.job] /\ \A j \in Jobs : synced'[j] => synced[j]
    BY <1>1, <1>2 DEF TasksInv
  <1>7. ASSUME NEW k \in DOMAIN writers \ {i}, writers[k].kind # "none"
        PROVE  LET u == writers[k] x == writers'[k] IN
               /\ u \in Workers /\ u.job \in Jobs /\ x.kind = u.kind /\ x.job = u.job /\ x.row = u.row
               /\ x.at = u.at /\ x.known = u.known /\ x.todo = u.todo /\ x.cfg = u.cfg
               /\ x.alone => u.alone
               /\ Registry!Working(x) <=> Registry!Working(u)
               /\ \A n : Meant(u, n) <=> Meant(x, n)
               /\ x.alone /\ Registry!Working(u) => u.job \notin Registry!Kin(w.job)
    <2> DEFINE u == writers[k]
               x == writers'[k]
               hit == Registry!Working(u) /\ u.job \in Registry!Kin(w.job)
    <2>1. u \in Workers /\ u.job \in Jobs
      BY <1>7, AtWorkOn
    <2>2. Hears(u, x, hit)
      BY <1>3, <1>4
    <2> HIDE DEF u, x
    <2>3. /\ x.kind = u.kind /\ x.job = u.job /\ x.row = u.row
          /\ x.at = u.at /\ x.known = u.known /\ x.todo = u.todo /\ x.cfg = u.cfg
          /\ x.alone => u.alone /\ ~hit
          /\ Registry!Working(x) <=> Registry!Working(u)
          /\ \A n : Meant(u, n) <=> Meant(x, n)
      <3> HIDE DEF hit
      <3> QED BY <2>1, <2>2, HearsFacts
    <2> QED BY <2>1, <2>3 DEF u, x
  <1>8. ASSUME NEW k \in DOMAIN writers \ {i}, writers[k].kind = "none" PROVE writers'[k] = writers[k]
    BY <1>4, <1>8 DEF Hears, Registry!Working
  <1>9. ASSUME NEW j \in Jobs, synced'[j]
        PROVE  NoneMissing(file, tasks, j) /\ NoneOver(file, tasks, writers', j)
    <2>1. NoneMissing(file, tasks, j) /\ NoneOver(file, tasks, writers, j)
      BY <1>6, <1>9 DEF TasksInv
    <2>2. ASSUME NEW n, NEW k \in DOMAIN writers, Meant(writers[k], n) PROVE Meant(writers'[k], n)
      <3>1. Registry!Working(writers[k]) /\ writers[k].kind # "none"
        BY <2>2 DEF Meant, Registry!Working
      <3>2. k # i
        BY <1>1, <3>1 DEF w
      <3> QED BY <1>7, <2>2, <3>1, <3>2
    <2> QED BY <1>4, <2>1, <2>2 DEF NoneOver
  <1>10. ASSUME NEW k \in DOMAIN writers PROVE Settled(file, tasks, synced', writers'[k])
    <2>1. Settled(file, tasks, synced, writers[k])
      BY DEF TasksInv
    <2>2. CASE k = i
      <3>1. Formed(w)
        BY <1>1, <2>1, <2>2 DEF Settled, w
      <3>2. Formed(v)
        BY <1>1, <1>5, <3>1 DEF Formed
      <3>3. Spares(file, synced', v) /\ Progress(file, tasks, v)
        BY <1>5 DEF Spares, Progress
      <3>4. Settled(file, tasks, synced', v)
        BY <1>5, <1>6, <3>2, <3>3 DEF Settled
      <3> QED BY <2>2, <3>4 DEF v
    <2>3. CASE k # i /\ writers[k].kind = "none"
      BY <1>8, <2>3 DEF Settled
    <2>4. CASE k # i /\ writers[k].kind # "none"
      <3> DEFINE u == writers[k]
                 x == writers'[k]
      <3>1. /\ u \in Workers /\ u.job \in Jobs /\ x.kind = u.kind /\ x.job = u.job /\ x.row = u.row
            /\ x.at = u.at /\ x.known = u.known /\ x.todo = u.todo /\ x.cfg = u.cfg
            /\ x.alone => u.alone
            /\ Registry!Working(x) <=> Registry!Working(u)
        BY <1>7, <2>4
      <3>2. Formed(u) /\ (Registry!Working(u) =>
              ~synced[u.job] /\ Spares(file, synced, u) /\ Progress(file, tasks, u))
        BY <2>1, <2>4 DEF Settled
      <3> HIDE DEF u, x
      <3>3. Formed(x)
        BY <3>1, <3>2 DEF Formed
      <3>4. Spares(file, synced, u) => Spares(file, synced', x)
        BY <1>6, <3>1 DEF Spares
      <3>5. Progress(file, tasks, u) => Progress(file, tasks, x)
        BY <3>1 DEF Progress
      <3>6. Settled(file, tasks, synced', x)
        BY <1>6, <3>1, <3>2, <3>3, <3>4, <3>5 DEF Settled
      <3> QED BY <3>6 DEF x
    <2> QED BY <2>2, <2>3, <2>4
  <1>11. Apart(writers')
    <2> SUFFICES ASSUME NEW a \in DOMAIN writers, NEW b \in DOMAIN writers, a # b,
                        Registry!Working(writers'[a]), Registry!Working(writers'[b]),
                        writers'[b].job \in Registry!Kin(writers'[a].job)
                 PROVE  ~writers'[a].alone /\ ~writers'[b].alone
      BY <1>4 DEF Apart
    <2>1. ASSUME NEW k \in DOMAIN writers \ {i}, Registry!Working(writers'[k])
          PROVE  /\ Registry!Working(writers[k]) /\ writers'[k].job = writers[k].job
                 /\ writers[k].job \in Jobs /\ (writers'[k].alone => writers[k].alone)
                 /\ writers'[k].alone \/ v.alone => writers[k].job \notin Registry!Kin(w.job)
      <3>1. writers[k].kind # "none"
        BY <1>8, <2>1 DEF Registry!Working
      <3> QED BY <1>5, <1>7, <2>1, <3>1
    <2>2. CASE a # i /\ b # i
      <3>1. Registry!Working(writers[a]) /\ Registry!Working(writers[b])
            /\ writers[b].job \in Registry!Kin(writers[a].job)
        BY <2>1, <2>2
      <3>2. ~writers[a].alone /\ ~writers[b].alone
        BY <3>1 DEF TasksInv, Apart
      <3> QED BY <2>1, <2>2, <3>2
    <2>3. CASE a = i
      <3>1. writers[b].job \in Registry!Kin(w.job)
        BY <1>5, <2>1, <2>3 DEF v
      <3> QED BY <2>1, <2>3, <3>1 DEF v
    <2>4. CASE b = i
      <3>1. writers[a].job \in Registry!Kin(w.job)
        BY <1>2, <1>5, <2>1, <2>4, KinFacts DEF v
      <3> QED BY <2>1, <2>4, <3>1 DEF v
    <2> QED BY <2>2, <2>3, <2>4
  <1> QED BY <1>1, <1>4, <1>6, <1>9, <1>10, <1>11 DEF TasksInv

\* A job that a save takes nothing back of, nor of its kin, but for the one it is for.
LEMMA NotTaken ==
  ASSUME NEW saved, NEW j \in Jobs, NEW k \in Jobs, k \notin Registry!TakenBack(saved, j)
  PROVE  \A m \in Registry!Kin(k) \ {j} :
           /\ Registry!Fires(saved[m]) = Registry!Fires(file[m])
           /\ (saved[m] = Registry!Absent) = (file[m] = Registry!Absent)
  <1> SUFFICES ASSUME NEW m \in Registry!Kin(k) \ {j}
               PROVE  m \notin Registry!Changed(saved)
    BY KinFacts DEF Registry!Changed
  <1>1. k \in Registry!Kin(m)
    BY KinFacts
  <1> QED BY <1>1 DEF Registry!TakenBack

\* What another writer has come to, after a save for one job that took nothing of its own back.
LEMMA SaveSettles ==
  ASSUME LookalikeAssumption, NEW saved, NEW sy, NEW j \in Jobs, NEW u \in Workers, NEW v, NEW hit,
         Settled(file, tasks, synced, u), Hears(u, v, hit),
         Registry!Working(u) /\ v.alone =>
           u.job \notin Registry!TakenBack(saved, j) /\ u.job \notin Registry!Kin(j),
         Registry!Working(u) /\ sy[j] => u.job \notin Registry!Kin(j),
         \A m \in Jobs \ {j} : sy[m] => synced[m] /\ m \notin Registry!TakenBack(saved, j)
  PROVE  Settled(saved, tasks, sy, v)
  <1>1. /\ v \in Workers /\ v.kind = u.kind /\ v.job = u.job /\ v.row = u.row /\ v.at = u.at
        /\ v.known = u.known /\ v.todo = u.todo /\ v.cfg = u.cfg
        /\ v.alone => u.alone
        /\ Registry!Working(v) <=> Registry!Working(u)
    BY HearsFacts
  <1>2. u.kind # "none" /\ Formed(u) /\ u.job \in Jobs
    BY DEF Workers, Settled
  <1>3. Formed(v)
    BY <1>1, <1>2 DEF Formed
  <1> SUFFICES ASSUME Registry!Working(u)
               PROVE  ~sy[u.job] /\ Spares(saved, sy, v) /\ Progress(saved, tasks, v)
    BY <1>1, <1>3 DEF Settled
  <1>4. ~synced[u.job] /\ Spares(file, synced, u) /\ Progress(file, tasks, u)
    BY <1>2 DEF Settled
  <1>5. ~sy[u.job]
    BY <1>2, <1>4, KinFacts
  <1>6. Spares(saved, sy, v)
    <2> SUFFICES ASSUME u.at = "delete", NEW n \in u.todo, NEW m \in Jobs, n = Registry!Bare(m),
                        n # Registry!Bare(u.job), sy[m]
                 PROVE  saved[m] = Registry!Absent
      BY <1>1 DEF Spares
    <2>1. m # j
      <3> SUFFICES ASSUME m = j PROVE FALSE
        OBVIOUS
      <3>1. Spelled(u.job, n) /\ Spelled(m, n) /\ u.job # m
        BY <1>2 DEF Formed, Spelled, Registry!Bare
      <3>2. u.job \in Registry!Kin(m)
        BY <1>2, <3>1, NamesShared
      <3> QED BY <3>2
    <2>2. file[m] = Registry!Absent
      BY <1>4, <2>1 DEF Spares
    <2> QED BY <2>1, <2>2, NotTaken, KinFacts
  <1>7. Progress(saved, tasks, v)
    <2> SUFFICES ASSUME v.alone PROVE Progress(saved, tasks, v)
      BY DEF Progress
    <2>1. u.alone /\ u.job \notin Registry!Kin(j) /\ u.job # j
      BY <1>1, KinFacts
    <2>2. \A m \in Registry!Kin(u.job) : m # j
      BY <1>2, <2>1, KinFacts
    <2>3. \A m \in Registry!Kin(u.job) :
            /\ Registry!Fires(saved[m]) = Registry!Fires(file[m])
            /\ (saved[m] = Registry!Absent) = (file[m] = Registry!Absent)
      BY <1>2, <2>2, NotTaken
    <2>4. Registry!Fires(saved[u.job]) = Registry!Fires(file[u.job])
      BY <1>2, <2>3, KinFacts
    <2>5. \A n : Ours(saved, u.job, n) <=> Ours(file, u.job, n)
      BY <1>2, <2>3, OursAlike
    <2> QED BY <1>1, <1>4, <2>1, <2>3, <2>4, <2>5 DEF Progress
  <1> QED BY <1>5, <1>6, <1>7

\* What a job's tasks are to its row, after a save for another that took nothing of it back.
LEMMA SaveKeeps ==
  ASSUME LookalikeAssumption, NEW saved, NEW j \in Jobs, NEW m \in Jobs \ {j}, NEW wt,
         TasksMade(tasks), m \notin Registry!TakenBack(saved, j),
         NoneMissing(file, tasks, m), NoneOver(file, tasks, writers, m),
         \A n : (\E k \in DOMAIN writers : Meant(writers[k], n)) => \E k \in DOMAIN wt : Meant(wt[k], n),
         file[j] # Registry!Absent /\ saved[j] = Registry!Absent =>
           \E k \in DOMAIN wt : Meant(wt[k], Registry!Bare(j))
  PROVE  NoneMissing(saved, tasks, m) /\ NoneOver(saved, tasks, wt, m)
  <1>1. \A k \in Registry!Kin(m) \ {j} :
          /\ Registry!Fires(saved[k]) = Registry!Fires(file[k])
          /\ (saved[k] = Registry!Absent) = (file[k] = Registry!Absent)
    BY NotTaken
  <1>2. Wants(saved, m) = Wants(file, m)
    BY <1>1, KinFacts DEF Wants
  <1>3. NoneMissing(saved, tasks, m)
    BY <1>2 DEF NoneMissing
  <1>4. ASSUME NEW n, Mine(tasks, m, n), Ours(saved, m, n)
        PROVE  \/ <<n, tasks[n]>> \in Wants(saved, m)
               \/ n # Registry!Bare(m) /\ \E k \in DOMAIN wt : Meant(wt[k], n)
    <2>1. CASE Ours(file, m, n)
      BY <1>2, <1>4, <2>1 DEF NoneOver
    <2>2. CASE ~Ours(file, m, n)
      <3>1. Spelled(m, n)
        BY <1>4, MineIsSpelled
      <3>2. PICK k \in Registry!Kin(m) \ {m} : n = Registry!Bare(k) /\ file[k] # Registry!Absent
        BY <2>2, <3>1, OursFacts
      <3>3. n # Registry!Bare(m) /\ k \in Jobs
        BY <2>2, <3>2, OursFacts, KinFacts
      <3>4. saved[k] = Registry!Absent
        BY <1>4, <3>2, <3>3, OursFacts
      <3>5. k = j
        BY <1>1, <3>2, <3>4
      <3> QED BY <3>2, <3>3, <3>4, <3>5
    <2> QED BY <2>1, <2>2
  <1> QED BY <1>3, <1>4 DEF NoneOver

\* An accepted edit leaves a row, unless it removes it.
LEMMA EditedRow ==
  ASSUME NEW cfg \in SoundFiles, NEW r \in Registry!Requests, Registry!Accepted(cfg, r)
  PROVE  IF r.kind = "delete" THEN Registry!After(cfg, r)[r.job] = Registry!Absent
         ELSE Registry!After(cfg, r)[r.job] # Registry!Absent
  <1> DEFINE j == r.job
             after == Registry!After(cfg, r)
  <1>1. cfg \in [Jobs -> Registry!Rows \cup {Registry!Absent}] /\ j \in Jobs
    BY DEF SoundFiles, Registry!Files, Registry!Requests
  <1>2. r.kind # "add" => cfg[j] \in Registry!Rows
    BY <1>1 DEF Registry!Accepted
  <1>3. \A x : "schedule" \in DOMAIN x => x # Registry!Absent
    BY DEF Registry!Absent
  <1>4. CASE r.kind = "delete"
    BY <1>1, <1>4 DEF Registry!After, Registry!RemoveById
  <1>5. CASE r.kind = "add"
    <2>1. after[j] = Registry!Row(r.schedule, r.chain)
      BY <1>1, <1>5 DEF Registry!After, Registry!AddJob
    <2>2. "schedule" \in DOMAIN Registry!Row(r.schedule, r.chain)
      BY DEF Registry!Row
    <2> QED BY <1>3, <1>5, <2>1, <2>2
  <1>6. ASSUME NEW row, row \in Registry!Rows, after[j] = row PROVE after[j] # Registry!Absent
    <2>1. "schedule" \in DOMAIN row
      BY <1>6 DEF Registry!Rows
    <2> QED BY <1>3, <1>6, <2>1
  <1>7. CASE r.kind \in {"schedule", "chain", "elevated"}
    <2>1. \/ after[j] = [cfg[j] EXCEPT !.schedule = r.schedule]
          \/ after[j] = [cfg[j] EXCEPT !.chain = r.chain]
          \/ after[j] = [cfg[j] EXCEPT !.elevated = r.elevated]
      BY <1>1, <1>7 DEF Registry!After
    <2>2. "schedule" \in DOMAIN cfg[j]
      BY <1>2, <1>7 DEF Registry!Rows
    <2>3. "schedule" \in DOMAIN after[j]
      BY <2>1, <2>2
    <2> QED BY <1>3, <1>7, <2>3
  <1>8. CASE r.kind \in {"pause", "resume"}
    <2>1. \/ after = Registry!PauseJob(cfg, j)
          \/ after = Registry!ResumeJob(cfg, j)
      BY <1>8 DEF Registry!After
    <2>2. \/ after[j] = cfg[j]
          \/ after[j] = [cfg[j] EXCEPT !.parked = cfg[j].schedule, !.schedule = "none"]
          \/ after[j] = [cfg[j] EXCEPT !.schedule = cfg[j].parked, !.parked = Registry!NotParked]
      BY <1>1, <2>1 DEF Registry!PauseJob, Registry!ResumeJob
    <2>3. "schedule" \in DOMAIN cfg[j]
      BY <1>2, <1>8 DEF Registry!Rows
    <2>4. "schedule" \in DOMAIN after[j]
      BY <2>2, <2>3
    <2> QED BY <1>3, <1>8, <2>4
  <1>9. r.kind \in {"add", "schedule", "chain", "elevated", "pause", "resume", "delete"}
    BY DEF Registry!Requests
  <1> QED BY <1>4, <1>5, <1>7, <1>8, <1>9

LEMMA RouteSaveTasks ==
  ASSUME TasksInv, RegistryInv', RegistryAssumption, LookalikeAssumption, Registry!RouteSave
  PROVE  TasksInv'
  <1> DEFINE r == route.request
             j == r.job
             cfg == Registry!After(route.cfg, r)
             kind == IF r.kind = "delete" THEN "delete" ELSE "sync"
             made == Registry!Writer(kind, j, cfg[j], "query")
             taken == Registry!TakenBack(file', j)
             same == Registry!Fires(cfg[j]) = Registry!Fires(file'[j])
             w == [made EXCEPT !.alone = same]
             ws == Registry!Disturb(writers, taken)
  <1>1. route \in RoutesAt /\ Registry!Accepted(route.cfg, r)
    BY DEF TasksInv, RegistryInv, Registry!RouteSave
  <1>2. r \in Registry!Requests /\ route.cfg \in SoundFiles
    BY <1>1 DEF RoutesAt
  <1>3. cfg \in SoundFiles /\ j \in Jobs /\ kind \in {"sync", "delete", "cleanup"}
    BY <1>1, <1>2, EditIsSound DEF Registry!Requests
  <1>4. cfg[j] \in Registry!Rows \cup {Registry!Absent}
    BY <1>3 DEF SoundFiles, Registry!Files
  <1>5. /\ kind = "sync" => cfg[j] # Registry!Absent
        /\ kind = "delete" => cfg[j] = Registry!Absent
        /\ kind # "cleanup"
    BY <1>1, <1>2, EditedRow
  <1>6. PICK i \in DOMAIN writers :
          /\ Registry!Spare(i)
          /\ writers' = Registry!Begin(ws, i, w)
          /\ synced' = Registry!Outdated({j} \cup taken)
    BY DEF Registry!RouteSave
  <1>7. UNCHANGED tasks /\ writers[i] = Registry!Idle
    BY <1>6 DEF Registry!RouteSave, Registry!Spare, Registry!Free
  <1>8. /\ w \in Workers /\ w.kind = kind /\ w.job = j /\ w.row = cfg[j] /\ w.at = "query"
        /\ w.todo = {} /\ (w.alone <=> same)
    <2>1. "query" \in WorkStages /\ same \in BOOLEAN
      BY DEF WorkStages
    <2> HIDE DEF same, cfg, j, kind
    <2>2. made \in Workers
      BY <1>3, <1>4, <2>1, MadeTyped
    <2>3. /\ made.kind = kind /\ made.job = j /\ made.row = cfg[j] /\ made.at = "query"
          /\ made.todo = {}
      BY DEF Registry!Writer
    <2> HIDE DEF made
    <2> QED BY <2>1, <2>2, <2>3 DEF Workers
  <1> HIDE DEF w, ws, taken, cfg, kind, made, r
  <1>9. /\ DOMAIN ws = DOMAIN writers
        /\ \A k \in DOMAIN writers :
             Hears(writers[k], ws[k], Registry!Working(writers[k]) /\ writers[k].job \in taken)
    BY DisturbFacts DEF ws
  <1>10. /\ DOMAIN writers' = DOMAIN writers
         /\ \A k \in DOMAIN writers \ {i} :
              Hears(ws[k], writers'[k], Registry!Working(ws[k]) /\ ws[k].job \in Registry!Kin(j))
         /\ writers'[i] = Begun(ws, i, w)
    BY <1>6, <1>8, <1>9, BeginFacts
  <1> DEFINE v == writers'[i]
  <1>11. /\ v \in Workers /\ v.kind = kind /\ v.job = j /\ v.at = "query" /\ v.todo = {}
         /\ v.row = cfg[j] /\ (v.alone => same)
         /\ \A k \in DOMAIN ws \ {i} :
              v.alone /\ Registry!Working(ws[k]) => ws[k].job \notin Registry!Kin(j)
    <2> HIDE DEF v
    <2>1. v = Begun(ws, i, w)
      BY <1>10 DEF v
    <2>2. i \in DOMAIN ws
      BY <1>9
    <2>3. /\ v \in Workers /\ v.kind = w.kind /\ v.job = w.job /\ v.row = w.row /\ v.at = w.at
          /\ v.todo = w.todo /\ (v.alone => w.alone)
          /\ \A k \in DOMAIN ws \ {i} :
               v.alone /\ Registry!Working(ws[k]) => ws[k].job \notin Registry!Kin(w.job)
      BY <1>8, <2>1, <2>2, BegunFacts
    <2> QED BY <1>8, <2>3
  <1>12. Registry!Working(v) /\ Formed(v)
    BY <1>3, <1>5, <1>11 DEF Registry!Working, Formed
  <1> HIDE DEF v
  <1>13. synced' \in [Jobs -> BOOLEAN] /\ ~synced'[j]
         /\ \A m \in Jobs \ {j} : synced'[m] => synced[m] /\ m \notin taken
    BY <1>3, <1>6 DEF TasksInv, Registry!Outdated
  <1>14. ASSUME NEW k \in DOMAIN writers \ {i}, writers[k].kind # "none"
         PROVE  LET u == writers[k] x == writers'[k] IN
                /\ u \in Workers /\ u.job \in Jobs
                /\ x.job = u.job /\ (x.alone => u.alone)
                /\ Hears(u, x, Registry!Working(u) /\ (u.job \in taken \/ u.job \in Registry!Kin(j)))
                /\ Registry!Working(x) <=> Registry!Working(u)
                /\ \A n : Meant(u, n) <=> Meant(x, n)
                /\ v.alone /\ Registry!Working(u) => u.job \notin Registry!Kin(j)
    <2> DEFINE u == writers[k]
               x == writers'[k]
               y == ws[k]
    <2>1. u \in Workers /\ u.job \in Jobs
      BY <1>14, AtWorkOn
    <2>2. /\ Hears(u, y, Registry!Working(u) /\ u.job \in taken)
          /\ Hears(y, x, Registry!Working(y) /\ y.job \in Registry!Kin(j))
      BY <1>9, <1>10
    <2>3. v.alone /\ Registry!Working(y) => y.job \notin Registry!Kin(j)
      BY <1>9, <1>11
    <2> HIDE DEF u, x, y
    <2>4. y \in Workers /\ y.job = u.job /\ (Registry!Working(y) <=> Registry!Working(u))
      BY <2>1, <2>2, HearsFacts
    <2>5. Hears(u, x, Registry!Working(u) /\ (u.job \in taken \/ u.job \in Registry!Kin(j)))
      BY <2>1, <2>2, <2>4 DEF Hears, Workers
    <2> DEFINE hit == Registry!Working(u) /\ (u.job \in taken \/ u.job \in Registry!Kin(j))
    <2>6. /\ x.job = u.job /\ (x.alone => u.alone)
          /\ Registry!Working(x) <=> Registry!Working(u)
          /\ \A n : Meant(u, n) <=> Meant(x, n)
      <3>1. Hears(u, x, hit)
        BY <2>5
      <3> HIDE DEF hit
      <3> QED BY <2>1, <3>1, HearsFacts
    <2>7. v.alone /\ Registry!Working(u) => u.job \notin Registry!Kin(j)
      BY <2>3, <2>4
    <2> HIDE DEF hit
    <2> QED BY <2>1, <2>5, <2>6, <2>7 DEF u, x
  <1>15. ASSUME NEW k \in DOMAIN writers \ {i}, writers[k].kind = "none"
         PROVE  writers'[k] = writers[k]
    BY <1>9, <1>10, <1>15 DEF Hears, Registry!Working
  <1>16. ASSUME NEW m \in Jobs, synced'[m]
         PROVE  NoneMissing(file', tasks, m) /\ NoneOver(file', tasks, writers', m)
    <2>1. m \in Jobs \ {j} /\ m \notin Registry!TakenBack(file', j)
      BY <1>13, <1>16 DEF taken
    <2>2. NoneMissing(file, tasks, m) /\ NoneOver(file, tasks, writers, m) /\ TasksMade(tasks)
      BY <1>13, <1>16 DEF TasksInv
    <2>3. ASSUME NEW n, NEW k \in DOMAIN writers, Meant(writers[k], n) PROVE Meant(writers'[k], n)
      <3>1. Registry!Working(writers[k]) /\ writers[k].kind # "none"
        BY <2>3 DEF Meant, Registry!Working
      <3>2. k # i
        BY <1>7, <3>1, RowFacts
      <3> QED BY <1>14, <2>3, <3>1, <3>2
    <2>4. \A n : (\E k \in DOMAIN writers : Meant(writers[k], n)) =>
                   \E k \in DOMAIN writers' : Meant(writers'[k], n)
      BY <1>10, <2>3
    <2>5. \E k \in DOMAIN writers' : Meant(writers'[k], Registry!Bare(j))
      <3>1. Meant(v, Registry!Bare(j))
        BY <1>11, <1>12 DEF Meant
      <3> QED BY <1>10, <3>1 DEF v
    <2> HIDE DEF j
    <2> QED BY <1>3, <2>1, <2>2, <2>4, <2>5, SaveKeeps
  <1>17. ASSUME NEW k \in DOMAIN writers PROVE Settled(file', tasks, synced', writers'[k])
    <2>1. Settled(file, tasks, synced, writers[k])
      BY DEF TasksInv
    <2>2. CASE k = i
      <3>1. Spares(file', synced', v)
        BY <1>11 DEF Spares
      <3>2. Progress(file', tasks, v)
        BY <1>11 DEF Progress, same
      <3>3. Settled(file', tasks, synced', v)
        BY <1>11, <1>12, <1>13, <3>1, <3>2 DEF Settled
      <3> QED BY <2>2, <3>3 DEF v
    <2>3. CASE k # i /\ writers[k].kind = "none"
      BY <1>15, <2>3 DEF Settled
    <2>4. CASE k # i /\ writers[k].kind # "none"
      <3> DEFINE u == writers[k]
                 x == writers'[k]
                 hit == Registry!Working(u) /\ (u.job \in taken \/ u.job \in Registry!Kin(j))
      <3>1. u \in Workers /\ Hears(u, x, hit) /\ Settled(file, tasks, synced, u)
        BY <1>14, <2>1, <2>4
      <3> HIDE DEF u, x
      <3>2. Registry!Working(u) /\ x.alone => ~hit
        <4> HIDE DEF hit
        <4> QED BY <3>1, HearsFacts
      <3>3. Registry!Working(u) /\ x.alone =>
              u.job \notin Registry!TakenBack(file', j) /\ u.job \notin Registry!Kin(j)
        BY <3>2 DEF taken
      <3>4. \A m \in Jobs \ {j} : synced'[m] => synced[m] /\ m \notin Registry!TakenBack(file', j)
        BY <1>13 DEF taken
      <3> HIDE DEF hit, j
      <3>5. Settled(file', tasks, synced', x)
        BY <1>3, <1>13, <3>1, <3>3, <3>4, SaveSettles
      <3> QED BY <3>5 DEF x
    <2> QED BY <2>2, <2>3, <2>4
  <1>18. Apart(writers')
    <2> SUFFICES ASSUME NEW a \in DOMAIN writers, NEW b \in DOMAIN writers, a # b,
                        Registry!Working(writers'[a]), Registry!Working(writers'[b]),
                        writers'[b].job \in Registry!Kin(writers'[a].job)
                 PROVE  ~writers'[a].alone /\ ~writers'[b].alone
      BY <1>10 DEF Apart
    <2>1. ASSUME NEW k \in DOMAIN writers \ {i}, Registry!Working(writers'[k])
          PROVE  /\ Registry!Working(writers[k]) /\ writers'[k].job = writers[k].job
                 /\ writers[k].job \in Jobs /\ (writers'[k].alone => writers[k].alone)
                 /\ writers'[k].alone \/ v.alone => writers[k].job \notin Registry!Kin(j)
      <3> DEFINE u == writers[k]
                 x == writers'[k]
                 hit == Registry!Working(u) /\ (u.job \in taken \/ u.job \in Registry!Kin(j))
      <3>1. u.kind # "none"
        BY <1>15, <2>1 DEF Registry!Working
      <3>2. /\ u \in Workers /\ u.job \in Jobs /\ x.job = u.job /\ (x.alone => u.alone)
            /\ Hears(u, x, hit) /\ Registry!Working(u)
            /\ v.alone => u.job \notin Registry!Kin(j)
        BY <1>14, <2>1, <3>1
      <3> HIDE DEF u, x
      <3>3. x.alone => ~hit
        <4> HIDE DEF hit
        <4> QED BY <3>2, HearsFacts
      <3> QED BY <3>2, <3>3 DEF u, x
    <2>2. CASE a # i /\ b # i
      <3>1. Registry!Working(writers[a]) /\ Registry!Working(writers[b])
            /\ writers[b].job \in Registry!Kin(writers[a].job)
        BY <2>1, <2>2
      <3>2. ~writers[a].alone /\ ~writers[b].alone
        BY <3>1 DEF TasksInv, Apart
      <3> QED BY <2>1, <2>2, <3>2
    <2>3. CASE a = i
      <3>1. writers[b].job \in Registry!Kin(j)
        BY <1>11, <2>1, <2>3 DEF v
      <3> QED BY <2>1, <2>3, <3>1 DEF v
    <2>4. CASE b = i
      <3>1. writers[a].job \in Registry!Kin(j)
        BY <1>3, <1>11, <2>1, <2>4, KinFacts DEF v
      <3> QED BY <2>1, <2>4, <3>1 DEF v
    <2> QED BY <2>2, <2>3, <2>4
  <1> QED BY <1>7, <1>10, <1>13, <1>16, <1>17, <1>18 DEF TasksInv

LEMMA CleanupSaveTasks ==
  ASSUME TasksInv, RegistryInv', LookalikeAssumption, NEW i \in DOMAIN writers,
         Registry!CleanupSave(i)
  PROVE  TasksInv'
  <1> DEFINE w == writers[i]
             j == w.job
             once == w.cfg[j] # Registry!Absent /\ w.cfg[j].schedule = "once"
             taken == Registry!TakenBack(file', j)
             ws == [writers EXCEPT ![i] = Registry!Idle]
  <1>1. /\ w.kind = "cleanup" /\ w.kind # "none" /\ w.at = "save" /\ Registry!Working(w)
        /\ UNCHANGED tasks
    BY DEF Registry!CleanupSave, Registry!At, Registry!Working
  <1>2. w \in Workers /\ j \in Jobs /\ w.alone \in BOOLEAN
    BY <1>1, AtWorkOn DEF Workers
  <1>3. /\ file' = IF once THEN [w.cfg EXCEPT ![j].schedule = "none"] ELSE file
        /\ synced' = [Registry!Outdated(taken) EXCEPT ![j] = once /\ w.alone]
        /\ writers' = Registry!Disturb(ws, taken)
    BY DEF Registry!CleanupSave
  <1>4. ASSUME once
        PROVE  /\ file'[j] # Registry!Absent /\ Registry!Fires(file'[j]) = "none"
               /\ \A k \in Jobs \ {j} : file'[k] = w.cfg[k]
    <2>1. w.cfg \in [Jobs -> Registry!Rows \cup {Registry!Absent}] /\ w.cfg[j] \in Registry!Rows
      BY <1>2, <1>4 DEF Workers, SoundFiles, Registry!Files
    <2>2. file'[j] = [w.cfg[j] EXCEPT !.schedule = "none"]
          /\ \A k \in Jobs \ {j} : file'[k] = w.cfg[k]
      BY <1>2, <1>3, <1>4, <2>1
    <2>3. "schedule" \in DOMAIN file'[j] /\ file'[j].schedule = "none"
      BY <2>1, <2>2 DEF Registry!Rows
    <2>4. file'[j] # Registry!Absent
      BY <2>3 DEF Registry!Absent
    <2>5. Registry!Fires(file'[j]) = "none"
      BY <2>3, <2>4, FiresFacts
    <2> QED BY <2>2, <2>4, <2>5
  <1>5. ~Registry!Working(Registry!Idle) /\ Registry!Idle.kind = "none"
    BY RowFacts DEF Registry!Working
  <1>6. /\ DOMAIN ws = DOMAIN writers /\ ws[i] = Registry!Idle
        /\ \A k \in DOMAIN writers \ {i} : ws[k] = writers[k]
    OBVIOUS
  <1>7. Settled(file, tasks, synced, w)
    BY DEF TasksInv
  <1>8. Progress(file, tasks, w)
    BY <1>1, <1>7 DEF Settled
  <1> HIDE DEF ws, taken
  <1>9. /\ DOMAIN writers' = DOMAIN writers
        /\ \A k \in DOMAIN ws : Hears(ws[k], writers'[k], Registry!Working(ws[k]) /\ ws[k].job \in taken)
    BY <1>3, <1>6, DisturbFacts
  <1>10. writers'[i] = Registry!Idle
    BY <1>5, <1>6, <1>9 DEF Hears
  <1>11. /\ synced' \in [Jobs -> BOOLEAN] /\ synced'[j] = (once /\ w.alone)
         /\ \A m \in Jobs \ {j} : synced'[m] => synced[m] /\ m \notin taken
    <2>1. (once /\ w.alone) \in BOOLEAN
      OBVIOUS
    <2> HIDE DEF once, w
    <2> QED BY <1>2, <1>3, <2>1 DEF TasksInv, Registry!Outdated
  <1>12. ASSUME NEW k \in DOMAIN writers \ {i}, writers[k].kind # "none"
         PROVE  LET u == writers[k] x == writers'[k] IN
                /\ u \in Workers /\ u.job \in Jobs
                /\ x.job = u.job /\ (x.alone => u.alone)
                /\ Hears(u, x, Registry!Working(u) /\ u.job \in taken)
                /\ Registry!Working(x) <=> Registry!Working(u)
                /\ \A n : Meant(u, n) <=> Meant(x, n)
                /\ Registry!Working(u) /\ (u.alone \/ w.alone) => u.job \notin Registry!Kin(j)
    <2> DEFINE u == writers[k]
               x == writers'[k]
               hit == Registry!Working(u) /\ u.job \in taken
    <2>1. u \in Workers /\ u.job \in Jobs
      BY <1>12, AtWorkOn
    <2>2. Hears(u, x, hit)
      BY <1>6, <1>9
    <2>3. Registry!Working(u) /\ (u.alone \/ w.alone) => u.job \notin Registry!Kin(j)
      BY <1>1 DEF TasksInv, Apart
    <2> HIDE DEF u, x
    <2>4. /\ x.job = u.job /\ (x.alone => u.alone)
          /\ Registry!Working(x) <=> Registry!Working(u)
          /\ \A n : Meant(u, n) <=> Meant(x, n)
      <3> HIDE DEF hit
      <3> QED BY <2>1, <2>2, HearsFacts
    <2> QED BY <2>1, <2>2, <2>3, <2>4 DEF u, x
  <1>13. ASSUME NEW k \in DOMAIN writers \ {i}, writers[k].kind = "none"
         PROVE  writers'[k] = writers[k]
    BY <1>6, <1>9, <1>13 DEF Hears, Registry!Working
  <1> HIDE DEF w
  <1>14. ASSUME NEW m \in Jobs \ {j}, synced'[m]
         PROVE  NoneMissing(file', tasks, m) /\ NoneOver(file', tasks, writers', m)
    <2>1. m \notin Registry!TakenBack(file', j)
      BY <1>11, <1>14 DEF taken
    <2>2. NoneMissing(file, tasks, m) /\ NoneOver(file, tasks, writers, m) /\ TasksMade(tasks)
      BY <1>11, <1>14 DEF TasksInv
    <2>3. ASSUME NEW n, NEW k \in DOMAIN writers, Meant(writers[k], n) PROVE Meant(writers'[k], n)
      <3>1. Registry!Working(writers[k]) /\ writers[k].kind # "none"
        BY <2>3 DEF Meant, Registry!Working
      <3>2. k # i
        BY <1>1, <2>3 DEF Meant, w
      <3> QED BY <1>12, <2>3, <3>1, <3>2
    <2>4. \A n : (\E k \in DOMAIN writers : Meant(writers[k], n)) =>
                   \E k \in DOMAIN writers' : Meant(writers'[k], n)
      BY <1>9, <2>3
    <2>5. ~(file[j] # Registry!Absent /\ file'[j] = Registry!Absent)
      BY <1>3, <1>4
    <2> HIDE DEF j, once
    <2> QED BY <1>2, <2>1, <2>2, <2>4, <2>5, SaveKeeps
  <1>15. ASSUME synced'[j]
         PROVE  NoneMissing(file', tasks, j) /\ NoneOver(file', tasks, writers', j)
    <2>1. once /\ w.alone
      BY <1>11, <1>15
    <2>2. Wants(file', j) = {}
      BY <1>2, <1>4, <2>1, WantedFacts DEF Wants
    <2>3. ASSUME NEW n, Mine(tasks, j, n), Ours(file', j, n) PROVE FALSE
      <3>1. ~Ours(file, j, n)
        BY <1>1, <1>8, <2>1, <2>3 DEF Progress
      <3>2. \A k \in Registry!Kin(j) \ {j} : file[k] # Registry!Absent => file'[k] # Registry!Absent
        <4>1. \A k \in Registry!Kin(j) \ {j} : (w.cfg[k] = Registry!Absent) = (file[k] = Registry!Absent)
          BY <1>1, <1>8, <2>1 DEF Progress
        <4>2. \A k \in Registry!Kin(j) \ {j} : file'[k] = w.cfg[k]
          BY <1>2, <1>4, <2>1, KinFacts
        <4> QED BY <4>1, <4>2
      <3> HIDE DEF j, once
      <3>3. Ours(file, j, n)
        BY <1>2, <2>3, <3>2, OursAlike
      <3> QED BY <3>1, <3>3
    <2> QED BY <2>2, <2>3 DEF NoneMissing, NoneOver
  <1>16. ASSUME NEW k \in DOMAIN writers PROVE Settled(file', tasks, synced', writers'[k])
    <2>1. Settled(file, tasks, synced, writers[k])
      BY DEF TasksInv
    <2>2. CASE k = i
      BY <1>5, <1>10, <2>2 DEF Settled
    <2>3. CASE k # i /\ writers[k].kind = "none"
      BY <1>13, <2>3 DEF Settled
    <2>4. CASE k # i /\ writers[k].kind # "none"
      <3> DEFINE u == writers[k]
                 x == writers'[k]
                 hit == Registry!Working(u) /\ u.job \in taken
      <3>1. /\ u \in Workers /\ Hears(u, x, hit) /\ Settled(file, tasks, synced, u)
            /\ x.alone => u.alone
            /\ Registry!Working(u) /\ (u.alone \/ w.alone) => u.job \notin Registry!Kin(j)
        BY <1>12, <2>1, <2>4
      <3> HIDE DEF u, x
      <3>2. Registry!Working(u) /\ x.alone => ~hit
        <4> HIDE DEF hit
        <4> QED BY <3>1, HearsFacts
      <3>3. Registry!Working(u) /\ x.alone =>
              u.job \notin Registry!TakenBack(file', j) /\ u.job \notin Registry!Kin(j)
        BY <3>1, <3>2 DEF taken
      <3>4. \A m \in Jobs \ {j} : synced'[m] => synced[m] /\ m \notin Registry!TakenBack(file', j)
        BY <1>11 DEF taken
      <3>5. Registry!Working(u) /\ synced'[j] => u.job \notin Registry!Kin(j)
        BY <1>11, <3>1
      <3> HIDE DEF hit, j, once
      <3>6. Settled(file', tasks, synced', x)
        BY <1>2, <3>1, <3>3, <3>4, <3>5, SaveSettles
      <3> QED BY <3>6 DEF x
    <2> QED BY <2>2, <2>3, <2>4
  <1>17. Apart(writers')
    <2> SUFFICES ASSUME NEW a \in DOMAIN writers, NEW b \in DOMAIN writers, a # b,
                        Registry!Working(writers'[a]), Registry!Working(writers'[b]),
                        writers'[b].job \in Registry!Kin(writers'[a].job)
                 PROVE  ~writers'[a].alone /\ ~writers'[b].alone
      BY <1>9 DEF Apart
    <2>1. ASSUME NEW k \in DOMAIN writers, Registry!Working(writers'[k])
          PROVE  /\ Registry!Working(writers[k]) /\ writers'[k].job = writers[k].job
                 /\ writers'[k].alone => writers[k].alone
      <3>1. k # i
        BY <1>5, <1>10, <2>1
      <3>2. writers[k].kind # "none"
        BY <1>13, <2>1, <3>1 DEF Registry!Working
      <3> QED BY <1>12, <2>1, <3>1, <3>2
    <2>2. ~writers[a].alone /\ ~writers[b].alone
      BY <2>1 DEF TasksInv, Apart
    <2> QED BY <2>1, <2>2
  <1> QED BY <1>1, <1>9, <1>11, <1>14, <1>15, <1>16, <1>17 DEF TasksInv

LEMMA TasksInit ==
  ASSUME RegistryAssumption, LookalikeAssumption, Registry!Init PROVE TasksInv
  <1> DEFINE made == UNION {Registry!Wanted(j, StoredRows[j].schedule) : j \in Registry!Ids(StoredRows)}
  <1>1. RegistryInv
    BY RegistryInit
  <1>2. /\ file = StoredRows /\ writers = [i \in 1 .. MaxEvents |-> Registry!Idle]
        /\ tasks = [n \in Registry!Names |->
             IF \E t \in made : t[1] = n THEN (CHOOSE t \in made : t[1] = n)[2] ELSE Registry!NoTask]
        /\ synced = [j \in Jobs |->
             /\ StoredRows[j] = Registry!Absent \/ ~StoredRows[j].elevated
             /\ \A t \in Registry!Wanted(j, Registry!Fires(StoredRows[j])) : tasks[t[1]] = t[2]]
    BY DEF Registry!Init
  <1> HIDE DEF made
  <1>3. DOMAIN tasks = Registry!Names /\ synced \in [Jobs -> BOOLEAN]
    BY <1>2
  <1>4. ASSUME NEW n \in Registry!Names, tasks[n] # Registry!NoTask
        PROVE  \E j \in Registry!Ids(StoredRows) :
                 <<n, tasks[n]>> \in Registry!Wanted(j, StoredRows[j].schedule) /\ tasks[n].job = j
                   /\ tasks[n].schedule = StoredRows[j].schedule
    <2>1. PICK t \in made : t[1] = n /\ tasks[n] = t[2]
      <3>1. \E t \in made : t[1] = n
        BY <1>2, <1>4
      <3>2. tasks[n] = (CHOOSE t \in made : t[1] = n)[2]
        BY <1>2, <3>1
      <3> QED BY <3>1, <3>2
    <2>2. PICK j \in Registry!Ids(StoredRows) : t \in Registry!Wanted(j, StoredRows[j].schedule)
      BY DEF made
    <2>3. j \in Jobs
      BY DEF Registry!Ids
    <2>4. t = <<t[1], t[2]>> /\ t[2].job = j /\ t[2].schedule = StoredRows[j].schedule
      BY <2>2, <2>3, WantedFacts
    <2>5. t = <<n, tasks[n]>>
      BY <2>1, <2>4
    <2> QED BY <2>1, <2>2, <2>4, <2>5
  <1>5. TasksMade(tasks)
    BY <1>4 DEF TasksMade, Registry!Ids
  <1>6. ASSUME NEW j \in Jobs, synced[j]
        PROVE  NoneMissing(file, tasks, j) /\ NoneOver(file, tasks, writers, j)
    <2>1. /\ StoredRows[j] = Registry!Absent \/ ~StoredRows[j].elevated
          /\ \A t \in Registry!Wanted(j, Registry!Fires(StoredRows[j])) : tasks[t[1]] = t[2]
      BY <1>2, <1>6
    <2>2. NoneMissing(file, tasks, j)
      BY <1>2, <2>1 DEF NoneMissing, Wants
    <2>3. ASSUME NEW n, Mine(tasks, j, n) PROVE <<n, tasks[n]>> \in Wants(file, j)
      <3>1. j \in Registry!Ids(StoredRows) /\ <<n, tasks[n]>> \in Registry!Wanted(j, StoredRows[j].schedule)
        BY <1>4, <2>3 DEF Mine
      <3>2. StoredRows[j] # Registry!Absent
        BY <3>1 DEF Registry!Ids
      <3>3. Registry!Fires(StoredRows[j]) = StoredRows[j].schedule
        BY <2>1, <3>2, FiresFacts
      <3> QED BY <1>2, <3>1, <3>3 DEF Wants
    <2> QED BY <2>2, <2>3 DEF NoneOver
  <1>7. \A i \in DOMAIN writers : Settled(file, tasks, synced, writers[i])
    BY <1>2, RowFacts DEF Settled
  <1>8. Apart(writers)
    BY <1>2, RowFacts DEF Apart, Registry!Working
  <1> QED BY <1>1, <1>3, <1>5, <1>6, <1>7, <1>8 DEF TasksInv

LEMMA TasksStep ==
  ASSUME TasksInv, RegistryAssumption, LookalikeAssumption, [Registry!Next]_(Registry!vars)
  PROVE  TasksInv'
  <1>1. RegistryInv'
    BY RegistryStep DEF TasksInv
  <1>2. ASSUME UNCHANGED <<file, writers, tasks, synced>> PROVE TasksInv'
    BY <1>1, <1>2 DEF TasksInv
  <1>3. CASE UNCHANGED Registry!vars
    BY <1>2, <1>3 DEF Registry!vars
  <1>4. CASE Registry!Next
    <2>1. ASSUME NEW r \in Registry!Requests, Registry!RouteLoad(r) PROVE TasksInv'
      BY <1>2, <2>1 DEF Registry!RouteLoad
    <2>2. CASE Registry!RouteRefused
      BY <1>2, <2>2 DEF Registry!RouteRefused
    <2>3. CASE Registry!RouteSave
      BY <1>1, <2>3, RouteSaveTasks
    <2>4. ASSUME NEW j \in Jobs, Registry!OnceFires(j) PROVE TasksInv'
      BY <1>1, <2>4, OnceFiresTasks
    <2>5. ASSUME NEW i \in DOMAIN writers, Registry!CleanupBegins(i) PROVE TasksInv'
      BY <1>1, <2>5, CleanupBeginsTasks
    <2>6. ASSUME NEW i \in DOMAIN writers, Registry!Query(i) PROVE TasksInv'
      BY <1>1, <2>6, QueryTasks
    <2>7. ASSUME NEW i \in DOMAIN writers, Registry!Others(i) PROVE TasksInv'
      BY <1>1, <2>7, OthersTasks
    <2>8. ASSUME NEW i \in DOMAIN writers, Registry!DeleteTask(i) PROVE TasksInv'
      BY <1>1, <2>8, DeleteTaskTasks
    <2>9. ASSUME NEW i \in DOMAIN writers, Registry!Deleted(i) PROVE TasksInv'
      BY <1>1, <2>9, DeletedTasks
    <2>10. ASSUME NEW i \in DOMAIN writers, Registry!CreateTask(i) PROVE TasksInv'
      BY <1>1, <2>10, CreateTaskTasks
    <2>11. ASSUME NEW i \in DOMAIN writers, Registry!Created(i) PROVE TasksInv'
      BY <1>1, <2>11, CreatedTasks
    <2>12. ASSUME NEW i \in DOMAIN writers, Registry!CleanupLoad(i) PROVE TasksInv'
      BY <1>1, <2>12, CleanupLoadTasks
    <2>13. ASSUME NEW i \in DOMAIN writers, Registry!CleanupSave(i) PROVE TasksInv'
      BY <1>1, <2>13, CleanupSaveTasks
    <2>14. CASE Registry!Rest
      BY <1>3, <2>14 DEF Registry!Rest
    <2> QED BY <1>4, <2>1, <2>2, <2>3, <2>4, <2>5, <2>6, <2>7, <2>8, <2>9, <2>10, <2>11, <2>12,
               <2>13, <2>14 DEF Registry!Next
  <1> QED BY <1>3, <1>4

\* Once nobody works on a job's names, what was about to be deleted under them is gone.
LEMMA TasksMean ==
  ASSUME TasksInv, LookalikeAssumption PROVE Registry!TasksFollowFile
  <1> SUFFICES ASSUME NEW j \in Jobs, synced[j], Registry!Rivals(writers, j) = {},
                      ~Registry!Clashes(j)
               PROVE  {<<n, tasks[n]>> :
                        n \in {m \in Registry!Known : tasks[m].job = j /\ Ours(file, j, m)}}
                      = Registry!Wanted(j, Registry!Fires(file[j]))
    BY DEF Registry!TasksFollowFile, Ours
  <1>1. NoneMissing(file, tasks, j) /\ NoneOver(file, tasks, writers, j) /\ TasksMade(tasks)
    BY DEF TasksInv
  <1>2. ASSUME NEW n \in Registry!Known, tasks[n].job = j, Ours(file, j, n)
        PROVE  <<n, tasks[n]>> \in Wants(file, j)
    <2>1. Mine(tasks, j, n)
      BY <1>2 DEF Mine, Registry!Known
    <2>2. ASSUME NEW i \in DOMAIN writers, Meant(writers[i], n), n # Registry!Bare(j) PROVE FALSE
      <3>1. Registry!Working(writers[i]) /\ n = Registry!Bare(writers[i].job)
        BY <2>2 DEF Meant
      <3>2. writers[i].job \in Jobs /\ writers[i].job # j
        BY <2>2, <3>1, AtWorkOn DEF Registry!Working
      <3>3. Spelled(j, n) /\ Spelled(writers[i].job, n)
        BY <1>1, <2>1, <3>1, MineIsSpelled DEF Spelled, Registry!Bare
      <3>4. writers[i].job \in Registry!Kin(j)
        BY <3>2, <3>3, NamesShared
      <3> QED BY <3>1, <3>4 DEF Registry!Rivals
    <2> QED BY <1>1, <1>2, <2>1, <2>2 DEF NoneOver
  <1>3. ASSUME NEW t \in Wants(file, j)
        PROVE  /\ t[1] \in Registry!Known /\ tasks[t[1]].job = j /\ Ours(file, j, t[1])
               /\ t = <<t[1], tasks[t[1]]>>
    <2>1. /\ t = <<t[1], t[2]>> /\ t[1] \in Registry!Names /\ Spelled(j, t[1])
          /\ t[2].job = j /\ t[2] # Registry!NoTask
      BY <1>3, WantedFacts DEF Wants
    <2>2. tasks[t[1]] = t[2]
      BY <1>1, <1>3 DEF NoneMissing
    <2>3. Ours(file, j, t[1])
      <3> SUFFICES ASSUME ~Ours(file, j, t[1]) PROVE FALSE
        OBVIOUS
      <3>1. PICK k \in Registry!Kin(j) \ {j} : t[1] = Registry!Bare(k) /\ file[k] # Registry!Absent
        BY <2>1, OursFacts
      <3>2. k \in Registry!Ids(file) \ {j}
        BY <3>1, KinFacts DEF Registry!Ids
      <3> QED BY <1>3, <3>1, <3>2 DEF Registry!Clashes, Wants
    <2> QED BY <2>1, <2>2, <2>3 DEF Registry!Known
  <1> QED BY <1>2, <1>3 DEF Wants

\* Whatever edits, cleanups and failing calls go by: once a job's last writer ran to its end
\* undisturbed and no kin of the job is being worked on, Task Scheduler holds for it what the
\* jobs file asks for, neither more nor less (sync_schtasks, delete_schtasks, owns_task,
\* _cleanup_once_schedule).
THEOREM TasksFollowFileAlways ==
  ASSUME RegistryAssumption, LookalikeAssumption
  PROVE  Registry!Spec => []Registry!TasksFollowFile
<1>1. Registry!Init => TasksInv
  BY TasksInit
<1>2. TasksInv /\ [Registry!Next]_(Registry!vars) => TasksInv'
  BY TasksStep
<1>3. TasksInv => Registry!TasksFollowFile
  BY TasksMean
<1> QED BY <1>1, <1>2, <1>3, PTL DEF Registry!Spec

-----------------------------------------------------------------------------
(* The load the header shows. *)

LoadAssumption ==
  /\ Busy \in Nat /\ Attention \in Nat /\ Sustain \in Nat /\ TickSeconds \in Nat
  /\ Lulls \subseteq [from : Nat, to : Nat]

Looks == [at : Nat, look : Nat]
Samples == [at : Nat, window : Int, from : Nat, to : Nat]
LoadTypes ==
  /\ uptime \in Nat /\ lull \in Lulls /\ samples \in Seq(Samples)
  /\ baseline \in Looks \cup {Load!NoBaseline} /\ ticking \in [does : {"nothing", "baseline", "sample"}, now : Nat]

\* Each sample begins at the look the one before it ended with, the next at the baseline.
LoadInv ==
  /\ LoadTypes
  /\ samples # <<>> \/ ticking.does = "sample" => baseline \in Looks
  /\ \A i \in 1 .. Len(samples) - 1 : samples[i + 1].from = samples[i].to
  /\ samples # <<>> => baseline.look = samples[Len(samples)].to

LEMMA LoadInit == ASSUME LoadAssumption, Load!Init PROVE LoadInv
  <1>1. samples = <<>> /\ uptime = 0 /\ lull \in Lulls /\ baseline = Load!NoBaseline
        /\ ticking = Load!NoTick
    BY DEF Load!Init
  <1>2. Load!NoTick \in [does : {"nothing", "baseline", "sample"}, now : Nat]
        /\ Load!NoTick.does = "nothing"
    BY DEF Load!NoTick
  <1>3. LoadTypes
    BY <1>1, <1>2 DEF LoadTypes
  <1>4. ticking.does # "sample"
    BY <1>1, <1>2
  <1> QED BY <1>1, <1>3, <1>4 DEF LoadInv

\* What popping old samples leaves is the end of the history, not all of it gone.
LEMMA RecentIsEnd ==
  ASSUME NEW history \in Seq(Samples), NEW oldest \in Int, history # <<>>,
         history[Len(history)].at >= oldest
  PROVE  \E n \in 1 .. Len(history) : Load!Recent(history, oldest) = SubSeq(history, n, Len(history))
  <1> DEFINE Young == {i \in DOMAIN history : history[i].at >= oldest}
             fresh == {i \in DOMAIN history : \A k \in 1 .. i - 1 : history[k].at < oldest}
  <1>1. Len(history) \in Young /\ Young \subseteq Nat
    BY LenProperties
  <1>2. PICK f \in Young : \A i \in Young : f <= i
    <2> HIDE DEF Young
    <2> QED BY <1>1, LeastOf
  <1>3. f \in fresh /\ history[f].at >= oldest
    <2>1. ASSUME NEW k \in 1 .. f - 1 PROVE history[k].at < oldest
      <3>1. k \in DOMAIN history /\ history[k].at \in Nat /\ f \in Nat /\ k < f
        <4>1. f \in 1 .. Len(history) /\ Len(history) \in Nat /\ DOMAIN history = 1 .. Len(history)
          BY <1>2, LenProperties
        <4>2. k \in 1 .. Len(history) /\ k < f /\ f \in Nat
          BY <4>1
        <4>3. history[k] \in Samples
          BY <4>1, <4>2
        <4> QED BY <4>1, <4>2, <4>3 DEF Samples
      <3>2. k \notin Young
        BY <1>2, <3>1
      <3> QED BY <3>1, <3>2
    <2> QED BY <1>2, <2>1
  <1> DEFINE start == CHOOSE i \in fresh : history[i].at >= oldest
  <1>4. start \in fresh
    BY <1>3
  <1>5. start \in 1 .. Len(history)
    BY <1>4, LenProperties
  <1>6. Load!Recent(history, oldest) = SubSeq(history, start, Len(history))
    BY DEF Load!Recent
  <1> QED BY <1>5, <1>6

LEMMA TakeSampleStep ==
  ASSUME LoadAssumption, LoadInv, Load!TakeSample PROVE LoadInv'
  <1>1. LoadTypes /\ baseline \in Looks /\ ticking.does = "sample"
    BY DEF LoadInv, Load!TakeSample
  <1> DEFINE sample == [at |-> ticking.now, window |-> ticking.now - baseline.at,
                        from |-> baseline.look, to |-> uptime]
             longer == Append(samples, sample)
             oldest == ticking.now - Sustain - 2 * TickSeconds
             m == Len(longer)
  <1>2. sample \in Samples
    BY <1>1 DEF LoadTypes, Looks, Samples
  <1>3. /\ longer \in Seq(Samples) /\ m = Len(samples) + 1 /\ m \in Nat /\ Len(samples) \in Nat
        /\ longer[m] = sample /\ \A i \in 1 .. m - 1 : longer[i] = samples[i]
    <2> HIDE DEF sample
    <2> QED BY <1>1, <1>2, AppendProperties, LenProperties DEF LoadTypes
  <1>4. /\ sample.at = ticking.now /\ sample.from = baseline.look /\ sample.to = uptime
        /\ ticking.now \in Nat /\ oldest \in Int /\ ticking.now >= oldest
    BY <1>1 DEF LoadTypes, LoadAssumption
  <1>5. /\ samples' = Load!Recent(longer, oldest)
        /\ baseline' = [at |-> ticking.now, look |-> uptime]
        /\ ticking' = Load!NoTick /\ UNCHANGED <<uptime, lull>>
    BY DEF Load!TakeSample
  <1> HIDE DEF sample, oldest
  <1>6. ASSUME NEW i \in 1 .. m - 1 PROVE longer[i + 1].from = longer[i].to
    <2>1. CASE i = m - 1
      <3>1. longer[i + 1] = sample /\ longer[i] = samples[Len(samples)] /\ samples # <<>>
        BY <1>3, <2>1
      <3> QED BY <1>4, <3>1 DEF LoadInv
    <2>2. CASE i # m - 1
      <3>1. i \in 1 .. Len(samples) - 1 /\ i \in 1 .. m - 1 /\ i + 1 \in 1 .. m - 1
        BY <1>3, <2>2
      <3>2. longer[i + 1] = samples[i + 1] /\ longer[i] = samples[i]
        BY <1>3, <3>1
      <3> QED BY <3>1, <3>2 DEF LoadInv
    <2> QED BY <2>1, <2>2
  <1>7. longer # <<>> /\ longer[Len(longer)].at >= oldest
    BY <1>3, <1>4
  <1> HIDE DEF longer
  <1>8. PICK n \in 1 .. m : samples' = SubSeq(longer, n, m)
    BY <1>3, <1>4, <1>5, <1>7, RecentIsEnd
  <1>9. /\ samples' \in Seq(Samples) /\ Len(samples') = m - n + 1
        /\ \A i \in 1 .. Len(samples') : samples'[i] = longer[n + i - 1]
    <2>1. n \in Nat /\ n >= 1 /\ n <= m
      BY <1>3, <1>8
    <2> HIDE DEF m
    <2>2. Len(longer) = m
      BY DEF m
    <2> QED BY <1>3, <1>8, <2>1, <2>2, SubSeqProperties
  <1> HIDE DEF m
  <1>10. n \in Nat /\ n >= 1 /\ n <= m /\ Len(samples') \in Nat
    BY <1>3, <1>8, <1>9
  <1>11. samples' # <<>> /\ samples'[Len(samples')] = sample
    <2>1. Len(samples') \in 1 .. Len(samples') /\ n + Len(samples') - 1 = m
      BY <1>3, <1>9, <1>10
    <2> QED BY <1>3, <1>9, <2>1
  <1>12. ASSUME NEW i \in 1 .. Len(samples') - 1 PROVE samples'[i + 1].from = samples'[i].to
    <2>1. i \in 1 .. Len(samples') /\ i + 1 \in 1 .. Len(samples')
      BY <1>10
    <2>2. samples'[i] = longer[n + i - 1] /\ samples'[i + 1] = longer[n + (i + 1) - 1]
      BY <1>9, <2>1
    <2>3. n + i - 1 \in 1 .. m - 1 /\ n + (i + 1) - 1 = (n + i - 1) + 1
      BY <1>3, <1>9, <1>10
    <2> QED BY <1>6, <2>2, <2>3
  <1>13. baseline' \in Looks /\ baseline'.look = uptime
    BY <1>1, <1>4, <1>5 DEF LoadTypes, Looks
  <1>14. ticking' \in [does : {"nothing", "baseline", "sample"}, now : Nat]
    BY <1>5 DEF Load!NoTick
  <1>15. LoadTypes'
    BY <1>1, <1>5, <1>9, <1>13, <1>14 DEF LoadTypes
  <1> QED BY <1>4, <1>11, <1>12, <1>13, <1>15 DEF LoadInv

LEMMA TickBeginsStep ==
  ASSUME LoadInv, Load!TickBegins PROVE LoadInv'
  <1>1. LoadTypes
    BY DEF LoadInv
  <1>2. UNCHANGED <<uptime, lull, baseline, samples>>
    BY DEF Load!TickBegins
  <1>3. /\ ticking'.does \in {"baseline", "sample"} /\ ticking'.now = uptime
        /\ ticking' \in [does : {"nothing", "baseline", "sample"}, now : Nat]
        /\ ticking'.does = "sample" => baseline # Load!NoBaseline
    <2> DEFINE stale == baseline = Load!NoBaseline \/ uptime - baseline.at > 2 * TickSeconds
    <2>1. ticking' = [does |-> IF stale THEN "baseline" ELSE "sample", now |-> uptime]
      BY DEF Load!TickBegins
    <2>2. uptime \in Nat
      BY <1>1 DEF LoadTypes
    <2> QED BY <2>1, <2>2
  <1>4. LoadTypes'
    BY <1>1, <1>2, <1>3 DEF LoadTypes
  <1>5. (samples # <<>> \/ ticking.does = "sample" => baseline \in Looks)'
    BY <1>1, <1>2, <1>3 DEF LoadInv, LoadTypes
  <1> QED BY <1>2, <1>4, <1>5 DEF LoadInv

LEMMA LoadStep ==
  ASSUME LoadAssumption, LoadInv, [Load!Next]_(Load!vars) PROVE LoadInv'
  <1>0. LoadTypes
    BY DEF LoadInv
  <1>1. CASE UNCHANGED Load!vars
    BY <1>1 DEF LoadInv, LoadTypes, Load!vars
  <1>2. CASE Load!Passes
    <2>1. uptime' \in Nat
      BY <1>0, <1>2 DEF Load!Passes, LoadTypes
    <2>2. UNCHANGED <<lull, baseline, samples, ticking>>
      BY <1>2 DEF Load!Passes
    <2> QED BY <2>1, <2>2 DEF LoadInv, LoadTypes
  <1>3. CASE Load!TickBegins
    BY <1>3, TickBeginsStep
  <1>4. CASE Load!TakeBaseline
    <2>1. samples' = <<>> /\ baseline' = [at |-> ticking.now, look |-> uptime]
          /\ ticking' = Load!NoTick /\ UNCHANGED <<uptime, lull>>
      BY <1>4 DEF Load!TakeBaseline
    <2>2. baseline' \in Looks
      BY <1>0, <2>1 DEF Looks, LoadTypes
    <2>3. ticking' \in [does : {"nothing", "baseline", "sample"}, now : Nat]
      BY <2>1 DEF Load!NoTick
    <2> QED BY <1>0, <2>1, <2>2, <2>3 DEF LoadInv, LoadTypes
  <1>5. CASE Load!TakeSample
    BY <1>5, TakeSampleStep
  <1>6. CASE Load!TickFails
    <2>1. ticking' = Load!NoTick /\ UNCHANGED <<uptime, lull, baseline, samples>>
      BY <1>6 DEF Load!TickFails
    <2>2. ticking' \in [does : {"nothing", "baseline", "sample"}, now : Nat] /\ ticking'.does = "nothing"
      BY <2>1 DEF Load!NoTick
    <2> QED BY <1>0, <2>1, <2>2 DEF LoadInv, LoadTypes
  <1>7. CASE Load!ReadLoad
    BY <1>7 DEF Load!ReadLoad, LoadInv, LoadTypes
  <1> QED BY <1>1, <1>2, <1>3, <1>4, <1>5, <1>6, <1>7 DEF Load!Next

\* Two averages one after the other that reach a threshold make one that does.
LEMMA AveragesJoin ==
  ASSUME LoadAssumption, LoadTypes, NEW a \in Nat, NEW b \in Nat, NEW c \in Nat,
         Load!Averaged(a, b, Attention), Load!Averaged(b, c, Attention)
  PROVE  Load!Averaged(a, c, Attention)
  <1>1. \A t \in Nat : Load!BusyTotal(t) \in Int
    <2> SUFFICES ASSUME NEW t \in Nat PROVE Load!BusyTotal(t) \in Int
      OBVIOUS
    <2> DEFINE busy == {u \in 0 .. (t - 1) : ~(lull.from <= u /\ u < lull.to)}
    <2>1. IsFiniteSet(0 .. (t - 1))
      BY FS_Interval
    <2>2. Cardinality(busy) \in Nat
      BY <2>1, FS_Subset, FS_CardinalityType
    <2>3. Load!BusyTotal(t) = Busy * Cardinality(busy)
      BY DEF Load!BusyTotal, Load!Cardinality, Cardinality
    <2> QED BY <2>2, <2>3 DEF LoadAssumption
  <1> DEFINE p == Load!BusyTotal(a)
             q == Load!BusyTotal(b)
             r == Load!BusyTotal(c)
  <1>2. p \in Int /\ q \in Int /\ r \in Int
    BY <1>1
  <1>3. /\ b > a /\ q - p >= Attention * (b - a)
        /\ c > b /\ r - q >= Attention * (c - b)
    BY DEF Load!Averaged
  <1>4. Attention * (c - a) = Attention * (b - a) + Attention * (c - b)
    <2>1. \A d, x, y \in Int : d * (x + y) = d * x + d * y
      OBVIOUS
    <2>2. c - a = (b - a) + (c - b) /\ b - a \in Int /\ c - b \in Int /\ Attention \in Int
      BY DEF LoadAssumption
    <2> QED BY <2>1, <2>2
  <1>5. Attention * (b - a) \in Int /\ Attention * (c - b) \in Int
    BY DEF LoadAssumption
  <1> HIDE DEF p, q, r
  <1>6. c > a /\ r - p >= Attention * (c - a)
    BY <1>2, <1>3, <1>4, <1>5
  <1> QED BY <1>6 DEF p, q, r, Load!Averaged

(* Whatever pauses in demand, failed ticks and slow samples lie between, a  *)
(* reading of "attention" rests on a load that lasted: the samples it rests *)
(* on follow each other without a gap, so that from the first look of any   *)
(* of them to the last look of all the CPU really averaged that much        *)
(* (tick_once: "a sustained reading never spans an idle gap").              *)
THEOREM LoadHonestAlways ==
  ASSUME LoadAssumption
  PROVE  Load!Spec => []Load!LoadHonest
  <1>1. Load!Init => LoadInv
    BY LoadInit
  <1>2. LoadInv /\ [Load!Next]_(Load!vars) => LoadInv'
    BY LoadStep
  <1>3. LoadInv => Load!LoadHonest
    <2> SUFFICES ASSUME LoadInv, Load!Reading = "attention" PROVE
          \E start \in DOMAIN samples :
            /\ Load!Covering(start)
            /\ \A i \in start .. Len(samples) :
                 Load!Averaged(samples[i].from, Load!Latest.to, Attention)
      BY DEF Load!LoadHonest
    <2>1. samples # <<>> /\ Load!LevelFor = "attention"
      BY DEF Load!Reading
    <2>2. PICK start \in DOMAIN samples : Load!Covering(start)
      BY <2>1 DEF Load!LevelFor
    <2>3. LoadTypes /\ samples \in Seq(Samples) /\ Len(samples) \in Nat
          /\ DOMAIN samples = 1 .. Len(samples)
      BY LenProperties DEF LoadInv, LoadTypes
    <2>4. \A i \in start .. Len(samples) :
            /\ i \in DOMAIN samples /\ samples[i].from \in Nat /\ samples[i].to \in Nat
            /\ Load!Averaged(samples[i].from, samples[i].to, Attention)
      <3> SUFFICES ASSUME NEW i \in start .. Len(samples)
                   PROVE  /\ i \in DOMAIN samples /\ samples[i].from \in Nat /\ samples[i].to \in Nat
                          /\ Load!Averaged(samples[i].from, samples[i].to, Attention)
        OBVIOUS
      <3>1. i \in DOMAIN samples /\ i >= start
        BY <2>2, <2>3
      <3>2. samples[i] \in Samples
        BY <2>3, <3>1
      <3>3. Load!Reaches(samples[i], Attention)
        BY <2>2, <3>1 DEF Load!Covering, Load!From
      <3> QED BY <3>1, <3>2, <3>3 DEF Load!Reaches, Samples
    <2> DEFINE last == samples[Len(samples)].to
               Bad == {i \in start .. Len(samples) : ~Load!Averaged(samples[i].from, last, Attention)}
               Gaps == {Len(samples) - i : i \in Bad}
    <2>5. ASSUME Bad # {} PROVE FALSE
      <3>1. Gaps \subseteq Nat /\ Gaps # {}
        BY <2>3, <2>5
      <3>2. PICK g \in Gaps : \A h \in Gaps : g <= h
        <4> HIDE DEF Gaps
        <4> QED BY <3>1, LeastOf
      <3>3. PICK i \in Bad : g = Len(samples) - i
        BY <3>2
      <3>4. i \in Int /\ i <= Len(samples) /\ start <= i /\ start \in Nat /\ 1 <= start
        BY <2>2, <2>3
      <3>5. i # Len(samples)
        BY <2>4
      <3>6. i + 1 \in start .. Len(samples) /\ i \in 1 .. Len(samples) - 1
        <4> DEFINE n == Len(samples)
        <4>1. n \in Nat /\ i <= n /\ i # n
          BY <2>3, <3>4, <3>5
        <4> HIDE DEF n, Bad, Gaps, last
        <4>2. i + 1 \in start .. n /\ i \in 1 .. n - 1
          BY <3>4, <4>1
        <4> QED BY <4>2 DEF n
      <3>7. i + 1 \notin Bad
        <4>1. ASSUME i + 1 \in Bad PROVE FALSE
          <5>1. Len(samples) - (i + 1) \in Gaps
            BY <4>1
          <5>2. g <= Len(samples) - (i + 1)
            BY <3>2, <5>1
          <5> QED BY <2>3, <3>3, <3>4, <5>2
        <4> QED BY <4>1
      <3>8. Load!Averaged(samples[i + 1].from, last, Attention)
        BY <3>6, <3>7
      <3>9. samples[i + 1].from = samples[i].to
        BY <3>6 DEF LoadInv
      <3>10. last \in Nat
        <4>1. Len(samples) \in start .. Len(samples)
          BY <2>3, <3>4
        <4> QED BY <2>4, <4>1
      <3>11. i \in start .. Len(samples)
        OBVIOUS
      <3> HIDE DEF last
      <3>12. Load!Averaged(samples[i].from, last, Attention)
        BY <2>3, <2>4, <3>8, <3>9, <3>10, <3>11, AveragesJoin
      <3> QED BY <3>12
    <2>6. Load!Latest.to = last
      BY DEF Load!Latest
    <2> QED BY <2>2, <2>5, <2>6
  <1> QED BY <1>1, <1>2, <1>3, PTL DEF Load!Spec

-----------------------------------------------------------------------------
(* The rows of the jobs file. *)

\* A job as a load leaves it: accepted again as it is, and with nothing more to normalise.
Normal(row) == JobFile!ShapeHolds(row) /\ JobFile!Numbers(row) /\ JobFile!Job(row) = row
MayBe == JobFile!Rows \cup {JobFile!NoRow}

\* The file is typed as it is found, and its chains lead to rows that load; what the dialog
\* sends makes rows of rows.
RowsAssumption ==
  /\ MaxEdits \in Nat
  /\ Stored \in [Jobs -> MayBe] /\ Drafts \subseteq JobFile!Rows
  /\ \A patch \in Patches, row \in JobFile!Rows :
       [field \in DOMAIN row |-> IF field \in DOMAIN patch THEN patch[field] ELSE row[field]] \in JobFile!Rows
  /\ \A j \in Jobs : JobFile!Loads(Stored[j]) =>
       \A k \in Stored[j].chain : k \in Jobs /\ JobFile!Loads(Stored[k])

\* What was accepted is in the file as accepted; a blanked row goes with the next save.
Recorded ==
  \A j \in Jobs : meant[j] # JobFile!NoRow =>
    /\ Normal(meant[j])
    /\ file[j] = meant[j] \/ (meant[j].name = JobFile!Nothing /\ file[j] = JobFile!NoRow)
RowsInv == JobFile!TypeOK /\ Recorded /\ JobFile!ChainsLead

LEMMA NoRowIsNone == JobFile!NoRow \notin JobFile!Rows
  <1>1. ASSUME NEW row \in JobFile!Rows PROVE row # JobFile!NoRow
    <2>1. "name" \in DOMAIN row
      BY DEF JobFile!Rows
    <2>2. DOMAIN JobFile!NoRow = {"nothing"}
      BY DEF JobFile!NoRow
    <2> QED BY <2>1, <2>2
  <1> QED BY <1>1

LEMMA StrippedFacts ==
  ASSUME NEW name
  PROVE  /\ JobFile!Stripped(JobFile!Stripped(name)) = JobFile!Stripped(name)
         /\ name \in {JobFile!Nothing} \cup STRING =>
              JobFile!Stripped(name) \in {JobFile!Nothing} \cup STRING
  BY DEF JobFile!Stripped

\* What a load makes of a row.
LEMMA JobFacts ==
  ASSUME NEW row \in JobFile!Rows
  PROVE  /\ JobFile!Job(row) \in JobFile!Rows
         /\ JobFile!Job(row).name = JobFile!Stripped(row.name)
         /\ JobFile!Job(row).chain = row.chain
         /\ JobFile!ShapeHolds(row) => JobFile!ShapeHolds(JobFile!Job(row))
         /\ JobFile!Numbers(row) => JobFile!Numbers(JobFile!Job(row))
         /\ JobFile!Job(JobFile!Job(row)) = JobFile!Job(row)
  <1> DEFINE job == JobFile!Job(row)
             name == JobFile!Stripped(row.name)
             cooldown == JobFile!Cooldown(row.cooldown)
  <1>1. /\ job = [row EXCEPT !.name = name, !.cooldown = cooldown]
        /\ name \in {JobFile!Nothing} \cup STRING /\ cooldown \in Int
        /\ JobFile!Stripped(name) = name /\ JobFile!Cooldown(cooldown) = cooldown
    BY StrippedFacts DEF JobFile!Job, JobFile!Cooldown, JobFile!Unset, JobFile!Rows
  <1>2. (row.cooldown \in {JobFile!Unset} \cup Nat) => (cooldown \in {JobFile!Unset} \cup Nat)
    BY DEF JobFile!Cooldown, JobFile!Unset
  <1> HIDE DEF name, cooldown
  <1>3. job \in JobFile!Rows
    BY <1>1 DEF JobFile!Rows
  <1>4. /\ job.name = name /\ job.cooldown = cooldown /\ job.kind = row.kind /\ job.script = row.script
        /\ job.config = row.config /\ job.silence = row.silence /\ job.chain = row.chain
    BY <1>1 DEF JobFile!Rows
  <1>5. [job EXCEPT !.name = name, !.cooldown = cooldown] = job
    BY <1>1 DEF JobFile!Rows
  <1> HIDE DEF job
  <1>6. JobFile!Job(job) = job
    BY <1>1, <1>4, <1>5 DEF JobFile!Job
  <1>7. JobFile!ShapeHolds(row) => JobFile!ShapeHolds(job)
    BY <1>4 DEF JobFile!ShapeHolds
  <1>8. JobFile!Numbers(row) => JobFile!Numbers(job)
    BY <1>2, <1>4 DEF JobFile!Numbers
  <1> QED BY <1>3, <1>4, <1>6, <1>7, <1>8 DEF job, name

\* A normal row loads as it is, unless it has no name.
LEMMA NormalLoads ==
  ASSUME NEW row \in JobFile!Rows, Normal(row)
  PROVE  /\ JobFile!Loads(row) <=> row.name # JobFile!Nothing
         /\ JobFile!Job(row) = row
  <1>1. JobFile!Stripped(row.name) = row.name
    BY JobFacts DEF Normal
  <1> QED BY <1>1, NoRowIsNone DEF Normal, JobFile!Loads

LEMMA LoadedFacts ==
  ASSUME NEW j \in Jobs, file \in [Jobs -> MayBe], JobFile!Loaded[j] # JobFile!NoRow
  PROVE  /\ JobFile!Loaded[j] \in JobFile!Rows /\ Normal(JobFile!Loaded[j])
         /\ JobFile!Loaded[j].name # JobFile!Nothing
         /\ file[j] \in JobFile!Rows /\ JobFile!Loads(file[j])
         /\ JobFile!Loaded[j] = JobFile!Job(file[j])
  <1>1. /\ JobFile!Loads(file[j]) /\ JobFile!Loaded[j] = JobFile!Job(file[j])
        /\ file[j] \in JobFile!Rows
    BY DEF JobFile!Loaded, MayBe, JobFile!Loads
  <1> QED BY <1>1, JobFacts DEF JobFile!Loads, Normal

LEMMA LoadedIsMayBe ==
  ASSUME file \in [Jobs -> MayBe]
  PROVE  /\ JobFile!Loaded \in [Jobs -> MayBe]
         /\ \A j \in Jobs : JobFile!Loaded[j] # JobFile!NoRow => Normal(JobFile!Loaded[j])
  <1>1. JobFile!Loaded = [j \in Jobs |-> JobFile!Loaded[j]]
    BY DEF JobFile!Loaded
  <1>2. \A j \in Jobs : JobFile!Loaded[j] \in MayBe
    BY LoadedFacts DEF MayBe
  <1>3. \A f : f = [j \in Jobs |-> f[j]] /\ (\A j \in Jobs : f[j] \in MayBe) => f \in [Jobs -> MayBe]
    OBVIOUS
  <1> QED BY <1>1, <1>2, <1>3, LoadedFacts

\* A registry of normal rows is saved, and loaded again.
LEMMA SavedIsLoaded ==
  ASSUME NEW cfg \in [Jobs -> MayBe], \A j \in Jobs : cfg[j] # JobFile!NoRow => Normal(cfg[j]),
         JobFile!Save(cfg)
  PROVE  /\ file' = cfg
         /\ \A j \in Jobs : JobFile!Loaded'[j] =
              IF cfg[j] # JobFile!NoRow /\ cfg[j].name # JobFile!Nothing THEN cfg[j] ELSE JobFile!NoRow
  <1>1. file' = cfg
    BY DEF JobFile!Save, JobFile!ToDict
  <1>2. ASSUME NEW j \in Jobs
        PROVE  JobFile!Loaded'[j] =
          IF cfg[j] # JobFile!NoRow /\ cfg[j].name # JobFile!Nothing THEN cfg[j] ELSE JobFile!NoRow
    <2>1. JobFile!Loaded'[j] = IF JobFile!Loads(cfg[j]) THEN JobFile!Job(cfg[j]) ELSE JobFile!NoRow
      BY <1>1 DEF JobFile!Loaded
    <2>2. CASE cfg[j] = JobFile!NoRow
      BY <2>1, <2>2 DEF JobFile!Loads
    <2>3. CASE cfg[j] # JobFile!NoRow
      <3>1. cfg[j] \in JobFile!Rows /\ Normal(cfg[j])
        BY <2>3 DEF MayBe
      <3> QED BY <2>1, <2>3, <3>1, NormalLoads
    <2> QED BY <2>2, <2>3
  <1> QED BY <1>1, <1>2

\* A save of normal rows that changes one job, and says so.
LEMMA AcceptStep ==
  ASSUME RowsAssumption, RowsInv, NEW cfg, NEW row \in JobFile!Rows, NEW j \in Jobs, Normal(row),
         cfg = [JobFile!Loaded EXCEPT ![j] = row], JobFile!Accept(cfg, j),
         \A k \in JobFile!Known(cfg) \ {j} : \A x \in cfg[k].chain :
           x \in JobFile!Known(cfg) \/ JobFile!Blanked(x),
         \A x \in row.chain : x \in Jobs /\ (x \in JobFile!Known(cfg) \/ JobFile!Blanked(x))
  PROVE  RowsInv'
  <1>1. /\ file \in [Jobs -> MayBe] /\ meant \in [Jobs -> MayBe]
        /\ disk \subseteq DOMAIN Suffix /\ wsl \in BOOLEAN /\ edits \in 0 .. MaxEdits
    BY DEF RowsInv, JobFile!TypeOK, MayBe
  <1>2. /\ JobFile!Loaded \in [Jobs -> MayBe]
        /\ \A k \in Jobs : JobFile!Loaded[k] # JobFile!NoRow => Normal(JobFile!Loaded[k])
    BY <1>1, LoadedIsMayBe
  <1>3. cfg \in [Jobs -> MayBe] /\ cfg[j] = row /\ \A k \in Jobs \ {j} : cfg[k] = JobFile!Loaded[k]
    BY <1>2 DEF MayBe
  <1>4. \A k \in Jobs : cfg[k] # JobFile!NoRow => Normal(cfg[k])
    BY <1>2, <1>3
  <1>5. /\ JobFile!Save(cfg) /\ meant' = [meant EXCEPT ![j] = cfg[j]]
        /\ edits' \in 0 .. MaxEdits /\ UNCHANGED <<disk, wsl>>
    BY <1>1 DEF JobFile!Accept, RowsAssumption
  <1>6. /\ file' = cfg
        /\ \A k \in Jobs : JobFile!Loaded'[k] =
             IF cfg[k] # JobFile!NoRow /\ cfg[k].name # JobFile!Nothing THEN cfg[k] ELSE JobFile!NoRow
    BY <1>3, <1>4, <1>5, SavedIsLoaded
  <1>7. /\ meant' \in [Jobs -> MayBe] /\ meant'[j] = row
        /\ \A k \in Jobs \ {j} : meant'[k] = meant[k]
    BY <1>1, <1>3, <1>5 DEF MayBe
  <1>8. JobFile!TypeOK'
    BY <1>1, <1>3, <1>5, <1>6, <1>7 DEF JobFile!TypeOK, MayBe
  <1>9. Recorded'
    <2> SUFFICES ASSUME NEW k \in Jobs, meant'[k] # JobFile!NoRow
                 PROVE  /\ Normal(meant'[k])
                        /\ \/ file'[k] = meant'[k]
                           \/ meant'[k].name = JobFile!Nothing /\ file'[k] = JobFile!NoRow
      BY DEF Recorded
    <2>1. CASE k = j
      BY <1>3, <1>6, <1>7, <2>1
    <2>2. CASE k # j
      <3>1. meant'[k] = meant[k] /\ file'[k] = JobFile!Loaded[k] /\ meant[k] \in JobFile!Rows
        BY <1>1, <1>3, <1>6, <1>7, <2>2 DEF MayBe
      <3>2. /\ Normal(meant[k])
            /\ file[k] = meant[k] \/ (meant[k].name = JobFile!Nothing /\ file[k] = JobFile!NoRow)
        BY <3>1 DEF RowsInv, Recorded
      <3>3. JobFile!Loads(file[k]) => JobFile!Loaded[k] = JobFile!Job(file[k])
        BY DEF JobFile!Loaded
      <3>4. ~JobFile!Loads(file[k]) => JobFile!Loaded[k] = JobFile!NoRow
        BY DEF JobFile!Loaded
      <3>5. JobFile!Loads(meant[k]) <=> meant[k].name # JobFile!Nothing
        BY <3>1, <3>2, NormalLoads
      <3>6. JobFile!Job(meant[k]) = meant[k]
        BY <3>1, <3>2, NormalLoads
      <3>7. ~JobFile!Loads(JobFile!NoRow)
        BY DEF JobFile!Loads
      <3> QED BY <3>1, <3>2, <3>3, <3>4, <3>5, <3>6, <3>7
    <2> QED BY <2>1, <2>2
  <1>10. ASSUME NEW x \in Jobs, x \in JobFile!Known(cfg) \/ JobFile!Blanked(x)
         PROVE  JobFile!Loaded'[x] # JobFile!NoRow \/ JobFile!Blanked(x)'
    <2>1. CASE x = j
      BY <1>3, <1>6, <1>7, <2>1, NoRowIsNone DEF JobFile!Blanked
    <2>2. CASE x # j /\ JobFile!Blanked(x)
      BY <1>7, <2>2 DEF JobFile!Blanked
    <2>3. CASE x # j /\ x \in JobFile!Known(cfg)
      <3>1. cfg[x] = JobFile!Loaded[x] /\ cfg[x] # JobFile!NoRow
        BY <1>3, <2>3 DEF JobFile!Known
      <3> QED BY <1>1, <1>6, <3>1, LoadedFacts
    <2> QED BY <1>10, <2>1, <2>2, <2>3
  <1>11. JobFile!ChainsLead'
    <2> SUFFICES ASSUME NEW k \in Jobs, JobFile!Loaded'[k] # JobFile!NoRow,
                        NEW x \in JobFile!Loaded'[k].chain
                 PROVE  x \in Jobs /\ (JobFile!Loaded'[x] # JobFile!NoRow \/ JobFile!Blanked(x)')
      BY DEF JobFile!ChainsLead, JobFile!Known
    <2>1. JobFile!Loaded'[k] = cfg[k] /\ cfg[k] # JobFile!NoRow
      BY <1>6
    <2>2. k \in JobFile!Known(cfg)
      BY <2>1 DEF JobFile!Known
    <2>3. cfg[k] \in JobFile!Rows
      BY <1>3, <2>1 DEF MayBe
    <2>4. x \in Jobs
      BY <2>1, <2>3 DEF JobFile!Rows
    <2>5. x \in JobFile!Known(cfg) \/ JobFile!Blanked(x)
      BY <1>3, <2>1, <2>2
    <2> QED BY <1>10, <2>4, <2>5
  <1> QED BY <1>8, <1>9, <1>11 DEF RowsInv

LEMMA CreateRowStep ==
  ASSUME RowsAssumption, RowsInv, NEW j \in Jobs, NEW draft \in Drafts, NEW acknowledged \in BOOLEAN,
         JobFile!CreateJob(j, draft, acknowledged)
  PROVE  RowsInv'
  <1> DEFINE row == JobFile!Job(draft)
             cfg == [JobFile!Loaded EXCEPT ![j] = row]
  <1>1. draft \in JobFile!Rows /\ JobFile!Loads(draft)
    BY DEF RowsAssumption, JobFile!CreateJob
  <1>2. row \in JobFile!Rows /\ Normal(row)
    BY <1>1, JobFacts DEF JobFile!Loads, Normal
  <1>3. JobFile!ChainsHold(cfg) /\ JobFile!Accept(cfg, j)
    BY DEF JobFile!CreateJob
  <1>4. file \in [Jobs -> MayBe]
    BY DEF RowsInv, JobFile!TypeOK, MayBe
  <1>5. JobFile!Loaded \in [Jobs -> MayBe]
    BY <1>4, LoadedIsMayBe
  <1> HIDE DEF row
  <1>6. cfg[j] = row /\ j \in JobFile!Known(cfg)
    BY <1>2, <1>5, NoRowIsNone DEF JobFile!Known
  <1> HIDE DEF cfg
  <1>7. \A k \in JobFile!Known(cfg) : \A x \in cfg[k].chain : x \in JobFile!Known(cfg)
    BY <1>3 DEF JobFile!ChainsHold
  <1>8. \A x \in row.chain : x \in Jobs /\ x \in JobFile!Known(cfg)
    BY <1>6, <1>7 DEF JobFile!Known
  <1> QED BY <1>2, <1>3, <1>7, <1>8, AcceptStep DEF cfg

\* What an edit leaves of a row: a normal one, its chain as it was unless the edit names it.
LEMMA PatchedFacts ==
  ASSUME RowsAssumption, NEW job \in JobFile!Rows, Normal(job), NEW patch \in Patches,
         JobFile!ShapeHolds(JobFile!Patched(job, patch)), JobFile!Numbers(JobFile!Patched(job, patch))
  PROVE  /\ JobFile!Patched(job, patch) \in JobFile!Rows /\ Normal(JobFile!Patched(job, patch))
         /\ "chain" \notin DOMAIN patch => JobFile!Patched(job, patch).chain = job.chain
  <1> DEFINE row == JobFile!Patched(job, patch)
             raw == [field \in DOMAIN job |-> IF field \in DOMAIN patch THEN patch[field] ELSE job[field]]
  <1>1. raw \in JobFile!Rows
    BY DEF RowsAssumption
  <1>2. DOMAIN job = {"name", "kind", "script", "config", "args", "cooldown", "silence", "chain"}
    BY DEF JobFile!Rows
  <1>3. \A field \in DOMAIN job : row[field] = JobFile!Field(job, patch, field)
    BY DEF JobFile!Patched
  <1>4. row = [field \in DOMAIN job |-> row[field]]
    BY DEF JobFile!Patched
  <1> HIDE DEF row
  <1>5. /\ row.kind = raw.kind /\ row.script = raw.script /\ row.config = raw.config
        /\ row.args = raw.args /\ row.silence = raw.silence /\ row.chain = raw.chain
    BY <1>2, <1>3 DEF JobFile!Field
  <1>6. /\ JobFile!Stripped(job.name) = job.name /\ JobFile!Cooldown(job.cooldown) = job.cooldown
    BY JobFacts DEF Normal, JobFile!Job, JobFile!Rows
  <1>7. row.name = job.name \/ row.name = JobFile!Stripped(raw.name)
    BY <1>2, <1>3 DEF JobFile!Field
  <1>8. row.name \in {JobFile!Nothing} \cup STRING /\ JobFile!Stripped(row.name) = row.name
    BY <1>1, <1>6, <1>7, StrippedFacts DEF JobFile!Rows
  <1>9. row.cooldown = job.cooldown \/ row.cooldown = JobFile!Cooldown(raw.cooldown)
    BY <1>2, <1>3 DEF JobFile!Field
  <1>10. row.cooldown \in Int /\ JobFile!Cooldown(row.cooldown) = row.cooldown
    BY <1>1, <1>6, <1>9 DEF JobFile!Cooldown, JobFile!Unset, JobFile!Rows
  <1>11. row \in JobFile!Rows
    BY <1>1, <1>2, <1>4, <1>5, <1>8, <1>10 DEF JobFile!Rows
  <1>12. JobFile!Job(row) = row
    BY <1>8, <1>10, <1>11 DEF JobFile!Job, JobFile!Rows
  <1>13. "chain" \notin DOMAIN patch => row.chain = job.chain
    BY <1>2, <1>5
  <1> QED BY <1>11, <1>12, <1>13 DEF Normal, row

LEMMA EditRowStep ==
  ASSUME RowsAssumption, RowsInv, NEW j \in Jobs, NEW patch \in Patches, NEW acknowledged \in BOOLEAN,
         JobFile!EditJob(j, patch, acknowledged)
  PROVE  RowsInv'
  <1> DEFINE old == JobFile!Loaded[j]
             row == JobFile!Patched(old, patch)
             cfg == [JobFile!Loaded EXCEPT ![j] = row]
  <1>1. file \in [Jobs -> MayBe]
    BY DEF RowsInv, JobFile!TypeOK, MayBe
  <1>2. old \in JobFile!Rows /\ Normal(old) /\ old # JobFile!NoRow
    BY <1>1, LoadedFacts DEF JobFile!EditJob
  <1>3. /\ JobFile!ShapeHolds(row) /\ JobFile!Numbers(row) /\ JobFile!Accept(cfg, j)
        /\ "chain" \in DOMAIN patch => JobFile!ChainsHold(cfg)
    BY DEF JobFile!EditJob
  <1>4. row \in JobFile!Rows /\ Normal(row) /\ ("chain" \notin DOMAIN patch => row.chain = old.chain)
    BY <1>2, <1>3, PatchedFacts
  <1>5. JobFile!Loaded \in [Jobs -> MayBe]
    BY <1>1, LoadedIsMayBe
  <1> HIDE DEF row
  <1>6. cfg[j] = row /\ \A k \in Jobs \ {j} : cfg[k] = JobFile!Loaded[k]
    BY <1>5
  <1>7. JobFile!Known(cfg) = JobFile!Known(JobFile!Loaded)
    BY <1>2, <1>4, <1>6, NoRowIsNone DEF JobFile!Known
  <1> HIDE DEF cfg
  <1>8. /\ \A k \in JobFile!Known(cfg) \ {j} : \A x \in cfg[k].chain :
             x \in JobFile!Known(cfg) \/ JobFile!Blanked(x)
        /\ \A x \in row.chain : x \in JobFile!Known(cfg) \/ JobFile!Blanked(x)
    <2>1. CASE "chain" \in DOMAIN patch
      <3>1. \A k \in JobFile!Known(cfg) : \A x \in cfg[k].chain : x \in JobFile!Known(cfg)
        BY <1>3, <2>1 DEF JobFile!ChainsHold
      <3>2. j \in JobFile!Known(cfg)
        BY <1>2, <1>7 DEF JobFile!Known
      <3> QED BY <1>6, <3>1, <3>2
    <2>2. CASE "chain" \notin DOMAIN patch
      <3>1. \A k \in JobFile!Known(JobFile!Loaded) : \A x \in JobFile!Loaded[k].chain :
              x \in JobFile!Known(JobFile!Loaded) \/ JobFile!Blanked(x)
        BY DEF RowsInv, JobFile!ChainsLead
      <3>2. j \in JobFile!Known(JobFile!Loaded) /\ JobFile!Known(cfg) \subseteq Jobs
        BY <1>2 DEF JobFile!Known
      <3> QED BY <1>4, <1>6, <1>7, <2>2, <3>1, <3>2
    <2> QED BY <2>1, <2>2
  <1>9. \A x \in row.chain : x \in Jobs
    BY <1>4 DEF JobFile!Rows
  <1> QED BY <1>3, <1>4, <1>8, <1>9, AcceptStep DEF cfg

\* A row without a job in its chain.
LEMMA WithoutFacts ==
  ASSUME NEW row \in JobFile!Rows, NEW j, Normal(row)
  PROVE  /\ [row EXCEPT !.chain = row.chain \ {j}] \in JobFile!Rows
         /\ Normal([row EXCEPT !.chain = row.chain \ {j}])
         /\ [row EXCEPT !.chain = row.chain \ {j}].name = row.name
         /\ [row EXCEPT !.chain = row.chain \ {j}].chain = row.chain \ {j}
  <1> DEFINE left == [row EXCEPT !.chain = row.chain \ {j}]
  <1>1. /\ left \in JobFile!Rows
        /\ left.name = row.name /\ left.kind = row.kind /\ left.script = row.script
        /\ left.config = row.config /\ left.cooldown = row.cooldown /\ left.silence = row.silence
        /\ left.chain = row.chain \ {j}
    BY DEF JobFile!Rows
  <1>2. JobFile!Stripped(row.name) = row.name /\ JobFile!Cooldown(row.cooldown) = row.cooldown
    BY JobFacts DEF Normal, JobFile!Job, JobFile!Rows
  <1> HIDE DEF left
  <1>3. JobFile!Job(left) = left
    BY <1>1, <1>2 DEF JobFile!Job, JobFile!Rows
  <1>4. JobFile!ShapeHolds(left) /\ JobFile!Numbers(left)
    BY <1>1 DEF Normal, JobFile!ShapeHolds, JobFile!Numbers
  <1> QED BY <1>1, <1>3, <1>4 DEF Normal, left

LEMMA DeleteRowStep ==
  ASSUME RowsAssumption, RowsInv, NEW j \in Jobs, JobFile!DeleteJob(j)
  PROVE  RowsInv'
  <1> DEFINE Without(row) == IF row = JobFile!NoRow THEN row ELSE [row EXCEPT !.chain = row.chain \ {j}]
             cfg == [k \in Jobs |-> IF k = j THEN JobFile!NoRow ELSE Without(JobFile!Loaded[k])]
  <1>1. /\ file \in [Jobs -> MayBe] /\ meant \in [Jobs -> MayBe]
        /\ disk \subseteq DOMAIN Suffix /\ wsl \in BOOLEAN /\ edits \in 0 .. MaxEdits
    BY DEF RowsInv, JobFile!TypeOK, MayBe
  <1>2. /\ JobFile!Loaded \in [Jobs -> MayBe]
        /\ \A k \in Jobs : JobFile!Loaded[k] # JobFile!NoRow => Normal(JobFile!Loaded[k])
    BY <1>1, LoadedIsMayBe
  <1>3. /\ JobFile!Save(cfg) /\ UNCHANGED <<disk, wsl>> /\ edits' \in 0 .. MaxEdits
        /\ meant' = [k \in Jobs |-> IF k = j THEN JobFile!NoRow ELSE Without(meant[k])]
    BY <1>1 DEF JobFile!DeleteJob, RowsAssumption
  <1>4. ASSUME NEW row \in MayBe, row # JobFile!NoRow => Normal(row)
        PROVE  /\ Without(row) \in MayBe
               /\ Without(row) = JobFile!NoRow <=> row = JobFile!NoRow
               /\ row # JobFile!NoRow => /\ Normal(Without(row)) /\ Without(row).name = row.name
                                         /\ Without(row).chain = row.chain \ {j}
    BY <1>4, WithoutFacts, NoRowIsNone DEF MayBe
  <1>5. \A k \in Jobs : cfg[k] = IF k = j THEN JobFile!NoRow ELSE Without(JobFile!Loaded[k])
    OBVIOUS
  <1>6. \A k \in Jobs : meant'[k] = IF k = j THEN JobFile!NoRow ELSE Without(meant[k])
    BY <1>3
  <1>7. meant' = [k \in Jobs |-> meant'[k]] /\ cfg = [k \in Jobs |-> cfg[k]]
    BY <1>3
  <1> HIDE DEF Without, cfg
  <1>8. ASSUME NEW k \in Jobs
        PROVE  /\ cfg[k] \in MayBe /\ meant'[k] \in MayBe
               /\ cfg[k] # JobFile!NoRow => Normal(cfg[k])
    BY <1>1, <1>2, <1>4, <1>5, <1>6 DEF RowsInv, Recorded, MayBe
  <1>9. \A f : f = [k \in Jobs |-> f[k]] /\ (\A k \in Jobs : f[k] \in MayBe) => f \in [Jobs -> MayBe]
    OBVIOUS
  <1>10. cfg \in [Jobs -> MayBe] /\ meant' \in [Jobs -> MayBe]
    BY <1>7, <1>8, <1>9
  <1>11. /\ file' = cfg
         /\ \A k \in Jobs : JobFile!Loaded'[k] =
              IF cfg[k] # JobFile!NoRow /\ cfg[k].name # JobFile!Nothing THEN cfg[k] ELSE JobFile!NoRow
    BY <1>3, <1>8, <1>10, SavedIsLoaded
  <1>12. JobFile!TypeOK'
    BY <1>1, <1>3, <1>10, <1>11 DEF JobFile!TypeOK, MayBe
  <1>13. Recorded'
    <2> SUFFICES ASSUME NEW k \in Jobs, meant'[k] # JobFile!NoRow
                 PROVE  /\ Normal(meant'[k])
                        /\ \/ file'[k] = meant'[k]
                           \/ meant'[k].name = JobFile!Nothing /\ file'[k] = JobFile!NoRow
      BY DEF Recorded
    <2>1. k # j /\ meant'[k] = Without(meant[k]) /\ file'[k] = Without(JobFile!Loaded[k])
      BY <1>5, <1>6, <1>11
    <2>2. meant[k] \in MayBe /\ (meant[k] # JobFile!NoRow => Normal(meant[k]))
      BY <1>1 DEF RowsInv, Recorded
    <2>3. /\ meant[k] # JobFile!NoRow /\ Normal(meant'[k]) /\ meant'[k].name = meant[k].name
      BY <1>4, <2>1, <2>2
    <2>4. meant[k] \in JobFile!Rows
      BY <2>2, <2>3 DEF MayBe
    <2>5. file[k] = meant[k] \/ (meant[k].name = JobFile!Nothing /\ file[k] = JobFile!NoRow)
      BY <2>3 DEF RowsInv, Recorded
    <2>6. JobFile!Loaded[k] = IF JobFile!Loads(file[k]) THEN JobFile!Job(file[k]) ELSE JobFile!NoRow
      BY DEF JobFile!Loaded
    <2>7. /\ JobFile!Loads(meant[k]) <=> meant[k].name # JobFile!Nothing
          /\ JobFile!Job(meant[k]) = meant[k]
      BY <2>2, <2>3, <2>4, NormalLoads
    <2>8. ~JobFile!Loads(JobFile!NoRow)
      BY DEF JobFile!Loads
    <2>9. \/ JobFile!Loaded[k] = meant[k]
          \/ meant[k].name = JobFile!Nothing /\ JobFile!Loaded[k] = JobFile!NoRow
      BY <2>5, <2>6, <2>7, <2>8
    <2>10. Without(JobFile!NoRow) = JobFile!NoRow
      BY DEF Without
    <2> QED BY <2>1, <2>3, <2>9, <2>10
  <1>14. JobFile!ChainsLead'
    <2> SUFFICES ASSUME NEW k \in Jobs, JobFile!Loaded'[k] # JobFile!NoRow,
                        NEW x \in JobFile!Loaded'[k].chain
                 PROVE  x \in Jobs /\ (JobFile!Loaded'[x] # JobFile!NoRow \/ JobFile!Blanked(x)')
      BY DEF JobFile!ChainsLead, JobFile!Known
    <2>1. JobFile!Loaded'[k] = cfg[k] /\ cfg[k] # JobFile!NoRow
      BY <1>11
    <2>2. k # j /\ cfg[k] = Without(JobFile!Loaded[k])
      BY <1>5, <2>1
    <2>3. JobFile!Loaded[k] \in MayBe /\ (JobFile!Loaded[k] # JobFile!NoRow => Normal(JobFile!Loaded[k]))
      BY <1>2
    <2>4. JobFile!Loaded[k] # JobFile!NoRow /\ cfg[k].chain = JobFile!Loaded[k].chain \ {j}
      BY <1>4, <2>1, <2>2, <2>3
    <2>5. x \in JobFile!Loaded[k].chain /\ x # j /\ x \in Jobs
      BY <2>1, <2>3, <2>4 DEF MayBe, JobFile!Rows
    <2>6. JobFile!Loaded[x] # JobFile!NoRow \/ JobFile!Blanked(x)
      BY <2>4, <2>5 DEF RowsInv, JobFile!ChainsLead, JobFile!Known
    <2>7. CASE JobFile!Blanked(x)
      <3>1. meant[x] \in MayBe /\ meant[x] # JobFile!NoRow /\ Normal(meant[x])
            /\ meant[x].name = JobFile!Nothing
        BY <1>1, <2>5, <2>7 DEF JobFile!Blanked, RowsInv, Recorded
      <3>2. meant'[x] = Without(meant[x])
        BY <1>6, <2>5
      <3>3. meant'[x] # JobFile!NoRow /\ meant'[x].name = JobFile!Nothing
        BY <1>4, <3>1, <3>2
      <3> QED BY <2>5, <3>3 DEF JobFile!Blanked
    <2>8. CASE JobFile!Loaded[x] # JobFile!NoRow
      <3>1. JobFile!Loaded[x] \in MayBe /\ Normal(JobFile!Loaded[x])
            /\ JobFile!Loaded[x].name # JobFile!Nothing
        BY <1>1, <1>2, <2>5, <2>8, LoadedFacts
      <3>2. cfg[x] = Without(JobFile!Loaded[x])
        BY <1>5, <2>5
      <3>3. cfg[x] # JobFile!NoRow /\ cfg[x].name # JobFile!Nothing
        BY <1>4, <2>8, <3>1, <3>2
      <3> QED BY <1>11, <2>5, <3>3
    <2> QED BY <2>6, <2>7, <2>8
  <1> QED BY <1>12, <1>13, <1>14 DEF RowsInv

LEMMA RowsInitial == ASSUME RowsAssumption, JobFile!Init PROVE RowsInv
  <1>1. /\ file = Stored /\ disk = DOMAIN Suffix /\ wsl \in BOOLEAN /\ edits = 0
        /\ meant = [j \in Jobs |-> JobFile!NoRow]
    BY DEF JobFile!Init
  <1>2. JobFile!TypeOK
    BY <1>1 DEF RowsAssumption, JobFile!TypeOK, MayBe
  <1>3. Recorded
    BY <1>1 DEF Recorded
  <1>4. JobFile!ChainsLead
    <2> SUFFICES ASSUME NEW j \in Jobs, JobFile!Loaded[j] # JobFile!NoRow, NEW k \in JobFile!Loaded[j].chain
                 PROVE  k \in Jobs /\ JobFile!Loaded[k] # JobFile!NoRow
      BY DEF JobFile!ChainsLead, JobFile!Known
    <2>1. file \in [Jobs -> MayBe]
      BY <1>1 DEF RowsAssumption
    <2>2. file[j] \in JobFile!Rows /\ JobFile!Loads(file[j]) /\ JobFile!Loaded[j].chain = file[j].chain
      BY <2>1, LoadedFacts, JobFacts
    <2>3. k \in Jobs /\ JobFile!Loads(file[k])
      BY <1>1, <2>2 DEF RowsAssumption
    <2>4. file[k] \in JobFile!Rows /\ JobFile!Loaded[k] = JobFile!Job(file[k])
      BY <2>1, <2>3 DEF JobFile!Loaded, JobFile!Loads, MayBe
    <2>5. JobFile!Job(file[k]) # JobFile!NoRow
      BY <2>4, JobFacts, NoRowIsNone
    <2> QED BY <2>3, <2>4, <2>5
  <1> QED BY <1>2, <1>3, <1>4 DEF RowsInv

(* What an accepted save said is what every later load gives, a row blanked *)
(* by its own rename apart; a job accepted starts as long as its script is  *)
(* there, unless its arguments or its timeout are at fault; and chains lead *)
(* to jobs that load, but for those to a blanked one (create_job, edit_job, *)
(* delete_job, load_jobs, job_from_dict, preflight).                        *)
THEOREM RowsKeptAlways ==
  ASSUME RowsAssumption
  PROVE  JobFile!Spec => [](JobFile!TypeOK /\ JobFile!RowsKept)
  <1>1. JobFile!Init => RowsInv
    BY RowsInitial
  <1>2. ASSUME RowsInv, [JobFile!Next]_(JobFile!vars) PROVE RowsInv'
    <2>1. CASE UNCHANGED JobFile!vars
      BY <1>2, <2>1 DEF JobFile!vars, RowsInv, Recorded, JobFile!TypeOK, JobFile!ChainsLead,
           JobFile!Loaded, JobFile!Blanked
    <2>2. ASSUME NEW j \in Jobs, NEW draft \in Drafts, NEW acknowledged \in BOOLEAN,
                 JobFile!CreateJob(j, draft, acknowledged)
          PROVE  RowsInv'
      BY <1>2, <2>2, CreateRowStep
    <2>3. ASSUME NEW j \in Jobs, NEW patch \in Patches, NEW acknowledged \in BOOLEAN,
                 JobFile!EditJob(j, patch, acknowledged)
          PROVE  RowsInv'
      BY <1>2, <2>3, EditRowStep
    <2>4. ASSUME NEW j \in Jobs, JobFile!DeleteJob(j) PROVE RowsInv'
      BY <1>2, <2>4, DeleteRowStep
    <2>5. ASSUME NEW script \in DOMAIN Suffix, JobFile!DiskChanges(script) PROVE RowsInv'
      <3>1. UNCHANGED <<file, wsl, meant>> /\ edits' \in 0 .. MaxEdits /\ disk' \subseteq DOMAIN Suffix
        BY <1>2, <2>5 DEF JobFile!DiskChanges, RowsInv, JobFile!TypeOK, RowsAssumption
      <3> QED BY <1>2, <3>1 DEF RowsInv, Recorded, JobFile!TypeOK, JobFile!ChainsLead,
               JobFile!Loaded, JobFile!Blanked
    <2> QED BY <1>2, <2>1, <2>2, <2>3, <2>4, <2>5 DEF JobFile!Next
  <1>3. ASSUME RowsInv PROVE JobFile!TypeOK /\ JobFile!RowsKept
    <2>1. file \in [Jobs -> MayBe] /\ meant \in [Jobs -> MayBe]
      BY <1>3 DEF RowsInv, JobFile!TypeOK, MayBe
    <2>2. ASSUME NEW j \in Jobs, meant[j] # JobFile!NoRow
          PROVE  /\ meant[j] \in JobFile!Rows /\ Normal(meant[j])
                 /\ file[j] = meant[j] \/ (JobFile!Blanked(j) /\ file[j] = JobFile!NoRow)
      BY <1>3, <2>1, <2>2 DEF RowsInv, Recorded, MayBe, JobFile!Blanked
    <2>3. JobFile!AcceptedIsLoaded
      <3> SUFFICES ASSUME NEW j \in Jobs, meant[j] # JobFile!NoRow
                   PROVE  JobFile!Loaded[j] = IF JobFile!Blanked(j) THEN JobFile!NoRow ELSE meant[j]
        BY DEF JobFile!AcceptedIsLoaded
      <3>1. JobFile!Loaded[j] = IF JobFile!Loads(file[j]) THEN JobFile!Job(file[j]) ELSE JobFile!NoRow
        BY DEF JobFile!Loaded
      <3>2. /\ JobFile!Loads(meant[j]) <=> meant[j].name # JobFile!Nothing
            /\ JobFile!Job(meant[j]) = meant[j]
        BY <2>2, NormalLoads
      <3>3. ~JobFile!Loads(JobFile!NoRow)
        BY DEF JobFile!Loads
      <3> QED BY <2>2, <3>1, <3>2, <3>3 DEF JobFile!Blanked
    <2>4. JobFile!AcceptedStarts
      <3> SUFFICES ASSUME NEW j \in Jobs, meant[j] # JobFile!NoRow, ~JobFile!Starts(meant[j])
                   PROVE  \/ meant[j].script # JobFile!Nothing /\ meant[j].script \notin disk
                          \/ meant[j].args = "cmd characters"
                          \/ meant[j].config = "url with a word for timeout"
        BY DEF JobFile!AcceptedStarts
      <3>1. JobFile!ShapeHolds(meant[j])
        BY <2>2 DEF Normal
      <3>2. JobFile!KindOf(meant[j]) \in JobFile!FileKinds => meant[j].script # JobFile!Nothing
        <4>1. JobFile!Nothing # "inline-shell" /\ JobFile!Nothing # "http-check"
          BY Zenon DEF JobFile!Nothing
        <4> QED BY <3>1, <4>1 DEF JobFile!ShapeHolds, JobFile!KindOf, JobFile!FileKinds
      <3> QED BY <3>2 DEF JobFile!Starts
    <2> QED BY <1>3, <2>3, <2>4 DEF JobFile!RowsKept, RowsInv
  <1> QED BY <1>1, <1>2, <1>3, PTL DEF JobFile!Spec

=============================================================================
