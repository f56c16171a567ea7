---------------------------- MODULE CoverageCache ----------------------------
(***************************************************************************)
(* What /api/jobs says of a job's Task Scheduler entry, through the cache *)
(* of the schtasks query and the cache of the coverage scan.  A route     *)
(* rewrites the entry and then drops both caches; a poll queries under    *)
(* the lock of the first cache but scans without that of the second.      *)
(***************************************************************************)
EXTENDS Integers

CONSTANTS
  Pollers,        \* threads that serve polls
  TaskTtl,        \* _NEXT_RUN_TTL_SECONDS
  CoverageTtl,    \* _COVERAGE_TTL_SECONDS
  MaxClock        \* bound: ticks

VARIABLES
  monotonic,
  entry,          \* the entry in Task Scheduler: "ok" or "missing"
  rewriting,      \* a route has rewritten the entry and not yet dropped the caches
  taskCache,      \* _next_run_cache: when, and what the query said
  coverageCache,  \* _coverage_cache: when, and the verdict on the entry
  poll,           \* poller -> the scan it has under way
  lastSeen        \* history: entry state -> when it last was so

vars == <<monotonic, entry, rewriting, taskCache, coverageCache, poll, lastSeen>>

EntryStates == {"ok", "missing"}
Nothing == [at |-> -1, task |-> "unknown"]
Fresh(cache, ttl) == cache # Nothing /\ monotonic - cache.at < ttl

Init ==
  /\ monotonic = 0 /\ entry = "ok" /\ rewriting = FALSE
  /\ taskCache = Nothing /\ coverageCache = Nothing
  /\ poll = [p \in Pollers |-> Nothing]
  /\ lastSeen = [s \in EntryStates |-> 0]

Tick ==
  /\ monotonic < MaxClock /\ monotonic' = monotonic + 1
  /\ lastSeen' = [lastSeen EXCEPT ![entry] = monotonic + 1]
  /\ UNCHANGED <<entry, rewriting, taskCache, coverageCache, poll>>

Becomes(state) ==
  /\ entry # state /\ entry' = state
  /\ lastSeen' = [lastSeen EXCEPT ![state] = monotonic]

\* The entry is deleted behind the launcher's back.
Vanish == Becomes("missing") /\ UNCHANGED <<monotonic, rewriting, taskCache, coverageCache, poll>>

\* sync_schtasks has put the entry back.
Rewrite ==
  /\ Becomes("ok") /\ ~rewriting /\ rewriting' = TRUE
  /\ UNCHANGED <<monotonic, taskCache, coverageCache, poll>>

\* invalidate_next_run_cache and with it invalidate_coverage_cache.
Invalidate ==
  /\ rewriting /\ rewriting' = FALSE
  /\ taskCache' = Nothing /\ coverageCache' = Nothing
  /\ UNCHANGED <<monotonic, entry, poll, lastSeen>>

\* The cached query while it is fresh, else one that may fail; a failure is cached too.
Queried ==
  IF Fresh(taskCache, TaskTtl) THEN {taskCache}
  ELSE {[at |-> monotonic, task |-> t] : t \in {entry, "unknown"}}

\* A poll that misses the cache scans, and remembers when it began.
PollScans(p) ==
  /\ poll[p] = Nothing /\ ~Fresh(coverageCache, CoverageTtl)
  /\ \E record \in Queried :
       /\ taskCache' = record
       /\ poll' = [poll EXCEPT ![p] = [at |-> monotonic, task |-> record.task]]
  /\ UNCHANGED <<monotonic, entry, rewriting, coverageCache, lastSeen>>

\* Mutant of PollStores: the scan counts from when it ends.
PollStoresLate(p) ==
  /\ poll[p] # Nothing
  /\ coverageCache' = [poll[p] EXCEPT !.at = monotonic] /\ poll' = [poll EXCEPT ![p] = Nothing]
  /\ UNCHANGED <<monotonic, entry, rewriting, taskCache, lastSeen>>

PollStores(p) ==
  /\ poll[p] # Nothing
  /\ coverageCache' = poll[p] /\ poll' = [poll EXCEPT ![p] = Nothing]
  /\ UNCHANGED <<monotonic, entry, rewriting, taskCache, lastSeen>>

\* The hourly check scans past the coverage cache and drops it.
Check ==
  /\ taskCache' \in Queried /\ coverageCache' = Nothing
  /\ UNCHANGED <<monotonic, entry, rewriting, poll, lastSeen>>

Next ==
  \/ Tick \/ Vanish \/ Rewrite \/ Invalidate \/ Check
  \/ \E p \in Pollers : PollScans(p) \/ PollStores(p)

Spec == Init /\ [][Next]_vars

-----------------------------------------------------------------------------
TypeOK ==
  /\ entry \in EntryStates
  /\ taskCache.task \in EntryStates \cup {"unknown"}
  /\ coverageCache.task \in EntryStates \cup {"unknown"}

(* What a poll is served from the cache was so no longer ago than the two   *)
(* caches keep it, however long a scan took and whether or not a route      *)
(* dropped the caches while it ran (coverage_map takes the time before it   *)
(* scans; _cached_bulk_records).                                            *)
ServedRecent ==
  LET known == coverageCache.task IN
  Fresh(coverageCache, CoverageTtl) /\ known \in EntryStates =>
    monotonic - lastSeen[known] < TaskTtl + CoverageTtl
=============================================================================
