---------------------------- MODULE JobsRegistry ----------------------------
(***************************************************************************)
(* config/jobs.json and the Task Scheduler entries made from it.           *)
(*   - the webapp's routes load the file, edit it and save it without an   *)
(*     await in between, then sync the job's tasks in a worker thread;     *)
(*   - the executor of a once job cleans up after itself in a process of   *)
(*     its own: deletes the task, loads, edits and saves the same file.    *)
(* Nothing locks the file across the two processes, and nothing keeps two  *)
(* syncs of one job apart.                                                 *)
(***************************************************************************)
EXTENDS Integers, FiniteSets

CONSTANTS
  Jobs,           \* job ids
  Types,          \* schedule types: "none", "once", "daily_times" and those with one task
  Lookalike,      \* <<job, slot>> -> the job whose id is spelled like that slot
  StoredRows,     \* the registry as found: job -> row or Absent
  MaxEvents       \* bound: accepted edits, once runs and failing schtasks calls together

Slots == 1 .. 2   \* at-times of a daily_times schedule (_MAX_DAILY_TIMES_VARIANTS)

Absent == [absent |-> TRUE]
NotParked == "not parked"
NoTask == [nothing |-> TRUE]

Rows == [schedule : Types, parked : Types \cup {NotParked},
         chain : SUBSET Jobs, elevated : BOOLEAN]
Files == [Jobs -> Rows \cup {Absent}]

VARIABLES
  file,       \* jobs.json
  route,      \* the route between its load and its save
  writers,    \* syncs in worker threads and cleanups in executors
  tasks,      \* Task Scheduler: task name -> what it fires
  synced,     \* history: the last writer on the job's tasks ran alone and unfailing
  spent       \* bound: how many events of each kind there were

vars == <<file, route, writers, tasks, synced, spent>>

-----------------------------------------------------------------------------
\* Task names.  Slot 0 stands for the job's bare task.

TaskName(j, slot) ==
  IF <<j, slot>> \in DOMAIN Lookalike THEN <<Lookalike[<<j, slot>>], 0>> ELSE <<j, slot>>

Bare(j) == TaskName(j, 0)
Names == {TaskName(j, s) : j \in Jobs, s \in {0} \cup Slots}

\* Mutant of Owns: a sibling spelled like a slot is not told apart.
OwnsBySpelling(j, others, name) == \E s \in {0} \cup Slots : name = TaskName(j, s)

Owns(j, others, name) ==
  \/ name = Bare(j)
  \/ \E s \in Slots : name = TaskName(j, s) /\ name \notin {Bare(k) : k \in others}

SlotsOf(schedule) ==
  CASE schedule = "none" -> {}
    [] schedule = "daily_times" -> Slots
    [] OTHER -> {0}

\* What a sync wants to exist for a row: name -> what the task fires.
Wanted(j, schedule) ==
  {<<TaskName(j, s), [job |-> j, schedule |-> schedule, slot |-> s]>> : s \in SlotsOf(schedule)}

\* The schedule of a row as far as the webapp registers it.
Fires(row) == IF row = Absent THEN "none" ELSE IF row.elevated THEN "none" ELSE row.schedule

\* Jobs other than j that have a task under this name, which is j's by its spelling.
Usurped(j, name) ==
  {k \in Jobs \ {j} : \E t \in Wanted(k, Fires(file[k])) : t[1] = name}
Outdated(set) == [k \in Jobs |-> synced[k] /\ k \notin set]

Known == {n \in Names : tasks[n] # NoTask}
Kin(j) == {k \in Jobs : k = j \/ \E s \in Slots : TaskName(j, s) = Bare(k) \/ TaskName(k, s) = Bare(j)}

-----------------------------------------------------------------------------
\* Edits of a loaded registry.

Ids(cfg) == {j \in Jobs : cfg[j] # Absent}

\* A set of jobs each of which chains to another one of them: some cycle exists.
DetectChainCycle(cfg) ==
  \E loop \in (SUBSET Ids(cfg)) \ {{}} : \A j \in loop : cfg[j].chain \cap loop # {}

CheckChainReferences(cfg) == \A j \in Ids(cfg) : cfg[j].chain \subseteq Ids(cfg) \ {j}

ValidateChainConsistency(cfg) == CheckChainReferences(cfg) /\ ~DetectChainCycle(cfg)

Row(schedule, chain) ==
  [schedule |-> schedule, parked |-> NotParked, chain |-> chain, elevated |-> FALSE]

AddJob(cfg, j, schedule, chain) == [cfg EXCEPT ![j] = Row(schedule, chain)]

PauseJob(cfg, j) ==
  IF cfg[j].parked # NotParked THEN cfg
  ELSE [cfg EXCEPT ![j].parked = cfg[j].schedule, ![j].schedule = "none"]

ResumeJob(cfg, j) ==
  IF cfg[j].parked = NotParked THEN cfg
  ELSE [cfg EXCEPT ![j].schedule = cfg[j].parked, ![j].parked = NotParked]

\* Mutant of RemoveById: chains to the removed job stay.
RemoveByIdOnly(cfg, j) == [cfg EXCEPT ![j] = Absent]

RemoveById(cfg, j) ==
  [k \in Jobs |-> IF k = j \/ cfg[k] = Absent THEN Absent
                  ELSE [cfg[k] EXCEPT !.chain = @ \ {j}]]

Requests ==
  [kind : {"add"}, job : Jobs, schedule : Types, chain : SUBSET Jobs]
    \cup [kind : {"schedule"}, job : Jobs, schedule : Types]
    \cup [kind : {"chain"}, job : Jobs, chain : SUBSET Jobs]
    \cup [kind : {"elevated"}, job : Jobs, elevated : BOOLEAN]
    \cup [kind : {"pause", "resume", "delete"}, job : Jobs]

After(cfg, r) ==
  CASE r.kind = "add" -> AddJob(cfg, r.job, r.schedule, r.chain)
    [] r.kind = "schedule" -> [cfg EXCEPT ![r.job].schedule = r.schedule]
    [] r.kind = "chain" -> [cfg EXCEPT ![r.job].chain = r.chain]
    [] r.kind = "elevated" -> [cfg EXCEPT ![r.job].elevated = r.elevated]
    [] r.kind = "pause" -> PauseJob(cfg, r.job)
    [] r.kind = "resume" -> ResumeJob(cfg, r.job)
    [] r.kind = "delete" -> RemoveById(cfg, r.job)

Accepted(cfg, r) ==
  /\ (r.kind = "add") = (cfg[r.job] = Absent)
  /\ r.kind \in {"pause", "resume"} => ~cfg[r.job].elevated
  /\ r.kind = "pause" => cfg[r.job].parked # NotParked \/ cfg[r.job].schedule # "none"
  /\ r.kind \in {"add", "chain"} => ValidateChainConsistency(After(cfg, r))

-----------------------------------------------------------------------------
\* Writers: a sync, the deletion that follows a removed job, an executor's cleanup.

Idle == [kind |-> "none"]
Writer(kind, j, row, at) ==
  [kind |-> kind, job |-> j, row |-> row, at |-> at, known |-> {}, todo |-> {},
   alone |-> TRUE, cfg |-> StoredRows]

Working(w) == w.kind # "none" /\ w.at # "running"
Rivals(ws, j) == {i \in DOMAIN ws : Working(ws[i]) /\ ws[i].job \in Kin(j)}

\* One more writer on j starts: it and those already at work on the same names overlap.
Begin(ws, i, w) ==
  LET met == Rivals(ws, w.job) \ {i} IN
  [k \in DOMAIN ws |->
     IF k = i THEN [w EXCEPT !.alone = @ /\ met = {}]
     ELSE IF k \in met THEN [ws[k] EXCEPT !.alone = FALSE] ELSE ws[k]]

\* What a save for job j does to the rows of others, which it writes as they were when it
\* loaded them; the jobs that share a name with one of those count as well.
Changed(saved) == {k \in Jobs : \/ Fires(saved[k]) # Fires(file[k])
                                \/ (saved[k] = Absent) # (file[k] = Absent)}
TakenBack(saved, j) == UNION {Kin(k) : k \in Changed(saved) \ {j}}

\* The writers at work on those jobs sync what the file no longer says.
Disturb(ws, set) ==
  [i \in DOMAIN ws |-> IF Working(ws[i]) /\ ws[i].job \in set
                       THEN [ws[i] EXCEPT !.alone = FALSE] ELSE ws[i]]

Free(i) == writers[i] = Idle
Spare(i) == Free(i) /\ \A k \in DOMAIN writers : Free(k) => i <= k
At(i, kind, step) == writers[i].kind \in kind /\ writers[i].at = step
Deleting == {"sync", "delete", "cleanup"}

Init ==
  /\ file = StoredRows
  /\ route = Idle
  /\ writers = [i \in 1 .. MaxEvents |-> Idle]
  /\ tasks = [n \in Names |->
       LET made == UNION {Wanted(j, StoredRows[j].schedule) : j \in Ids(StoredRows)}
       IN  IF \E t \in made : t[1] = n THEN (CHOOSE t \in made : t[1] = n)[2] ELSE NoTask]
  /\ synced = [j \in Jobs |-> /\ StoredRows[j] = Absent \/ ~StoredRows[j].elevated
                             /\ \A t \in Wanted(j, Fires(StoredRows[j])) : tasks[t[1]] = t[2]]
  /\ spent = [edits |-> 0, runs |-> 0, faults |-> 0]

MayHappen == spent.edits + spent.runs + spent.faults < MaxEvents
Spend(kind) == spent' = [spent EXCEPT ![kind] = @ + 1]

\* create_job, edit_job, delete_job, pause, resume: the event loop loads the registry ...
RouteLoad(r) ==
  /\ route = Idle
  /\ MayHappen
  /\ route' = [kind |-> "route", request |-> r, cfg |-> file]
  /\ Spend("edits")
  /\ UNCHANGED <<file, writers, tasks, synced>>

RouteRefused ==
  /\ route # Idle /\ ~Accepted(route.cfg, route.request)
  /\ route' = Idle
  /\ spent' = [spent EXCEPT !.edits = @ - 1]
  /\ UNCHANGED <<file, writers, tasks, synced>>

\* ... and saves the whole of it, edited; only then does a worker thread sync the tasks.
RouteSave ==
  /\ route # Idle /\ Accepted(route.cfg, route.request)
  /\ LET r == route.request
         j == r.job
         cfg == After(route.cfg, r)
         unsaved == r.kind \in {"pause", "resume"} /\ cfg = route.cfg
         saved == IF unsaved THEN file ELSE cfg
     IN  /\ file' = saved
         /\ LET kind == IF r.kind = "delete" THEN "delete" ELSE "sync"
                w == [Writer(kind, j, cfg[j], "query") EXCEPT !.alone = Fires(cfg[j]) = Fires(saved[j])]
            IN  \E i \in DOMAIN writers :
                  Spare(i) /\ writers' = Begin(Disturb(writers, TakenBack(saved, j)), i, w)
         /\ synced' = Outdated({j} \cup TakenBack(saved, j))
  /\ route' = Idle
  /\ UNCHANGED <<tasks, spent>>

\* Task Scheduler fires a once job: the executor reads the registry when it starts.
OnceFires(j) ==
  /\ \E n \in Names : tasks[n] # NoTask /\ tasks[n].job = j
  /\ file[j] # Absent /\ file[j].schedule = "once" /\ file[j].parked = NotParked
  /\ MayHappen /\ Spend("runs")
  /\ \E i \in DOMAIN writers : Spare(i) /\ writers' = [writers EXCEPT ![i] = Writer("cleanup", j, file[j], "running")]
  /\ UNCHANGED <<file, route, tasks, synced>>

\* _cleanup_once_schedule, at the end of the run, acts on what it read at the start.
CleanupBegins(i) ==
  /\ At(i, {"cleanup"}, "running")
  /\ LET w == writers[i] IN
       /\ writers' = Begin(writers, i, [w EXCEPT !.at = "query", !.alone = (file[w.job] = w.row)])
       /\ synced' = [synced EXCEPT ![w.job] = FALSE]
  /\ UNCHANGED <<file, route, tasks, spent>>

\* delete_schtasks: list_known_tasks, or every name the job could have when the query fails.
Query(i) ==
  /\ At(i, Deleting, "query")
  /\ \/ /\ writers' = [writers EXCEPT ![i].known = Known, ![i].at = "others"]
        /\ UNCHANGED spent
     \/ /\ MayHappen /\ Spend("faults")
        /\ writers' = [writers EXCEPT ![i].known = {TaskName(writers[i].job, s) : s \in {0} \cup Slots},
                                      ![i].at = "others"]
  /\ UNCHANGED <<file, route, tasks, synced>>

\* _other_job_ids: whose bare tasks those names might be, read from the file as it is now.
Others(i) ==
  /\ At(i, Deleting, "others")
  /\ LET w == writers[i] IN
       writers' = [writers EXCEPT ![i].todo = {n \in w.known : Owns(w.job, Ids(file) \ {w.job}, n)},
                                  ![i].known = {}, ![i].at = "delete"]
  /\ UNCHANGED <<file, route, tasks, synced, spent>>

DeleteTask(i) ==
  /\ At(i, Deleting, "delete")
  /\ \E n \in writers[i].todo :
       \/ /\ tasks' = [tasks EXCEPT ![n] = NoTask]
          /\ writers' = [writers EXCEPT ![i].todo = @ \ {n}]
          /\ synced' = Outdated(IF n = Bare(writers[i].job) THEN Usurped(writers[i].job, n) ELSE {})
          /\ UNCHANGED spent
       \/ /\ MayHappen /\ Spend("faults")
          /\ writers' = [writers EXCEPT ![i].todo = @ \ {n}, ![i].alone = FALSE]
          /\ synced' = Outdated(IF tasks[n] = NoTask THEN {} ELSE {tasks[n].job})
          /\ UNCHANGED tasks
  /\ UNCHANGED <<file, route>>

Finish(i, past) ==
  /\ writers' = [writers EXCEPT ![i] = Idle]
  /\ synced' = [past EXCEPT ![writers[i].job] = writers[i].alone]

\* Everything of the old schedule is gone: create the new one's tasks, if any.
Deleted(i) ==
  /\ At(i, Deleting, "delete") /\ writers[i].todo = {}
  /\ LET w == writers[i] IN
     \/ /\ w.kind = "cleanup"
        /\ writers' = [writers EXCEPT ![i].at = "load"]
        /\ UNCHANGED synced
     \/ /\ w.kind = "sync" /\ ~w.row.elevated
        /\ writers' = [writers EXCEPT ![i].todo = {t[1] : t \in Wanted(w.job, w.row.schedule)},
                                      ![i].at = "create"]
        /\ UNCHANGED synced
     \/ /\ w.kind = "delete" \/ (w.kind = "sync" /\ w.row.elevated)
        /\ Finish(i, synced)
  /\ UNCHANGED <<file, route, tasks, spent>>

CreateTask(i) ==
  /\ At(i, {"sync"}, "create")
  /\ \E t \in Wanted(writers[i].job, writers[i].row.schedule) :
       /\ t[1] \in writers[i].todo
       /\ \/ /\ tasks' = [tasks EXCEPT ![t[1]] = t[2]]
             /\ writers' = [writers EXCEPT ![i].todo = @ \ {t[1]}]
             /\ synced' = Outdated(Usurped(writers[i].job, t[1]))
             /\ UNCHANGED spent
          \/ /\ MayHappen /\ Spend("faults")
             /\ writers' = [writers EXCEPT ![i].todo = @ \ {t[1]}, ![i].alone = FALSE]
             /\ UNCHANGED <<tasks, synced>>
  /\ UNCHANGED <<file, route>>

Created(i) ==
  /\ At(i, {"sync"}, "create") /\ writers[i].todo = {}
  /\ Finish(i, synced)
  /\ UNCHANGED <<file, route, tasks, spent>>

\* The cleanup's own read-modify-write of the registry.
CleanupLoad(i) ==
  /\ At(i, {"cleanup"}, "load")
  /\ writers' = [writers EXCEPT ![i].cfg = file, ![i].at = "save"]
  /\ UNCHANGED <<file, route, tasks, synced, spent>>

CleanupSave(i) ==
  /\ At(i, {"cleanup"}, "save")
  /\ LET j == writers[i].job
         cfg == writers[i].cfg
         once == cfg[j] # Absent /\ cfg[j].schedule = "once"
         saved == IF once THEN [cfg EXCEPT ![j].schedule = "none"] ELSE file
     IN  /\ file' = saved
         /\ synced' = [Outdated(TakenBack(saved, j)) EXCEPT ![j] = once /\ writers[i].alone]
         /\ writers' = Disturb([writers EXCEPT ![i] = Idle], TakenBack(saved, j))
  /\ UNCHANGED <<route, tasks, spent>>

Quiet == route = Idle /\ \A i \in DOMAIN writers : Free(i)
Rest == Quiet /\ ~MayHappen /\ UNCHANGED vars

Next ==
  \/ \E r \in Requests : RouteLoad(r)
  \/ RouteRefused \/ RouteSave
  \/ \E j \in Jobs : OnceFires(j)
  \/ \E i \in DOMAIN writers :
       \/ CleanupBegins(i) \/ Query(i) \/ Others(i) \/ DeleteTask(i) \/ Deleted(i)
       \/ CreateTask(i) \/ Created(i) \/ CleanupLoad(i) \/ CleanupSave(i)
  \/ Rest

Spec == Init /\ [][Next]_vars

-----------------------------------------------------------------------------
TypeOK ==
  /\ file \in Files
  /\ tasks \in [Names -> {NoTask} \cup [job : Jobs, schedule : Types, slot : {0} \cup Slots]]
  /\ synced \in [Jobs -> BOOLEAN]
  /\ spent \in [{"edits", "runs", "faults"} -> 0 .. MaxEvents]

(* Whatever edits, cleanups and lost updates go by, the stored chains name  *)
(* existing jobs only and can be put in an order: a finishing run never     *)
(* dispatches a loop (_validate_chain_consistency, remove_by_id).           *)
ChainsSound ==
  /\ \A j \in Ids(file) : file[j].chain \subseteq Ids(file)
  /\ \E rank \in [Jobs -> 1 .. Cardinality(Jobs)] :
       \A j \in Ids(file) : \A k \in file[j].chain : rank[j] < rank[k]

Clashes(j) ==
  \E k \in Ids(file) \ {j} : \E t \in Wanted(j, Fires(file[j])) : t[1] = Bare(k)

(* Once a job's last sync (or deletion, or cleanup) ran without a rival on  *)
(* the same names and without a failing call, Task Scheduler holds exactly  *)
(* what the file says of it: no entry of an older schedule is left, none of *)
(* the new is missing, and no sync of a sibling whose id is spelled like a  *)
(* slot has taken one away (sync_schtasks, delete_schtasks, owns_task).     *)
TasksFollowFile ==
  \A j \in Jobs :
    synced[j] /\ Rivals(writers, j) = {} /\ ~Clashes(j) =>
      {<<n, tasks[n]>> : n \in {m \in Known : tasks[m].job = j /\ Owns(j, Ids(file) \ {j}, m)}}
        = Wanted(j, Fires(file[j]))
=============================================================================
