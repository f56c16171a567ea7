------------------------------- MODULE JobRuns -------------------------------
(***************************************************************************)
(* Job execution: run records, mutex groups and the actors that share them.*)
(*                                                                         *)
(* Three kinds of process meet in the files under webapp/jobs:             *)
(*   - handlers   the webapp's request tasks: fire a job, kill a run, poll *)
(*                the job list (which reaps stranded runs), dry-run;       *)
(*   - executors  one `launcher.py run-job` process per fire, started by   *)
(*                Task Scheduler (no run id) or spawned detached by a      *)
(*                handler or by another executor (with a run id);          *)
(*   - children   the job's own process, started by its executor.          *)
(* They share one run.json per run and one queue file; there is no process *)
(* that owns either.  Every file access is one atomic step (the files are  *)
(* swapped with os.replace under an interprocess lock); everything between *)
(* two accesses interleaves with everybody else's.                         *)
(***************************************************************************)
EXTENDS Integers, FiniteSets, Sequences

CONSTANTS
  NumJobs,       \* the registry holds jobs 1..NumJobs, in list order
  Groups,        \* mutex groups
  NoGroup,       \* the mutex_group of a job that has none
  Group,         \* job -> its mutex_group
  OnSuccess,     \* job -> sequence of downstream jobs
  OnFailure,
  Handlers,      \* request tasks of the webapp
  Executors,     \* run-job processes that may exist at once
  MaxRuns,       \* bound: run directories ever created
  MaxFires,      \* bound: fires that come from outside (user, scheduler)
  MaxCrashes,    \* bound: processes that die at an arbitrary point
  Keep,          \* MAX_RUNS_PER_JOB
  CooldownJobs,  \* jobs with a cooldown
  Ops,           \* kinds of request the environment issues
  SpawnMayFail,  \* whether starting run-job may raise OSError
  BuildMayFail   \* whether building the invocation or its env may fail

Jobs == 1 .. NumJobs
RunIds == 1 .. MaxRuns
Actors == Handlers \cup Executors
AllOps == {"manual", "scheduled", "kill", "poll", "dry_execute", "dry_check", "delete"}

ASSUME JobsAssumption == NumJobs \in Nat /\ MaxRuns \in Nat
ASSUME GroupAssumption == /\ NoGroup \notin Groups
                          /\ Group \in [Jobs -> Groups \cup {NoGroup}]
ASSUME ChainAssumption == /\ OnSuccess \in [Jobs -> Seq(Jobs)]
                          /\ OnFailure \in [Jobs -> Seq(Jobs)]
ASSUME ActorAssumption == Handlers \cap Executors = {}
ASSUME BoundAssumption == /\ MaxFires \in Nat /\ MaxCrashes \in Nat
                          /\ Keep \in Nat \ {0}
ASSUME FeatureAssumption == /\ CooldownJobs \subseteq Jobs
                            /\ Ops \subseteq AllOps
                            /\ SpawnMayFail \in BOOLEAN /\ BuildMayFail \in BOOLEAN

VARIABLES
  registry,   \* jobs present in config/jobs.json
  runs,       \* run id -> its directory and run.json
  made,       \* run directories created so far; ids grow with time
  queue,      \* group -> FIFO of run ids (webapp/jobs/_queue.json)
  child,      \* run id -> the job's own process
  proc,       \* what each handler and executor is doing
  fires,      \* fires issued from outside so far
  crashes,    \* processes that died so far
  starts,     \* run id -> times a child was started for it (observation)
  finals,     \* run id -> times an executor finalised it (observation)
  muted       \* runs stamped killed while their child was alive (observation)

env == <<fires, crashes>>
seen == <<starts, finals, muted>>
vars == <<registry, runs, made, queue, child, proc, fires, crashes, starts, finals, muted>>

-----------------------------------------------------------------------------
(* Run records. *)

Statuses == {"none", "pending", "running", "queued", "success", "failed",
             "skipped", "dry_run"}
Live == {"running", "pending"}

\* job: the directory the run lives in (0 before it is created).  status is
\* "none" while run.json is missing.  exit says who chose the exit code.
Record == [job : 0 .. NumJobs, dir : BOOLEAN, status : Statuses,
           exit : {"none", "own", "kill"}, killed : BOOLEAN, reaped : BOOLEAN,
           pid : BOOLEAN, dry : BOOLEAN]

Blank(j) == [job |-> j, dir |-> FALSE, status |-> "none", exit |-> "none",
             killed |-> FALSE, reaped |-> FALSE, pid |-> FALSE, dry |-> FALSE]

\* A fresh run directory with no run.json in it yet.
NewDir(j) == [Blank(j) EXCEPT !.dir = TRUE]

\* Mutant of Stamped: the merge does not protect a kill.
StampedOverKill(rec, status, exit) ==
  [rec EXCEPT !.dir = TRUE, !.status = status, !.exit = exit]

\* write_run_json without killed=True: once a kill is on the record, the
\* incoming outcome fields are dropped.  Taking the lock re-creates the
\* directory of a pruned run.
Stamped(rec, status, exit) ==
  IF rec.killed THEN [rec EXCEPT !.dir = TRUE]
  ELSE [rec EXCEPT !.dir = TRUE, !.status = status, !.exit = exit]

\* Mutant of KillStamped: a status no reader of run.json knows.
KillStampedUnknown(rec) ==
  [rec EXCEPT !.dir = TRUE, !.status = "killed", !.exit = "kill", !.killed = TRUE]

\* The kill route's write, which asserts killed=True.
KillStamped(rec) ==
  [rec EXCEPT !.dir = TRUE, !.status = "failed", !.exit = "kill", !.killed = TRUE]

ReapStamped(rec) == [Stamped(rec, "failed", rec.exit) EXCEPT !.reaped = TRUE]

RunsOf(j) == {r \in 1 .. made : runs[r].job = j /\ runs[r].dir}

\* latest_run(j) has a status that holds the mutex group.
LatestIsLive(j) ==
  \E r \in RunsOf(j) : /\ \A s \in RunsOf(j) : s <= r
                       /\ runs[r].status \in Live

\* output.log is held open by the child or by the executor waiting for it, so
\* removing the directory fails before it reaches run.json.
LogOpen(r) == \/ child[r] = "alive"
              \/ \E e \in Executors : proc[e].run = r /\ proc[e].pc \in {"pid", "wait"}

\* prune_runs: the directories of j beyond the newest Keep.
Prunable(j, rs) ==
  {r \in RunIds : /\ rs[r].job = j /\ rs[r].dir /\ ~LogOpen(r)
                  /\ Cardinality({s \in RunIds : s > r /\ rs[s].job = j /\ rs[s].dir}) >= Keep}

Pruned(j, rs) == LET gone == Prunable(j, rs)
                 IN [r \in RunIds |-> IF r \in gone THEN Blank(j) ELSE rs[r]]

\* Mutant of Stranded: only the latest run is looked at.
StrandedLatest(j) == {r \in RunsOf(j) : /\ \A q \in RunsOf(j) : q <= r
                                       /\ runs[r].status \in Live /\ runs[r].pid}

\* Records with a recorded pid that still claim to be in flight: what a reap
\* will check one by one.
Stranded(j) == {r \in RunsOf(j) : runs[r].status \in Live /\ runs[r].pid}

-----------------------------------------------------------------------------
(* Processes. *)

Pcs == {"idle",
        "sweep", "reap", "look", "admit", "record", "enqueue", "spawn",   \* admission
        "start", "newrun", "build", "popen", "pid", "wait",               \* executor
        "finish", "final", "follow", "chain",
        "stamp", "killtree",                                              \* kill route
        "drain", "launch"}

\* job, run: what the process was started for.  fire: the job being admitted;
\* at: the next registry position of the collision sweep; cfg: the registry
\* as loaded; held: a holder was found; new: the run being created or
\* launched.  dead: runs listed for reaping; hit: a run was reaped, or the
\* killed record carried a pid.  chain: downstream jobs left.  ok: the
\* child's outcome.
ProcState == [pc : Pcs, job : 0 .. NumJobs, run : 0 .. MaxRuns,
              mode : {"run", "dry_execute", "dry_check", "poll"},
              fire : 0 .. NumJobs, at : 0 .. NumJobs, cfg : SUBSET Jobs,
              held : BOOLEAN, new : 0 .. MaxRuns, dead : SUBSET RunIds,
              hit : BOOLEAN, chain : Seq(Jobs), ok : BOOLEAN]

Idle == [pc |-> "idle", job |-> 0, run |-> 0, mode |-> "run", fire |-> 0,
         at |-> 0, cfg |-> {}, held |-> FALSE, new |-> 0, dead |-> {},
         hit |-> FALSE, chain |-> << >>, ok |-> FALSE]

TypeOK ==
  /\ registry \subseteq Jobs
  /\ runs \in [RunIds -> Record]
  /\ made \in 0 .. MaxRuns
  /\ queue \in [Groups -> Seq(RunIds)]
  /\ child \in [RunIds -> {"none", "alive", "zero", "nonzero"}]
  /\ proc \in [Actors -> ProcState]
  /\ fires \in 0 .. MaxFires
  /\ crashes \in 0 .. MaxCrashes
  /\ starts \in [RunIds -> Nat]
  /\ finals \in [RunIds -> Nat]
  /\ muted \subseteq RunIds

Init ==
  /\ registry = Jobs
  /\ runs = [r \in RunIds |-> Blank(0)]
  /\ made = 0
  /\ queue = [g \in Groups |-> << >>]
  /\ child = [r \in RunIds |-> "none"]
  /\ proc = [a \in Actors |-> Idle]
  /\ fires = 0
  /\ crashes = 0
  /\ starts = [r \in RunIds |-> 0]
  /\ finals = [r \in RunIds |-> 0]
  /\ muted = {}

-----------------------------------------------------------------------------
(* Admission: mutex_collision, then a run directory, then queue or spawn.   *)
(* The route, the chain dispatcher and the executor's own gate share it.    *)

\* How a process p begins to admit job j: jobs without a group skip the sweep.
Admitting(p, j) == [p EXCEPT !.fire = j, !.held = FALSE,
                             !.pc = IF Group[j] = NoGroup THEN "admit" ELSE "sweep",
                             !.at = IF Group[j] = NoGroup THEN 0 ELSE 1]

\* Where the chain loop resumes with downstream jobs c left.
Chained(p, c) == [p EXCEPT !.pc = IF c = << >> THEN "drain" ELSE "chain",
                           !.chain = c, !.fire = 0, !.at = 0, !.held = FALSE, !.new = 0]

\* Where process a goes when its admission is over: a handler answers, an
\* executor that queued its own scheduled fire exits, a chain goes on.
Admitted(a) == IF a \in Handlers \/ proc[a].run = 0 THEN Idle
               ELSE Chained(proc[a], proc[a].chain)

\* The sweep's verdict: only an executor's own fire needs no admission record
\* when the group is free; it creates its run directory as usual.
Decided(a, held) ==
  IF a \in Executors /\ proc[a].run = 0 /\ ~held
  THEN [proc[a] EXCEPT !.pc = "newrun", !.fire = 0, !.at = 0]
  ELSE [proc[a] EXCEPT !.pc = "admit", !.at = 0, !.held = held]

\* The other members of the group of the job being admitted, from the sweep's
\* position in the registry on, and the first of them.
Rivals(a) == {o \in proc[a].cfg : /\ o >= proc[a].at /\ o # proc[a].fire
                                  /\ Group[o] = Group[proc[a].fire]}
NextRival(a, o) == o \in Rivals(a) /\ \A q \in Rivals(a) : o <= q

\* What the sweep does after looking at rival o's latest run.
Looked(a, o) ==
  IF LatestIsLive(o) THEN Decided(a, TRUE)
  ELSE IF o = NumJobs THEN Decided(a, FALSE)
  ELSE [proc[a] EXCEPT !.pc = "sweep", !.at = o + 1]

\* Nobody left to look at.
SweepEnd(a) ==
  /\ proc[a].pc = "sweep"
  /\ Rivals(a) = {}
  /\ proc' = [proc EXCEPT ![a] = Decided(a, FALSE)]
  /\ UNCHANGED <<registry, runs, made, queue, child, env, seen>>

\* finalize_dead_runs lists nothing to check; look at the latest run.
SweepLook(a, o) ==
  /\ proc[a].pc = "sweep"
  /\ NextRival(a, o)
  /\ Stranded(o) = {}
  /\ proc' = [proc EXCEPT ![a] = Looked(a, o)]
  /\ UNCHANGED <<registry, runs, made, queue, child, env, seen>>

\* finalize_dead_runs takes its list of records to check.
SweepList(a, o) ==
  /\ proc[a].pc = "sweep"
  /\ NextRival(a, o)
  /\ Stranded(o) # {}
  /\ proc' = [proc EXCEPT ![a] = [@ EXCEPT !.pc = "reap", !.at = o, !.dead = Stranded(o)]]
  /\ UNCHANGED <<registry, runs, made, queue, child, env, seen>>

\* Mutant of ReapOne: the process is not checked for being alive.
ReapOneBlind(a, r) ==
  /\ proc[a].pc = "reap"
  /\ r \in proc[a].dead
  /\ runs' = [runs EXCEPT ![r] = ReapStamped(@)]
  /\ proc' = [proc EXCEPT ![a] =
       IF proc[a].mode = "poll" THEN [proc[a] EXCEPT !.dead = {}, !.pc = "drain"]
       ELSE [proc[a] EXCEPT !.dead = {}, !.pc = "look"]]
  /\ UNCHANGED <<registry, made, queue, child, env, seen>>

\* _reap_one on a listed record r: finalise it if its process is gone now.
\* The record may have moved on since it was listed.
ReapOne(a, r) ==
  /\ proc[a].pc = "reap"
  /\ r \in proc[a].dead
  /\ LET gone == child[r] # "alive"
         left == proc[a].dead \ {r}
         hit == proc[a].hit \/ gone
     IN /\ runs' = IF gone THEN [runs EXCEPT ![r] = ReapStamped(runs[r])] ELSE runs
        /\ proc' = [proc EXCEPT ![a] =
             IF left # {} THEN [proc[a] EXCEPT !.dead = left, !.hit = hit]
             ELSE IF proc[a].mode # "poll"
                  THEN [proc[a] EXCEPT !.dead = {}, !.hit = FALSE, !.pc = "look"]
                  ELSE IF hit THEN [proc[a] EXCEPT !.dead = {}, !.pc = "drain"] ELSE Idle]
  /\ UNCHANGED <<registry, made, queue, child, env, seen>>

\* The sweep looks at the latest run once the listed ones are dealt with.
LookAfterReap(a) ==
  /\ proc[a].pc = "look"
  /\ proc' = [proc EXCEPT ![a] = Looked(a, proc[a].at)]
  /\ UNCHANGED <<registry, runs, made, queue, child, env, seen>>

\* new_run_dir: a directory nobody else has, with no run.json yet.
MakeRunDir(a) ==
  /\ proc[a].pc = "admit"
  /\ made < MaxRuns
  /\ made' = made + 1
  /\ runs' = [runs EXCEPT ![made + 1] = NewDir(proc[a].fire)]
  /\ proc' = [proc EXCEPT ![a] = [@ EXCEPT !.pc = "record", !.new = made + 1]]
  /\ UNCHANGED <<registry, queue, child, env, seen>>

\* Mutant of RecordFire: a fire on its way to the queue is recorded pending.
RecordFirePending(a) ==
  /\ proc[a].pc = "record"
  /\ runs' = [runs EXCEPT ![proc[a].new] = Stamped(@, "pending", @.exit)]
  /\ proc' = [proc EXCEPT ![a] = [@ EXCEPT !.pc = IF proc[a].held THEN "enqueue" ELSE "spawn"]]
  /\ UNCHANGED <<registry, made, queue, child, env, seen>>

\* First write of run.json: queued behind a holder, or pending; a dry check
\* records its verdict and is done.
RecordFire(a) ==
  /\ proc[a].pc = "record"
  /\ LET r == proc[a].new
         status == IF proc[a].mode = "dry_check" THEN "dry_run"
                   ELSE IF proc[a].held THEN "queued" ELSE "pending"
     IN runs' = [runs EXCEPT ![r] = [Stamped(runs[r], status, runs[r].exit)
                                       EXCEPT !.dry = (proc[a].mode # "run")]]
  /\ proc' = [proc EXCEPT ![a] =
        IF proc[a].mode = "dry_check" THEN Idle
        ELSE [proc[a] EXCEPT !.pc = IF proc[a].held THEN "enqueue" ELSE "spawn"]]
  /\ UNCHANGED <<registry, made, queue, child, env, seen>>

\* enqueue_mutex
Enqueue(a) ==
  /\ proc[a].pc = "enqueue"
  /\ queue' = [queue EXCEPT ![Group[proc[a].fire]] = Append(@, proc[a].new)]
  /\ proc' = [proc EXCEPT ![a] = Admitted(a)]
  /\ UNCHANGED <<registry, runs, made, child, env, seen>>

\* What a run-job process spawned for run r starts as.
Started(j, r) == [Idle EXCEPT !.pc = "start", !.job = j, !.run = r]

\* spawn_run_job_detached
Spawn(a) ==
  /\ proc[a].pc = "spawn"
  /\ \E e \in Executors :
       /\ proc[e].pc = "idle"
       /\ proc' = [proc EXCEPT ![a] = Admitted(a),
                               ![e] = Started(proc[a].fire, proc[a].new)]
  /\ UNCHANGED <<registry, runs, made, queue, child, env, seen>>

\* Mutant of SpawnFails: the failed spawn is not recorded.
SpawnFailsSilently(a) ==
  /\ SpawnMayFail
  /\ proc[a].pc = "spawn"
  /\ proc' = [proc EXCEPT ![a] = Admitted(a)]
  /\ UNCHANGED <<registry, runs, made, queue, child, env, seen>>

\* The spawn raises OSError: mark_run_failed.
SpawnFails(a) ==
  /\ SpawnMayFail
  /\ proc[a].pc = "spawn"
  /\ runs' = [runs EXCEPT ![proc[a].new] = Stamped(@, "failed", "own")]
  /\ proc' = [proc EXCEPT ![a] = Admitted(a)]
  /\ UNCHANGED <<registry, made, queue, child, env, seen>>

-----------------------------------------------------------------------------
(* drain_mutex_queue, by a finalising executor, a kill or a reaping poll.   *)

\* Mutant of DrainPop: the head is read but stays in the queue.
DrainPeek(a) ==
  /\ proc[a].pc = "drain"
  /\ LET g == Group[proc[a].job]
     IN proc' = [proc EXCEPT ![a] =
          IF g = NoGroup \/ queue[g] = << >> THEN Idle
          ELSE [proc[a] EXCEPT !.pc = "launch", !.new = Head(queue[g])]]
  /\ UNCHANGED <<registry, runs, made, queue, child, env, seen>>

\* pop_mutex_entry; an empty queue, or a job without a group, ends the drain.
DrainPop(a) ==
  /\ proc[a].pc = "drain"
  /\ LET g == Group[proc[a].job]
     IN IF g = NoGroup \/ queue[g] = << >>
        THEN /\ proc' = [proc EXCEPT ![a] = Idle]
             /\ UNCHANGED queue
        ELSE /\ queue' = [queue EXCEPT ![g] = Tail(@)]
             /\ proc' = [proc EXCEPT ![a] = [@ EXCEPT !.pc = "launch", !.new = Head(queue[g])]]
  /\ UNCHANGED <<registry, runs, made, child, env, seen>>

\* Mutant of LaunchSkip: the guard expects the popped run to be pending.
LaunchSkipUnlessPending(a) ==
  /\ proc[a].pc = "launch"
  /\ runs[proc[a].new].status # "pending"
  /\ proc' = [proc EXCEPT ![a] = Idle]
  /\ UNCHANGED <<registry, runs, made, queue, child, env, seen>>

\* The popped run is no longer queued: skip it, and do not pop the next one.
LaunchSkip(a) ==
  /\ proc[a].pc = "launch"
  /\ runs[proc[a].new].status # "queued"
  /\ proc' = [proc EXCEPT ![a] = Idle]
  /\ UNCHANGED <<registry, runs, made, queue, child, env, seen>>

Launch(a) ==
  /\ proc[a].pc = "launch"
  /\ runs[proc[a].new].status = "queued"
  /\ \E e \in Executors :
       /\ proc[e].pc = "idle"
       /\ proc' = [proc EXCEPT ![a] = Idle,
                               ![e] = Started(runs[proc[a].new].job, proc[a].new)]
  /\ UNCHANGED <<registry, runs, made, queue, child, env, seen>>

\* The spawn raises OSError: the entry is gone, the record stays queued.
LaunchFails(a) ==
  /\ SpawnMayFail
  /\ proc[a].pc = "launch"
  /\ runs[proc[a].new].status = "queued"
  /\ proc' = [proc EXCEPT ![a] = Idle]
  /\ UNCHANGED <<registry, runs, made, queue, child, env, seen>>

-----------------------------------------------------------------------------
(* The executor: RunJobCommand.execute. *)

\* load_jobs no longer knows the job: exit without touching the record.
ExecUnknownJob(e) ==
  /\ proc[e].pc = "start"
  /\ proc[e].job \notin registry
  /\ proc' = [proc EXCEPT ![e] = Idle]
  /\ UNCHANGED <<registry, runs, made, queue, child, env, seen>>

\* A pre-created run goes straight on; a scheduled fire (no run id) passes the
\* mutex gate first when its job has a group.
ExecStart(e) ==
  /\ proc[e].pc = "start"
  /\ proc[e].job \in registry
  /\ proc' = [proc EXCEPT ![e] =
       IF proc[e].run # 0 THEN [proc[e] EXCEPT !.pc = "build"]
       ELSE IF Group[proc[e].job] = NoGroup THEN [proc[e] EXCEPT !.pc = "newrun"]
       ELSE Admitting([proc[e] EXCEPT !.cfg = registry], proc[e].job)]
  /\ UNCHANGED <<registry, runs, made, queue, child, env, seen>>

\* A scheduled fire inside the cooldown window is recorded as skipped.  Its
\* directory is named by the current second without collision handling, so it
\* is a new run or one the job already created in the same second.
CooldownSkip(e) ==
  /\ proc[e].pc = "start"
  /\ proc[e].run = 0
  /\ LET j == proc[e].job
         anchors == {r \in RunsOf(j) : runs[r].status \notin {"skipped", "dry_run"}}
     IN /\ j \in registry \cap CooldownJobs
        /\ anchors # {}
        /\ \/ /\ made < MaxRuns
              /\ made' = made + 1
              /\ runs' = Pruned(j, [runs EXCEPT ![made + 1] =
                                      Stamped(NewDir(j), "skipped", "none")])
           \/ /\ UNCHANGED made
              /\ \E r \in RunsOf(j) :
                   runs' = Pruned(j, [runs EXCEPT ![r] = Stamped(@, "skipped", @.exit)])
  /\ muted' = {r \in muted : runs'[r].dir}
  /\ proc' = [proc EXCEPT ![e] = Idle]
  /\ UNCHANGED <<registry, queue, child, env, starts, finals>>

\* new_run_dir for a scheduled fire.
ExecNewRun(e) ==
  /\ proc[e].pc = "newrun"
  /\ made < MaxRuns
  /\ made' = made + 1
  /\ runs' = [runs EXCEPT ![made + 1] = NewDir(proc[e].job)]
  /\ proc' = [proc EXCEPT ![e] = [@ EXCEPT !.pc = "build", !.run = made + 1]]
  /\ UNCHANGED <<registry, queue, child, env, seen>>

\* The invocation or the env overlay cannot be built: a failed record, and
\* the executor exits without notifying, chaining or draining.
ExecBuildFails(e) ==
  /\ BuildMayFail
  /\ proc[e].pc = "build"
  /\ LET r == proc[e].run
     IN runs' = Pruned(proc[e].job, [runs EXCEPT ![r] = Stamped(@, "failed", "own")])
  /\ muted' = {r \in muted : runs'[r].dir}
  /\ proc' = [proc EXCEPT ![e] = Idle]
  /\ UNCHANGED <<registry, made, queue, child, env, starts, finals>>

\* _write_running_record
ExecRunning(e) ==
  /\ proc[e].pc = "build"
  /\ runs' = [runs EXCEPT ![proc[e].run] = Stamped(@, "running", @.exit)]
  /\ proc' = [proc EXCEPT ![e] = [@ EXCEPT !.pc = "popen"]]
  /\ UNCHANGED <<registry, made, queue, child, env, seen>>

\* Popen
ExecPopen(e) ==
  /\ proc[e].pc = "popen"
  /\ child' = [child EXCEPT ![proc[e].run] = "alive"]
  /\ starts' = [starts EXCEPT ![proc[e].run] = @ + 1]
  /\ proc' = [proc EXCEPT ![e] = [@ EXCEPT !.pc = "pid"]]
  /\ UNCHANGED <<registry, runs, made, queue, env, finals, muted>>

\* Popen raises OSError: the run is finalised as failed.
ExecPopenFails(e) ==
  /\ SpawnMayFail
  /\ proc[e].pc = "popen"
  /\ proc' = [proc EXCEPT ![e] = [@ EXCEPT !.pc = "finish", !.ok = FALSE]]
  /\ UNCHANGED <<registry, runs, made, queue, child, env, seen>>

\* The child's pid goes on the record in a second write.
ExecWritePid(e) ==
  /\ proc[e].pc = "pid"
  /\ runs' = [runs EXCEPT ![proc[e].run] = [@ EXCEPT !.dir = TRUE, !.pid = TRUE]]
  /\ proc' = [proc EXCEPT ![e] = [@ EXCEPT !.pc = "wait"]]
  /\ UNCHANGED <<registry, made, queue, child, env, seen>>

\* proc.wait() returns.
ExecWait(e) ==
  /\ proc[e].pc = "wait"
  /\ child[proc[e].run] # "alive"
  /\ proc' = [proc EXCEPT ![e] = [@ EXCEPT !.pc = "finish", !.ok = (child[proc[e].run] = "zero")]]
  /\ UNCHANGED <<registry, runs, made, queue, child, env, seen>>

\* Mutant of ExecFinish: killed is not looked at.
ExecFinishDeaf(e) ==
  /\ proc[e].pc = "finish"
  /\ proc' = [proc EXCEPT ![e] = [@ EXCEPT !.pc = "final"]]
  /\ UNCHANGED <<registry, runs, made, queue, child, env, seen>>

\* Mutant of ExecFinish: follow-ups without the terminal write.
ExecFinishEarly(e) ==
  /\ proc[e].pc = "finish"
  /\ proc' = [proc EXCEPT ![e] = IF runs[proc[e].run].killed THEN Idle
                                 ELSE [proc[e] EXCEPT !.pc = "follow"]]
  /\ UNCHANGED <<registry, runs, made, queue, child, env, seen>>

\* _finish_run reads killed: a killed run is left to the kill route.
ExecFinish(e) ==
  /\ proc[e].pc = "finish"
  /\ proc' = [proc EXCEPT ![e] = IF runs[proc[e].run].killed THEN Idle
                                 ELSE [proc[e] EXCEPT !.pc = "final"]]
  /\ UNCHANGED <<registry, runs, made, queue, child, env, seen>>

\* _finalize_run: outcome, prune, failure notification.
ExecFinal(e) ==
  /\ proc[e].pc = "final"
  /\ LET r == proc[e].run
         status == IF proc[e].ok THEN "success" ELSE "failed"
     IN /\ runs' = Pruned(proc[e].job, [runs EXCEPT ![r] = Stamped(@, status, "own")])
        /\ finals' = [finals EXCEPT ![r] = @ + 1]
  /\ muted' = {r \in muted : runs'[r].dir}
  /\ proc' = [proc EXCEPT ![e] = [@ EXCEPT !.pc = "follow"]]
  /\ UNCHANGED <<registry, made, queue, child, env, starts>>

\* _dispatch_chain loads the registry and picks the downstream jobs.
ExecFollow(e) ==
  /\ proc[e].pc = "follow"
  /\ LET downstream == IF proc[e].ok THEN OnSuccess[proc[e].job] ELSE OnFailure[proc[e].job]
     IN proc' = [proc EXCEPT ![e] = Chained([proc[e] EXCEPT !.cfg = registry], downstream)]
  /\ UNCHANGED <<registry, runs, made, queue, child, env, seen>>

\* dispatch_chain_run for the next downstream job; an unknown one is skipped.
ExecChain(e) ==
  /\ proc[e].pc = "chain"
  /\ LET d == Head(proc[e].chain)
         rest == Tail(proc[e].chain)
     IN proc' = [proc EXCEPT ![e] =
          IF d \in proc[e].cfg THEN Admitting([proc[e] EXCEPT !.chain = rest], d)
          ELSE Chained(proc[e], rest)]
  /\ UNCHANGED <<registry, runs, made, queue, child, env, seen>>

-----------------------------------------------------------------------------
(* Requests to the webapp, Task Scheduler, deaths. *)

Request(op) == op \in Ops /\ fires < MaxFires /\ fires' = fires + 1

\* POST run and POST hook; a cooled-down request leaves no trace.
Fire(h, j) ==
  /\ proc[h].pc = "idle"
  /\ j \in registry
  /\ Request("manual")
  /\ proc' = [proc EXCEPT ![h] = Admitting([Idle EXCEPT !.job = j, !.cfg = registry], j)]
  /\ UNCHANGED <<registry, runs, made, queue, child, crashes, seen>>

\* The two dry-run modes take no admission.
DryRun(h, j, mode) ==
  /\ proc[h].pc = "idle"
  /\ j \in registry
  /\ Request(mode)
  /\ proc' = [proc EXCEPT ![h] = [Idle EXCEPT !.pc = "admit", !.job = j, !.fire = j,
                                              !.mode = mode]]
  /\ UNCHANGED <<registry, runs, made, queue, child, crashes, seen>>

\* Task Scheduler starts run-job without a run id.
ScheduledFire(e, j) ==
  /\ proc[e].pc = "idle"
  /\ j \in registry
  /\ Request("scheduled")
  /\ proc' = [proc EXCEPT ![e] = Started(j, 0)]
  /\ UNCHANGED <<registry, runs, made, queue, child, crashes, seen>>

\* POST kill reads the record: only a running or pending run is killable.
KillRead(h, r) ==
  /\ "kill" \in Ops
  /\ proc[h].pc = "idle"
  /\ runs[r].dir /\ runs[r].job \in registry
  /\ runs[r].status \in Live
  /\ proc' = [proc EXCEPT ![h] = [Idle EXCEPT !.pc = "stamp", !.job = runs[r].job,
                                              !.run = r, !.hit = runs[r].pid]]
  /\ UNCHANGED <<registry, runs, made, queue, child, env, seen>>

\* The record is stamped before the tree dies.
KillStamp(h) ==
  /\ proc[h].pc = "stamp"
  /\ LET r == proc[h].run
     IN /\ runs' = [runs EXCEPT ![r] = KillStamped(@)]
        /\ muted' = IF child[r] = "alive" THEN muted \cup {r} ELSE muted
  /\ proc' = [proc EXCEPT ![h] = [@ EXCEPT !.pc = "killtree"]]
  /\ UNCHANGED <<registry, made, queue, child, env, starts, finals>>

\* kill_process_tree on the pid that was on the record, then the one drain.
KillTree(h) ==
  /\ proc[h].pc = "killtree"
  /\ LET r == proc[h].run
     IN child' = IF proc[h].hit /\ child[r] = "alive"
                 THEN [child EXCEPT ![r] = "nonzero"] ELSE child
  /\ proc' = [proc EXCEPT ![h] = [@ EXCEPT !.pc = "drain"]]
  /\ UNCHANGED <<registry, runs, made, queue, env, seen>>

\* GET /api/jobs: reap_stranded_runs lists j's records.
Poll(h, j) ==
  /\ "poll" \in Ops
  /\ proc[h].pc = "idle"
  /\ j \in registry
  /\ Stranded(j) # {}
  /\ proc' = [proc EXCEPT ![h] = [Idle EXCEPT !.pc = "reap", !.job = j, !.mode = "poll",
                                              !.dead = Stranded(j)]]
  /\ UNCHANGED <<registry, runs, made, queue, child, env, seen>>

\* DELETE /api/jobs/<id>; the run directories and queue entries stay.
DeleteJob(j) ==
  /\ "delete" \in Ops
  /\ j \in registry
  /\ registry' = registry \ {j}
  /\ UNCHANGED <<runs, made, queue, child, proc, env, seen>>

\* A child ends by itself, or its executor's watchdog tears it down.
ChildExit(r) ==
  /\ child[r] = "alive"
  /\ \E code \in {"zero", "nonzero"} : child' = [child EXCEPT ![r] = code]
  /\ UNCHANGED <<registry, runs, made, queue, proc, env, seen>>

\* An executor dies; its child, if any, does not.
ExecutorCrash(e) ==
  /\ crashes < MaxCrashes
  /\ proc[e].pc # "idle"
  /\ crashes' = crashes + 1
  /\ proc' = [proc EXCEPT ![e] = Idle]
  /\ UNCHANGED <<registry, runs, made, queue, child, fires, seen>>

\* The webapp dies with every request it was serving.
WebappCrash ==
  /\ crashes < MaxCrashes
  /\ \E h \in Handlers : proc[h].pc # "idle"
  /\ crashes' = crashes + 1
  /\ proc' = [a \in Actors |-> IF a \in Handlers THEN Idle ELSE proc[a]]
  /\ UNCHANGED <<registry, runs, made, queue, child, fires, seen>>

-----------------------------------------------------------------------------
\* The steps any process takes on its way through admission and drain.
SharedStep(a) ==
  \/ SweepEnd(a) \/ LookAfterReap(a)
  \/ \E o \in Jobs : SweepLook(a, o) \/ SweepList(a, o)
  \/ \E r \in RunIds : ReapOne(a, r)
  \/ MakeRunDir(a) \/ RecordFire(a) \/ Enqueue(a) \/ Spawn(a) \/ SpawnFails(a)
  \/ DrainPop(a) \/ LaunchSkip(a) \/ Launch(a) \/ LaunchFails(a)

ExecutorStep(e) ==
  \/ ExecUnknownJob(e) \/ ExecStart(e) \/ CooldownSkip(e) \/ ExecNewRun(e)
  \/ ExecBuildFails(e) \/ ExecRunning(e) \/ ExecPopen(e) \/ ExecPopenFails(e)
  \/ ExecWritePid(e) \/ ExecWait(e) \/ ExecFinish(e) \/ ExecFinal(e)
  \/ ExecFollow(e) \/ ExecChain(e)

KillStep(h) == KillStamp(h) \/ KillTree(h)

Requests ==
  \/ \E h \in Handlers, j \in Jobs : Fire(h, j) \/ Poll(h, j)
  \/ \E h \in Handlers, j \in Jobs, m \in {"dry_execute", "dry_check"} : DryRun(h, j, m)
  \/ \E e \in Executors, j \in Jobs : ScheduledFire(e, j)
  \/ \E h \in Handlers, r \in RunIds : KillRead(h, r)
  \/ \E j \in Jobs : DeleteJob(j)

Deaths == \/ \E r \in RunIds : ChildExit(r)
          \/ \E e \in Executors : ExecutorCrash(e)
          \/ WebappCrash

Next ==
  \/ \E a \in Actors : SharedStep(a)
  \/ \E e \in Executors : ExecutorStep(e)
  \/ \E h \in Handlers : KillStep(h)
  \/ Requests
  \/ Deaths

Spec == Init /\ [][Next]_vars

\* Processes run, children end, and somebody keeps the job list open.
Fairness ==
  /\ \A a \in Actors : WF_vars(SharedStep(a))
  /\ \A e \in Executors : WF_vars(ExecutorStep(e))
  /\ \A h \in Handlers : WF_vars(KillStep(h))
  /\ \A r \in RunIds : WF_vars(ChildExit(r))
  /\ \A j \in Jobs : WF_vars(\E h \in Handlers : Poll(h, j))

FairSpec == Spec /\ Fairness
=============================================================================
