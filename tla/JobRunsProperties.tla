-------------------------- MODULE JobRunsProperties --------------------------
(***************************************************************************)
(* What job execution promises (and what the docs say it promises), over   *)
(* the state of JobRuns, and the inductive invariant behind it.            *)
(***************************************************************************)
EXTENDS JobRuns

Outcomes == {"success", "failed", "skipped", "dry_run"}

\* Where the right to start run r can be: with a process on its way to queue
\* or spawn it, in a queue, or with the executor spawned for it.
Launching(r) ==
  {a \in Actors : /\ proc[a].new = r
                  /\ proc[a].pc \in {"record", "enqueue", "spawn", "launch"}}
ExecutorsOf(r) == {e \in Executors : proc[e].run = r /\ proc[e].pc # "idle"}
QueuedAt(r) == {g \in Groups : \E i \in DOMAIN queue[g] : queue[g][i] = r}

Quiet == /\ \A a \in Actors : proc[a].pc = "idle"
         /\ \A r \in RunIds : child[r] # "alive"

-----------------------------------------------------------------------------
(* Safety the code does provide. *)

\* A run's child is started at most once and its follow-ups (notification,
\* chain, drain) happen at most once, however many finalisers, kills and reaps
\* drain the queue at the same time: jobs-tab.md "Double-spawn guard", the
\* atomic pop in pop_mutex_entry, and unique run directories.
StartedOnce == \A r \in RunIds : starts[r] <= 1 /\ finals[r] <= 1

\* A kill on the record is final: no later write by the executor or a reap
\* changes the outcome or clears the flag (_KILL_OWNED_FIELDS in history.py).
\* Only pruning the whole directory forgets it.
KillSticky ==
  [][\A r \in RunIds : (runs[r].killed /\ runs'[r].dir) =>
        (runs'[r].killed /\ runs'[r].status = "failed" /\ runs'[r].exit = "kill")]_vars

\* A kill stamped while the child was alive silences its executor: it never
\* finalises, notifies, chains or drains (kill_job_run stamps before it kills
\* the tree, _finish_run reads the stamp after wait()).
KilledAliveSilent ==
  \A e \in Executors :
    proc[e].run \in muted => proc[e].pc \in {"pid", "wait", "finish"}

\* A run recorded as ended without a kill has no child left: neither the
\* executor nor a reap publishes an outcome early.
OutcomeMeansEnded ==
  \A r \in RunIds : (runs[r].status \in {"success", "failed"} /\ ~runs[r].killed)
                      => child[r] # "alive"

\* By the time an executor chains or drains, its own record shows an outcome,
\* so a sweep running at that moment sees the job as done
\* (_drain_mutex_queue_for).
FollowUpsAfterOutcome ==
  \A e \in Executors :
    (proc[e].run # 0 /\ proc[e].pc \in {"follow", "chain", "sweep", "reap", "look", "admit",
                                        "record", "enqueue", "spawn", "drain", "launch"})
      => (runs[proc[e].run].status \in Outcomes \/ ~runs[proc[e].run].dir)

\* Every entry of a mutex queue names a run whose record still says queued,
\* unless pruning took its directory: the guard in drain_mutex_queue drops no
\* other entry.
EntriesAreQueued ==
  \A g \in Groups : \A i \in DOMAIN queue[g] :
    runs[queue[g][i]].status = "queued" \/ ~runs[queue[g][i]].dir

\* A record that says queued is in a queue or in some process's hands: without
\* crashes, failed spawns and deleted jobs no queued fire is lost on the way.
NoQueuedRunLost ==
  \A r \in 1 .. made :
    runs[r].status = "queued" =>
      (QueuedAt(r) # {} \/ Launching(r) # {} \/ ExecutorsOf(r) # {})

-----------------------------------------------------------------------------
(* The life of a run, as RunLaunch states it. *)

Life(r) ==
  CASE r > made -> "absent"
    [] r <= made /\ child[r] = "alive" -> "working"
    [] r <= made /\ child[r] = "none" /\ finals[r] = 0 -> "waiting"
    [] OTHER -> "ended"

Verdict(r) ==
  CASE runs[r].killed -> "killed"
    [] ~runs[r].killed /\ runs[r].status \in Outcomes -> "over"
    [] OTHER -> "open"

\* A history longer than its cap is pruned.
Promise == INSTANCE RunLaunch WITH
  Runs <- RunIds,
  Forgets <- (MaxRuns > Keep),
  life <- [r \in RunIds |-> Life(r)],
  verdict <- [r \in RunIds |-> Verdict(r)],
  announced <- {r \in RunIds : finals[r] > 0}

\* Every step of every process is a step of RunLaunch or changes nothing it
\* tells apart (run_job_cmd.py, queue.py, reap.py and the kill route, over
\* run.json and _queue.json).  It is promised where no scheduled fire is
\* skipped for a cooldown: a skip that lands in the directory of a run of the
\* same second overwrites its verdict.
ImplementsRunLaunch == Promise!Spec

-----------------------------------------------------------------------------
(* Liveness. *)

\* Unless a process dies, a pending or running run reaches an outcome: by its
\* executor, by a kill, or as a failed spawn (_admit_and_spawn).
RunsReachOutcome ==
  \A r \in RunIds : (runs[r].status \in Live)
                      ~> (runs[r].status \in Outcomes \/ ~runs[r].dir \/ crashes > 0)

\* A run whose child's pid is on record reaches an outcome even when its
\* executor or the webapp dies, because the next poll reaps it (reap.py).
RecordedRunsReachOutcome ==
  \A r \in RunIds : (runs[r].status \in Live /\ runs[r].pid)
                      ~> (runs[r].status \in Outcomes \/ ~runs[r].dir)

-----------------------------------------------------------------------------
(* What the documentation says and the code does not do. *)

\* jobs-tab.md:250 "Two jobs sharing a `mutex_group` are not allowed to have
\* overlapping in-flight runs" (dry runs excepted, which bypass the queue).
NoOverlap ==
  \A r, s \in 1 .. made :
    (/\ runs[r].job # runs[s].job /\ ~runs[r].dry /\ ~runs[s].dry
     /\ Group[runs[r].job] = Group[runs[s].job] /\ Group[runs[r].job] # NoGroup)
      => ~(child[r] = "alive" /\ child[s] = "alive")

\* queue.py:239 "so a mutex group never wedges with a still-queued entry after
\* the head run completes".
NeverWedged == Quiet => \A g \in Groups : queue[g] = << >>
-----------------------------------------------------------------------------
(* The inductive invariant behind the safety properties, in four layers:  *)
(* the shape of processes and files, who holds the right to start each    *)
(* run, how each record relates to its child, and where the queued runs   *)
(* are.                                                                   *)

\* A process that holds a run of its own making, or one it popped.
LaunchPcs == {"record", "enqueue", "spawn", "launch"}

\* A process that is admitting a job.
AdmitPcs == {"sweep", "look", "admit", "record", "enqueue", "spawn"}

\* An executor that has not started its child yet, and one that has not
\* written its outcome yet.
Preparing == {"start", "build", "popen"}
Unfinished == Preparing \cup {"pid", "wait", "finish", "final"}

\* A process that works on a run directory.
OwnPcs == {"build", "popen", "pid", "wait", "finish", "final", "follow", "chain",
           "stamp", "killtree"}

Sweeping(p) == p.pc \in {"sweep", "look"} \/ (p.pc = "reap" /\ p.mode # "poll")

\* m is the number of run directories made so far.
ProcShape(p, m) ==
  /\ p.new \in 0 .. m /\ p.run \in 0 .. m /\ p.dead \subseteq 1 .. m
  /\ p.new # 0 <=> p.pc \in LaunchPcs
  /\ IF p.pc = "idle" THEN p.run = 0 ELSE p.job \in Jobs
  /\ p.pc \in OwnPcs => p.run # 0
  /\ (p.pc \in AdmitPcs \/ Sweeping(p)) => p.fire \in Jobs
  /\ Sweeping(p) => p.at \in Jobs
  /\ p.pc = "chain" => p.chain # << >>

\* Every process is where its program counter says, queue entries and run
\* directories exist, and nothing is known of runs not made yet.
ProcsOK == \A a \in Actors : ProcShape(proc[a], made)
QueueOK == \A g \in Groups : \A i \in DOMAIN queue[g] : queue[g][i] \in 1 .. made
Unmade(r) == /\ runs[r] = Blank(0) /\ child[r] = "none"
             /\ starts[r] = 0 /\ finals[r] = 0 /\ r \notin muted
RunsOK == \A r \in RunIds : IF r <= made THEN runs[r].job \in Jobs ELSE Unmade(r)
Shape == ProcsOK /\ QueueOK /\ RunsOK

\* At most one process, executor or queue position holds a run (unique
\* directories in new_run_dir, the atomic pop of pop_mutex_entry) ...
NewApart == \A a, b \in Actors : (proc[a].new # 0 /\ proc[a].new = proc[b].new) => a = b
RunApart == \A e, f \in Executors : (proc[e].run # 0 /\ proc[e].run = proc[f].run) => e = f
NewRunApart == \A a \in Actors, e \in Executors : proc[a].new # 0 => proc[a].new # proc[e].run
QueueApart == \A g \in Groups : \A i \in DOMAIN queue[g] :
                /\ \A a \in Actors : queue[g][i] # proc[a].new
                /\ \A e \in Executors : queue[g][i] # proc[e].run
QueueOnce == \A g, h \in Groups : \A i \in DOMAIN queue[g], j \in DOMAIN queue[h] :
               queue[g][i] = queue[h][j] => (g = h /\ i = j)

\* ... and a run that is still to be started has had no child, one that is
\* still to be finished no outcome from its executor.
NewFresh == \A a \in Actors : proc[a].new # 0 =>
              (starts[proc[a].new] = 0 /\ finals[proc[a].new] = 0)
QueueFresh == \A g \in Groups : \A i \in DOMAIN queue[g] :
                starts[queue[g][i]] = 0 /\ finals[queue[g][i]] = 0
RunFresh == \A e \in Executors : proc[e].run # 0 =>
              /\ proc[e].pc \in Preparing => starts[proc[e].run] = 0
              /\ proc[e].pc \in Unfinished => finals[proc[e].run] = 0

Claims == /\ NewApart /\ RunApart /\ NewRunApart /\ QueueApart /\ QueueOnce
          /\ NewFresh /\ QueueFresh /\ RunFresh

\* An executor that is done with its run and chains or drains.
Following == {"follow", "chain", "sweep", "reap", "look", "admit", "record", "enqueue",
              "spawn", "drain", "launch"}

\* A record nobody has written yet (a cooldown skip of the same second may
\* have), the record of a fire on its way to a queue or in one (which pruning
\* may have emptied), and one that decides nothing about a run to be started.
Unwritten(rec) == ~rec.killed /\ rec.status \in {"none", "skipped"}
InLine(rec) == /\ ~rec.killed
               /\ \/ rec.status \in {"queued", "skipped"}
                  \/ rec.status = "none" /\ ~rec.dir
Undecided(rec) == rec.killed \/ rec.status \notin {"success", "failed", "dry_run"}

\* The record of run r, its child, how often that was started, and the runs
\* a kill was stamped on while their child was alive.
RecordFits(r, rec, kid, count, hushed) ==
  /\ count = 0 <=> kid = "none"
  /\ count = 0 => ~rec.pid
  /\ ~rec.dir => rec.status = "none"
  /\ rec.killed => (rec.status = "failed" /\ rec.exit = "kill")
  /\ r \in hushed => rec.killed /\ count # 0
  /\ (rec.status \in {"success", "failed"} /\ ~rec.killed) => kid # "alive"

\* What process b in state p takes for granted of run r: a listed run has had
\* a child; the record of the run it launches is as it left it; an executor's
\* own run has a child only while it waits for one, no verdict before it is
\* started, and one after it is finished.
Fits(b, p, r, rec, kid, count, hushed) ==
  /\ r \in p.dead => count # 0
  /\ p.new = r => /\ p.pc = "record" => Unwritten(rec)
                  /\ p.pc = "enqueue" => InLine(rec)
                  /\ p.pc = "spawn" => Undecided(rec)
  /\ (b \in Executors /\ p.run = r) =>
       /\ kid = "alive" => p.pc \in {"pid", "wait"}
       /\ p.pc \in {"pid", "wait"} => count # 0
       /\ p.pc \in Preparing => Undecided(rec)
       /\ r \in hushed => p.pc \in {"pid", "wait", "finish"}
       /\ p.pc \in Following => rec.status \in Outcomes \/ ~rec.dir

RunsFit == \A r \in RunIds : RecordFits(r, runs[r], child[r], starts[r], muted)
ProcsFit == \A b \in Actors, r \in RunIds :
              Fits(b, proc[b], r, runs[r], child[r], starts[r], muted)
QueueFits == \A g \in Groups : \A i \in DOMAIN queue[g] : InLine(runs[queue[g][i]])

\* A kill about to be stamped is of a run that is past its queue.
KillsApart ==
  \A h \in Handlers : proc[h].pc = "stamp" =>
    /\ \A a \in Actors : proc[a].pc \in {"record", "enqueue"} => proc[a].new # proc[h].run
    /\ \A g \in Groups : \A i \in DOMAIN queue[g] : queue[g][i] # proc[h].run

\* A run in a queue, or on its way there.
Awaited(r) == \/ \E a \in Actors : proc[a].pc = "enqueue" /\ proc[a].new = r
              \/ \E g \in Groups : \E i \in DOMAIN queue[g] : queue[g][i] = r

Records == RunsFit /\ ProcsFit /\ QueueFits /\ KillsApart

\* Only a cooldown skips.
NoSkips == CooldownJobs = {} => \A r \in RunIds : runs[r].status # "skipped"

\* Nobody dies, no spawn fails and no job is deleted.
NoFaults == MaxCrashes = 0 /\ ~SpawnMayFail /\ "delete" \notin Ops

\* A process sweeps, and queues, only for a job that has a group.
Grouped ==
  \A a \in Actors :
    (\/ Sweeping(proc[a]) \/ proc[a].pc = "enqueue"
     \/ proc[a].pc \in {"admit", "record"} /\ proc[a].held)
      => Group[proc[a].fire] # NoGroup

\* A run on record as queued is in a queue or on its way there, was popped to
\* be launched, or is in the hands of an executor that has not marked it yet.
Popped(r) == \E a \in Actors : proc[a].pc = "launch" /\ proc[a].new = r
Begun(r) == \E e \in Executors : proc[e].pc \in {"start", "build"} /\ proc[e].run = r
QueuedHeld == \A r \in RunIds : runs[r].status = "queued" => (Awaited(r) \/ Popped(r) \/ Begun(r))

\* The fourth layer, where there are no faults.
Lines == registry = Jobs /\ Grouped /\ QueuedHeld

IInv == /\ TypeOK /\ Shape /\ Claims /\ StartedOnce /\ Records /\ NoSkips
        /\ NoFaults => Lines
=============================================================================
