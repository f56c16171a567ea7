---------------------------- MODULE AppInstances ----------------------------
(***************************************************************************)
(* The apps started from the Apps tab: app_runtime keeps a row per app and *)
(* pid in memory, and the routes launch a bat, list what runs and stop a   *)
(* row by its pid.  The operating system gives a pid away again as soon as *)
(* its process has ended.                                                  *)
(***************************************************************************)
EXTENDS Integers, FiniteSets

CONSTANTS
  Apps, Trays,    \* entries that run a bat; those of kind tray among them
  Pids,
  Tolerance,      \* _CREATE_TIME_TOLERANCE_SECONDS
  MaxSeconds,     \* bound: the clock
  MaxProcesses    \* bound: processes started

VARIABLES
  runs,        \* pid -> the process there: [of, born, id]
  instances,   \* _instances: {[app, pid, started]}
  stops,       \* stop requests past is_tracked: {[app, pid, stage]}
  seconds,
  started,     \* processes started so far
  unnoticed,   \* history: rows whose process ended since the last listing, or pruned during a stop
  excused,     \* history: processes recorded late, or while a stop of their row went on
  strays       \* history: kills that hit a process which is not the row's app

vars == <<runs, instances, stops, seconds, started, unnoticed, excused, strays>>

Nothing == [of |-> "nothing", born |-> 0, id |-> 0]
Running(p) == runs[p] # Nothing
Key(x) == <<x.app, x.pid>>
StopOf(key) == \E s \in stops : Key(s) = key

\* Mutant of IsPidAlive: a live pid is trusted, whoever has it.
IsPidAliveByPid(i) == Running(i.pid)

CreatedNear(i) == runs[i.pid].born - i.started \in -Tolerance..Tolerance
IsPidAlive(i) == Running(i.pid) /\ CreatedNear(i)

Init ==
  /\ runs = [p \in Pids |-> Nothing]
  /\ instances = {} /\ stops = {} /\ seconds = 0 /\ started = 0
  /\ unnoticed = {} /\ excused = {} /\ strays = {}

Appear(p, who) ==
  /\ ~Running(p) /\ started < MaxProcesses
  /\ started' = started + 1
  /\ runs' = [runs EXCEPT ![p] = [of |-> who, born |-> seconds, id |-> started + 1]]

\* spawn_bat, then record_spawn a moment later; a tray hands off to another
\* process and is not recorded.
LaunchBatEntry(a, p, wait) ==
  /\ seconds + wait <= MaxSeconds
  /\ Appear(p, a) /\ seconds' = seconds + wait
  /\ instances' = IF a \in Trays THEN instances
                  ELSE {i \in instances : Key(i) # <<a, p>>}
                         \cup {[app |-> a, pid |-> p, started |-> seconds']}
  /\ unnoticed' = unnoticed \ (IF StopOf(<<a, p>>) THEN {} ELSE {<<a, p>>})
  /\ excused' = IF StopOf(<<a, p>>) \/ wait > Tolerance THEN excused \cup {started'} ELSE excused
  /\ UNCHANGED <<stops, strays>>

OtherStarts(p) ==
  Appear(p, "other") /\ UNCHANGED <<instances, stops, seconds, unnoticed, excused, strays>>

Ends(p) ==
  /\ runs' = [runs EXCEPT ![p] = Nothing]
  /\ unnoticed' = unnoticed \cup {Key(i) : i \in {j \in instances : j.pid = p}}

Exits(p) == Running(p) /\ Ends(p) /\ UNCHANGED <<instances, stops, seconds, started, excused, strays>>

\* GET /api/apps/running: prune_dead, then the snapshot of the list.
GetRunningApps ==
  /\ instances' = {i \in instances : IsPidAlive(i)}
  /\ unnoticed' = {key \in unnoticed \cup {Key(i) : i \in instances \ instances'} : StopOf(key)}
  /\ UNCHANGED <<runs, stops, seconds, started, excused, strays>>

\* POST .../stop: the row must be there; the kill is awaited in a thread.
StopAppInstance(a, p) ==
  /\ \E i \in instances : Key(i) = <<a, p>>
  /\ ~StopOf(<<a, p>>)
  /\ stops' = stops \cup {[app |-> a, pid |-> p, stage |-> "kill"]}
  /\ UNCHANGED <<runs, instances, seconds, started, unnoticed, excused, strays>>

\* Whatever has the pid by now is killed.
KillProcessTree(s) ==
  /\ s.stage = "kill"
  /\ strays' = IF Running(s.pid) /\ runs[s.pid].of # s.app
               THEN strays \cup {[unnoticed |-> Key(s) \in unnoticed,
                                  alike |-> \E i \in instances : Key(i) = Key(s) /\ CreatedNear(i)]}
               ELSE strays
  /\ Ends(s.pid)
  /\ stops' = (stops \ {s}) \cup {[s EXCEPT !.stage = "forget"]}
  /\ UNCHANGED <<instances, seconds, started, excused>>

ForgetSpawn(s) ==
  /\ s.stage = "forget" /\ stops' = stops \ {s}
  /\ instances' = {i \in instances : Key(i) # Key(s)}
  /\ unnoticed' = unnoticed \ {Key(s)}
  /\ UNCHANGED <<runs, seconds, started, excused, strays>>

Tick ==
  /\ seconds < MaxSeconds /\ seconds' = seconds + 1
  /\ UNCHANGED <<runs, instances, stops, started, unnoticed, excused, strays>>

Next ==
  \/ \E a \in Apps, p \in Pids, wait \in 0..MaxSeconds : LaunchBatEntry(a, p, wait)
  \/ \E a \in Apps, p \in Pids : StopAppInstance(a, p)
  \/ \E p \in Pids : OtherStarts(p) \/ Exits(p)
  \/ \E s \in stops : KillProcessTree(s) \/ ForgetSpawn(s)
  \/ GetRunningApps \/ Tick

Spec == Init /\ [][Next]_vars

-----------------------------------------------------------------------------

TypeOK ==
  /\ \A p \in Pids :
       Running(p) => runs[p] \in [of : Apps \cup {"other"}, born : 0..MaxSeconds, id : 1..MaxProcesses]
  /\ instances \subseteq [app : Apps \ Trays, pid : Pids, started : 0..MaxSeconds]
  /\ stops \subseteq [app : Apps, pid : Pids, stage : {"kill", "forget"}]
  /\ seconds \in 0..MaxSeconds /\ started \in 0..MaxProcesses
  /\ unnoticed \subseteq Apps \X Pids /\ excused \subseteq 1..MaxProcesses
  /\ strays \subseteq [unnoticed : BOOLEAN, alike : BOOLEAN]

\* A Stop hits a process that is not its app only if the app has ended unseen
\* since the list was last read, or the pid was taken again within the
\* tolerance of the recorded start.  Listing is what prunes rows; the route
\* itself asks for no more than a row.
StrayKillsExplained == \A k \in strays : k.unnoticed \/ k.alike

\* An app that runs is listed, unless it was recorded more than the tolerance
\* after its process was created, or took the pid of a row being stopped.
RunningListed ==
  \A p \in Pids :
    runs[p].of \in Apps \ Trays /\ runs[p].id \notin excused =>
      [app |-> runs[p].of, pid |-> p] \in {[app |-> i.app, pid |-> i.pid] : i \in instances}

\* The rows stand for the apps that run: of app_runtime's create-time check.
AppsAccounted == StrayKillsExplained /\ RunningListed
=============================================================================
