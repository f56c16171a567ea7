----------------------------- MODULE WebappTray -----------------------------
(***************************************************************************)
(* The tray and the webapp it owns: the thread that starts the webapp,    *)
(* the menu's Restart and Quit, the processes they spawn, a webapp        *)
(* started by hand beside them, and the health watchdog.  Starting is     *)
(* serialised by a named mutex, which a caller stops waiting for after a  *)
(* while; whether a webapp runs is judged by its port.                    *)
(***************************************************************************)
EXTENDS Naturals, Sequences

CONSTANTS
  FailuresToAlert,   \* failures_to_alert
  MaxSpawns          \* bound: webapps spawned

VARIABLES
  procs,       \* the webapps spawned: "booting", "up", "hung" or "gone"
  byHand,      \* a webapp started outside the tray holds the port
  own,         \* WebappManager._proc, or None
  thread,      \* "start" and "restart": where each is in its work
  inMutex,     \* who holds the mutex
  bypassed,    \* history: a start went ahead without the mutex
  gaveUp,      \* history: a start ended while the webapp it spawned did not listen yet
  quit,        \* the tray has quit
  unbound,     \* history: webapps that did not listen yet when the tray quit
  failures, alerted   \* HealthWatchdog

vars == <<procs, byHand, own, thread, inMutex, bypassed, gaveUp, quit, unbound, failures, alerted>>
manager == <<own, thread, inMutex, bypassed, gaveUp, quit, unbound>>
watchdog == <<failures, alerted>>

Threads == {"start", "restart"}
None == 0
Alive(p) == procs[p] # "gone"
Listening(p) == procs[p] \in {"up", "hung"}
PortInUse == byHand \/ \E p \in DOMAIN procs : Listening(p)
IsReachable == byHand \/ \E p \in DOMAIN procs : procs[p] = "up"

Status ==
  CASE PortInUse /\ own # None /\ Alive(own) -> "ours"
    [] PortInUse /\ (own = None \/ ~Alive(own)) -> "external"
    [] ~PortInUse -> "not running"

Init ==
  /\ procs = <<>> /\ byHand = FALSE /\ own = None
  /\ thread = [t \in Threads |-> IF t = "start" THEN "lock" ELSE "idle"]
  /\ inMutex = "nobody" /\ bypassed = FALSE /\ gaveUp = FALSE
  /\ quit = FALSE /\ unbound = {}
  /\ failures = 0 /\ alerted = FALSE

Becomes(p, state) == procs' = [procs EXCEPT ![p] = state]
Goes(t, to) == ~quit /\ thread' = [thread EXCEPT ![t] = to]
Leaves(t) ==
  /\ Goes(t, "idle")
  /\ inMutex' = IF inMutex = t THEN "nobody" ELSE inMutex

\* The webapps themselves: one that cannot bind the port exits.
Boot(p) ==
  /\ procs[p] = "booting" /\ Becomes(p, IF PortInUse THEN "gone" ELSE "up")
  /\ UNCHANGED <<byHand, manager, watchdog>>
Hang(p) == procs[p] = "up" /\ Becomes(p, "hung") /\ UNCHANGED <<byHand, manager, watchdog>>
Die(p) == Alive(p) /\ Becomes(p, "gone") /\ UNCHANGED <<byHand, manager, watchdog>>
ByHand ==
  /\ byHand \/ ~PortInUse
  /\ byHand' = ~byHand
  /\ UNCHANGED <<procs, manager, watchdog>>

Lock(t) ==
  /\ thread[t] = "lock" /\ Goes(t, "inside")
  /\ \/ inMutex = "nobody" /\ inMutex' = t /\ UNCHANGED bypassed
     \/ inMutex # "nobody" /\ bypassed' = TRUE /\ UNCHANGED inMutex
  /\ UNCHANGED <<procs, byHand, own, gaveUp, quit, unbound, watchdog>>

\* Whatever listens is adopted; else a webapp is spawned once the certificate is checked.
Adopt(t) ==
  /\ thread[t] = "inside" /\ PortInUse /\ Leaves(t)
  /\ UNCHANGED <<procs, byHand, own, bypassed, gaveUp, quit, unbound, watchdog>>
\* Mutant of NothingThere: the port is not looked at under the mutex.
NothingThereBlind(t) ==
  /\ thread[t] = "inside" /\ Goes(t, "spawn")
  /\ UNCHANGED <<procs, byHand, own, inMutex, bypassed, gaveUp, quit, unbound, watchdog>>

NothingThere(t) ==
  /\ thread[t] = "inside" /\ ~PortInUse /\ Goes(t, "spawn")
  /\ UNCHANGED <<procs, byHand, own, inMutex, bypassed, gaveUp, quit, unbound, watchdog>>
Spawn(t) ==
  /\ thread[t] = "spawn" /\ Len(procs) < MaxSpawns /\ Goes(t, "ready")
  /\ procs' = Append(procs, "booting") /\ own' = Len(procs')
  /\ UNCHANGED <<byHand, inMutex, bypassed, gaveUp, quit, unbound, watchdog>>

\* _wait_until_ready: something answers, the process is gone or taken away, or time is out.
WaitEnds(t) ==
  /\ thread[t] = "ready" /\ Leaves(t)
  /\ gaveUp' = (gaveUp \/ (own # None /\ procs[own] = "booting"))
  /\ UNCHANGED <<procs, byHand, own, bypassed, quit, unbound, watchdog>>

\* Restart refuses a webapp that is not the tray's, stops its own, and starts.
ClickRestart ==
  /\ thread["restart"] = "idle"
  /\ Goes("restart", CASE Status = "external" -> "idle" [] Status = "ours" -> "stop"
                       [] Status = "not running" -> "lock")
  /\ UNCHANGED <<procs, byHand, own, inMutex, bypassed, gaveUp, quit, unbound, watchdog>>

\* stop looks again, and terminates only what _proc names.
StopOwn ==
  IF Status = "ours" THEN Becomes(own, "gone") /\ own' = None ELSE UNCHANGED <<procs, own>>
RestartStops ==
  /\ thread["restart"] = "stop" /\ Goes("restart", "lock") /\ StopOwn
  /\ UNCHANGED <<byHand, inMutex, bypassed, gaveUp, quit, unbound, watchdog>>

\* quit_app; the threads end with the process and the system frees the mutex.
Quit ==
  /\ ~quit /\ quit' = TRUE /\ StopOwn
  /\ unbound' = {p \in DOMAIN procs : procs[p] = "booting"}
  /\ thread' = [t \in Threads |-> "idle"] /\ inMutex' = "nobody"
  /\ UNCHANGED <<byHand, bypassed, gaveUp, watchdog>>

\* HealthWatchdog.tick probes /healthz and tells each edge once.
Probe ==
  /\ ~quit
  /\ IF IsReachable
     THEN failures' = 0 /\ alerted' = FALSE
     ELSE /\ failures < FailuresToAlert   \* bound: the count is not read after the alert
          /\ failures' = failures + 1
          /\ alerted' = (alerted \/ failures' >= FailuresToAlert)
  /\ UNCHANGED <<procs, byHand, manager>>

Next ==
  \/ ByHand \/ ClickRestart \/ RestartStops \/ Quit \/ Probe
  \/ \E p \in DOMAIN procs : Boot(p) \/ Hang(p) \/ Die(p)
  \/ \E t \in Threads : Lock(t) \/ Adopt(t) \/ NothingThere(t) \/ Spawn(t) \/ WaitEnds(t)

Spec == Init /\ [][Next]_vars

-----------------------------------------------------------------------------
TypeOK ==
  /\ \A p \in DOMAIN procs : procs[p] \in {"booting", "up", "hung", "gone"}
  /\ own \in {None} \cup DOMAIN procs /\ failures \in 0..FailuresToAlert
  /\ inMutex \in {"nobody"} \cup Threads

(* Every webapp the tray has spawned and that still runs is the one it can  *)
(* stop, unless a start went ahead without the mutex or was over before its *)
(* webapp listened; and when the tray has quit none is left but one that    *)
(* did not listen yet (start, restart and stop of WebappManager,            *)
(* cross_process_lock, quit_app).                                           *)
NoStray ==
  ~bypassed /\ ~gaveUp =>
    \A p \in DOMAIN procs : Alive(p) => (p = own /\ ~quit) \/ p \in unbound
=============================================================================
