--------------------------- MODULE SessionRoster ---------------------------
(***************************************************************************)
(* The roster of sessions: clicks that ask the session-host for one over  *)
(* loopback, the worker threads that spawn and register them, the reaper, *)
(* and the life of the host itself, which the tray starts, adopts and     *)
(* stops.  A console session dies with its host; a detached window does   *)
(* not.                                                                   *)
(***************************************************************************)
EXTENDS Naturals, FiniteSets, Sequences

CONSTANTS
  Clicks,      \* launches asked for; each is one click on the page
  Detached,    \* those that ask for a detached window (kind "remote")
  MaxTrouble   \* bound: connections dropped, calls timed out, hosts ended, pids reused

VARIABLES
  host,       \* "down", "booting", "up", or "closing" once its lifespan ends
  tray,       \* the tray is running
  click,      \* what each click's request has come to
  work,       \* worker threads of the host: what each is at, and for whom
  procs,      \* the sessions ever spawned: whose, still running, or how they ended
  roster,     \* SessionManager._sessions
  reused,     \* detached sessions whose console's pid now names another process
  trouble

vars == <<host, tray, click, work, procs, roster, reused, trouble>>

Sids == DOMAIN procs
Running(s) == procs[s].ended = "no"
IsDetached(s) == procs[s].click \in Detached

Init ==
  /\ host = "down" /\ tray = FALSE /\ trouble = 0
  /\ click = [c \in Clicks |-> [at |-> "idle", sid |-> 0]]
  /\ work = {} /\ procs = <<>> /\ roster = {} /\ reused = {}

Goes(c, to) == click' = [click EXCEPT ![c].at = to]
Trouble == trouble < MaxTrouble /\ trouble' = trouble + 1
Waiting(c) == click[c].at \in {"awaited", "awaited again"}

-----------------------------------------------------------------------------
\* session_client and pooled_request: one request, sent once more when the connection drops.

Click(c) ==
  /\ click[c].at = "idle" /\ Goes(c, "sent")
  /\ UNCHANGED <<host, tray, work, procs, roster, reused, trouble>>

Received(c) ==
  /\ click[c].at \in {"sent", "sent again"} /\ host = "up"
  /\ Goes(c, IF click[c].at = "sent" THEN "awaited" ELSE "awaited again")
  /\ work' = work \cup {[click |-> c, at |-> "spawn", sid |-> 0, try |-> click[c].at]}
  /\ UNCHANGED <<host, tray, procs, roster, reused, trouble>>

\* What a click's request comes to when its connection is refused or dropped.
Dropped(at) ==
  CASE at \in {"sent", "awaited"} -> "sent again"
    [] at \in {"sent again", "awaited again"} -> "failed"
    [] OTHER -> at

NotReceived(c) ==
  /\ click[c].at \in {"sent", "sent again"}
  /\ \/ host # "up" /\ UNCHANGED trouble
     \/ host = "up" /\ Trouble
  /\ Goes(c, Dropped(click[c].at))
  /\ UNCHANGED <<host, tray, work, procs, roster, reused>>

\* Mutant of OnTimeout: a call that took too long is sent again as well.
OnTimeoutRetries(at) == Dropped(at)

OnTimeout(at) == "gave up"

TimesOut(c) ==
  /\ Waiting(c) /\ Trouble
  /\ Goes(c, OnTimeout(click[c].at))
  /\ UNCHANGED <<host, tray, work, procs, roster, reused>>

-----------------------------------------------------------------------------
\* create_session: a worker thread spawns the session, then registers it.

\* The answer reaches the click if it still waits for this attempt.
Answer(w, to, sid) ==
  IF click[w.click].at = (IF w.try = "sent" THEN "awaited" ELSE "awaited again")
  THEN [click EXCEPT ![w.click] = [at |-> to, sid |-> sid]] ELSE click

Spawned(w) ==
  procs' = Append(procs, [click |-> w.click, ended |-> "no", here |-> TRUE])

Spawn(w) ==
  /\ w.at = "spawn"
  /\ Spawned(w)
  /\ work' = (work \ {w}) \cup {[w EXCEPT !.at = "register", !.sid = Len(procs) + 1]}
  /\ UNCHANGED <<host, tray, click, roster, reused, trouble>>

\* The directory is gone or the spawn fails; PowerShell may time out with the window open.
SpawnFails(w) ==
  /\ w.at = "spawn" /\ Trouble
  /\ work' = work \ {w}
  /\ click' = Answer(w, "failed", 0)
  /\ UNCHANGED procs \/ (w.click \in Detached /\ Spawned(w))
  /\ UNCHANGED <<host, tray, roster, reused>>

Register(w) ==
  /\ w.at = "register"
  /\ roster' = roster \cup {w.sid}
  /\ work' = work \ {w}
  /\ click' = Answer(w, "told", w.sid)
  /\ UNCHANGED <<host, tray, procs, reused, trouble>>

-----------------------------------------------------------------------------
\* stop, reap_dead and what the sessions do by themselves.

Ended(sids, how) ==
  [s \in Sids |-> IF s \in sids /\ Running(s) THEN [procs[s] EXCEPT !.ended = how] ELSE procs[s]]

Exits(s) ==
  /\ Running(s) /\ procs' = Ended({s}, "exited")
  /\ \/ UNCHANGED <<reused, trouble>>
     \/ IsDetached(s) /\ reused' = reused \cup {s} /\ Trouble
  /\ UNCHANGED <<host, tray, click, work, roster>>

\* A console session quits or is terminated; a detached one is killed by its bare pid.
Stop(s) ==
  /\ host = "up" /\ s \in roster
  /\ procs' = Ended({s}, "stopped")
  /\ reused' = reused \ {s}
  /\ UNCHANGED <<host, tray, click, work, roster, trouble>>

\* alive: of a detached session all that is known is its pid.
LooksAlive(s) == Running(s) \/ s \in reused

Dead == {s \in roster : ~LooksAlive(s)}

ReapDead ==
  /\ host = "up" /\ Dead # {}
  /\ roster' = roster \ Dead
  /\ UNCHANGED <<host, tray, click, work, procs, reused, trouble>>

-----------------------------------------------------------------------------
\* The host and the tray.

Consoles == {s \in Sids : ~IsDetached(s)}

\* The process is over: its consoles close, and so do the connections it had open.
HostEnds ==
  /\ host' = "down"
  /\ LET left == Ended(Consoles, "with the host") IN
       procs' = [s \in Sids |-> [left[s] EXCEPT !.here = FALSE]]
  /\ click' = [c \in Clicks |-> IF Waiting(c) THEN [click[c] EXCEPT !.at = Dropped(@)] ELSE click[c]]
  /\ work' = {} /\ roster' = {}

HostDies ==
  /\ host # "down" /\ Trouble
  /\ HostEnds
  /\ UNCHANGED <<tray, reused>>

KilledAtShutdown == roster \cap Consoles

\* The end of _lifespan: manager.shutdown; the process then waits for its worker threads.
Shutdown ==
  /\ host = "up" /\ Trouble
  /\ host' = "closing"
  /\ procs' = Ended(KilledAtShutdown, "with the host")
  /\ roster' = {}
  /\ UNCHANGED <<tray, click, work, reused>>

Exit ==
  /\ host = "closing" /\ work = {}
  /\ HostEnds
  /\ UNCHANGED <<tray, reused, trouble>>

\* _start_session_host: adopt a host that listens, spawn one otherwise.
TrayStarts ==
  /\ ~tray /\ tray' = TRUE
  /\ host' = IF host = "down" THEN "booting" ELSE host
  /\ UNCHANGED <<click, work, procs, roster, reused, trouble>>

Boots ==
  /\ host = "booting" /\ host' = "up"
  /\ UNCHANGED <<tray, click, work, procs, roster, reused, trouble>>

\* tray.bat --restart ends the tray and leaves the host; Quit reclaims its port if it listens.
TrayEnds ==
  /\ tray /\ tray' = FALSE /\ Trouble
  /\ \/ UNCHANGED <<host, click, work, procs, roster>>
     \/ host \in {"up", "closing"} /\ HostEnds
  /\ UNCHANGED reused

Next ==
  \/ \E c \in Clicks : Click(c) \/ Received(c) \/ NotReceived(c) \/ TimesOut(c)
  \/ \E w \in work : Spawn(w) \/ SpawnFails(w) \/ Register(w)
  \/ \E s \in Sids : Exits(s) \/ Stop(s)
  \/ ReapDead \/ HostDies \/ Shutdown \/ Exit \/ TrayStarts \/ Boots \/ TrayEnds

Spec == Init /\ [][Next]_vars

-----------------------------------------------------------------------------
TypeOK ==
  /\ host \in {"down", "booting", "up", "closing"} /\ tray \in BOOLEAN
  /\ \A c \in Clicks :
       /\ click[c].at \in {"idle", "sent", "awaited", "sent again", "awaited again", "told", "failed", "gave up"}
       /\ click[c].sid \in 0 .. Len(procs)
  /\ \A s \in Sids : procs[s].click \in Clicks /\ procs[s].here \in BOOLEAN
       /\ procs[s].ended \in {"no", "exited", "stopped", "with the host"}
  /\ roster \subseteq Sids /\ reused \subseteq Sids /\ trouble \in 0 .. MaxTrouble

\* While the host serves, a console session that runs can be found: it is listed, or a
\* worker thread is about to list it.  The page could neither show nor stop one that is not.
ConsolesListed ==
  \A s \in Consoles : Running(s) /\ host = "up" => s \in roster \/ \E w \in work : w.sid = s

\* A page that was told of a session finds it in the list as long as it runs and the host
\* that made it serves: neither the reaper nor another launch loses it.
ToldIsListed ==
  \A c \in Clicks : LET s == click[c].sid IN
    click[c].at = "told" /\ Running(s) /\ procs[s].here /\ host = "up" => s \in roster

\* One click starts one session: of the consoles a click asked for at most one runs,
\* however often its request is dropped, retried or given up on.
OneConsolePerClick ==
  \A c \in Clicks \ Detached : Cardinality({s \in Sids : procs[s].click = c /\ Running(s)}) <= 1

\* A detached window outlives the host, whether it dies, is restarted or shuts down in order.
DetachedOutlive == \A s \in Sids : IsDetached(s) => procs[s].ended # "with the host"

\* What the roster of sessions promises to the pages that launch and list them.
RosterSound == ConsolesListed /\ ToldIsListed /\ OneConsolePerClick /\ DetachedOutlive
=============================================================================
