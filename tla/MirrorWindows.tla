---------------------------- MODULE MirrorWindows ----------------------------
(***************************************************************************)
(* The PC's mirror windows of coding sessions: Edge windows found by their *)
(* title, the registry of their handles that a restart of the webapp       *)
(* forgets, the thread that polls for a fresh window, the routes that open *)
(* or focus one and close it with its session, and the sweep at startup.   *)
(***************************************************************************)
EXTENDS Naturals, FiniteSets

CONSTANTS
  Sessions,
  MaxWindows,   \* bound: windows opened
  MaxRestarts   \* bound: restarts of the webapp

VARIABLES
  windows,     \* the windows opened: [sid, is]; titled once the page is loaded
  mirrorHwnds, \* _mirror_hwnds: a window or NoWindow
  polling,     \* sessions a thread polls the window of
  clicks,      \* per session, mirror requests that found no window and will open one
  session,     \* "none" yet, "live" on the session host, or "ended"
  hostUp,      \* the session host answers
  stopping,    \* sessions whose stop has dealt with the window and goes on to the host
  sweep,       \* "list", "close" or "done"; requests are served from then on
  listed,      \* what the host listed for the sweep
  restarts,
  rushed,      \* history: sessions opened while a window of theirs was not to be found yet
  swept        \* history: sessions that were alive when the sweep closed a window of theirs

vars == <<windows, mirrorHwnds, polling, clicks, session, hostUp, stopping, sweep, listed, restarts,
          rushed, swept>>
webapp == <<mirrorHwnds, polling, clicks, stopping, sweep, listed, restarts>>

NoWindow == 0
Live == {s \in Sessions : session[s] = "live"}
Ids == DOMAIN windows
On(sid) == {w \in Ids : windows[w].sid = sid /\ windows[w].is # "closed"}
Titled(sid) == {w \in On(sid) : windows[w].is = "titled"}
Close(ws) == windows' = [w \in Ids |-> IF w \in ws THEN [windows[w] EXCEPT !.is = "closed"] ELSE windows[w]]
\* A window that the next look at the desktop will not find.
Coming(sid) == clicks[sid] > 0 \/ On(sid) # Titled(sid)

Init ==
  /\ windows = <<>> /\ session = [s \in Sessions |-> "none"] /\ hostUp = TRUE
  /\ mirrorHwnds = [s \in Sessions |-> NoWindow]
  /\ polling = {} /\ clicks = [s \in Sessions |-> 0]
  /\ stopping = {} /\ sweep = "done" /\ listed = {} /\ restarts = 0
  /\ rushed = {} /\ swept = {}

\* open_local_terminal_window: a window, and a thread that looks for it.
Open(sid) ==
  /\ Cardinality(Ids) < MaxWindows
  /\ windows' = [w \in 1..Cardinality(Ids) + 1 |->
                   IF w \in Ids THEN windows[w] ELSE [sid |-> sid, is |-> "opening"]]
  /\ polling' = polling \cup {sid}

\* A session launched from the page goes on to open its window.
Launch(sid) ==
  /\ sweep = "done" /\ hostUp /\ session[sid] = "none"
  /\ session' = [session EXCEPT ![sid] = "live"] /\ clicks' = [clicks EXCEPT ![sid] = 1]
  /\ UNCHANGED <<windows, mirrorHwnds, polling, hostUp, stopping, sweep, listed, restarts, rushed, swept>>

SetTitle(w) ==
  /\ windows[w].is = "opening" /\ windows' = [windows EXCEPT ![w].is = "titled"]
  /\ UNCHANGED <<webapp, session, hostUp, rushed, swept>>
\* By the user, by the page on the host's shutdown frame, or by Edge.
WindowCloses(w) ==
  /\ windows[w].is # "closed" /\ Close({w})
  /\ UNCHANGED <<webapp, session, hostUp, rushed, swept>>

\* _poll_for_mirror_hwnd registers the first match, or gives up after a while.
PollFinds(sid) ==
  /\ sid \in polling /\ polling' = polling \ {sid}
  /\ \E w \in Titled(sid) : mirrorHwnds' = [mirrorHwnds EXCEPT ![sid] = w]
  /\ UNCHANGED <<windows, clicks, session, hostUp, stopping, sweep, listed, restarts, rushed, swept>>
PollTimesOut(sid) ==
  /\ sid \in polling /\ Titled(sid) = {} /\ polling' = polling \ {sid}
  /\ UNCHANGED <<windows, mirrorHwnds, clicks, session, hostUp, stopping, sweep, listed, restarts, rushed, swept>>

IsWindow(w) == w # NoWindow /\ windows[w].is # "closed"

\* Mutant of Focusable: only the registry is asked.
FocusableRegistered(sid) == {w \in {mirrorHwnds[sid]} : IsWindow(w)}

\* focus_mirror_window: a registered window that is still one, else a fresh
\* look at the titles.
Focusable(sid) == IF IsWindow(mirrorHwnds[sid]) THEN {mirrorHwnds[sid]} ELSE Titled(sid)

\* open_or_focus_mirror_window, in a thread of each request: between finding
\* nothing and the new window's title another request can find nothing too.
MirrorFocuses(sid) ==
  /\ sweep = "done"
  /\ \E w \in Focusable(sid) : mirrorHwnds' = [mirrorHwnds EXCEPT ![sid] = w]
  /\ UNCHANGED <<windows, polling, clicks, session, hostUp, stopping, sweep, listed, restarts, rushed, swept>>
MirrorFindsNone(sid) ==
  /\ sweep = "done" /\ session[sid] # "none" /\ Focusable(sid) = {} /\ clicks[sid] < 2
  /\ mirrorHwnds' = [mirrorHwnds EXCEPT ![sid] = NoWindow]
  /\ clicks' = [clicks EXCEPT ![sid] = @ + 1]
  /\ rushed' = IF Coming(sid) THEN rushed \cup {sid} ELSE rushed
  /\ UNCHANGED <<windows, polling, session, hostUp, stopping, sweep, listed, restarts, swept>>
MirrorOpens(sid) ==
  /\ clicks[sid] > 0 /\ clicks' = [clicks EXCEPT ![sid] = @ - 1] /\ Open(sid)
  /\ UNCHANGED <<mirrorHwnds, session, hostUp, stopping, sweep, listed, restarts, rushed, swept>>

\* stop_coding_session: close_mirror_window, then the host's stop.
CloseMirrorWindow(sid) ==
  /\ sweep = "done" /\ session[sid] = "live" /\ sid \notin stopping
  /\ mirrorHwnds' = [mirrorHwnds EXCEPT ![sid] = NoWindow]
  /\ IF IsWindow(mirrorHwnds[sid]) THEN Close({mirrorHwnds[sid]})
     ELSE IF Titled(sid) # {} THEN \E w \in Titled(sid) : Close({w})
     ELSE UNCHANGED windows
  /\ stopping' = stopping \cup {sid}
  /\ UNCHANGED <<polling, clicks, session, hostUp, sweep, listed, restarts, rushed, swept>>
HostStops(sid) ==
  /\ sid \in stopping /\ stopping' = stopping \ {sid}
  /\ session' = [session EXCEPT ![sid] = IF hostUp THEN "ended" ELSE @]
  /\ UNCHANGED <<windows, mirrorHwnds, polling, clicks, hostUp, sweep, listed, restarts, rushed, swept>>

AgentExits(sid) ==
  /\ session[sid] = "live" /\ session' = [session EXCEPT ![sid] = "ended"]
  /\ UNCHANGED <<windows, webapp, hostUp, rushed, swept>>
HostComesOrGoes ==
  /\ hostUp' = ~hostUp /\ UNCHANGED <<windows, webapp, session, rushed, swept>>

\* The restarted webapp reconciles the windows before it serves a request.
Restart ==
  /\ restarts < MaxRestarts /\ restarts' = restarts + 1
  /\ mirrorHwnds' = [s \in Sessions |-> NoWindow]
  /\ polling' = {} /\ clicks' = [s \in Sessions |-> 0] /\ stopping' = {}
  /\ sweep' = "list" /\ listed' = {}
  /\ UNCHANGED <<windows, session, hostUp, rushed, swept>>
SweepLists ==
  /\ sweep = "list"
  /\ sweep' = IF hostUp THEN "close" ELSE "done"
  /\ listed' = IF hostUp THEN Live ELSE {}
  /\ UNCHANGED <<windows, mirrorHwnds, polling, clicks, session, hostUp, stopping, restarts, rushed, swept>>
\* close_orphan_mirror_windows
SweepCloses ==
  /\ sweep = "close" /\ sweep' = "done"
  /\ LET orphans == UNION {Titled(s) : s \in Sessions \ listed} IN
       /\ Close(orphans)
       /\ swept' = swept \cup ({windows[w].sid : w \in orphans} \cap Live)
  /\ UNCHANGED <<mirrorHwnds, polling, clicks, session, hostUp, stopping, listed, restarts, rushed>>

Next ==
  \/ \E s \in Sessions :
       \/ Launch(s) \/ AgentExits(s)
       \/ PollFinds(s) \/ PollTimesOut(s)
       \/ MirrorFocuses(s) \/ MirrorFindsNone(s) \/ MirrorOpens(s)
       \/ CloseMirrorWindow(s) \/ HostStops(s)
  \/ \E w \in Ids : SetTitle(w) \/ WindowCloses(w)
  \/ HostComesOrGoes \/ Restart \/ SweepLists \/ SweepCloses

Spec == Init /\ [][Next]_vars

-----------------------------------------------------------------------------

TypeOK ==
  /\ \A w \in Ids : windows[w] \in [sid : Sessions, is : {"opening", "titled", "closed"}]
  /\ mirrorHwnds \in [Sessions -> {NoWindow} \cup Ids]
  /\ clicks \in [Sessions -> 0..2] /\ session \in [Sessions -> {"none", "live", "ended"}]
  /\ polling \subseteq Sessions /\ stopping \subseteq Sessions
  /\ hostUp \in BOOLEAN /\ sweep \in {"list", "close", "done"} /\ listed \subseteq Sessions
  /\ restarts \in 0..MaxRestarts /\ rushed \subseteq Sessions /\ swept \subseteq Sessions

\* A session has a second window only if a request came while the first was
\* not to be found by its title yet: restarts, lost polls and stale handles
\* make no duplicate.
OneWindow == \A s \in Sessions : Cardinality(On(s)) > 1 => s \in rushed

\* The sweep never closes the window of a session that is alive, whether or
\* not the session host answered it.
SweepSparesLive == swept = {}

\* A registered window is one of its session.
RegisteredOwn == \A s \in Sessions : mirrorHwnds[s] # NoWindow => windows[mirrorHwnds[s]].sid = s

MirrorsKept == OneWindow /\ SweepSparesLive /\ RegisteredOwn
=============================================================================
