----------------------------- MODULE TrayChildren -----------------------------
(***************************************************************************)
(* What the tray starts beside the webapp: the Cloudflare tunnel, its      *)
(* child, with the URL file other parts read, and the session host, which  *)
(* is nobody's child and is found again by its port.  Both are started by  *)
(* threads of their own, which Quit does not wait for.                     *)
(***************************************************************************)
EXTENDS Naturals, FiniteSets

CONSTANTS
  MaxTrays,    \* bound: trays that become the one instance
  MaxTrouble   \* bound: processes that die or cannot be killed

Hosts == 0 .. MaxTrays      \* a tray starts at most one host and one tunnel; 0 was there

VARIABLES
  tray,        \* the tray that holds the mutex, 0 for none
  trays,       \* trays so far
  quitting,    \* quit_app: 0, or the step it is at
  hostThread,  \* _start_session_host: "look", "spawn", "done"
  tunnelThread,\* _start_tunnel: "spawn", "keep", "write", "done"
  host,        \* session hosts: "none", "booting", "up", "gone"
  tunnel,      \* tunnels: "none", "up", "gone"
  tunnelProc,  \* tunnel_proc, 0 for None
  urlFile,     \* the tunnel last_tunnel_url.txt was written for, 0: no file
  trouble,
  ended,       \* history: how the last tray went, "quit" or "killed"
  blind, late  \* history: processes Quit had no way to end; the file came after it was removed

vars == <<tray, trays, quitting, hostThread, tunnelThread, host, tunnel, tunnelProc, urlFile, trouble,
          ended, blind, late>>

PortListening == \E h \in Hosts : host[h] = "up"

Init ==
  /\ tray = 0 /\ trays = 0 /\ quitting = 0
  /\ hostThread = "done" /\ tunnelThread = "done"
  /\ host \in [Hosts -> {"none", "up"}] /\ \A h \in Hosts : host[h] = "up" => h = 0
  /\ tunnel = [t \in Hosts |-> "none"] /\ tunnelProc = 0 /\ urlFile = 0 /\ trouble = 0
  /\ ended = "killed" /\ blind = {} /\ late = FALSE

\* run_tray: with the mutex, a tray starts its threads; without, it exits.
StartTray ==
  /\ tray = 0 /\ trays < MaxTrays
  /\ trays' = trays + 1 /\ tray' = trays + 1
  /\ hostThread' = "look" /\ tunnelThread' = "spawn" /\ quitting' = 0 /\ tunnelProc' = 0
  /\ late' = FALSE
  /\ UNCHANGED <<host, tunnel, urlFile, trouble, ended, blind>>

\* _start_session_host: a listening port is a host to adopt ...
LookForHost ==
  /\ tray # 0 /\ hostThread = "look"
  /\ hostThread' = IF PortListening THEN "done" ELSE "spawn"
  /\ UNCHANGED <<tray, trays, quitting, tunnelThread, host, tunnel, tunnelProc, urlFile, trouble, ended, blind, late>>

\* ... otherwise one is spawned, outside the tray's tree.  Quit may have looked before.
SpawnHost ==
  /\ tray # 0 /\ hostThread = "spawn" /\ hostThread' = "done"
  /\ host' = [host EXCEPT ![tray] = "booting"]
  /\ blind' = IF quitting > 2 THEN blind \cup {<<"host", tray>>} ELSE blind
  /\ UNCHANGED <<tray, trays, quitting, tunnelThread, tunnel, tunnelProc, urlFile, trouble, ended, late>>

\* The host binds its port, or finds it taken and exits.
HostBoots(h) ==
  /\ host[h] = "booting" /\ host' = [host EXCEPT ![h] = IF PortListening THEN "gone" ELSE "up"]
  /\ UNCHANGED <<tray, trays, quitting, hostThread, tunnelThread, tunnel, tunnelProc, urlFile, trouble,
                 ended, blind, late>>

\* _start_tunnel: cloudflared is spawned, ...
SpawnTunnel ==
  /\ tray # 0 /\ tunnelThread = "spawn" /\ tunnelThread' = "keep"
  /\ tunnel' = [tunnel EXCEPT ![tray] = "up"]
  /\ UNCHANGED <<tray, trays, quitting, hostThread, host, tunnelProc, urlFile, trouble, ended, blind, late>>

\* ... its handle kept, ...
KeepTunnel ==
  /\ tray # 0 /\ tunnelThread = "keep" /\ tunnelThread' = "write" /\ tunnelProc' = tray
  /\ UNCHANGED <<tray, trays, quitting, hostThread, host, tunnel, urlFile, trouble, ended, blind, late>>

\* ... and its URL written.
WriteUrl ==
  /\ tray # 0 /\ tunnelThread = "write" /\ tunnelThread' = "done" /\ urlFile' = tray
  /\ late' = (late \/ quitting > 1)
  /\ UNCHANGED <<tray, trays, quitting, hostThread, host, tunnel, tunnelProc, trouble, ended, blind>>

\* quit_app, _stop_tunnel: whatever handle is there is taken and ended.  Without one the
\* file is left, too.
StopTunnel ==
  /\ tray # 0 /\ quitting = 0
  /\ quitting' = IF tunnelProc = 0 THEN 2 ELSE 1
  /\ tunnelProc' = 0
  /\ tunnel' = IF tunnelProc = 0 THEN tunnel ELSE [tunnel EXCEPT ![tunnelProc] = "gone"]
  /\ blind' = IF tunnelProc = 0 THEN blind \cup {<<"tunnel", tray>>} ELSE blind
  /\ UNCHANGED <<tray, trays, hostThread, tunnelThread, host, urlFile, trouble, ended, late>>

\* Mutant of RemoveUrl: the file is left.
RemoveUrlNever ==
  /\ quitting = 1 /\ quitting' = 2
  /\ UNCHANGED <<tray, trays, hostThread, tunnelThread, host, tunnel, tunnelProc, urlFile, trouble, ended, blind, late>>

RemoveUrl ==
  /\ quitting = 1 /\ quitting' = 2 /\ urlFile' = 0
  /\ UNCHANGED <<tray, trays, hostThread, tunnelThread, host, tunnel, tunnelProc, trouble, ended, blind, late>>

\* _stop_session_host: the listener on the port is reclaimed, if the helper succeeds; a
\* host that does not listen yet is not looked for.
StopHost ==
  /\ quitting = 2 /\ quitting' = 3
  /\ \/ host' = [h \in Hosts |-> IF host[h] = "up" THEN "gone" ELSE host[h]] /\ trouble' = trouble
     \/ PortListening /\ trouble < MaxTrouble /\ trouble' = trouble + 1 /\ host' = host
  /\ blind' = blind \cup {<<"host", h>> : h \in {x \in Hosts : host[x] = "booting" \/ host'[x] = "up"}}
  /\ UNCHANGED <<tray, trays, hostThread, tunnelThread, tunnel, tunnelProc, urlFile, ended, late>>

\* The process ends, its threads with it; a tunnel spawned and not yet kept stays behind.
Exit ==
  /\ quitting = 3 /\ tray' = 0 /\ quitting' = 0 /\ hostThread' = "done" /\ tunnelThread' = "done"
  /\ ended' = "quit"
  /\ UNCHANGED <<trays, host, tunnel, tunnelProc, urlFile, trouble, blind, late>>

\* tray.bat --restart: the tray and its tree are killed.  The session host is not in it,
\* and nothing is cleaned up.
Kill ==
  /\ tray # 0 /\ tray' = 0 /\ quitting' = 0 /\ hostThread' = "done" /\ tunnelThread' = "done"
  /\ tunnel' = [tunnel EXCEPT ![tray] = IF @ = "up" THEN "gone" ELSE @]
  /\ ended' = "killed"
  /\ UNCHANGED <<trays, host, tunnelProc, urlFile, trouble, blind, late>>

\* cloudflared or the session host dies.
Dies ==
  /\ trouble < MaxTrouble /\ trouble' = trouble + 1
  /\ \/ \E t \in Hosts : tunnel[t] = "up" /\ tunnel' = [tunnel EXCEPT ![t] = "gone"] /\ host' = host
     \/ \E h \in Hosts : host[h] = "up" /\ host' = [host EXCEPT ![h] = "gone"] /\ tunnel' = tunnel
  /\ UNCHANGED <<tray, trays, quitting, hostThread, tunnelThread, tunnelProc, urlFile, ended, blind, late>>

Next ==
  \/ StartTray \/ LookForHost \/ SpawnHost \/ SpawnTunnel \/ KeepTunnel \/ WriteUrl
  \/ StopTunnel \/ RemoveUrl \/ StopHost \/ Exit \/ Kill \/ Dies
  \/ \E h \in Hosts : HostBoots(h)

Spec == Init /\ [][Next]_vars

-----------------------------------------------------------------------------

TypeOK ==
  /\ {tray, trays, tunnelProc, urlFile} \subseteq Hosts /\ quitting \in 0 .. 3
  /\ \A h \in Hosts : host[h] \in {"none", "booting", "up", "gone"} /\ tunnel[h] \in {"none", "up", "gone"}

\* However trays come and go, one session host has the port, and one tunnel runs, unless
\* a Quit left one it had no handle of.
OneOfEach ==
  /\ Cardinality({h \in Hosts : host[h] = "up"}) <= 1
  /\ \A t \in Hosts : tunnel[t] = "up" => t = tray \/ <<"tunnel", t>> \in blind

\* A tray that has quit leaves no tunnel, no session host and no URL behind, but for
\* those it had no handle of yet, or could not kill; a URL file whose tunnel it had no
\* handle of; and one written while it was quitting.
NothingLeft ==
  tray = 0 /\ ended = "quit" =>
    /\ \A h \in Hosts : tunnel[h] = "up" => <<"tunnel", h>> \in blind
    /\ \A h \in Hosts : host[h] = "up" => <<"host", h>> \in blind
    /\ urlFile # 0 => late \/ <<"tunnel", trays>> \in blind

\* The URL is that of the tunnel that runs, once the tray is past its start: a tray that
\* was killed leaves its file for the next to replace.
UrlCurrent == tray # 0 /\ quitting = 0 /\ tunnelThread = "done" => urlFile = tray

ChildrenTrue == OneOfEach /\ NothingLeft /\ UrlCurrent
=============================================================================
