--------------------------- MODULE PortListeners ---------------------------
(***************************************************************************)
(* The panel of listening ports: app servers found by their sockets, each  *)
(* nested under the app it belongs to, by descent or by directory, and     *)
(* killed by its port.  Sockets are listed first and every process looked  *)
(* at later, while processes start, end, bind ports and reuse pids.        *)
(***************************************************************************)
EXTENDS Naturals, FiniteSets, FiniteSetsExt

CONSTANTS
  Pids,       \* numbers from 1
  Own,        \* the webapp's, not one of them
  Servers,    \* those of them whose process is named like an app server
  Ports,      \* numbers
  Internal,   \* those that are loopback sockets of the dynamic range
  Dirs,       \* directories; Unreadable is that of a process that hides its own
  Layouts,    \* who listens on each port to begin with
  MaxSteps    \* bound: what happens to processes from then on

VARIABLES
  procs,    \* of each pid: whether it is in use, its parent's pid and its directory
  socket,   \* who listens on each port
  conns,    \* the sockets a probe has listed, while it reads the processes
  steps

vars == <<procs, socket, conns, steps>>

Nobody == 0
Unreadable == "unreadable"
NoProbe == [p \in {} |-> Nobody]
Gone == [runs |-> FALSE, parent |-> Nobody, dir |-> Unreadable]
Process == {[runs |-> TRUE, parent |-> q, dir |-> dir] : q \in Pids \cup {Nobody}, dir \in Dirs}

\* A process names its parent's pid, which since may have come to be anybody's.
Init ==
  /\ procs \in [Pids -> Process \cup {Gone}] /\ \A p \in Pids : procs[p].parent # p
  /\ socket \in Layouts /\ \A port \in Ports : socket[port] \in Pids => procs[socket[port]] # Gone
  /\ conns = NoProbe /\ steps = 0

Steps == steps < MaxSteps /\ steps' = steps + 1

Starts ==
  /\ Steps
  /\ \E p \in Pids, process \in Process :
       /\ procs[p] = Gone /\ (process.parent # Nobody => procs[process.parent] # Gone)
       /\ procs' = [procs EXCEPT ![p] = process]
  /\ UNCHANGED <<socket, conns>>

Binds ==
  /\ Steps
  /\ \E p \in Pids, port \in Ports :
       /\ procs[p] # Gone /\ socket[port] = Nobody
       /\ socket' = [socket EXCEPT ![port] = p]
  /\ UNCHANGED <<procs, conns>>

Without(dead) ==
  /\ procs' = [p \in Pids |-> IF p \in dead THEN Gone ELSE procs[p]]
  /\ socket' = [port \in Ports |-> IF socket[port] \in dead THEN Nobody ELSE socket[port]]

Dies ==
  /\ Steps /\ \E p \in Pids : procs[p] # Gone /\ Without({p})
  /\ UNCHANGED conns

-----------------------------------------------------------------------------
\* list_app_listeners: net_connections, then every process by itself.

Probe ==
  /\ conns' = [port \in {q \in Ports \ Internal : socket[q] \notin {Nobody, Own}} |-> socket[port]]
  /\ UNCHANGED <<procs, socket, steps>>

Answered ==
  /\ conns # NoProbe /\ conns' = NoProbe
  /\ UNCHANGED <<procs, socket, steps>>

\* kill_port asks anew who listens.
FindPids(port) == {socket[port]} \ {Nobody, Own}
Kill(port) ==
  /\ FindPids(port) # {} /\ Steps /\ Without(FindPids(port))
  /\ UNCHANGED conns

Next == Starts \/ Binds \/ Dies \/ Probe \/ Answered \/ \E port \in Ports : Kill(port)

Spec == Init /\ [][Next]_vars

-----------------------------------------------------------------------------
\* The listing a probe comes to: the owners, by port.
Owned == {port \in DOMAIN conns : procs[conns[port]].runs /\ conns[port] \in Servers}
Listeners == {conns[port] : port \in Owned}

\* _assign_parents: up the parents to the first that listens, never round in a circle.
NearestAbove(p) ==
  LET Walk[at \in Pids \cup {Nobody}, seen \in SUBSET Pids] ==
        IF at = Nobody \/ at \in seen THEN Nobody
        ELSE IF at \in Listeners THEN at
        ELSE Walk[procs[at].parent, seen \cup {at}]
  IN  Walk[procs[p].parent, {p}]

\* Mutant of Residual: helpers with a parent take part.
ResidualAll(port) == procs[conns[port]].dir # Unreadable

\* _group_residual_by_cwd: of those still on their own, the one of the lowest port is the parent.
Residual(port) == procs[conns[port]].dir # Unreadable /\ NearestAbove(conns[port]) = Nobody
Mates(port) == {q \in Owned : Residual(q) /\ procs[conns[q]].dir = procs[conns[port]].dir}

AssignParents ==
  [port \in Owned |->
     IF Residual(port) /\ port # Min(Mates(port)) THEN conns[Min(Mates(port))] ELSE NearestAbove(conns[port])]

\* probe_ports gives each row the parent's port, the highest if it has more.
ParentPort ==
  LET parent == AssignParents IN
  [port \in Owned |->
     IF parent[port] = Nobody THEN Nobody ELSE Max({q \in Owned : conns[q] = parent[port]})]

\* renderListeners: rows without a parent, and below them their children.
TopLevel == {port \in Owned : ParentPort[port] = Nobody}
Rendered == TopLevel \cup {port \in Owned : ParentPort[port] \in TopLevel}

-----------------------------------------------------------------------------
TypeOK ==
  /\ procs \in [Pids -> Process \cup {Gone}]
  /\ \A port \in Ports : socket[port] \in Pids => procs[socket[port]].runs
  /\ DOMAIN conns \subseteq Ports \ Internal /\ steps <= MaxSteps

\* What nesting means, without the walk: the k-th ancestor that is still there.
Ancestor(p) ==
  LET A[k \in 0 .. Cardinality(Pids)] ==
        IF k = 0 THEN p ELSE IF A[k - 1] = Nobody THEN Nobody ELSE procs[A[k - 1]].parent
  IN  A
FirstListener(p) ==
  LET up == Ancestor(p)
      met == {k \in 1 .. Cardinality(Pids) : up[k] \in Listeners}
  IN  IF met = {} THEN Nobody ELSE IF up[Min(met)] = p THEN Nobody ELSE up[Min(met)]

\* A listener nests under the nearest process above it that listens, whatever pids were
\* reused meanwhile; only one with none above it nests by directory, under one of its own.
NestsWhereItBelongs ==
  \A port \in Owned :
    LET parent == AssignParents[port]
        above == FirstListener(conns[port])
    IN  \/ parent = above
        \/ above = Nobody /\ procs[parent].dir = procs[conns[port]].dir

\* A listener has a row, at the top or below one; but for those of a process that listens on
\* several ports and those whose parent is nested itself.
HasARow ==
  \A port \in Owned \ Rendered : \E q \in Owned \ {port} :
    \/ conns[q] = conns[port]
    \/ conns[q] = AssignParents[port] /\ AssignParents[q] # Nobody

ListenersFound == NestsWhereItBelongs /\ HasARow
=============================================================================
