----------------------------- MODULE BoardCards -----------------------------
(***************************************************************************)
(* The cards of the Board: agents run in directories, some launched by the *)
(* launcher and listed by its session-host, some started by hand; a hook   *)
(* writes rows about what they do to the sessions-state file.  A poll      *)
(* reads the list and the file, in either order, and joins them.           *)
(***************************************************************************)
EXTENDS Integers, Sequences, FiniteSets, SequencesExt

CONSTANTS
  Agents,    \* the processes
  Cast,      \* of each: its directory, whether launched, whether its hook writes the launcher's id
  Below,     \* of each directory: itself and those under it
  Activity,  \* _EXTERNAL_ACTIVITY_AFTER
  Stale,     \* STATE_STALE_AFTER
  MaxAgents, MaxTime, MaxRows,  \* bounds: agents ever started, the clock, rows in the file
  MaxBetween   \* bound: what happens between the two reads of a poll

VARIABLES
  now,
  agents,   \* each agent: "off", "running" or "ended", and when it started and ended
  listed,   \* the session-host's list, oldest first
  rows,     \* the sessions-state file, in the order of its keys
  written,  \* when each agent last wrote its older and its newer transcript
  poll      \* which of its two reads a poll has done, what it read, and how much happened since

vars == <<now, agents, listed, rows, written, poll>>

Launched == {a \in Agents : Cast[a].launched}
Running(a) == agents[a].at = "running"
Never == -1

Init ==
  /\ now = 0
  /\ agents = [a \in Agents |-> [at |-> "off", started |-> 0, ended |-> 0]]
  /\ listed = <<>> /\ rows = <<>>
  /\ written = [a \in Agents |-> <<Never, Never>>]
  /\ poll = [first |-> "none", live |-> <<>>, rows |-> <<>>, between |-> 0]

Tick ==
  /\ now < MaxTime /\ now' = now + 1
  /\ UNCHANGED <<agents, listed, rows, written>>

Start(a) ==
  /\ agents[a].at = "off"
  /\ Cardinality({b \in Agents : agents[b].at # "off"}) < MaxAgents
  /\ agents' = [agents EXCEPT ![a] = [at |-> "running", started |-> now, ended |-> 0]]
  /\ listed' = IF a \in Launched THEN Append(listed, a) ELSE listed
  /\ UNCHANGED <<now, rows, written>>

End(a) ==
  /\ Running(a)
  /\ agents' = [agents EXCEPT ![a].at = "ended", ![a].ended = now]
  /\ UNCHANGED <<now, listed, rows, written>>

Reaped(a) ==
  /\ a \in Launched /\ agents[a].at = "ended"
  /\ \E i \in DOMAIN listed : listed[i] = a /\ listed' = RemoveAt(listed, i)
  /\ UNCHANGED <<now, agents, rows, written>>

\* The hook: a row of the agent's own, a new one when it takes up other work, which goes
\* on in the same transcript or starts the next.
Row(a, script) == [author |-> a, updated |-> now, script |-> script]
Newest(a) == IF written[a][2] # Never THEN 2 ELSE 1
Hook(a) ==
  /\ Running(a)
  /\ \E script \in {Newest(a), 2} :
       /\ \/ /\ Len(rows) < MaxRows
             /\ rows' = Append(rows, Row(a, script))
          \/ \E i \in DOMAIN rows :
               /\ rows[i].author = a /\ rows[i].script = script
               /\ rows' = [rows EXCEPT ![i] = Row(a, script)]
       /\ written' = [written EXCEPT ![a][script] = now]
  /\ UNCHANGED <<now, agents, listed>>

\* Between hooks the agent only writes its transcript.
Writes(a) ==
  /\ Running(a) /\ written[a][Newest(a)] \notin {Never, now}
  /\ written' = [written EXCEPT ![a][Newest(a)] = now]
  /\ UNCHANGED <<now, agents, listed, rows>>

-----------------------------------------------------------------------------
\* _match_state_row and _claim_walk: which row each listed session shows.

TellsId(r) == Cast[r.author].launched /\ Cast[r.author].tells

\* The first of the latest: the walk replaces its choice only for a later stamp.
LatestOf(file, some) ==
  CHOOSE i \in some : \A j \in some :
    file[j].updated < file[i].updated \/ (file[j].updated = file[i].updated /\ i <= j)

\* Mutant of Ambiguous: recency decides between sessions of one directory.
AmbiguousNever(s, live) == FALSE

Ambiguous(s, live) == \E i \in DOMAIN live : live[i].id # s /\ Cast[live[i].id].dir = Cast[s].dir

\* The row for session s among those not yet claimed, or 0.
MatchStateRow(s, live, file, unclaimed) ==
  LET exact == {i \in unclaimed : TellsId(file[i]) /\ file[i].author = s}
      nearby == {i \in unclaimed :
                   /\ ~TellsId(file[i])
                   /\ Cast[file[i].author].dir \in Below[Cast[s].dir]
                   /\ file[i].updated >= agents[s].started}
  IN  IF exact # {} THEN LatestOf(file, exact)
      ELSE IF Ambiguous(s, live) \/ nearby = {} THEN 0
      ELSE LatestOf(file, nearby)

\* Newest session first; each claimed row is taken from the rest.
Claim(live, file, done, l) ==
  LET i == MatchStateRow(l.id, live, file, done.unclaimed) IN
  [unclaimed |-> done.unclaimed \ {i},
   pairs |-> done.pairs \cup {[id |-> l.id, alive |-> l.alive, row |-> i]}]
Claims(live, file) ==
  LET walk[k \in 0 .. Len(live)] ==
        IF k = 0 THEN [unclaimed |-> DOMAIN file, pairs |-> {}]
        ELSE Claim(live, file, walk[k - 1], live[Len(live) - k + 1])
  IN  walk
ClaimWalk(live, file) == Claims(live, file)[Len(live)]

\* _external_row_liveness and _external_card: the rows left over that still get a card.
Script(r) == <<r.author, r.script>>
ScriptAge(r) == now - written[r.author][r.script]
External(walk, live, file) ==
  LET claimed == {Script(file[p.row]) : p \in {q \in walk.pairs : q.alive /\ q.row # 0}}
      alive == {live[i].id : i \in {k \in DOMAIN live : live[k].alive}}
  IN  {i \in walk.unclaimed :
         /\ now - file[i].updated <= Stale
         /\ TellsId(file[i]) => file[i].author \in alive
         /\ Script(file[i]) \notin claimed
         /\ ScriptAge(file[i]) <= Activity}

-----------------------------------------------------------------------------
\* get_board: two worker threads read the list and the file; merge_sessions follows at once.

List == [i \in DOMAIN listed |-> [id |-> listed[i], alive |-> Running(listed[i])]]

\* One of the two reads comes first and what it read may be a little old when the other does.
FirstRead ==
  /\ poll.first = "none"
  /\ \/ poll' = [first |-> "list", live |-> List, rows |-> <<>>, between |-> 0]
     \/ poll' = [first |-> "rows", live |-> <<>>, rows |-> rows, between |-> 0]
  /\ UNCHANGED <<now, agents, listed, rows, written>>

Live == IF poll.first = "list" THEN poll.live ELSE List
File == IF poll.first = "rows" THEN poll.rows ELSE rows
Walk == ClaimWalk(Live, File)

Next ==
  \/ /\ poll.between < MaxBetween
     /\ Tick \/ \E a \in Agents : Start(a) \/ End(a) \/ Reaped(a) \/ Hook(a) \/ Writes(a)
     /\ poll' = IF poll.first = "none" THEN poll ELSE [poll EXCEPT !.between = @ + 1]
  \/ FirstRead

Spec == Init /\ [][Next]_vars

-----------------------------------------------------------------------------
TypeOK ==
  /\ now \in 0 .. MaxTime
  /\ \A a \in Agents : agents[a].at \in {"off", "running", "ended"}
  /\ \A i \in DOMAIN listed : listed[i] \in Launched
  /\ Len(rows) <= MaxRows /\ \A i \in DOMAIN rows : rows[i].author \in Agents
  /\ poll.first \in {"none", "list", "rows"} /\ poll.between \in 0 .. MaxBetween

\* A card shows the row of its own session.  It can show another's only when that row does
\* not say whose it is and its writer is not one of the sessions listed for the directory:
\* started by hand, missing from the list read, or at work in a directory below.
CardsShowTheirOwn ==
  \A p \in Walk.pairs : p.row # 0 =>
    LET r == File[p.row] IN
    \/ r.author = p.id
    \/ /\ ~TellsId(r)
       /\ \/ ~Cast[r.author].launched
          \/ \A i \in DOMAIN Live : Live[i].id # r.author
          \/ Cast[r.author].dir # Cast[p.id].dir

\* An external card stands for a process that was running a moment ago; it is never a second
\* card for the conversation of a session that has its own.
ExternalsLive ==
  \A i \in External(Walk, Live, File) :
    LET r == File[i] IN
    /\ Running(r.author) \/ agents[r.author].ended >= now - Activity
    /\ \A p \in Walk.pairs : p.alive /\ p.row # 0 => Script(File[p.row]) # Script(r)

\* What the Board shows is true of the agents that run.
BoardTrue == CardsShowTheirOwn /\ ExternalsLive
=============================================================================
