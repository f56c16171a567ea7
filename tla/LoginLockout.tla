---------------------------- MODULE LoginLockout ----------------------------
(***************************************************************************)
(* The password route and the lock-out in front of it: a doubling wait per *)
(* client, a bounded table of failure streaks, one alert per streak under  *)
(* a global cooldown.  The route checks the wait, awaits the request body  *)
(* and only then judges the password, so logins of one client overlap.     *)
(***************************************************************************)
EXTENDS Integers, Sequences, SequencesExt

CONSTANTS
  Clients,       \* client addresses
  Pc,            \* those of them that are the PC itself
  FreeAttempts, BaseDelay, MaxDelay, ForgetAfter, MaxClients, AlertAfter, AlertCooldown,
  MaxOpen,       \* bound: logins of one client awaiting their body
  MaxWrong,      \* bound: wrong passwords
  MaxTime        \* bound: ticks of the clock

VARIABLES
  clock,
  streaks,       \* _streaks: oldest last failure first
  open,          \* client -> logins past the check, before the verdict
  lastAlert, held,       \* _last_alert (or Never) and _suppressed
  lockedUntil,   \* history: client -> end of the wait its last failure earned
  untold,        \* history: streaks that came to AlertAfter and are in no alert yet
  wrong          \* bound

vars == <<clock, streaks, open, lastAlert, held, lockedUntil, untold, wrong>>

Never == -1
Streak == [client : Clients, failures : Nat, deadline : Nat, last : Nat, alerted : BOOLEAN]

Forgotten(s) == clock - s.last >= ForgetAfter

\* The table is keyed by client: at most one of its entries is c's.
Place(table, c) == CHOOSE i \in DOMAIN table : table[i].client = c
Without(table, c) ==
  IF \E i \in DOMAIN table : table[i].client = c THEN RemoveAt(table, Place(table, c)) ELSE table

\* _live: a forgotten streak is dropped when its client is looked up.
Known(c) == \E i \in DOMAIN streaks : streaks[i].client = c /\ ~Forgotten(streaks[i])
Live(c) == streaks[Place(streaks, c)]
Looked(c) == IF Known(c) THEN streaks ELSE Without(streaks, c)

Wait(c) == IF Known(c) THEN Live(c).deadline - clock ELSE 0

\* Mutant of MakeRoom: the newest streak gives way.
MakeRoomNewest(table) ==
  IF Len(table) >= MaxClients THEN SubSeq(table, 1, Len(table) - 1) ELSE table

\* _make_room: the forgotten at the front go, then the oldest if the table is full.
MakeRoom(table) ==
  LET kept == IF \A i \in DOMAIN table : Forgotten(table[i]) THEN <<>>
              ELSE SubSeq(table, CHOOSE i \in DOMAIN table :
                     ~Forgotten(table[i]) /\ \A k \in 1 .. i - 1 : Forgotten(table[k]), Len(table))
  IN  IF Len(kept) >= MaxClients THEN Tail(kept) ELSE kept

Delay(failures) ==
  LET over == failures - FreeAttempts
      doubled == BaseDelay * 2 ^ (over - 1)
  IN  IF over <= 0 THEN 0 ELSE IF doubled < MaxDelay THEN doubled ELSE MaxDelay

\* The streak of c after one more failure, and the table it is appended to.
Grown(c) ==
  LET n == IF Known(c) THEN Live(c).failures + 1 ELSE 1 IN
  [client |-> c, failures |-> n, deadline |-> clock + Delay(n), last |-> clock,
   alerted |-> n >= AlertAfter]
Rest(c) == IF Known(c) THEN Without(streaks, c) ELSE MakeRoom(Looked(c))

\* c's failure finds the table full of remembered streaks, d's the oldest of them.
Squeezed(c, d) ==
  /\ ~Known(c)
  /\ \E i \in DOMAIN streaks :
       /\ streaks[i].client = d
       /\ \A k \in DOMAIN streaks : streaks[k].last >= streaks[i].last \/ Forgotten(streaks[k])
  /\ Cardinality({k \in DOMAIN streaks : ~Forgotten(streaks[k])}) >= MaxClients

Init ==
  /\ clock = 0 /\ streaks = <<>> /\ open = [c \in Clients |-> 0]
  /\ lastAlert = Never /\ held = 0
  /\ lockedUntil = [c \in Clients |-> 0] /\ untold = 0 /\ wrong = 0

Tick ==
  /\ clock < MaxTime
  /\ clock' = clock + 1
  /\ UNCHANGED <<streaks, open, lastAlert, held, lockedUntil, untold, wrong>>

\* login, up to the await of the body: refused while the client has to wait.
LoginCheck(c) ==
  /\ open[c] < MaxOpen
  /\ streaks' = IF c \in Pc THEN streaks ELSE Looked(c)
  /\ open' = IF c \in Pc \/ Wait(c) <= 0 THEN [open EXCEPT ![c] = @ + 1] ELSE open
  /\ UNCHANGED <<clock, lastAlert, held, lockedUntil, untold, wrong>>

\* _take_alert, once per streak and at most once per cooldown.
TakeAlert(c) ==
  LET due == Grown(c).alerted /\ ~(Known(c) /\ Live(c).alerted)
      cooling == lastAlert # Never /\ clock - lastAlert < AlertCooldown
  IN  /\ lastAlert' = IF due /\ ~cooling THEN clock ELSE lastAlert
      /\ held' = IF ~due THEN held ELSE IF cooling THEN held + 1 ELSE 0
      /\ untold' = untold + (IF Grown(c).failures = AlertAfter THEN 1 ELSE 0)
                         - (IF due /\ ~cooling THEN 1 + held ELSE 0)

\* record_failure
RecordFailure(c) ==
  /\ streaks' = Append(Rest(c), Grown(c))
  /\ lockedUntil' = [d \in Clients |->
       IF d = c THEN Grown(c).deadline
       ELSE IF Squeezed(c, d) THEN 0 ELSE lockedUntil[d]]
  /\ TakeAlert(c)

LoginWrong(c) ==
  /\ open[c] > 0 /\ wrong < MaxWrong
  /\ open' = [open EXCEPT ![c] = @ - 1]
  /\ wrong' = wrong + 1
  /\ IF c \in Pc THEN UNCHANGED <<streaks, lastAlert, held, lockedUntil, untold>>
     ELSE RecordFailure(c)
  /\ UNCHANGED clock

\* reset
LoginRight(c) ==
  /\ open[c] > 0
  /\ open' = [open EXCEPT ![c] = @ - 1]
  /\ streaks' = Without(streaks, c)
  /\ lockedUntil' = [lockedUntil EXCEPT ![c] = 0]
  /\ UNCHANGED <<clock, lastAlert, held, untold, wrong>>

Next ==
  \/ Tick
  \/ \E c \in Clients : LoginCheck(c) \/ LoginWrong(c) \/ LoginRight(c)

Spec == Init /\ [][Next]_vars

-----------------------------------------------------------------------------
TypeOK ==
  /\ streaks \in Seq(Streak) /\ Len(streaks) <= MaxClients
  /\ open \in [Clients -> 0 .. MaxOpen] /\ held \in Nat /\ untold \in Int /\ lastAlert \in {Never} \cup Nat

(* A client serves its whole wait: nothing but the capacity of a table full *)
(* of streaks that are all still remembered, and no older than its own,     *)
(* makes the lock-out forget it early (_live, _make_room, the order that    *)
(* record_failure keeps the table in).                                      *)
LocksHold == \A c \in Clients : clock < lockedUntil[c] => Wait(c) = lockedUntil[c] - clock

(* No guessing attempt goes untold: every streak that came to AlertAfter    *)
(* failures is in an alert, or is held back and counted into the next one.  *)
AlertsAccounted == untold = held

(* Both: how record_failure keeps its table and its alerts.                 *)
LockoutSound == LocksHold /\ AlertsAccounted
=============================================================================
