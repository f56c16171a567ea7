--------------------------- MODULE CoverageAlerts ---------------------------
(***************************************************************************)
(* The alerts of the periodic coverage check for one job: what the check  *)
(* may see of its problem, the state file that keeps a standing problem   *)
(* from being reported every cycle, and a state that cannot be written.   *)
(***************************************************************************)
EXTENDS Naturals

CONSTANTS
  Repeat,     \* COVERAGE_ALERT_REPEAT_SECONDS
  MaxWall,    \* bound: ticks
  MaxMissed,  \* bound: missed fires in the window
  MaxLost     \* bound: writes of the state that fail

VARIABLES
  wall,
  broken,      \* the entry is missing or disabled
  missed,      \* len(missed_fires(job))
  alertState,  \* the job's row of coverage-alerts.json, or Quiet
  lastPing,    \* history: the last alert sent, or Quiet after a check without a problem
  hasty,       \* history: alerts that repeated the last one within Repeat
  lost         \* history: writes that failed

vars == <<wall, broken, missed, alertState, lastPing, hasty, lost>>

Results == [entry : {"ok", "broken", "unknown"}, missed : 0..MaxMissed]
Problem(result) == result.entry = "broken" \/ result.missed > 0
\* The signature does not tell a sound entry from one that could not be queried.
Signature(result) == <<result.entry = "broken", result.missed>>
Quiet == [signature |-> <<FALSE, 0>>, at |-> 0]

Init ==
  /\ wall = 0 /\ broken = FALSE /\ missed = 0
  /\ alertState = Quiet /\ lastPing = Quiet /\ hasty = 0 /\ lost = 0

Tick ==
  /\ wall < MaxWall /\ wall' = wall + 1
  /\ UNCHANGED <<broken, missed, alertState, lastPing, hasty, lost>>

\* Entries vanish and are put back, fires are missed and leave the window.
Change ==
  /\ broken' \in BOOLEAN /\ missed' \in 0..MaxMissed
  /\ UNCHANGED <<wall, alertState, lastPing, hasty, lost>>

\* coverage_for: a query that fails says nothing of the entry.
Seen == {r \in Results : r.missed = missed /\ r.entry \in {"unknown", IF broken THEN "broken" ELSE "ok"}}

Standing(result) ==
  /\ alertState.signature = Signature(result)
  /\ wall - alertState.at < Repeat

\* Mutant of WriteAlertState: what was sent is not kept.
WriteAlertStateNever(state) == UNCHANGED <<alertState, lost>>

\* The write may fail, or the process may die once the alerts have gone out.
WriteAlertState(state) ==
  \/ alertState' = state /\ UNCHANGED lost
  \/ state # alertState /\ lost < MaxLost /\ lost' = lost + 1 /\ UNCHANGED alertState

Ping(result) ==
  LET ping == [signature |-> Signature(result), at |-> wall] IN
  /\ lastPing' = ping
  /\ hasty' = IF lastPing.signature = ping.signature /\ wall - lastPing.at < Repeat
              THEN hasty + 1 ELSE hasty
  /\ WriteAlertState(ping)

\* check_and_alert: whatever is no problem drops the row, an unknown entry included.
Check(result) ==
  /\ \/ Problem(result) /\ Standing(result) /\ UNCHANGED <<alertState, lastPing, hasty, lost>>
     \/ Problem(result) /\ ~Standing(result) /\ Ping(result)
     \/ ~Problem(result) /\ lastPing' = Quiet /\ WriteAlertState(Quiet) /\ UNCHANGED hasty
  /\ UNCHANGED <<wall, broken, missed>>

Next == Tick \/ Change \/ \E result \in Seen : Check(result)

Spec == Init /\ [][Next]_vars

-----------------------------------------------------------------------------
TypeOK ==
  /\ alertState.at <= wall /\ lastPing.at <= wall
  /\ broken \in BOOLEAN /\ missed \in 0..MaxMissed /\ lost \in 0..MaxLost

(* A standing problem is reported once within Repeat: two reports of it     *)
(* closer than that have a check without a problem or another problem       *)
(* between them, or a lost write ("losing it costs exactly one duplicate    *)
(* ping", coverage.py).                                                     *)
PingsSpaced == hasty <= lost
=============================================================================
