------------------------------ MODULE FirePlan ------------------------------
(***************************************************************************)
(* When a schedule fires, and which of its recent fires left no run: the  *)
(* walk of upcoming_fires over next_fire and the verdict of missed_fires, *)
(* for every schedule on a short calendar and every history on it.  Time  *)
(* is counted in slots; a day has Day slots and a week Week days.         *)
(***************************************************************************)
EXTENDS Integers, Sequences, FiniteSets, FiniteSetsExt

CONSTANTS
  Day, Week,
  Today,         \* the slot at which coverage is checked
  WindowLength,  \* COVERAGE_WINDOW_DAYS, in slots
  Grace, Early,  \* MISSED_FIRE_GRACE_SECONDS, MISSED_FIRE_EARLY_TOLERANCE_SECONDS
  MaxRuns,       \* MAX_RUNS_PER_JOB
  Cap,           \* the cap of upcoming_fires
  MaxHistory,    \* bound: runs that ever started
  Pins           \* bound: how many of them may be pinned

VARIABLES
  plan,      \* the job's schedule
  began,     \* the later of added_at and schedule_changed_at
  ran,       \* history: the start of every run there ever was
  pinned,    \* those that are pinned
  cursor, fires,   \* the locals of upcoming_fires
  misses,          \* the result of missed_fires
  verdict          \* "none", "open" while the walk is on, "given"

vars == <<plan, began, ran, pinned, cursor, fires, misses, verdict>>

Slots == 0..(Day - 1)
Past == 0..Today
Never == Today + Week * Day
Unscheduled == [type |-> "none", at |-> {}, day |-> 0]

Schedules ==
  {Unscheduled}
  \cup [type : {"daily"}, at : {{m} : m \in Slots}, day : {0}]
  \cup [type : {"daily_times"}, at : (SUBSET Slots) \ {{}}, day : {0}]
  \cup [type : {"weekly"}, at : {{m} : m \in Slots}, day : 0..(Week - 1)]
  \cup [type : {"once"}, at : {{t} : t \in Past}, day : {0}]

DayStart(t) == (t \div Day) * Day
Weekday(t) == (t \div Day) % Week

\* Mutant of Roll: a fire due this very moment is not passed over.
RollLate(candidate, now, period) == IF candidate < now THEN candidate + period ELSE candidate

\* A candidate that is not in the future moves on by a period.
Roll(candidate, now, period) == IF candidate <= now THEN candidate + period ELSE candidate

NextFire(sched, now) ==
  CASE sched.type \in {"daily", "daily_times"} ->
         Min({Roll(DayStart(now) + m, now, Day) : m \in sched.at})
    [] sched.type = "weekly" ->
         LET ahead == (sched.day - Weekday(now)) % Week IN
         Min({Roll(DayStart(now) + m + ahead * Day, now, Week * Day) : m \in sched.at})
    [] sched.type = "once" -> IF Min(sched.at) > now THEN Min(sched.at) ELSE Never
    [] sched.type = "none" -> Never

\* prune_runs keeps the newest unpinned runs and every pinned one.
Newest(n, runs) == {r \in runs : Cardinality({s \in runs : s > r}) < n}
Retained == pinned \cup Newest(MaxRuns, ran \ pinned)

Deadline == Today - Grace
\* Mutant of WindowStart: a pruned history is taken for a whole one.
WindowStartUnclamped == Max({Today - WindowLength, began})

\* The window of missed_fires and its clamps.
WindowStart ==
  LET opens == Max({Today - WindowLength, began})
  IN IF Cardinality(Retained) >= MaxRuns THEN Max({opens, Min(Retained)}) ELSE opens

\* Some run of the set started about when fire was due.
Covers(runs, fire) == \E s \in runs : fire - Early <= s /\ s <= fire + Grace

Init ==
  /\ plan = Unscheduled /\ began = 0 /\ ran = {} /\ pinned = {}
  /\ cursor = 0 /\ fires = <<>> /\ misses = {} /\ verdict = "none"

\* missed_fires is called for a job with any schedule and any history.
Open ==
  /\ verdict = "none" /\ verdict' = "open"
  /\ plan' \in Schedules /\ began' \in {t \in Past : t % 3 = 0}
  /\ ran' \in UNION {kSubset(n, Past) : n \in 0..MaxHistory}
  /\ pinned' \in UNION {kSubset(n, ran') : n \in {k \in 0..Pins : k <= Cardinality(ran')}}
  /\ cursor' = WindowStart'
  /\ UNCHANGED <<fires, misses>>

\* The loop of upcoming_fires goes on.
More ==
  /\ Len(fires) < Cap
  /\ WindowStart < Deadline
  /\ NextFire(plan, cursor) < Deadline

Walk ==
  /\ verdict = "open" /\ More
  /\ cursor' = NextFire(plan, cursor)
  /\ fires' = Append(fires, cursor')
  /\ UNCHANGED <<plan, began, ran, pinned, misses, verdict>>

Judge ==
  /\ verdict = "open" /\ ~More
  /\ verdict' = "given"
  /\ misses' = {fires[i] : i \in {k \in DOMAIN fires : ~Covers(Retained, fires[k])}}
  /\ UNCHANGED <<plan, began, ran, pinned, cursor, fires>>

Next == Open \/ Walk \/ Judge

Spec == Init /\ [][Next]_vars

-----------------------------------------------------------------------------
TypeOK ==
  /\ plan \in Schedules /\ began \in Past /\ ran \subseteq Past /\ pinned \subseteq ran
  /\ fires \in Seq(Past)

\* What a schedule means, slot by slot.
Due(sched, t) ==
  CASE sched.type \in {"daily", "daily_times"} -> t % Day \in sched.at
    [] sched.type = "weekly" -> t % Day \in sched.at /\ Weekday(t) = sched.day
    [] sched.type = "once" -> t \in sched.at
    [] sched.type = "none" -> FALSE

(* The walk meets the fires of the window each once, in order and without a *)
(* gap, up to its cap (upcoming_fires and the roll-forward of next_fire,    *)
(* over midnight and the end of the week).  A fire at the very start of the *)
(* window is not in it.                                                     *)
WalkExact ==
  LET due == {t \in Past : WindowStart < t /\ t < Deadline /\ Due(plan, t)}
      met == {fires[i] : i \in DOMAIN fires}
  IN verdict = "given" =>
       /\ \A i, j \in DOMAIN fires : i < j => fires[i] < fires[j]
       /\ met = {t \in due : Cardinality({u \in due : u < t}) < Cap}

(* A fire reported as missed was due under the current schedule and no run  *)
(* ever started near it, one whose record has been pruned included: the     *)
(* never-flag rules of coverage.py, "a pruned record is not evidence of a   *)
(* missed fire".                                                            *)
NoFalseMiss ==
  \A fire \in misses : fire > began /\ Due(plan, fire) /\ ~Covers(ran, fire)
=============================================================================
