----------------------------- MODULE RunHistory -----------------------------
(***************************************************************************)
(* The run directories of one job, over many runs: the cooldown that reads *)
(* them before a fire, the pruning that ends each run, pins set from the   *)
(* webapp meanwhile, the rows of the search index, and the streak of       *)
(* failures an executor counts when it reports its own.  Executors and the *)
(* webapp are separate processes; each record write is atomic and its row  *)
(* follows as a step of its own.                                           *)
(***************************************************************************)
EXTENDS Naturals, Sequences, FiniteSets, FiniteSetsExt

CONSTANTS
  Keeps,     \* MAX_RUNS_PER_JOB: values to choose from
  Cooldown,  \* cooldown_seconds
  Streak,    \* notify_failure_streak
  MaxRuns,   \* bound: run directories ever made
  MaxBusy,   \* bound, for each of Keeps: executors at once
  MaxDry,    \* bound, for each of Keeps: dry runs
  MaxTime,   \* bound: clock
  Pinnable   \* bound, for each of Keeps: runs one pin may be asked for

VARIABLES
  clock,
  keep,      \* how many unpinned runs a prune leaves
  runs,      \* every run there ever was, in the order of their ids
  kept,      \* those that have a directory
  rows,      \* the index: run -> its row
  step,      \* run -> where its executor is
  todo,      \* run -> directories its prune has yet to remove
  admitted,  \* fires past the cooldown check, their directory not made yet
  pin,       \* the pin request under way
  pins,
  told,      \* history: runs that raised the alert of a streak
  calm,      \* history: runs no other run was under way beside
  safe,      \* history: runs pinned while their directory was there to stay
  crossed    \* history: runs whose row met another writer's

vars == <<clock, keep, runs, kept, rows, step, todo, admitted, pin, pins, told, calm, safe, crossed>>

Runs == DOMAIN runs
NoPin == [at |-> "none", run |-> 0]
NoRow == [status |-> "no row", pinned |-> FALSE]
Row(run) == [status |-> run.status, pinned |-> run.pinned]
NotFires == {"skipped", "dry_run_success", "dry_run_failed"}
Newest(records) == IF records = {} THEN 0 ELSE Max(records)

Init ==
  /\ clock = 0 /\ keep \in Keeps /\ runs = << >> /\ kept = {} /\ rows = << >>
  /\ step = << >> /\ todo = << >> /\ admitted = << >>
  /\ pin = NoPin /\ pins = 0
  /\ told = {} /\ calm = {} /\ safe = {} /\ crossed = {}

-----------------------------------------------------------------------------

\* Mutant of Anchor: every record counts.
AnchorAny(records) == Newest(records)

\* cooldown_check: the newest run on record that is neither a skip nor a dry check.
Anchor(records) == Newest({r \in records : runs[r].status \notin NotFires})

Cooling == Anchor(kept) # 0 /\ clock < runs[Anchor(kept)].began + Cooldown

Fires == {r \in Runs : ~runs[r].dry /\ runs[r].status # "skipped"}

\* Mutant of Unpinned: a pin is not looked at.
UnpinnedOrNot(records, dirs) == dirs

\* prune_runs keeps the pinned directories and the newest keep of the others.
Unpinned(records, dirs) == {r \in dirs : ~records[r].pinned}
OldAfter(records, dirs) ==
  LET unpinned == Unpinned(records, dirs) IN
  {r \in unpinned : Cardinality({t \in unpinned : t > r}) >= keep}

\* new_run_dir and the first record, with its row.
Make(run, at) ==
  LET r == Len(runs) + 1
      busy == {s \in Runs : step[s] # "done"} IN
  /\ Len(runs) < MaxRuns /\ Cardinality(busy) < MaxBusy[keep]
  /\ runs' = Append(runs, run) /\ kept' = kept \cup {r}
  /\ rows' = Append(rows, Row(run)) /\ step' = Append(step, at)
  /\ todo' = Append(todo, IF at = "remove" THEN OldAfter(runs', kept') ELSE {})
  /\ calm' = IF busy = {} THEN calm \cup {r} ELSE calm \ busy
  /\ UNCHANGED <<clock, keep, pin, pins, told, safe, crossed>>

\* Of a run: the last fire its cooldown check knew of, and whether that was on record.
Run(status, dry) ==
  [began |-> clock, status |-> status, dry |-> dry, pinned |-> FALSE, whole |-> TRUE,
   anchor |-> 0, seen |-> 0, blind |-> FALSE]

\* A fire passes the check of the route or of the executor ...
Admit ==
  /\ ~Cooling /\ Len(admitted) < 2 /\ Len(runs) + Len(admitted) < MaxRuns
  /\ admitted' = Append(admitted, [seen |-> Newest(Fires), blind |-> Fires # {} /\ Newest(Fires) \notin kept])
  /\ UNCHANGED <<clock, keep, runs, kept, rows, step, todo, pin, pins, told, calm, safe, crossed>>

\* ... and only then makes its directory.
Create ==
  /\ admitted # << >> /\ admitted' = Tail(admitted)
  /\ Make([Run("running", FALSE) EXCEPT !.seen = Head(admitted).seen, !.blind = Head(admitted).blind],
          "running")

\* _finalize_cooldown_skip: a scheduled fire inside the window leaves a record, and prunes.
Skip ==
  /\ Cooling
  /\ Make([Run("skipped", FALSE) EXCEPT !.anchor = Anchor(kept)], "remove")
  /\ UNCHANGED admitted

\* _dry_run_check resolves only, _dry_run_execute goes through the executor; neither
\* asks for the cooldown.
MayDry == Cardinality({r \in Runs : runs[r].dry}) < MaxDry[keep]
DryCheck == MayDry /\ Make(Run("dry_run_success", TRUE), "done") /\ UNCHANGED admitted
DryExecute == MayDry /\ Make(Run("running", TRUE), "running") /\ UNCHANGED admitted

-----------------------------------------------------------------------------
\* An executor.

Goes(r, from, to) == step[r] = from /\ step' = [step EXCEPT ![r] = to]

\* _finalize_run: the outcome ...
Finish(r, outcome) ==
  /\ Goes(r, "running", "sync")
  /\ runs' = [runs EXCEPT ![r].status = outcome]
  /\ crossed' = IF pin.run = r THEN crossed \cup {r} ELSE crossed
  /\ UNCHANGED <<clock, keep, kept, rows, todo, admitted, pin, pins, told, calm, safe>>

\* ... its row, with the pin as this writer merged it, or as a later one has it, and
\* the directories to remove ...
ListOld(r) ==
  /\ Goes(r, "sync", "remove")
  /\ \E pinned \in {runs[r].pinned} \cup (IF r \in crossed THEN {FALSE} ELSE {}) :
       rows' = [rows EXCEPT ![r] = [status |-> runs[r].status, pinned |-> pinned]]
  /\ todo' = [todo EXCEPT ![r] = OldAfter(runs, kept)]
  /\ UNCHANGED <<clock, keep, runs, kept, admitted, pin, pins, told, calm, safe, crossed>>

\* ... newest first; the log a running child has open keeps its directory ...
RemoveOld(r) ==
  LET s == Newest(todo[r]) IN
  /\ step[r] = "remove" /\ s # 0
  /\ todo' = [todo EXCEPT ![r] = @ \ {s}]
  /\ IF s \notin kept \/ runs[s].status = "running" THEN UNCHANGED <<kept, rows, crossed>>
     ELSE /\ kept' = kept \ {s} /\ rows' = [rows EXCEPT ![s] = NoRow]
          /\ crossed' = IF step[s] = "sync" \/ pin.run = s THEN crossed \cup {s} ELSE crossed
  /\ UNCHANGED <<clock, keep, runs, step, admitted, pin, pins, told, calm, safe>>

\* consecutive_failed_runs, newest first, up to the first that did not fail.
Failures ==
  Cardinality({r \in kept : \A s \in kept : s >= r => runs[s].status = "failed"})

\* ... and _maybe_notify_failure.
Notify(r) ==
  /\ todo[r] = {} /\ Goes(r, "remove", "done")
  /\ told' = IF runs[r].status = "failed" /\ Failures = Streak THEN told \cup {r} ELSE told
  /\ UNCHANGED <<clock, keep, runs, kept, rows, todo, admitted, pin, pins, calm, safe, crossed>>

-----------------------------------------------------------------------------
\* update_job_run: the directory is looked up on the event loop, the record
\* written in a thread, its row synced after that.

AskPin(r) ==
  /\ pin = NoPin /\ r \in kept \cap Pinnable[keep] /\ pins = 0
  /\ pin' = [at |-> "write", run |-> r] /\ pins' = pins + 1
  /\ UNCHANGED <<clock, keep, runs, kept, rows, step, todo, admitted, told, calm, safe, crossed>>

\* A directory that is gone by now is made again, for a record of the pin alone.
WritePin ==
  LET r == pin.run
      stays == r \in kept /\ \A s \in Runs : r \notin todo[s] IN
  /\ pin.at = "write" /\ pin' = [pin EXCEPT !.at = "sync"]
  /\ runs' = [runs EXCEPT ![r].pinned = TRUE, ![r].whole = r \in kept]
  /\ kept' = kept \cup {r}
  /\ safe' = IF stays THEN safe \cup {r} ELSE safe
  /\ crossed' = IF stays /\ step[r] # "sync" THEN crossed ELSE crossed \cup {r}
  /\ UNCHANGED <<clock, keep, rows, step, todo, admitted, pins, told, calm>>

SyncPin ==
  LET r == pin.run IN
  /\ pin.at = "sync" /\ pin' = NoPin
  /\ \E status \in {runs[r].status} \cup (IF r \in crossed THEN {"running"} ELSE {}) :
       rows' = [rows EXCEPT ![r] = [status |-> status, pinned |-> TRUE]]
  /\ UNCHANGED <<clock, keep, runs, kept, step, todo, admitted, pins, told, calm, safe, crossed>>

\* What is written at the end of a run takes no time to speak of.
Tick ==
  /\ clock < MaxTime /\ clock' = clock + 1
  /\ pin = NoPin /\ \A r \in Runs : step[r] \in {"running", "done"}
  /\ UNCHANGED <<keep, runs, kept, rows, step, todo, admitted, pin, pins, told, calm, safe, crossed>>

Next ==
  \/ Admit \/ Create \/ Skip \/ DryCheck \/ DryExecute \/ WritePin \/ SyncPin \/ Tick
  \/ \E r \in Runs :
       \/ ListOld(r) \/ RemoveOld(r) \/ Notify(r) \/ AskPin(r)
       \/ \E outcome \in {"success", "failed"} : Finish(r, outcome)

Spec == Init /\ [][Next]_vars

-----------------------------------------------------------------------------

TypeOK ==
  /\ clock \in 0 .. MaxTime /\ keep \in Keeps /\ kept \cup told \cup calm \cup safe \cup crossed \subseteq Runs
  /\ \A r \in Runs : todo[r] \subseteq Runs /\ rows[r].pinned \in BOOLEAN
  /\ pin.run \in Runs \cup {0} /\ pins \in 0 .. 1

\* A run that was pinned while no prune had it on its list is never removed
\* again, whichever executors prune meanwhile; and a record is only ever reduced
\* to its pin when the pin came while a prune was removing it.
PinsHold ==
  /\ safe \subseteq kept
  /\ \A r \in kept : runs[r].whole \/ r \in crossed

\* Two fires are a cooldown apart, unless the second was past the check before
\* the first was on record, or the first had been pruned by then: enough skipped
\* fires take the anchor's directory away and the window with it.
FiresSpaced ==
  \A r \in Fires : LET before == {s \in Fires : s < r} IN
    \/ before = {} \/ runs[r].began >= runs[Newest(before)].began + Cooldown
    \/ runs[r].seen < Newest(before) \/ runs[r].blind

\* A skip never moves the window: what it was measured from is a run that began.
SkipsAnchored == \A r \in Runs : runs[r].status = "skipped" =>
  runs[r].anchor # 0 /\ runs[runs[r].anchor].status \notin NotFires

\* Runs one after the other, none pinned, and a streak shorter than the history:
\* its alert comes with the Streak-th failure in a row and with no other.
StreakTold ==
  \A r \in Runs :
    step[r] = "done" /\ runs[r].status = "failed" /\ 1 .. r \subseteq calm /\ pins = 0 /\ Streak < keep =>
    (r \in told <=> /\ r >= Streak /\ \A s \in (r - Streak + 1) .. r : runs[s].status = "failed"
                    /\ r > Streak => runs[r - Streak].status # "failed")

\* Between writes the index has a row for each directory and no other, and it
\* says what the record says, but for a run two writers met at.
RowsFollow ==
  \A r \in Runs \ crossed : step[r] # "sync" /\ pin.run # r =>
    rows[r] = IF r \in kept THEN Row(runs[r]) ELSE NoRow

HistorySound == PinsHold /\ FiresSpaced /\ SkipsAnchored /\ StreakTold /\ RowsFollow

\* docs/jobs-tab.md: a dry run never resets the cooldown.  The executor records
\* one as pending, running and then its outcome, as it does any run.
DryRunsDoNotCool ==
  \A r \in Runs : runs[r].status = "skipped" => ~runs[runs[r].anchor].dry
=============================================================================
