-------------------------- MODULE JobRunsRefinement --------------------------
(***************************************************************************)
(* JobRuns implements RunLaunch, for any registry, groups, chains and cap  *)
(* of the history, where no scheduled fire is skipped for a cooldown:      *)
(* every step maps to a step of RunLaunch or changes nothing it tells      *)
(* apart.                                                                  *)
(***************************************************************************)
EXTENDS JobRunsRecords, FiniteSetTheorems

\* What a step leaves of the mapping of every run but w.
LifeKept(w) == \A r \in RunIds : r # w => Life(r)' = Life(r)
VerdictsKept == \A r \in RunIds : Verdict(r)' = Verdict(r)
AnnouncedKept(w) == \A r \in RunIds : r # w => (finals'[r] > 0 <=> finals[r] > 0)

\* Run r is pruned; run w is closed, and others may be pruned.
Forgotten(r) == MaxRuns > Keep /\ Life(r) # "working" /\ Verdict(r)' = "open"
Closing(w) ==
  /\ \A r \in RunIds : r # w => Verdict(r)' = Verdict(r) \/ Forgotten(r)
  /\ \/ Verdict(w)' = IF Verdict(w) = "open" THEN "over" ELSE Verdict(w)
     \/ Forgotten(w)

-----------------------------------------------------------------------------
(* The steps of RunLaunch, run by run. *)

LEMMA MapsKept ==
  /\ LifeKept(0) => [r \in RunIds |-> Life(r)]' = [r \in RunIds |-> Life(r)]
  /\ \A w \in RunIds : \A x : (LifeKept(w) /\ Life(w)' = x) =>
       [r \in RunIds |-> Life(r)]' = [[r \in RunIds |-> Life(r)] EXCEPT ![w] = x]
  /\ VerdictsKept => [r \in RunIds |-> Verdict(r)]' = [r \in RunIds |-> Verdict(r)]
  /\ AnnouncedKept(0) => {r \in RunIds : finals[r] > 0}' = {r \in RunIds : finals[r] > 0}
<1>1. \A r \in RunIds : r # 0
  BY Ranges DEF RunIds
<1>2. LifeKept(0) => [r \in RunIds |-> Life(r)]' = [r \in RunIds |-> Life(r)]
  BY <1>1 DEF LifeKept
<1>3. ASSUME NEW w \in RunIds, NEW x, LifeKept(w), Life(w)' = x
      PROVE  [r \in RunIds |-> Life(r)]' = [[r \in RunIds |-> Life(r)] EXCEPT ![w] = x]
  BY <1>3 DEF LifeKept
<1>4. VerdictsKept => [r \in RunIds |-> Verdict(r)]' = [r \in RunIds |-> Verdict(r)]
  BY DEF VerdictsKept
<1>5. AnnouncedKept(0) => {r \in RunIds : finals[r] > 0}' = {r \in RunIds : finals[r] > 0}
  BY <1>1 DEF AnnouncedKept
<1> QED BY <1>2, <1>3, <1>4, <1>5

LEMMA Stutters ==
  ASSUME LifeKept(0), VerdictsKept, AnnouncedKept(0)
  PROVE  UNCHANGED Promise!launchVars
BY MapsKept DEF Promise!launchVars

LEMMA MapsToAdmit ==
  ASSUME NEW w \in RunIds, Life(w) = "absent", Life(w)' = "waiting", LifeKept(w),
         VerdictsKept, AnnouncedKept(0)
  PROVE  Promise!Admit(w)
BY MapsKept DEF Promise!Admit

LEMMA MapsToStart ==
  ASSUME NEW w \in RunIds, Life(w) = "waiting", Verdict(w) # "over", Life(w)' = "working",
         LifeKept(w), VerdictsKept, AnnouncedKept(0)
  PROVE  Promise!Start(w)
BY MapsKept DEF Promise!Start

LEMMA MapsToEnd ==
  ASSUME NEW w \in RunIds, Life(w) = "working", Life(w)' = "ended", LifeKept(w),
         VerdictsKept, AnnouncedKept(0)
  PROVE  Promise!End(w)
BY MapsKept DEF Promise!End

LEMMA MapsToKill ==
  ASSUME NEW w \in RunIds, Life(w) # "absent", Verdict(w)' = "killed",
         \A r \in RunIds : r # w => Verdict(r)' = Verdict(r), LifeKept(0), AnnouncedKept(0)
  PROVE  Promise!Kill(w)
<1>1. [r \in RunIds |-> Verdict(r)]' = [[r \in RunIds |-> Verdict(r)] EXCEPT ![w] = "killed"]
  OBVIOUS
<1> QED BY <1>1, MapsKept DEF Promise!Kill

LEMMA ClosingCloses ==
  ASSUME NEW w \in RunIds, Closing(w)
  PROVE  Promise!Closes(w)
<1> DEFINE gone == {s \in RunIds : Forgotten(s)}
           lf == [r \in RunIds |-> Life(r)]
           vd == [r \in RunIds |-> Verdict(r)]
<1>1. gone \in SUBSET {s \in RunIds : MaxRuns > Keep /\ lf[s] # "working"}
  BY DEF Forgotten
<1>2. \A s \in RunIds :
        Verdict(s)' = IF s \in gone THEN "open"
                      ELSE IF s = w /\ vd[s] = "open" THEN "over" ELSE vd[s]
  BY DEF Closing, Forgotten
<1>3. vd' = [s \in RunIds |-> IF s \in gone THEN "open"
                              ELSE IF s = w /\ vd[s] = "open" THEN "over" ELSE vd[s]]
  BY <1>2
<1> HIDE DEF gone
<1> QED BY <1>1, <1>3 DEF Promise!Closes

LEMMA MapsToClose ==
  ASSUME NEW w \in RunIds, Life(w) \in {"waiting", "ended"}, Closing(w), LifeKept(0),
         AnnouncedKept(0)
  PROVE  Promise!Close(w)
BY MapsKept, ClosingCloses DEF Promise!Close

LEMMA MapsToAnnounce ==
  ASSUME NEW w \in RunIds, Life(w) \in {"waiting", "ended"}, Life(w)' = "ended", LifeKept(w),
         Closing(w), ~(finals[w] > 0), finals'[w] > 0, AnnouncedKept(w)
  PROVE  Promise!Announce(w)
<1>1. {r \in RunIds : finals[r] > 0}' = {r \in RunIds : finals[r] > 0} \cup {w}
  BY DEF AnnouncedKept
<1> QED BY <1>1, MapsKept, ClosingCloses DEF Promise!Announce

-----------------------------------------------------------------------------
(* What the mapping makes of a write, a prune and a child. *)

\* What is on a record.
Says(rec) == IF rec.killed THEN "killed" ELSE IF rec.status \in Outcomes THEN "over" ELSE "open"

LEMMA VerdictSays == \A r : Verdict(r) = Says(runs[r]) /\ Verdict(r)' = Says(runs'[r])
BY DEF Verdict, Says

LEMMA LifeFacts ==
  ASSUME RecInv, NEW r \in RunIds
  PROVE  /\ Life(r) = "absent" <=> r > made
         /\ Life(r) = "working" <=> child[r] = "alive"
         /\ r <= made => (Life(r) = "waiting" <=> child[r] = "none" /\ finals[r] = 0)
         /\ child[r] = "alive" => r <= made
         /\ Life(r) \in {"absent", "waiting", "working", "ended"}
<1>1. made \in 0 .. MaxRuns /\ r \in Int /\ child[r] \in {"none", "alive", "zero", "nonzero"}
  BY Ranges DEF RecInv, ClaimsInv, TypeInv, TypeOK, RunIds
<1>2. child[r] = "alive" => r <= made
  BY DEF RecInv, ClaimsInv, TypeInv, Shape, RunsOK, Unmade
<1> QED BY <1>1, <1>2 DEF Life

\* A step that writes no record and does nothing to runs and children.
LEMMA QuietMaps ==
  ASSUME UNCHANGED <<runs, child, made, finals>>
  PROVE  UNCHANGED Promise!launchVars
BY Stutters DEF LifeKept, VerdictsKept, AnnouncedKept, Life, Verdict

\* A write to w that leaves its verdict.
LEMMA WriteMaps ==
  ASSUME RecInv, NEW w \in RunIds, NEW x, runs' = [runs EXCEPT ![w] = x],
         Says(x) = Says(runs[w]), UNCHANGED <<child, made, finals>>
  PROVE  UNCHANGED Promise!launchVars
<1>1. runs \in [RunIds -> Record]
  BY DEF RecInv, ClaimsInv, TypeInv, TypeOK
<1>2. VerdictsKept
  BY <1>1, VerdictSays DEF VerdictsKept
<1> QED BY <1>2, Stutters DEF LifeKept, AnnouncedKept, Life

\* A write that closes the record of w.
LEMMA WriteCloses ==
  ASSUME RecInv, NEW w \in RunIds, NEW x, runs' = [runs EXCEPT ![w] = x],
         Says(x) = IF Says(runs[w]) = "open" THEN "over" ELSE Says(runs[w])
  PROVE  Closing(w)
<1>1. runs \in [RunIds -> Record]
  BY DEF RecInv, ClaimsInv, TypeInv, TypeOK
<1> QED BY <1>1, VerdictSays DEF Closing

\* Histories that fit under the cap are not pruned.
LEMMA ShortHistories ==
  ASSUME NEW j, NEW rs, MaxRuns <= Keep
  PROVE  Prunable(j, rs) = {}
<1> SUFFICES ASSUME NEW r \in RunIds
             PROVE  ~(Cardinality({s \in RunIds : s > r /\ rs[s].job = j /\ rs[s].dir}) >= Keep)
  BY DEF Prunable
<1> DEFINE newer == {s \in RunIds : s > r /\ rs[s].job = j /\ rs[s].dir}
<1>1. IsFiniteSet(RunIds) /\ Cardinality(RunIds) = MaxRuns /\ MaxRuns \in Nat /\ Keep \in Nat
  <2>1. 1 \in Int /\ MaxRuns \in Nat /\ Keep \in Nat
    BY JobsAssumption, BoundAssumption
  <2>2. IsFiniteSet(1 .. MaxRuns) /\ Cardinality(1 .. MaxRuns) = IF 1 > MaxRuns THEN 0 ELSE MaxRuns
    BY <2>1, FS_Interval
  <2> QED BY <2>1, <2>2 DEF RunIds
<1>2. IsFiniteSet(RunIds \ {r}) /\ Cardinality(RunIds \ {r}) = MaxRuns - 1
  BY <1>1, FS_RemoveElement
<1>3. newer \in SUBSET (RunIds \ {r})
  BY DEF RunIds
<1>4. IsFiniteSet(newer) /\ Cardinality(newer) <= MaxRuns - 1
  BY <1>2, <1>3, FS_Subset
<1>5. Cardinality(newer) \in Nat
  BY <1>4, FS_CardinalityType
<1> HIDE DEF newer
<1>6. ~(Cardinality(newer) >= Keep)
  BY <1>1, <1>4, <1>5
<1> QED BY <1>6 DEF newer

\* A write that closes the record of w, and a prune of the history of j.
LEMMA PruneCloses ==
  ASSUME RecInv, NEW w \in RunIds, NEW x \in Record, NEW j \in Jobs,
         runs' = Pruned(j, [runs EXCEPT ![w] = x]),
         Says(x) = IF Says(runs[w]) = "open" THEN "over" ELSE Says(runs[w])
  PROVE  Closing(w)
<1> DEFINE rs == [runs EXCEPT ![w] = x]
<1>1. runs \in [RunIds -> Record]
  BY DEF RecInv, ClaimsInv, TypeInv, TypeOK
<1>2. \A r \in RunIds : rs[r] = IF r = w THEN x ELSE runs[r]
  BY <1>1
<1>3. \A r \in RunIds : runs'[r] = IF r \in Prunable(j, rs) THEN Blank(j) ELSE rs[r]
  BY DEF Pruned
<1> HIDE DEF rs
<1>4. ASSUME NEW r \in RunIds, r \in Prunable(j, rs)
      PROVE  Forgotten(r)
  <2>1. child[r] # "alive"
    BY <1>4 DEF Prunable, LogOpen
  <2>2. Life(r) # "working"
    BY <2>1, LifeFacts
  <2>3. MaxRuns > Keep
    BY <1>4, ShortHistories, JobsAssumption, BoundAssumption
  <2>4. Verdict(r)' = "open"
    BY <1>3, <1>4, VerdictSays, BlankFields DEF Says, Outcomes
  <2> QED BY <2>2, <2>3, <2>4 DEF Forgotten
<1>5. \A r \in RunIds : r \notin Prunable(j, rs) => Verdict(r)' = Says(IF r = w THEN x ELSE runs[r])
  BY <1>2, <1>3, VerdictSays
<1> QED BY <1>4, <1>5, VerdictSays DEF Closing

-----------------------------------------------------------------------------
(* Admission, queues and reaps. *)

\* A new directory is made for a run w that goes on to wait.
LEMMA NewMaps ==
  ASSUME RecInv, NEW w \in RunIds, w = made + 1, made' = w, NEW j,
         runs' = [runs EXCEPT ![w] = NewDir(j)], UNCHANGED <<child, finals>>
  PROVE  Promise!Admit(w)
<1>1. w \in Int /\ made \in Int /\ \A r \in RunIds : r \in Int
  BY Ranges DEF RecInv, ClaimsInv, TypeInv, TypeOK, RunIds
<1>2. runs \in [RunIds -> Record] /\ w > made
  BY <1>1 DEF RecInv, ClaimsInv, TypeInv, TypeOK
<1>3. Unmade(w)
  BY <1>1, <1>2 DEF RecInv, ClaimsInv, TypeInv, Shape, RunsOK
<1>4. Says(NewDir(j)) = "open" /\ Says(Blank(0)) = "open"
  BY BlankFields DEF Says, Outcomes
<1>5. VerdictsKept
  BY <1>2, <1>3, <1>4, VerdictSays DEF VerdictsKept, Unmade
<1>6. LifeKept(w)
  BY <1>1 DEF LifeKept, Life
<1>7. Life(w) = "absent" /\ Life(w)' = "waiting"
  BY <1>1, <1>3 DEF Life, Unmade
<1> QED BY <1>5, <1>6, <1>7, MapsToAdmit DEF AnnouncedKept

\* A run that was made and has no child is waiting or has ended.
LEMMA NotWorking ==
  ASSUME RecInv, NEW r \in RunIds, r <= made, child[r] # "alive"
  PROVE  Life(r) \in {"waiting", "ended"}
BY LifeFacts, Ranges DEF RecInv, ClaimsInv, TypeInv, TypeOK, RunIds

\* A write that closes the record of a run that does not work.
LEMMA CloseMaps ==
  ASSUME RecInv, NEW w \in RunIds, w <= made, child[w] # "alive", Closing(w),
         UNCHANGED <<child, made, finals>>
  PROVE  Promise!Close(w)
BY NotWorking, MapsToClose DEF LifeKept, AnnouncedKept, Life

\* A stamp closes a record with an outcome, and else leaves an open one open.
LEMMA StampSays ==
  ASSUME NEW rec \in Record, NEW status, NEW exit
  PROVE  LET x == Stamped(rec, status, exit)
         IN /\ status \in Outcomes =>
                 Says(x) = IF Says(rec) = "open" THEN "over" ELSE Says(rec)
            /\ (status \notin Outcomes /\ Says(rec) # "over") => Says(x) = Says(rec)
BY StampedFields DEF Says

LEMMA ReapMaps ==
  ASSUME RecInv, NEW a \in Actors, NEW r \in RunIds, ReapOne(a, r)
  PROVE  Promise!Next \/ UNCHANGED Promise!launchVars
<1>1. UNCHANGED <<child, made, finals>>
  BY DEF ReapOne, seen
<1>2. CASE child[r] = "alive"
  BY <1>1, <1>2, QuietMaps DEF ReapOne
<1>3. CASE child[r] # "alive"
  <2>1. r \in proc[a].dead /\ runs' = [runs EXCEPT ![r] = ReapStamped(runs[r])]
    BY <1>3 DEF ReapOne
  <2>2. r \in 1 .. made /\ runs[r] \in Record
    BY <2>1, RunFacts, RecFacts DEF RecInv, ClaimsInv
  <2>3. Says(ReapStamped(runs[r])) = IF Says(runs[r]) = "open" THEN "over" ELSE Says(runs[r])
    BY <2>2, ReapStampedFields DEF Says, Outcomes
  <2>4. Closing(r)
    BY <2>1, <2>3, WriteCloses
  <2>5. r <= made
    BY <2>2
  <2>6. Promise!Close(r)
    BY <1>1, <1>3, <2>4, <2>5, CloseMaps
  <2> QED BY <2>6 DEF Promise!Next
<1> QED BY <1>2, <1>3

\* The first record of a new run: nothing has been said of it.
LEMMA RecordFireMaps ==
  ASSUME RecInv, NoSkips, CooldownJobs = {}, NEW a \in Actors, RecordFire(a)
  PROVE  Promise!Next \/ UNCHANGED Promise!launchVars
<1> DEFINE w == proc[a].new
           dry == proc[a].mode # "run"
           status == IF proc[a].mode = "dry_check" THEN "dry_run"
                     ELSE IF proc[a].held THEN "queued" ELSE "pending"
           y == Stamped(runs[w], status, runs[w].exit)
           x == [y EXCEPT !.dry = dry]
<1>1. proc[a].pc = "record" /\ proc[a].pc \in LaunchPcs
  BY DEF RecordFire, LaunchPcs
<1>2. /\ w \in RunIds /\ runs[w] \in Record /\ child[w] = "none"
      /\ Fits(a, proc[a], w, runs[w], child[w], starts[w], muted)
  BY <1>1, NewRun
<1>3. w \in 1 .. made
  BY <1>1, RunFacts DEF RecInv, ClaimsInv
<1>4. Says(runs[w]) = "open"
  BY <1>1, <1>2 DEF Fits, Unwritten, Says, NoSkips, Outcomes
<1>5. UNCHANGED <<child, made, finals>> /\ runs' = [runs EXCEPT ![w] = x]
  BY DEF RecordFire, seen
<1>6. runs[w].exit \in {"none", "own", "kill"} /\ status \in Statuses
  BY <1>2 DEF Record, Statuses
<1>7. y \in Record
  BY <1>2, <1>6, StampedType
<1>8. x.killed = y.killed /\ x.status = y.status
  BY <1>7 DEF Record
<1>9. Says(x) = Says(y)
  BY <1>8 DEF Says
<1>10. CASE status \in Outcomes
  <2>1. Says(x) = IF Says(runs[w]) = "open" THEN "over" ELSE Says(runs[w])
    <3> HIDE DEF status, x
    <3> QED BY <1>2, <1>9, <1>10, StampSays
  <2> HIDE DEF x, w
  <2>2. Closing(w)
    BY <1>2, <1>5, <2>1, WriteCloses
  <2>3. Promise!Close(w)
    BY <1>2, <1>3, <1>5, <2>2, CloseMaps
  <2> QED BY <1>2, <2>3 DEF Promise!Next
<1>11. CASE status \notin Outcomes
  <2>1. Says(x) = Says(runs[w])
    <3> HIDE DEF status, x
    <3> QED BY <1>2, <1>4, <1>9, <1>11, StampSays
  <2> HIDE DEF x, w
  <2> QED BY <1>2, <1>5, <2>1, WriteMaps
<1> QED BY <1>10, <1>11

LEMMA SpawnFailsMaps ==
  ASSUME RecInv, NEW a \in Actors, SpawnFails(a)
  PROVE  Promise!Next \/ UNCHANGED Promise!launchVars
<1> DEFINE w == proc[a].new
           x == Stamped(runs[w], "failed", "own")
<1>1. proc[a].pc \in LaunchPcs
  BY DEF SpawnFails, LaunchPcs
<1>2. w \in RunIds /\ runs[w] \in Record /\ child[w] = "none" /\ w \in 1 .. made
  BY <1>1, NewRun, RunFacts DEF RecInv, ClaimsInv
<1>3. UNCHANGED <<child, made, finals>> /\ runs' = [runs EXCEPT ![w] = x]
  BY DEF SpawnFails, seen
<1>4. Says(x) = IF Says(runs[w]) = "open" THEN "over" ELSE Says(runs[w])
  BY <1>2, StampSays DEF Outcomes
<1> HIDE DEF w, x
<1>5. Closing(w)
  BY <1>2, <1>3, <1>4, WriteCloses
<1>6. Promise!Close(w)
  BY <1>2, <1>3, <1>5, CloseMaps
<1> QED BY <1>2, <1>6 DEF Promise!Next

LEMMA SharedMaps ==
  ASSUME RecInv, NoSkips, CooldownJobs = {}, NEW a \in Actors, SharedStep(a)
  PROVE  Promise!Next \/ UNCHANGED Promise!launchVars
<1>1. CASE UNCHANGED <<runs, child, made, finals>>
  BY <1>1, QuietMaps
<1>2. CASE MakeRunDir(a)
  <2>1. PICK w \in RunIds : w = made + 1
    BY <1>2, AloneWithNext DEF MakeRunDir
  <2>2. Promise!Admit(w)
    BY <1>2, <2>1, NewMaps DEF MakeRunDir, seen
  <2> QED BY <2>2 DEF Promise!Next
<1>3. \/ UNCHANGED <<runs, child, made, finals>>
      \/ \E r \in RunIds : ReapOne(a, r)
      \/ MakeRunDir(a) \/ RecordFire(a) \/ SpawnFails(a)
  BY DEF SharedStep, SweepEnd, LookAfterReap, SweepLook, SweepList, Enqueue, Spawn, DrainPop,
     LaunchSkip, Launch, LaunchFails, seen
<1> QED BY <1>1, <1>2, <1>3, ReapMaps, RecordFireMaps, SpawnFailsMaps

-----------------------------------------------------------------------------
(* The executor. *)

\* A run its executor works on was made, and is announced only at the end.
LEMMA OwnLife ==
  ASSUME RecInv, NEW e \in Executors, proc[e].pc \in OwnPcs
  PROVE  LET w == proc[e].run
         IN /\ w <= made
            /\ proc[e].pc \in Preparing => (child[w] = "none" /\ starts[w] = 0)
            /\ proc[e].pc \notin {"pid", "wait"} => child[w] # "alive"
            /\ proc[e].pc \in Unfinished => finals[w] = 0
<1> DEFINE w == proc[e].run
<1>1. e \in Actors /\ w \in 1 .. made
  BY RunFacts DEF RecInv, ClaimsInv, Actors
<1>2. w \in RunIds /\ w # 0 /\ proc[e].pc \in Preparing => (child[w] = "none" /\ starts[w] = 0)
  BY OwnRun
<1>3. Fits(e, proc[e], w, runs[w], child[w], starts[w], muted)
  BY OwnRun
<1>4. proc[e].pc \notin {"pid", "wait"} => child[w] # "alive"
  BY <1>3 DEF Fits
<1>5. w # 0
  BY OwnRun
<1>6. proc[e].pc \in Unfinished => finals[w] = 0
  BY <1>5 DEF RecInv, ClaimsInv, Claims, RunFresh
<1> QED BY <1>1, <1>2, <1>4, <1>6, OwnRun

LEMMA ExecNewRunMaps ==
  ASSUME RecInv, NEW e \in Executors, ExecNewRun(e)
  PROVE  Promise!Next
<1>1. PICK w \in RunIds : w = made + 1
  BY AloneWithNext DEF ExecNewRun, Actors
<1>2. Promise!Admit(w)
  BY <1>1, NewMaps DEF ExecNewRun, seen
<1> QED BY <1>2 DEF Promise!Next

\* Preparing a run leaves its verdict, unless it cannot be built.
LEMMA ExecPrepareMaps ==
  ASSUME RecInv, NoSkips, CooldownJobs = {}, NEW e \in Executors,
         ExecBuildFails(e) \/ ExecRunning(e) \/ ExecWritePid(e)
  PROVE  Promise!Next \/ UNCHANGED Promise!launchVars
<1> DEFINE w == proc[e].run
<1>1. proc[e].pc \in OwnPcs
  BY DEF ExecBuildFails, ExecRunning, ExecWritePid, OwnPcs
<1>2. /\ w \in RunIds /\ runs[w] \in Record /\ w <= made /\ proc[e].job \in Jobs
      /\ Fits(e, proc[e], w, runs[w], child[w], starts[w], muted)
  <2>1. proc[e].job \in Jobs
    BY <1>1, Actor DEF Actors, ProcShape, OwnPcs
  <2> QED BY <1>1, <2>1, OwnRun, OwnLife
<1>3. UNCHANGED <<child, made, finals>>
  BY DEF ExecBuildFails, ExecRunning, ExecWritePid, seen
<1>4. CASE ExecBuildFails(e)
  <2> DEFINE x == Stamped(runs[w], "failed", "own")
  <2>1. x \in Record
    BY <1>2, StampedType DEF Statuses
  <2>2. Says(x) = IF Says(runs[w]) = "open" THEN "over" ELSE Says(runs[w])
    BY <1>2, StampSays DEF Outcomes
  <2>3. runs' = Pruned(proc[e].job, [runs EXCEPT ![w] = x])
    BY <1>4 DEF ExecBuildFails
  <2>4. child[w] # "alive"
    BY <1>1, <1>4, OwnLife DEF ExecBuildFails
  <2> HIDE DEF w, x
  <2>5. Closing(w)
    BY <1>2, <2>1, <2>2, <2>3, PruneCloses
  <2>6. Promise!Close(w)
    BY <1>2, <1>3, <2>4, <2>5, CloseMaps
  <2> QED BY <1>2, <2>6 DEF Promise!Next
<1>5. CASE ExecRunning(e)
  <2> DEFINE x == Stamped(runs[w], "running", runs[w].exit)
  <2>1. proc[e].pc \in Preparing
    BY <1>5 DEF ExecRunning, Preparing
  <2>2. Undecided(runs[w])
    BY <1>2, <2>1 DEF Fits
  <2>3. Says(runs[w]) # "over"
    BY <1>2, <2>2 DEF Undecided, Says, Outcomes, NoSkips
  <2>4. Says(x) = Says(runs[w])
    BY <1>2, <2>3, StampSays DEF Outcomes
  <2>5. runs' = [runs EXCEPT ![w] = x]
    BY <1>2, <1>5, Actor DEF ExecRunning
  <2> HIDE DEF w, x
  <2> QED BY <1>2, <1>3, <2>4, <2>5, WriteMaps
<1>6. CASE ExecWritePid(e)
  <2> DEFINE x == [runs[w] EXCEPT !.dir = TRUE, !.pid = TRUE]
  <2>1. x.killed = runs[w].killed /\ x.status = runs[w].status
    BY <1>2 DEF Record
  <2>2. runs' = [runs EXCEPT ![w] = x]
    BY <1>2, <1>6, Actor DEF ExecWritePid
  <2>3. Says(x) = Says(runs[w])
    BY <2>1 DEF Says
  <2> HIDE DEF w, x
  <2> QED BY <1>2, <1>3, <2>2, <2>3, WriteMaps
<1> QED BY <1>4, <1>5, <1>6

\* A child is started for a run that waits, and is not over.
LEMMA ExecPopenMaps ==
  ASSUME RecInv, NoSkips, CooldownJobs = {}, NEW e \in Executors, ExecPopen(e)
  PROVE  Promise!Next
<1>1. proc[e].pc = "popen" /\ proc[e].pc \in OwnPcs \cap Preparing \cap Unfinished
  BY DEF ExecPopen, OwnPcs, Preparing, Unfinished
<1>2. PICK w \in RunIds : w = proc[e].run
  BY <1>1, OwnRun
<1>3. /\ w <= made /\ child[w] = "none" /\ finals[w] = 0
      /\ Fits(e, proc[e], w, runs[w], child[w], starts[w], muted)
  BY <1>1, <1>2, OwnRun, OwnLife
<1>4. Undecided(runs[w])
  BY <1>1, <1>2, <1>3 DEF Fits
<1>5. Verdict(w) # "over"
  BY <1>4 DEF Undecided, Verdict, Outcomes, NoSkips
<1>6. Life(w) = "waiting"
  BY <1>3, LifeFacts
<1>7. child \in [RunIds -> {"none", "alive", "zero", "nonzero"}] /\ made \in Int /\ w \in Int
  BY Ranges DEF RecInv, ClaimsInv, TypeInv, TypeOK, RunIds
<1>8. UNCHANGED <<runs, made, finals>> /\ child' = [child EXCEPT ![w] = "alive"]
  BY <1>2 DEF ExecPopen
<1>9. Life(w)' = "working" /\ LifeKept(w)
  BY <1>3, <1>7, <1>8 DEF Life, LifeKept
<1>10. VerdictsKept /\ AnnouncedKept(0)
  BY <1>8 DEF VerdictsKept, Verdict, AnnouncedKept
<1>11. Promise!Start(w)
  BY <1>5, <1>6, <1>9, <1>10, MapsToStart
<1> QED BY <1>11 DEF Promise!Next

LEMMA ExecFinalMaps ==
  ASSUME RecInv, NEW e \in Executors, ExecFinal(e)
  PROVE  Promise!Next
<1>1. proc[e].pc = "final" /\ proc[e].pc \in OwnPcs \cap Unfinished
  BY DEF ExecFinal, OwnPcs, Unfinished
<1>2. PICK w \in RunIds : w = proc[e].run
  BY <1>1, OwnRun
<1>3. w <= made /\ child[w] # "alive" /\ finals[w] = 0 /\ runs[w] \in Record
  BY <1>1, <1>2, OwnRun, OwnLife
<1>4. proc[e].job \in Jobs
  BY <1>1, Actor DEF Actors, ProcShape
<1> DEFINE status == IF proc[e].ok THEN "success" ELSE "failed"
           x == Stamped(runs[w], status, "own")
<1>5. status \in Outcomes \cap Statuses
  BY DEF Outcomes, Statuses
<1>6. /\ runs' = Pruned(proc[e].job, [runs EXCEPT ![w] = x])
      /\ finals' = [finals EXCEPT ![w] = finals[w] + 1]
      /\ UNCHANGED <<child, made>>
  <2>1. runs \in [RunIds -> Record]
    BY DEF RecInv, ClaimsInv, TypeInv, TypeOK
  <2> QED BY <1>2, <2>1 DEF ExecFinal
<1> HIDE DEF status
<1>7. x \in Record
  BY <1>3, <1>5, StampedType
<1>8. Says(x) = IF Says(runs[w]) = "open" THEN "over" ELSE Says(runs[w])
  BY <1>3, <1>5, StampSays
<1> HIDE DEF x
<1>9. Closing(w)
  BY <1>4, <1>6, <1>7, <1>8, PruneCloses
<1>10. finals \in [RunIds -> Nat] /\ made \in Int /\ w \in Int
       /\ child \in [RunIds -> {"none", "alive", "zero", "nonzero"}]
  BY Ranges DEF RecInv, ClaimsInv, TypeInv, TypeOK, RunIds
<1>11. finals'[w] = 1 /\ AnnouncedKept(w)
  BY <1>3, <1>6, <1>10 DEF AnnouncedKept
<1>12. Life(w)' = "ended"
  BY <1>3, <1>6, <1>10, <1>11 DEF Life
<1>13. LifeKept(w)
  BY <1>6, <1>10 DEF LifeKept, Life
<1>14. Promise!Announce(w)
  BY <1>3, <1>9, <1>11, <1>12, <1>13, NotWorking, MapsToAnnounce
<1> QED BY <1>14 DEF Promise!Next

LEMMA ExecMaps ==
  ASSUME RecInv, NoSkips, CooldownJobs = {}, NEW e \in Executors, ExecutorStep(e)
  PROVE  Promise!Next \/ UNCHANGED Promise!launchVars
<1>1. CASE UNCHANGED <<runs, child, made, finals>>
  BY <1>1, QuietMaps
<1>2. ~CooldownSkip(e)
  BY DEF CooldownSkip
<1>3. \/ UNCHANGED <<runs, child, made, finals>>
      \/ ExecNewRun(e) \/ ExecPopen(e) \/ ExecFinal(e)
      \/ ExecBuildFails(e) \/ ExecRunning(e) \/ ExecWritePid(e)
  BY <1>2 DEF ExecutorStep, ExecUnknownJob, ExecStart, ExecPopenFails, ExecWait, ExecFinish,
     ExecFollow, ExecChain, seen
<1> QED BY <1>1, <1>3, ExecNewRunMaps, ExecPopenMaps, ExecFinalMaps, ExecPrepareMaps

-----------------------------------------------------------------------------
(* Kills, requests and deaths. *)

\* A child ends, by itself or torn down.
LEMMA EndMaps ==
  ASSUME RecInv, NEW w \in RunIds, child[w] = "alive", NEW code \in {"zero", "nonzero"},
         child' = [child EXCEPT ![w] = code], UNCHANGED <<runs, made, finals>>
  PROVE  Promise!Next
<1>1. child \in [RunIds -> {"none", "alive", "zero", "nonzero"}] /\ made \in Int /\ w \in Int
  BY Ranges DEF RecInv, ClaimsInv, TypeInv, TypeOK, RunIds
<1>2. w <= made /\ Life(w) = "working"
  BY LifeFacts
<1>3. Life(w)' = "ended" /\ LifeKept(w)
  BY <1>1, <1>2 DEF Life, LifeKept
<1>4. VerdictsKept /\ AnnouncedKept(0)
  BY DEF VerdictsKept, Verdict, AnnouncedKept
<1>5. Promise!End(w)
  BY <1>2, <1>3, <1>4, MapsToEnd
<1> QED BY <1>5 DEF Promise!Next

LEMMA KillMaps ==
  ASSUME RecInv, NEW h \in Handlers, KillStep(h)
  PROVE  Promise!Next \/ UNCHANGED Promise!launchVars
<1>1. h \in Actors /\ proc[h].pc \in OwnPcs
  BY DEF KillStep, KillStamp, KillTree, OwnPcs, Actors
<1>2. PICK w \in 1 .. made : w = proc[h].run
  BY <1>1, RunFacts DEF RecInv, ClaimsInv
<1>3. w \in RunIds /\ runs[w] \in Record /\ w <= made
  BY <1>1, <1>2, RunFacts DEF RecInv, ClaimsInv
<1>4. CASE KillStamp(h)
  <2>1. runs \in [RunIds -> Record]
    BY DEF RecInv, ClaimsInv, TypeInv, TypeOK
  <2>2. runs' = [runs EXCEPT ![w] = KillStamped(runs[w])] /\ UNCHANGED <<child, made, finals>>
    BY <1>2, <1>4 DEF KillStamp
  <2>3. Verdict(w)' = "killed" /\ \A r \in RunIds : r # w => Verdict(r)' = Verdict(r)
    BY <1>3, <2>1, <2>2, VerdictSays, KillStampedFields DEF Says
  <2>4. Life(w) # "absent"
    BY <1>3, LifeFacts, Ranges DEF RunIds, RecInv, ClaimsInv, TypeInv, TypeOK
  <2>5. LifeKept(0) /\ AnnouncedKept(0)
    BY <2>2 DEF LifeKept, Life, AnnouncedKept
  <2>6. Promise!Kill(w)
    BY <1>3, <2>3, <2>4, <2>5, MapsToKill
  <2> QED BY <1>3, <2>6 DEF Promise!Next
<1>5. CASE KillTree(h)
  <2>1. UNCHANGED <<runs, made, finals>>
    BY <1>5 DEF KillTree, seen
  <2>2. CASE child' = child
    BY <2>1, <2>2, QuietMaps
  <2>3. CASE child[w] = "alive" /\ child' = [child EXCEPT ![w] = "nonzero"]
    BY <1>3, <2>1, <2>3, EndMaps
  <2> QED BY <1>2, <1>5, <2>2, <2>3 DEF KillTree
<1> QED BY <1>4, <1>5 DEF KillStep

LEMMA DeathMaps ==
  ASSUME RecInv, Deaths
  PROVE  Promise!Next \/ UNCHANGED Promise!launchVars
<1>1. CASE UNCHANGED <<runs, child, made, finals>>
  BY <1>1, QuietMaps
<1>2. ASSUME NEW r \in RunIds, ChildExit(r)
      PROVE  Promise!Next
  BY <1>2, EndMaps DEF ChildExit, seen
<1>3. \/ UNCHANGED <<runs, child, made, finals>>
      \/ \E r \in RunIds : ChildExit(r)
  BY DEF Deaths, ExecutorCrash, WebappCrash, seen
<1> QED BY <1>1, <1>2, <1>3

-----------------------------------------------------------------------------
(* The theorem. *)

LEMMA StepMaps ==
  ASSUME RecInv, NoSkips, CooldownJobs = {}, [Next]_vars
  PROVE  Promise!Next \/ UNCHANGED Promise!launchVars
<1>1. CASE UNCHANGED <<runs, child, made, finals>>
  BY <1>1, QuietMaps
<1>2. \/ UNCHANGED <<runs, child, made, finals>>
      \/ \E a \in Actors : SharedStep(a)
      \/ \E e \in Executors : ExecutorStep(e)
      \/ \E h \in Handlers : KillStep(h)
      \/ Deaths
  BY DEF Next, vars, Requests, Fire, DryRun, ScheduledFire, KillRead, Poll, DeleteJob, seen
<1> QED BY <1>1, <1>2, SharedMaps, ExecMaps, KillMaps, DeathMaps

LEMMA InitMaps == Init => Promise!Init
<1> SUFFICES ASSUME Init PROVE Promise!Init
  OBVIOUS
<1>1. \A r \in RunIds : r \in Int /\ r > 0
  BY Ranges DEF RunIds
<1>2. ASSUME NEW r \in RunIds
      PROVE  Life(r) = "absent" /\ Verdict(r) = "open" /\ ~(finals[r] > 0)
  <2>1. made = 0 /\ finals[r] = 0 /\ runs[r] = Blank(0)
    BY DEF Init
  <2>2. Says(Blank(0)) = "open"
    BY BlankFields DEF Says, Outcomes
  <2>3. Life(r) = "absent"
    BY <1>1, <2>1 DEF Life
  <2>4. Verdict(r) = "open"
    BY <2>1, <2>2, VerdictSays
  <2> QED BY <2>1, <2>3, <2>4
<1> QED BY <1>2 DEF Promise!Init

\* Whoever fires, queues, drains, kills, reaps and dies, every run lives the
\* one life RunLaunch promises: where no scheduled fire is skipped for a
\* cooldown, and with verdicts forgotten only where histories outgrow the cap.
THEOREM ImplementsLaunch ==
  ASSUME CooldownJobs = {}
  PROVE  Spec => ImplementsRunLaunch
<1>1. RecInv /\ NoSkips /\ [Next]_vars => [Promise!Next]_(Promise!launchVars)
  BY StepMaps
<1> QED BY <1>1, InitMaps, RecordsAlways, SkipsAreCooldowns, PTL DEF Spec, ImplementsRunLaunch, Promise!Spec
=============================================================================
