---------------------------- MODULE JobRunsClaims ----------------------------
(***************************************************************************)
(* The first two layers of the invariant of JobRuns, for every value of    *)
(* the constants.  The first has the types, and the shape of processes,    *)
(* queues and directories; the second says that every run is held by at    *)
(* most one process, executor or queue position, so its child is started   *)
(* and its outcome published at most once.                                 *)
(***************************************************************************)
EXTENDS JobRunsProperties, TLAPS

\* Jobs and run ids lie in the ranges the process fields have.
LEMMA Ranges == /\ Jobs \subseteq 0 .. NumJobs /\ 0 \in 0 .. NumJobs
                /\ RunIds \subseteq 0 .. MaxRuns /\ 0 \in 0 .. MaxRuns
                /\ \A j \in Jobs : 1 \in Jobs /\ (j # NumJobs => j + 1 \in Jobs)
                /\ \A m \in 0 .. MaxRuns : 0 .. m \subseteq 0 .. MaxRuns /\ 1 .. m \subseteq RunIds
                /\ \A m \in 0 .. MaxRuns : m < MaxRuns =>
                     /\ m + 1 \in RunIds /\ m + 1 \in 1 .. (m + 1)
                     /\ 0 .. m \subseteq 0 .. (m + 1) /\ 1 .. m \subseteq 1 .. (m + 1)
                /\ \A m \in 0 .. MaxRuns : 0 \in 0 .. m
  BY JobsAssumption DEF Jobs, RunIds

-----------------------------------------------------------------------------
(* Processes. *)

\* The process of an idle actor, and of a new executor.
LEMMA IdleType == Idle \in ProcState
  BY Ranges DEF Idle, ProcState, Pcs

LEMMA IdleShape == ASSUME NEW m \in 0 .. MaxRuns PROVE ProcShape(Idle, m)
  BY Ranges DEF Idle, ProcShape, LaunchPcs, OwnPcs, AdmitPcs, Sweeping

LEMMA StartedType ==
  ASSUME NEW j \in Jobs, NEW m \in 0 .. MaxRuns, NEW r \in 0 .. m
  PROVE  /\ Started(j, r) \in ProcState /\ ProcShape(Started(j, r), m)
         /\ Started(j, r).pc = "start" /\ Started(j, r).new = 0
         /\ Started(j, r).run = r /\ Started(j, r).dead = {}
<1>1. j \in 0 .. NumJobs /\ r \in 0 .. MaxRuns
  BY Ranges
<1>2. Started(j, r) \in ProcState
  BY <1>1, IdleType DEF Started, ProcState, Pcs
<1>3. /\ Started(j, r).pc = "start" /\ Started(j, r).new = 0 /\ Started(j, r).job = j
      /\ Started(j, r).run = r /\ Started(j, r).dead = {}
  BY DEF Started, Idle
<1>4. ProcShape(Started(j, r), m)
  BY <1>3, Ranges DEF ProcShape, LaunchPcs, OwnPcs, AdmitPcs, Sweeping
<1> QED BY <1>2, <1>3, <1>4

\* A chain loop resumes in chain or drain and holds no new run.
LEMMA ChainedType ==
  ASSUME NEW p \in ProcState, NEW c \in Seq(Jobs), NEW m \in 0 .. MaxRuns, ProcShape(p, m),
         p.pc # "idle", p.run # 0
  PROVE  /\ Chained(p, c) \in ProcState /\ ProcShape(Chained(p, c), m)
         /\ Chained(p, c).pc \in {"chain", "drain"} /\ Chained(p, c).new = 0
         /\ Chained(p, c).run = p.run /\ Chained(p, c).dead = p.dead
<1>1. Chained(p, c) \in ProcState
  <2> DEFINE x == IF c = << >> THEN "drain" ELSE "chain"
  <2>1. Chained(p, c) = [p EXCEPT !.pc = x, !.chain = c, !.fire = 0, !.at = 0, !.held = FALSE,
                                  !.new = 0]
    BY DEF Chained
  <2>2. x \in Pcs /\ 0 \in 0 .. NumJobs /\ 0 \in 0 .. MaxRuns /\ FALSE \in BOOLEAN
    BY Ranges DEF Pcs
  <2> HIDE DEF x
  <2> QED BY <2>1, <2>2, ZenonT(40) DEF ProcState
<1>2. /\ Chained(p, c).pc = IF c = << >> THEN "drain" ELSE "chain"
      /\ Chained(p, c).new = 0 /\ Chained(p, c).run = p.run /\ Chained(p, c).job = p.job
      /\ Chained(p, c).dead = p.dead /\ Chained(p, c).chain = c
  BY DEF Chained, ProcState
<1>3. ProcShape(Chained(p, c), m)
  BY <1>2, Ranges DEF ProcShape, LaunchPcs, OwnPcs, AdmitPcs, Sweeping
<1> QED BY <1>1, <1>2, <1>3

\* An admission starts at the sweep, or at admit for a job without a group.
LEMMA AdmittingType ==
  ASSUME NEW p \in ProcState, NEW j \in Jobs, NEW m \in 0 .. MaxRuns,
         p.job \in Jobs, p.new = 0, p.run \in 0 .. m, p.dead \subseteq 1 .. m
  PROVE  /\ Admitting(p, j) \in ProcState /\ ProcShape(Admitting(p, j), m)
         /\ Admitting(p, j).pc \in {"sweep", "admit"} /\ Admitting(p, j).new = 0
         /\ Admitting(p, j).run = p.run /\ Admitting(p, j).dead = p.dead
<1> DEFINE q == Admitting(p, j)
<1>1. j \in 0 .. NumJobs /\ 0 \in 0 .. NumJobs /\ 1 \in Jobs /\ 1 \in 0 .. NumJobs
  BY Ranges
<1>2. q \in ProcState
  <2>1. CASE Group[j] = NoGroup
    <3>1. q = [p EXCEPT !.fire = j, !.held = FALSE, !.pc = "admit", !.at = 0]
      BY <2>1 DEF Admitting
    <3>2. "admit" \in Pcs BY DEF Pcs
    <3> QED BY <1>1, <3>1, <3>2, ZenonT(40) DEF ProcState
  <2>2. CASE Group[j] # NoGroup
    <3>1. q = [p EXCEPT !.fire = j, !.held = FALSE, !.pc = "sweep", !.at = 1]
      BY <2>2 DEF Admitting
    <3>2. "sweep" \in Pcs BY DEF Pcs
    <3> QED BY <1>1, <3>1, <3>2, ZenonT(40) DEF ProcState
  <2> QED BY <2>1, <2>2
<1>3. /\ q.pc = "admit" \/ (q.pc = "sweep" /\ q.at = 1)
      /\ q.new = 0 /\ q.run = p.run /\ q.job = p.job /\ q.dead = p.dead /\ q.fire = j
  BY DEF Admitting, ProcState
<1>4. ProcShape(q, m)
  BY <1>1, <1>3, Ranges DEF ProcShape, LaunchPcs, OwnPcs, AdmitPcs, Sweeping
<1> QED BY <1>2, <1>3, <1>4

\* Where an admission leaves a process: idle, or back in its chain loop.
LEMMA AdmittedType ==
  ASSUME NEW a \in Actors, proc[a] \in ProcState, NEW m \in 0 .. MaxRuns,
         ProcShape(proc[a], m), proc[a].pc # "idle"
  PROVE  /\ Admitted(a) \in ProcState /\ ProcShape(Admitted(a), m)
         /\ Admitted(a) = Idle \/ (/\ Admitted(a).pc \in {"chain", "drain"}
                                   /\ Admitted(a).run = proc[a].run /\ proc[a].run # 0
                                   /\ Admitted(a).new = 0
                                   /\ Admitted(a).dead = proc[a].dead)
<1>1. CASE a \in Handlers \/ proc[a].run = 0
  BY <1>1, IdleType, IdleShape DEF Admitted
<1>2. CASE ~(a \in Handlers \/ proc[a].run = 0)
  <2>1. proc[a].chain \in Seq(Jobs)
    BY DEF ProcState
  <2>2. Admitted(a) = Chained(proc[a], proc[a].chain)
    BY <1>2 DEF Admitted
  <2> QED BY <1>2, <2>1, <2>2, ChainedType
<1> QED BY <1>1, <1>2

\* The sweep's verdict leads to admit, or to a scheduled fire's own run.
LEMMA DecidedType ==
  ASSUME NEW a \in Actors, proc[a] \in ProcState, NEW m \in 0 .. MaxRuns,
         ProcShape(proc[a], m), proc[a].pc # "idle", proc[a].new = 0,
         proc[a].fire \in Jobs, NEW held \in BOOLEAN
  PROVE  /\ Decided(a, held) \in ProcState /\ ProcShape(Decided(a, held), m)
         /\ Decided(a, held).pc \in {"admit", "newrun"} /\ Decided(a, held).new = 0
         /\ Decided(a, held).run = proc[a].run /\ Decided(a, held).dead = proc[a].dead
<1> DEFINE q == Decided(a, held)
<1>1. 0 \in 0 .. NumJobs /\ "admit" \in Pcs /\ "newrun" \in Pcs
  BY Ranges DEF Pcs
<1>2. CASE a \in Executors /\ proc[a].run = 0 /\ ~held
  <2>1. q = [proc[a] EXCEPT !.pc = "newrun", !.fire = 0, !.at = 0]
    BY <1>2 DEF Decided
  <2>2. q \in ProcState
    BY <1>1, <2>1, ZenonT(40) DEF ProcState
  <2>3. /\ q.pc = "newrun" /\ q.new = 0 /\ q.run = proc[a].run /\ q.job = proc[a].job
        /\ q.dead = proc[a].dead
    BY <2>1 DEF ProcState
  <2>4. ProcShape(q, m)
    BY <2>3 DEF ProcShape, LaunchPcs, OwnPcs, AdmitPcs, Sweeping
  <2> QED BY <2>2, <2>3, <2>4
<1>3. CASE ~(a \in Executors /\ proc[a].run = 0 /\ ~held)
  <2>1. q = [proc[a] EXCEPT !.pc = "admit", !.at = 0, !.held = held]
    BY <1>3 DEF Decided
  <2>2. q \in ProcState
    BY <1>1, <2>1, ZenonT(40) DEF ProcState
  <2>3. /\ q.pc = "admit" /\ q.new = 0 /\ q.run = proc[a].run /\ q.job = proc[a].job
        /\ q.dead = proc[a].dead /\ q.fire = proc[a].fire
    BY <2>1 DEF ProcState
  <2>4. ProcShape(q, m)
    BY <2>3 DEF ProcShape, LaunchPcs, OwnPcs, AdmitPcs, Sweeping
  <2> QED BY <2>2, <2>3, <2>4
<1> QED BY <1>2, <1>3

\* After looking at a rival the sweep goes on or decides.
LEMMA LookedType ==
  ASSUME NEW a \in Actors, proc[a] \in ProcState, NEW m \in 0 .. MaxRuns,
         ProcShape(proc[a], m), Sweeping(proc[a]), proc[a].new = 0, NEW o \in Jobs
  PROVE  /\ Looked(a, o) \in ProcState /\ ProcShape(Looked(a, o), m)
         /\ Looked(a, o).pc \in {"sweep", "admit", "newrun"} /\ Looked(a, o).new = 0
         /\ Looked(a, o).run = proc[a].run /\ Looked(a, o).dead = proc[a].dead
<1> DEFINE q == Looked(a, o)
<1>1. proc[a].pc # "idle" /\ proc[a].fire \in Jobs /\ proc[a].job \in Jobs
  BY DEF ProcShape, Sweeping
<1>2. CASE LatestIsLive(o) \/ o = NumJobs
  <2>1. q = Decided(a, TRUE) \/ q = Decided(a, FALSE)
    BY <1>2 DEF Looked
  <2> QED BY <1>1, <2>1, DecidedType
<1>3. CASE ~(LatestIsLive(o) \/ o = NumJobs)
  <2>1. q = [proc[a] EXCEPT !.pc = "sweep", !.at = o + 1]
    BY <1>3 DEF Looked
  <2>2. o + 1 \in Jobs /\ o + 1 \in 0 .. NumJobs /\ "sweep" \in Pcs
    BY <1>3, Ranges DEF Pcs
  <2>3. q \in ProcState
    BY <2>1, <2>2, ZenonT(40) DEF ProcState
  <2>4. /\ q.pc = "sweep" /\ q.new = 0 /\ q.run = proc[a].run /\ q.job = proc[a].job
        /\ q.dead = proc[a].dead /\ q.fire = proc[a].fire /\ q.at = o + 1
    BY <2>1 DEF ProcState
  <2>5. ProcShape(q, m)
    BY <1>1, <2>2, <2>4 DEF ProcShape, LaunchPcs, OwnPcs, AdmitPcs, Sweeping
  <2> QED BY <2>3, <2>4, <2>5
<1> QED BY <1>2, <1>3

-----------------------------------------------------------------------------
(* Records. *)

\* Every write keeps a record a record, of the same job.
LEMMA StampedType ==
  ASSUME NEW rec \in Record, NEW status \in Statuses, NEW exit \in {"none", "own", "kill"}
  PROVE  Stamped(rec, status, exit) \in Record /\ Stamped(rec, status, exit).job = rec.job
  BY DEF Stamped, Record

LEMMA ReapStampedType ==
  ASSUME NEW rec \in Record
  PROVE  ReapStamped(rec) \in Record /\ ReapStamped(rec).job = rec.job
<1> DEFINE s == Stamped(rec, "failed", rec.exit)
<1>1. rec.exit \in {"none", "own", "kill"} /\ "failed" \in Statuses
  BY DEF Record, Statuses
<1>2. s \in Record /\ s.job = rec.job
  BY <1>1, StampedType
<1>3. ReapStamped(rec) = [s EXCEPT !.reaped = TRUE]
  BY DEF ReapStamped
<1> HIDE DEF s
<1> QED BY <1>2, <1>3 DEF Record

LEMMA KillStampedType ==
  ASSUME NEW rec \in Record
  PROVE  KillStamped(rec) \in Record /\ KillStamped(rec).job = rec.job
<1>1. "failed" \in Statuses
  BY DEF Statuses
<1> QED BY <1>1 DEF KillStamped, Record

LEMMA PidType ==
  ASSUME NEW rec \in Record
  PROVE  LET x == [rec EXCEPT !.dir = TRUE, !.pid = TRUE] IN x \in Record /\ x.job = rec.job
  BY DEF Record

LEMMA BlankType == ASSUME NEW j \in 0 .. NumJobs
                   PROVE  /\ Blank(j) \in Record /\ Blank(j).job = j
                          /\ NewDir(j) \in Record /\ NewDir(j).job = j
<1>1. Blank(j) \in Record /\ Blank(j).job = j
  BY DEF Blank, Record, Statuses
<1>2. NewDir(j) = [Blank(j) EXCEPT !.dir = TRUE]
  BY DEF NewDir
<1> QED BY <1>1, <1>2 DEF Record

\* Pruning blanks directories of the one job and leaves the rest alone.
LEMMA PrunedType ==
  ASSUME NEW j \in 0 .. NumJobs, NEW rs \in [RunIds -> Record]
  PROVE  /\ Pruned(j, rs) \in [RunIds -> Record]
         /\ \A r \in RunIds : /\ Pruned(j, rs)[r].job = rs[r].job
                              /\ \/ Pruned(j, rs)[r] = rs[r]
                                 \/ Pruned(j, rs)[r] = Blank(j) /\ rs[r].dir
<1> DEFINE gone == Prunable(j, rs)
           after == [r \in RunIds |-> IF r \in gone THEN Blank(j) ELSE rs[r]]
<1>1. Pruned(j, rs) = after
  BY DEF Pruned
<1>2. \A r \in gone : rs[r].job = j /\ rs[r].dir
  BY DEF Prunable
<1>3. Blank(j) \in Record /\ Blank(j).job = j
  BY BlankType
<1> HIDE DEF gone
<1>4. after \in [RunIds -> Record]
  BY <1>3
<1> QED BY <1>1, <1>2, <1>3, <1>4

-----------------------------------------------------------------------------
(* The invariant of this layer, and what a step has to show. *)

TypeInv == TypeOK /\ Shape

\* The processes after a step.
ProcsKept == proc' \in [Actors -> ProcState] /\ ProcsOK'

\* One process moves.
LEMMA UpdateProc ==
  ASSUME TypeInv, made' \in 0 .. MaxRuns, made' = made \/ made' = made + 1,
         NEW a \in Actors, NEW p \in ProcState, ProcShape(p, made'),
         proc' = [proc EXCEPT ![a] = p]
  PROVE  ProcsKept
<1>1. proc \in [Actors -> ProcState] /\ made \in 0 .. MaxRuns
  BY DEF TypeInv, TypeOK
<1>2. 0 .. made \subseteq 0 .. made' /\ 1 .. made \subseteq 1 .. made'
  BY <1>1
<1>3. ASSUME NEW b \in Actors PROVE ProcShape(proc[b], made')
  <2>1. ProcShape(proc[b], made)
    BY DEF TypeInv, Shape, ProcsOK
  <2> QED BY <1>2, <2>1, Zenon DEF ProcShape
<1>4. \A b \in Actors : ProcShape(proc'[b], made')
  BY <1>1, <1>3
<1> QED BY <1>1, <1>4 DEF ProcsOK, ProcsKept

\* One process spawns an executor and moves on.
LEMMA UpdateTwo ==
  ASSUME TypeInv, made' = made, NEW a \in Actors, NEW e \in Actors,
         NEW p \in ProcState, ProcShape(p, made), NEW q \in ProcState, ProcShape(q, made),
         proc' = [proc EXCEPT ![a] = p, ![e] = q]
  PROVE  ProcsKept
<1>1. proc \in [Actors -> ProcState] /\ \A b \in Actors : ProcShape(proc[b], made)
  BY DEF TypeInv, TypeOK, Shape, ProcsOK
<1>2. \A b \in Actors : ProcShape(proc'[b], made')
  BY <1>1
<1> QED BY <1>1, <1>2 DEF ProcsOK, ProcsKept

-----------------------------------------------------------------------------
(* Steps: processes. *)

\* What the invariant says of one process.
LEMMA ProcFacts ==
  ASSUME TypeInv, NEW a \in Actors
  PROVE  /\ proc[a] \in ProcState /\ ProcShape(proc[a], made)
         /\ made \in 0 .. MaxRuns
         /\ proc[a].pc # "idle" => proc[a].job \in Jobs
         /\ proc[a].pc \notin LaunchPcs => proc[a].new = 0
  BY DEF TypeInv, TypeOK, Shape, ProcsOK, ProcShape

LEMMA SweepProcs ==
  ASSUME TypeInv, NEW a \in Actors, NEW o \in Jobs,
         SweepEnd(a) \/ LookAfterReap(a) \/ SweepLook(a, o) \/ SweepList(a, o)
  PROVE  ProcsKept
<1>1. /\ proc[a] \in ProcState /\ ProcShape(proc[a], made) /\ made \in 0 .. MaxRuns
      /\ proc[a].pc \in {"sweep", "look"}
      /\ made' = made
  BY ProcFacts DEF SweepEnd, LookAfterReap, SweepLook, SweepList
<1>2. /\ proc[a].new = 0 /\ Sweeping(proc[a]) /\ proc[a].fire \in Jobs
      /\ proc[a].at \in Jobs /\ proc[a].job \in Jobs
  BY <1>1 DEF ProcShape, Sweeping, LaunchPcs
<1>3. CASE SweepEnd(a)
  <2>1. Decided(a, FALSE) \in ProcState /\ ProcShape(Decided(a, FALSE), made)
    BY <1>1, <1>2, DecidedType
  <2> QED BY <1>1, <1>3, <2>1, UpdateProc DEF SweepEnd
<1>4. CASE LookAfterReap(a)
  <2>1. Looked(a, proc[a].at) \in ProcState /\ ProcShape(Looked(a, proc[a].at), made)
    BY <1>1, <1>2, LookedType
  <2> QED BY <1>1, <1>4, <2>1, UpdateProc DEF LookAfterReap
<1>5. CASE SweepLook(a, o)
  <2>1. Looked(a, o) \in ProcState /\ ProcShape(Looked(a, o), made)
    BY <1>1, <1>2, LookedType
  <2> QED BY <1>1, <1>5, <2>1, UpdateProc DEF SweepLook
<1>6. CASE SweepList(a, o)
  <2> DEFINE p == [proc[a] EXCEPT !.pc = "reap", !.at = o, !.dead = Stranded(o)]
  <2>1. Stranded(o) \subseteq 1 .. made /\ Stranded(o) \subseteq RunIds
    BY <1>1, Ranges DEF Stranded, RunsOf
  <2>2. p \in ProcState
    <3>1. o \in 0 .. NumJobs /\ "reap" \in Pcs
      BY Ranges DEF Pcs
    <3> QED BY <1>1, <2>1, <3>1, ZenonT(40) DEF ProcState
  <2>3. /\ p.pc = "reap" /\ p.new = 0 /\ p.run = proc[a].run /\ p.job = proc[a].job
        /\ p.fire = proc[a].fire /\ p.at = o /\ p.dead = Stranded(o)
    BY <1>1, <1>2 DEF ProcState
  <2>4. ProcShape(p, made)
    BY <1>1, <1>2, <2>1, <2>3 DEF ProcShape, LaunchPcs, OwnPcs, AdmitPcs, Sweeping
  <2>5. proc' = [proc EXCEPT ![a] = p]
    BY <1>6 DEF SweepList
  <2> QED BY <1>1, <2>2, <2>4, <2>5, UpdateProc
<1> QED BY <1>3, <1>4, <1>5, <1>6

LEMMA ReapProcs ==
  ASSUME TypeInv, NEW a \in Actors, NEW r \in RunIds, ReapOne(a, r)
  PROVE  ProcsKept
<1> DEFINE left == proc[a].dead \ {r}
           hit == proc[a].hit \/ child[r] # "alive"
           going == [proc[a] EXCEPT !.dead = left, !.hit = hit]
           looking == [proc[a] EXCEPT !.dead = {}, !.hit = FALSE, !.pc = "look"]
           draining == [proc[a] EXCEPT !.dead = {}, !.pc = "drain"]
<1>1. /\ proc[a] \in ProcState /\ ProcShape(proc[a], made) /\ made \in 0 .. MaxRuns
      /\ proc[a].pc = "reap" /\ made' = made /\ proc[a].job \in Jobs /\ proc[a].new = 0
  BY ProcFacts DEF ReapOne, LaunchPcs
<1>2. proc' = [proc EXCEPT ![a] = IF left # {} THEN going
                                  ELSE IF proc[a].mode # "poll" THEN looking
                                  ELSE IF hit THEN draining ELSE Idle]
  BY DEF ReapOne
<1>3. "look" \in Pcs /\ "drain" \in Pcs /\ left \subseteq RunIds /\ {} \subseteq RunIds
      /\ hit \in BOOLEAN /\ FALSE \in BOOLEAN /\ left \subseteq 1 .. made
  BY <1>1 DEF Pcs, ProcState, ProcShape
<1>4. going \in ProcState /\ ProcShape(going, made)
  <2>1. going \in ProcState
    BY <1>1, <1>3, ZenonT(40) DEF ProcState
  <2>2. /\ going.pc = "reap" /\ going.new = 0 /\ going.run = proc[a].run
        /\ going.job = proc[a].job /\ going.mode = proc[a].mode /\ going.fire = proc[a].fire
        /\ going.at = proc[a].at /\ going.dead = left
    BY <1>1 DEF ProcState
  <2>3. ProcShape(going, made)
    BY <1>1, <1>3, <2>2 DEF ProcShape, LaunchPcs, OwnPcs, AdmitPcs, Sweeping
  <2> QED BY <2>1, <2>3
<1>5. CASE proc[a].mode # "poll"
  <2>1. looking \in ProcState
    BY <1>1, <1>3, ZenonT(40) DEF ProcState
  <2>2. /\ looking.pc = "look" /\ looking.new = 0 /\ looking.run = proc[a].run
        /\ looking.job = proc[a].job /\ looking.fire = proc[a].fire
        /\ looking.at = proc[a].at /\ looking.dead = {}
    BY <1>1 DEF ProcState
  <2>3. ProcShape(looking, made)
    BY <1>1, <1>5, <2>2 DEF ProcShape, LaunchPcs, OwnPcs, AdmitPcs, Sweeping
  <2> QED BY <1>1, <1>2, <1>4, <1>5, <2>1, <2>3, UpdateProc
<1>6. CASE proc[a].mode = "poll"
  <2>1. draining \in ProcState
    BY <1>1, <1>3, ZenonT(40) DEF ProcState
  <2>2. /\ draining.pc = "drain" /\ draining.new = 0 /\ draining.run = proc[a].run
        /\ draining.job = proc[a].job /\ draining.dead = {}
    BY <1>1 DEF ProcState
  <2>3. ProcShape(draining, made)
    BY <1>1, <2>2 DEF ProcShape, LaunchPcs, OwnPcs, AdmitPcs, Sweeping
  <2>4. Idle \in ProcState /\ ProcShape(Idle, made)
    BY <1>1, IdleType, IdleShape
  <2> HIDE DEF going, draining, left, hit
  <2> QED BY <1>1, <1>2, <1>4, <1>6, <2>1, <2>3, <2>4, UpdateProc
<1> QED BY <1>5, <1>6

\* A process that only changes its program counter keeps its shape.
LEMMA GotoType ==
  ASSUME NEW p \in ProcState, NEW m \in 0 .. MaxRuns, ProcShape(p, m), p.pc # "idle",
         NEW x \in Pcs \ {"idle", "chain", "sweep", "look", "reap"},
         x \in LaunchPcs <=> p.pc \in LaunchPcs, x \in OwnPcs => p.run # 0,
         x \in AdmitPcs => p.fire \in Jobs
  PROVE  LET q == [p EXCEPT !.pc = x]
         IN /\ q \in ProcState /\ ProcShape(q, m)
            /\ \A ok \in BOOLEAN : /\ [q EXCEPT !.ok = ok] \in ProcState
                                   /\ ProcShape([q EXCEPT !.ok = ok], m)
<1> DEFINE q == [p EXCEPT !.pc = x]
<1>1. q \in ProcState
  BY ZenonT(40) DEF ProcState
<1>2. /\ q.pc = x /\ q.new = p.new /\ q.run = p.run /\ q.job = p.job /\ q.dead = p.dead
      /\ q.fire = p.fire
  BY DEF ProcState
<1>3. ProcShape(q, m)
  BY <1>2, Zenon DEF ProcShape, Sweeping
<1>4. ASSUME NEW ok \in BOOLEAN
      PROVE  [q EXCEPT !.ok = ok] \in ProcState /\ ProcShape([q EXCEPT !.ok = ok], m)
  <2> HIDE DEF q
  <2> DEFINE s == [q EXCEPT !.ok = ok]
  <2>1. s \in ProcState
    BY <1>1, ZenonT(40) DEF ProcState
  <2>2. /\ s.pc = x /\ s.new = p.new /\ s.run = p.run /\ s.job = p.job /\ s.dead = p.dead
        /\ s.fire = p.fire
    BY <1>1, <1>2 DEF ProcState
  <2>3. ProcShape(s, m)
    BY <2>2, Zenon DEF ProcShape, Sweeping
  <2> QED BY <2>1, <2>3
<1> QED BY <1>1, <1>3, <1>4

LEMMA AdmitProcs ==
  ASSUME TypeInv, NEW a \in Actors,
         MakeRunDir(a) \/ RecordFire(a) \/ Enqueue(a) \/ Spawn(a) \/ SpawnFails(a)
  PROVE  ProcsKept
<1>1. /\ proc[a] \in ProcState /\ ProcShape(proc[a], made) /\ made \in 0 .. MaxRuns
      /\ proc[a].pc \in {"admit", "record", "enqueue", "spawn"} /\ proc[a].fire \in Jobs
      /\ proc[a].job \in Jobs
  BY ProcFacts DEF MakeRunDir, RecordFire, Enqueue, Spawn, SpawnFails, ProcShape, AdmitPcs
<1>2. CASE MakeRunDir(a)
  <2> DEFINE p == [proc[a] EXCEPT !.pc = "record", !.new = made + 1]
  <2>1. /\ made < MaxRuns /\ made' = made + 1 /\ proc[a].pc = "admit"
        /\ proc' = [proc EXCEPT ![a] = p]
    BY <1>2 DEF MakeRunDir
  <2>2. /\ made + 1 \in 0 .. MaxRuns /\ "record" \in Pcs /\ made + 1 # 0
        /\ 0 .. made \subseteq 0 .. (made + 1) /\ 1 .. made \subseteq 1 .. (made + 1)
        /\ made + 1 \in 0 .. (made + 1)
    BY <1>1, <2>1, JobsAssumption DEF Pcs
  <2>3. p \in ProcState
    BY <1>1, <2>2, ZenonT(40) DEF ProcState
  <2>4. /\ p.pc = "record" /\ p.new = made + 1 /\ p.run = proc[a].run /\ p.job = proc[a].job
        /\ p.dead = proc[a].dead /\ p.fire = proc[a].fire
    BY <1>1 DEF ProcState
  <2>5. ProcShape(p, made + 1)
    BY <1>1, <2>2, <2>4 DEF ProcShape, LaunchPcs, OwnPcs, AdmitPcs, Sweeping
  <2> QED BY <1>1, <2>1, <2>2, <2>3, <2>5, UpdateProc
<1>3. CASE RecordFire(a)
  <2> DEFINE x == IF proc[a].held THEN "enqueue" ELSE "spawn"
             p == IF proc[a].mode = "dry_check" THEN Idle ELSE [proc[a] EXCEPT !.pc = x]
  <2>1. made' = made /\ proc' = [proc EXCEPT ![a] = p] /\ proc[a].pc = "record"
    BY <1>3 DEF RecordFire
  <2>2. x \in Pcs \ {"idle", "chain", "sweep", "look", "reap"} /\ x \in LaunchPcs /\ x \notin OwnPcs
    BY DEF Pcs, LaunchPcs, OwnPcs
  <2>3. p \in ProcState /\ ProcShape(p, made)
    <3>1. [proc[a] EXCEPT !.pc = x] \in ProcState /\ ProcShape([proc[a] EXCEPT !.pc = x], made)
      <4> HIDE DEF x
      <4>1. proc[a].pc \in LaunchPcs
        BY <2>1 DEF LaunchPcs
      <4> QED BY <1>1, <2>1, <2>2, <4>1, GotoType
    <3> QED BY <1>1, <3>1, IdleType, IdleShape
  <2> HIDE DEF p
  <2> QED BY <1>1, <2>1, <2>3, UpdateProc
<1>4. CASE Enqueue(a) \/ SpawnFails(a)
  <2>1. made' = made /\ proc' = [proc EXCEPT ![a] = Admitted(a)]
    BY <1>4 DEF Enqueue, SpawnFails
  <2>2. Admitted(a) \in ProcState /\ ProcShape(Admitted(a), made)
    BY <1>1, AdmittedType
  <2> QED BY <1>1, <2>1, <2>2, UpdateProc
<1>5. CASE Spawn(a)
  <2>1. PICK e \in Executors :
          proc' = [proc EXCEPT ![a] = Admitted(a), ![e] = Started(proc[a].fire, proc[a].new)]
    BY <1>5 DEF Spawn
  <2>2. Admitted(a) \in ProcState /\ ProcShape(Admitted(a), made)
    BY <1>1, AdmittedType
  <2>3. proc[a].new \in 0 .. made
    BY <1>1 DEF ProcShape
  <2>4. /\ Started(proc[a].fire, proc[a].new) \in ProcState
        /\ ProcShape(Started(proc[a].fire, proc[a].new), made)
    BY <1>1, <2>3, StartedType
  <2>5. made' = made /\ e \in Actors
    BY <1>5 DEF Spawn, Actors
  <2> QED BY <2>1, <2>2, <2>4, <2>5, UpdateTwo
<1> QED BY <1>2, <1>3, <1>4, <1>5

LEMMA DrainProcs ==
  ASSUME TypeInv, NEW a \in Actors,
         DrainPop(a) \/ LaunchSkip(a) \/ Launch(a) \/ LaunchFails(a)
  PROVE  ProcsKept
<1>1. /\ proc[a] \in ProcState /\ ProcShape(proc[a], made) /\ made \in 0 .. MaxRuns
      /\ proc[a].pc \in {"drain", "launch"} /\ proc[a].job \in Jobs /\ made' = made
  BY ProcFacts DEF DrainPop, LaunchSkip, Launch, LaunchFails
<1>2. Idle \in ProcState /\ ProcShape(Idle, made)
  BY <1>1, IdleType, IdleShape
<1>3. CASE LaunchSkip(a) \/ LaunchFails(a)
  BY <1>1, <1>2, <1>3, UpdateProc DEF LaunchSkip, LaunchFails
<1>4. CASE DrainPop(a)
  <2> DEFINE g == Group[proc[a].job]
             p == [proc[a] EXCEPT !.pc = "launch", !.new = Head(queue[g])]
  <2>1. CASE g = NoGroup \/ queue[g] = << >>
    <3>1. proc' = [proc EXCEPT ![a] = Idle]
      BY <1>4, <2>1 DEF DrainPop
    <3> QED BY <1>1, <1>2, <3>1, UpdateProc
  <2>2. CASE ~(g = NoGroup \/ queue[g] = << >>)
    <3>1. proc' = [proc EXCEPT ![a] = p] /\ proc[a].pc = "drain"
      BY <1>4, <2>2 DEF DrainPop
    <3>2. g \in Groups /\ queue[g] \in Seq(RunIds) /\ queue[g] # << >>
      BY <1>1, <2>2, GroupAssumption DEF TypeInv, TypeOK
    <3>3. Head(queue[g]) = queue[g][1] /\ 1 \in DOMAIN queue[g]
      BY <3>2
    <3>4. Head(queue[g]) \in 1 .. made
      BY <3>2, <3>3 DEF TypeInv, Shape, QueueOK
    <3>5. Head(queue[g]) \in 0 .. made /\ Head(queue[g]) \in 0 .. MaxRuns /\ Head(queue[g]) # 0
      BY <1>1, <3>4, JobsAssumption
    <3>6. p \in ProcState
      <4>1. "launch" \in Pcs
        BY DEF Pcs
      <4> HIDE DEF g
      <4> QED BY <1>1, <3>5, <4>1, ZenonT(40) DEF ProcState
    <3>7. /\ p.pc = "launch" /\ p.new = Head(queue[g]) /\ p.run = proc[a].run
          /\ p.job = proc[a].job /\ p.dead = proc[a].dead
      BY <1>1 DEF ProcState
    <3>8. ProcShape(p, made)
      BY <1>1, <3>5, <3>7 DEF ProcShape, LaunchPcs, OwnPcs, AdmitPcs, Sweeping
    <3> QED BY <1>1, <3>1, <3>6, <3>8, UpdateProc
  <2> QED BY <2>1, <2>2
<1>5. CASE Launch(a)
  <2>1. PICK e \in Executors :
          proc' = [proc EXCEPT ![a] = Idle, ![e] = Started(runs[proc[a].new].job, proc[a].new)]
    BY <1>5 DEF Launch
  <2>2. proc[a].new \in 0 .. made /\ proc[a].new # 0
    BY <1>1, <1>5 DEF ProcShape, LaunchPcs, Launch
  <2>3. runs[proc[a].new].job \in Jobs
    BY <1>1, <2>2, Ranges DEF TypeInv, Shape, RunsOK, RunIds
  <2>4. /\ Started(runs[proc[a].new].job, proc[a].new) \in ProcState
        /\ ProcShape(Started(runs[proc[a].new].job, proc[a].new), made)
    BY <1>1, <2>2, <2>3, StartedType
  <2>5. e \in Actors
    BY DEF Actors
  <2> QED BY <1>1, <1>2, <2>1, <2>4, <2>5, UpdateTwo
<1> QED BY <1>3, <1>4, <1>5

LEMMA ExecStartProcs ==
  ASSUME TypeInv, NEW e \in Executors, ExecUnknownJob(e) \/ ExecStart(e) \/ CooldownSkip(e)
  PROVE  ProcsKept
<1>1. /\ proc[e] \in ProcState /\ ProcShape(proc[e], made) /\ made \in 0 .. MaxRuns
      /\ proc[e].pc = "start" /\ proc[e].job \in Jobs /\ proc[e].new = 0
      /\ e \in Actors
  BY ProcFacts DEF ExecUnknownJob, ExecStart, CooldownSkip, Actors, LaunchPcs
<1>2. \A m \in 0 .. MaxRuns : Idle \in ProcState /\ ProcShape(Idle, m)
  BY IdleType, IdleShape
<1>3. CASE ExecUnknownJob(e)
  BY <1>1, <1>2, <1>3, UpdateProc DEF ExecUnknownJob
<1>4. CASE CooldownSkip(e)
  <2>1. made' \in 0 .. MaxRuns /\ (made' = made \/ made' = made + 1)
    BY <1>1, <1>4, Ranges DEF CooldownSkip
  <2>2. proc' = [proc EXCEPT ![e] = Idle]
    BY <1>4 DEF CooldownSkip
  <2> QED BY <1>1, <1>2, <2>1, <2>2, UpdateProc
<1>5. CASE ExecStart(e)
  <2> DEFINE p == [proc[e] EXCEPT !.cfg = registry]
  <2>1. /\ made' = made
        /\ proc' = [proc EXCEPT ![e] =
             IF proc[e].run # 0 THEN [proc[e] EXCEPT !.pc = "build"]
             ELSE IF Group[proc[e].job] = NoGroup THEN [proc[e] EXCEPT !.pc = "newrun"]
             ELSE Admitting(p, proc[e].job)]
    BY <1>5 DEF ExecStart
  <2>2. CASE proc[e].run # 0
    <3>1. "build" \in Pcs \ {"idle", "chain", "sweep", "look", "reap"} /\ "build" \notin LaunchPcs
          /\ "build" \notin AdmitPcs /\ proc[e].pc \notin LaunchPcs
      BY <1>1 DEF Pcs, LaunchPcs, AdmitPcs
    <3>2. /\ [proc[e] EXCEPT !.pc = "build"] \in ProcState
          /\ ProcShape([proc[e] EXCEPT !.pc = "build"], made)
      BY <1>1, <2>2, <3>1, GotoType
    <3> QED BY <1>1, <2>1, <2>2, <3>2, UpdateProc
  <2>3. CASE proc[e].run = 0 /\ Group[proc[e].job] = NoGroup
    <3>1. "newrun" \in Pcs \ {"idle", "chain", "sweep", "look", "reap"} /\ "newrun" \notin LaunchPcs
          /\ "newrun" \notin AdmitPcs /\ "newrun" \notin OwnPcs /\ proc[e].pc \notin LaunchPcs
      BY <1>1 DEF Pcs, LaunchPcs, AdmitPcs, OwnPcs
    <3>2. /\ [proc[e] EXCEPT !.pc = "newrun"] \in ProcState
          /\ ProcShape([proc[e] EXCEPT !.pc = "newrun"], made)
      BY <1>1, <3>1, GotoType
    <3> QED BY <1>1, <2>1, <2>3, <3>2, UpdateProc
  <2>4. CASE proc[e].run = 0 /\ Group[proc[e].job] # NoGroup
    <3>1. p \in ProcState
      BY <1>1, ZenonT(40) DEF ProcState, TypeInv, TypeOK
    <3>2. p.job = proc[e].job /\ p.new = 0 /\ p.run = proc[e].run /\ p.dead = proc[e].dead /\ p.pc = "start"
      BY <1>1 DEF ProcState
    <3>3. Admitting(p, proc[e].job) \in ProcState /\ ProcShape(Admitting(p, proc[e].job), made)
      <4>1. p.run \in 0 .. made /\ p.dead \subseteq 1 .. made
        BY <1>1, <3>2 DEF ProcShape
      <4> HIDE DEF p
      <4> QED BY <1>1, <3>1, <3>2, <4>1, AdmittingType
    <3>4. proc' = [proc EXCEPT ![e] = Admitting(p, proc[e].job)]
      BY <2>1, <2>4
    <3> QED BY <1>1, <2>1, <3>3, <3>4, UpdateProc
  <2> QED BY <2>2, <2>3, <2>4
<1> QED BY <1>3, <1>4, <1>5

LEMMA ExecRunProcs ==
  ASSUME TypeInv, NEW e \in Executors,
         \/ ExecNewRun(e) \/ ExecBuildFails(e) \/ ExecRunning(e) \/ ExecPopen(e)
         \/ ExecPopenFails(e) \/ ExecWritePid(e) \/ ExecWait(e)
  PROVE  ProcsKept
<1>1. /\ proc[e] \in ProcState /\ ProcShape(proc[e], made) /\ made \in 0 .. MaxRuns
      /\ proc[e].pc \in {"newrun", "build", "popen", "pid", "wait"}
      /\ proc[e].job \in Jobs /\ proc[e].new = 0 /\ e \in Actors
  BY ProcFacts DEF ExecNewRun, ExecBuildFails, ExecRunning, ExecPopen, ExecPopenFails,
                   ExecWritePid, ExecWait, Actors, LaunchPcs
<1>2. CASE ExecNewRun(e)
  <2> DEFINE p == [proc[e] EXCEPT !.pc = "build", !.run = made + 1]
  <2>1. /\ made < MaxRuns /\ made' = made + 1 /\ proc[e].pc = "newrun"
        /\ proc' = [proc EXCEPT ![e] = p]
    BY <1>2 DEF ExecNewRun
  <2>2. /\ made + 1 \in 0 .. MaxRuns /\ "build" \in Pcs /\ made + 1 # 0
        /\ 0 .. made \subseteq 0 .. (made + 1) /\ 1 .. made \subseteq 1 .. (made + 1)
        /\ made + 1 \in 0 .. (made + 1)
    BY <1>1, <2>1, JobsAssumption DEF Pcs
  <2>3. p \in ProcState
    BY <1>1, <2>2, ZenonT(40) DEF ProcState
  <2>4. /\ p.pc = "build" /\ p.run = made + 1 /\ p.new = 0 /\ p.job = proc[e].job
        /\ p.dead = proc[e].dead
    BY <1>1 DEF ProcState
  <2>5. ProcShape(p, made + 1)
    BY <1>1, <2>2, <2>4 DEF ProcShape, LaunchPcs, OwnPcs, AdmitPcs, Sweeping
  <2> QED BY <1>1, <2>1, <2>2, <2>3, <2>5, UpdateProc
<1>3. CASE ExecBuildFails(e)
  BY <1>1, <1>3, IdleType, IdleShape, UpdateProc DEF ExecBuildFails
<1>4. ASSUME NEW x \in {"popen", "pid", "wait", "finish"}, NEW ok \in BOOLEAN,
             proc[e].pc # "newrun"
      PROVE  /\ [proc[e] EXCEPT !.pc = x] \in ProcState
             /\ ProcShape([proc[e] EXCEPT !.pc = x], made)
             /\ [[proc[e] EXCEPT !.pc = x] EXCEPT !.ok = ok] \in ProcState
             /\ ProcShape([[proc[e] EXCEPT !.pc = x] EXCEPT !.ok = ok], made)
  <2>1. x \in Pcs \ {"idle", "chain", "sweep", "look", "reap"} /\ x \notin LaunchPcs
        /\ x \notin AdmitPcs /\ proc[e].pc \notin LaunchPcs
    BY <1>1 DEF Pcs, LaunchPcs, AdmitPcs
  <2>2. proc[e].run # 0
    BY <1>1, <1>4 DEF ProcShape, OwnPcs
  <2> QED BY <1>1, <2>1, <2>2, GotoType
<1>5. CASE ExecRunning(e) \/ ExecPopen(e) \/ ExecWritePid(e)
  <2>1. PICK x \in {"popen", "pid", "wait"} : proc' = [proc EXCEPT ![e] = [proc[e] EXCEPT !.pc = x]]
    BY <1>5 DEF ExecRunning, ExecPopen, ExecWritePid
  <2>2. made' = made /\ proc[e].pc # "newrun"
    BY <1>5 DEF ExecRunning, ExecPopen, ExecWritePid
  <2> QED BY <1>1, <1>4, <2>1, <2>2, UpdateProc
<1>6. CASE ExecPopenFails(e) \/ ExecWait(e)
  <2>1. PICK ok \in BOOLEAN :
          proc' = [proc EXCEPT ![e] = [[proc[e] EXCEPT !.pc = "finish"] EXCEPT !.ok = ok]]
    BY <1>6 DEF ExecPopenFails, ExecWait
  <2>2. made' = made /\ proc[e].pc # "newrun"
    BY <1>6 DEF ExecPopenFails, ExecWait
  <2> QED BY <1>1, <1>4, <2>1, <2>2, UpdateProc
<1> QED BY <1>2, <1>3, <1>5, <1>6

LEMMA ExecFinishProcs ==
  ASSUME TypeInv, NEW e \in Executors,
         ExecFinish(e) \/ ExecFinal(e) \/ ExecFollow(e) \/ ExecChain(e)
  PROVE  ProcsKept
<1>1. /\ proc[e] \in ProcState /\ ProcShape(proc[e], made) /\ made \in 0 .. MaxRuns
      /\ proc[e].pc \in {"finish", "final", "follow", "chain"}
      /\ proc[e].job \in Jobs /\ proc[e].new = 0 /\ e \in Actors /\ made' = made
  BY ProcFacts DEF ExecFinish, ExecFinal, ExecFollow, ExecChain, Actors, LaunchPcs
<1>2. proc[e].run # 0 /\ proc[e].run \in 0 .. made /\ proc[e].dead \subseteq 1 .. made
  BY <1>1 DEF ProcShape, OwnPcs
<1>3. ASSUME NEW x \in {"final", "follow"}
      PROVE  /\ [proc[e] EXCEPT !.pc = x] \in ProcState
             /\ ProcShape([proc[e] EXCEPT !.pc = x], made)
  <2>1. x \in Pcs \ {"idle", "chain", "sweep", "look", "reap"} /\ x \notin LaunchPcs
        /\ x \notin AdmitPcs /\ proc[e].pc \notin LaunchPcs
    BY <1>1 DEF Pcs, LaunchPcs, AdmitPcs
  <2> QED BY <1>1, <1>2, <2>1, GotoType
<1>4. CASE ExecFinish(e)
  <2>1. \/ proc' = [proc EXCEPT ![e] = Idle]
        \/ proc' = [proc EXCEPT ![e] = [proc[e] EXCEPT !.pc = "final"]]
    BY <1>4 DEF ExecFinish
  <2> QED BY <1>1, <1>3, <2>1, IdleType, IdleShape, UpdateProc
<1>5. CASE ExecFinal(e)
  <2>1. proc' = [proc EXCEPT ![e] = [proc[e] EXCEPT !.pc = "follow"]]
    BY <1>5 DEF ExecFinal
  <2> QED BY <1>1, <1>3, <2>1, UpdateProc
<1>6. CASE ExecFollow(e)
  <2> DEFINE p == [proc[e] EXCEPT !.cfg = registry]
  <2>1. PICK c \in Seq(Jobs) : proc' = [proc EXCEPT ![e] = Chained(p, c)]
    <3>1. OnSuccess[proc[e].job] \in Seq(Jobs) /\ OnFailure[proc[e].job] \in Seq(Jobs)
      BY <1>1, ChainAssumption
    <3> QED BY <1>6, <3>1 DEF ExecFollow
  <2>2. p \in ProcState
    BY <1>1, ZenonT(40) DEF ProcState, TypeInv, TypeOK
  <2>3. p.job = proc[e].job /\ p.new = 0 /\ p.run = proc[e].run /\ p.dead = proc[e].dead
        /\ p.pc = "follow"
    BY <1>1, <1>6 DEF ProcState, ExecFollow
  <2> HIDE DEF p
  <2>4. ProcShape(p, made)
    BY <1>1, <1>2, <2>3 DEF ProcShape, LaunchPcs, OwnPcs, AdmitPcs, Sweeping
  <2>5. Chained(p, c) \in ProcState /\ ProcShape(Chained(p, c), made)
    BY <1>1, <1>2, <2>2, <2>3, <2>4, ChainedType
  <2> QED BY <1>1, <2>1, <2>5, UpdateProc
<1>7. CASE ExecChain(e)
  <2> DEFINE d == Head(proc[e].chain)
             rest == Tail(proc[e].chain)
             p == [proc[e] EXCEPT !.chain = rest]
  <2>1. proc[e].chain \in Seq(Jobs) /\ proc[e].chain # << >> /\ proc[e].pc = "chain"
    BY <1>1, <1>7 DEF ProcState, ProcShape, ExecChain
  <2>2. d \in Jobs /\ rest \in Seq(Jobs)
    BY <2>1
  <2>3. \/ proc' = [proc EXCEPT ![e] = Admitting(p, d)]
        \/ proc' = [proc EXCEPT ![e] = Chained(proc[e], rest)]
    BY <1>7 DEF ExecChain
  <2>4. p \in ProcState
    <3> HIDE DEF rest
    <3> QED BY <1>1, <2>2, ZenonT(40) DEF ProcState
  <2>5. p.job = proc[e].job /\ p.new = 0 /\ p.run = proc[e].run /\ p.dead = proc[e].dead
    BY <1>1 DEF ProcState
  <2> HIDE DEF p, d, rest
  <2>6. Admitting(p, d) \in ProcState /\ ProcShape(Admitting(p, d), made)
    BY <1>1, <1>2, <2>2, <2>4, <2>5, AdmittingType
  <2>7. Chained(proc[e], rest) \in ProcState /\ ProcShape(Chained(proc[e], rest), made)
    BY <1>1, <1>2, <2>2, ChainedType
  <2> QED BY <1>1, <2>3, <2>6, <2>7, UpdateProc
<1> QED BY <1>4, <1>5, <1>6, <1>7

LEMMA KillProcs ==
  ASSUME TypeInv, NEW h \in Handlers, KillStamp(h) \/ KillTree(h)
  PROVE  ProcsKept
<1>1. /\ proc[h] \in ProcState /\ ProcShape(proc[h], made) /\ made \in 0 .. MaxRuns
      /\ proc[h].pc \in {"stamp", "killtree"} /\ h \in Actors /\ made' = made
  BY ProcFacts DEF KillStamp, KillTree, Actors
<1>2. PICK x \in {"killtree", "drain"} : proc' = [proc EXCEPT ![h] = [proc[h] EXCEPT !.pc = x]]
  BY DEF KillStamp, KillTree
<1>3. x \in Pcs \ {"idle", "chain", "sweep", "look", "reap"} /\ x \notin LaunchPcs
      /\ x \notin AdmitPcs /\ proc[h].pc \notin LaunchPcs /\ proc[h].run # 0
  BY <1>1 DEF Pcs, LaunchPcs, AdmitPcs, OwnPcs, ProcShape
<1>4. [proc[h] EXCEPT !.pc = x] \in ProcState /\ ProcShape([proc[h] EXCEPT !.pc = x], made)
  BY <1>1, <1>3, GotoType
<1> QED BY <1>1, <1>2, <1>4, UpdateProc

LEMMA FireProcs ==
  ASSUME TypeInv, NEW h \in Actors, NEW j \in Jobs,
         NEW mode \in {"dry_execute", "dry_check"},
         Fire(h, j) \/ Poll(h, j) \/ DryRun(h, j, mode) \/ ScheduledFire(h, j)
  PROVE  ProcsKept
<1>1. made' = made /\ made \in 0 .. MaxRuns 
  BY ProcFacts DEF Fire, Poll, DryRun, ScheduledFire
<1>2. j \in 0 .. NumJobs /\ 0 \in 0 .. made
  BY <1>1, Ranges
<1>3. CASE Fire(h, j)
  <2> DEFINE p == [Idle EXCEPT !.job = j, !.cfg = registry]
  <2>1. p \in ProcState
    <3>1. registry \in SUBSET Jobs
      BY DEF TypeInv, TypeOK
    <3> QED BY <1>2, <3>1, IdleType, ZenonT(40) DEF ProcState
  <2>2. p.job = j /\ p.new = 0 /\ p.run = 0 /\ p.dead = {}
    BY DEF Idle
  <2>3. proc' = [proc EXCEPT ![h] = Admitting(p, j)]
    BY <1>3 DEF Fire
  <2> HIDE DEF p
  <2>4. Admitting(p, j) \in ProcState /\ ProcShape(Admitting(p, j), made)
    BY <1>1, <1>2, <2>1, <2>2, AdmittingType
  <2> QED BY <1>1, <2>3, <2>4, UpdateProc
<1>4. CASE Poll(h, j)
  <2> DEFINE p == [Idle EXCEPT !.pc = "reap", !.job = j, !.mode = "poll", !.dead = Stranded(j)]
  <2>1. Stranded(j) \subseteq 1 .. made /\ Stranded(j) \in SUBSET RunIds /\ "reap" \in Pcs
    BY <1>1, Ranges DEF Stranded, RunsOf, Pcs
  <2>2. p \in ProcState
    BY <1>2, <2>1, IdleType, ZenonT(40) DEF ProcState
  <2>3. /\ p.job = j /\ p.new = 0 /\ p.run = 0 /\ p.dead = Stranded(j) /\ p.mode = "poll"
        /\ p.pc = "reap"
    BY DEF Idle
  <2>4. ProcShape(p, made)
    BY <1>2, <2>1, <2>3 DEF ProcShape, LaunchPcs, OwnPcs, AdmitPcs, Sweeping
  <2>5. proc' = [proc EXCEPT ![h] = p]
    BY <1>4 DEF Poll
  <2> QED BY <1>1, <2>2, <2>4, <2>5, UpdateProc
<1>5. CASE DryRun(h, j, mode)
  <2> DEFINE p == [Idle EXCEPT !.pc = "admit", !.job = j, !.fire = j, !.mode = mode]
  <2>1. p \in ProcState
    <3>1. "admit" \in Pcs /\ mode \in {"run", "dry_execute", "dry_check", "poll"}
      BY DEF Pcs
    <3> QED BY <1>2, <3>1, IdleType, ZenonT(40) DEF ProcState
  <2>2. /\ p.job = j /\ p.new = 0 /\ p.run = 0 /\ p.dead = {} /\ p.fire = j /\ p.pc = "admit"
    BY DEF Idle
  <2>3. ProcShape(p, made)
    BY <1>2, <2>2 DEF ProcShape, LaunchPcs, OwnPcs, AdmitPcs, Sweeping
  <2>4. proc' = [proc EXCEPT ![h] = p]
    BY <1>5 DEF DryRun
  <2> QED BY <1>1, <2>1, <2>3, <2>4, UpdateProc
<1>6. CASE ScheduledFire(h, j)
  <2>1. Started(j, 0) \in ProcState /\ ProcShape(Started(j, 0), made)
    BY <1>1, <1>2, StartedType
  <2>2. proc' = [proc EXCEPT ![h] = Started(j, 0)]
    BY <1>6 DEF ScheduledFire
  <2> QED BY <1>1, <2>1, <2>2, UpdateProc
<1> QED BY <1>3, <1>4, <1>5, <1>6

LEMMA KillReadProcs ==
  ASSUME TypeInv, NEW h \in Handlers, NEW r \in RunIds, KillRead(h, r)
  PROVE  ProcsKept
<1> DEFINE p == [Idle EXCEPT !.pc = "stamp", !.job = runs[r].job, !.run = r, !.hit = runs[r].pid]
<1>1. made' = made /\ made \in 0 .. MaxRuns /\ h \in Actors
  BY ProcFacts DEF KillRead, Actors
<1>2. runs[r] \in Record /\ runs[r].job \in Jobs /\ runs[r].status \in Live
  BY DEF KillRead, TypeInv, TypeOK
<1>3. r <= made
  <2>1. ~(r <= made) => runs[r] = Blank(0)
    BY DEF TypeInv, Shape, RunsOK, Unmade
  <2> QED BY <1>2, <2>1 DEF Blank, Live
<1>4. /\ runs[r].job \in 0 .. NumJobs /\ r \in 0 .. MaxRuns /\ r \in 0 .. made /\ r # 0
      /\ runs[r].pid \in BOOLEAN
  BY <1>1, <1>2, <1>3, JobsAssumption DEF RunIds, Jobs, Record
<1>5. p \in ProcState
  <2>1. "stamp" \in Pcs
    BY DEF Pcs
  <2> QED BY <1>4, <2>1, IdleType, ZenonT(40) DEF ProcState
<1>6. /\ p.job = runs[r].job /\ p.new = 0 /\ p.run = r /\ p.dead = {} /\ p.pc = "stamp"
  BY DEF Idle
<1>7. ProcShape(p, made)
  BY <1>1, <1>2, <1>4, <1>6, Ranges DEF ProcShape, LaunchPcs, OwnPcs, AdmitPcs, Sweeping
<1>8. proc' = [proc EXCEPT ![h] = p]
  BY DEF KillRead
<1> QED BY <1>1, <1>5, <1>7, <1>8, UpdateProc

LEMMA DeathProcs ==
  ASSUME TypeInv, (\E e \in Executors : ExecutorCrash(e)) \/ WebappCrash
  PROVE  ProcsKept
<1>1. made' = made /\ made \in 0 .. MaxRuns
  BY DEF TypeInv, TypeOK, ExecutorCrash, WebappCrash
<1>2. Idle \in ProcState /\ ProcShape(Idle, made)
  BY <1>1, IdleType, IdleShape
<1>3. ASSUME NEW e \in Executors, ExecutorCrash(e)
      PROVE  ProcsKept
  <2>1. e \in Actors
    BY DEF Actors
  <2> QED BY <1>1, <1>2, <1>3, <2>1, UpdateProc DEF ExecutorCrash
<1>4. CASE WebappCrash
  <2>1. proc' = [a \in Actors |-> IF a \in Handlers THEN Idle ELSE proc[a]]
    BY <1>4 DEF WebappCrash
  <2>2. \A a \in Actors : proc[a] \in ProcState /\ ProcShape(proc[a], made)
    BY DEF TypeInv, TypeOK, Shape, ProcsOK
  <2>3. \A a \in Actors : proc'[a] \in ProcState /\ ProcShape(proc'[a], made')
    BY <1>1, <1>2, <2>1, <2>2
  <2> QED BY <2>1, <2>3 DEF ProcsOK, ProcsKept
<1> QED BY <1>3, <1>4

\* Every step keeps every process in shape.
LEMMA ProcsStep ==
  ASSUME TypeInv, Next
  PROVE  ProcsKept
<1>1. ASSUME NEW a \in Actors, SharedStep(a) PROVE ProcsKept
  <2>1. CASE SweepEnd(a) \/ LookAfterReap(a)
    <3>1. PICK o \in Jobs : TRUE
      BY <2>1, ProcFacts DEF SweepEnd, LookAfterReap
    <3> QED BY <2>1, <3>1, SweepProcs
  <2>2. ASSUME NEW o \in Jobs, SweepLook(a, o) \/ SweepList(a, o) PROVE ProcsKept
    BY <2>2, SweepProcs
  <2>3. ASSUME NEW r \in RunIds, ReapOne(a, r) PROVE ProcsKept
    BY <2>3, ReapProcs
  <2>4. CASE MakeRunDir(a) \/ RecordFire(a) \/ Enqueue(a) \/ Spawn(a) \/ SpawnFails(a)
    BY <2>4, AdmitProcs
  <2>5. CASE DrainPop(a) \/ LaunchSkip(a) \/ Launch(a) \/ LaunchFails(a)
    BY <2>5, DrainProcs
  <2> QED BY <1>1, <2>1, <2>2, <2>3, <2>4, <2>5 DEF SharedStep
<1>2. ASSUME NEW e \in Executors, ExecutorStep(e) PROVE ProcsKept
  <2>1. CASE ExecUnknownJob(e) \/ ExecStart(e) \/ CooldownSkip(e)
    BY <2>1, ExecStartProcs
  <2>2. CASE \/ ExecNewRun(e) \/ ExecBuildFails(e) \/ ExecRunning(e) \/ ExecPopen(e)
             \/ ExecPopenFails(e) \/ ExecWritePid(e) \/ ExecWait(e)
    BY <2>2, ExecRunProcs
  <2>3. CASE ExecFinish(e) \/ ExecFinal(e) \/ ExecFollow(e) \/ ExecChain(e)
    BY <2>3, ExecFinishProcs
  <2> QED BY <1>2, <2>1, <2>2, <2>3 DEF ExecutorStep
<1>3. ASSUME NEW h \in Handlers, KillStep(h) PROVE ProcsKept
  BY <1>3, KillProcs DEF KillStep
<1>4. CASE Requests
  <2>1. ASSUME NEW h \in Handlers, NEW j \in Jobs, Fire(h, j) \/ Poll(h, j) PROVE ProcsKept
    BY <2>1, FireProcs DEF Actors
  <2>2. ASSUME NEW h \in Handlers, NEW j \in Jobs, NEW m \in {"dry_execute", "dry_check"},
               DryRun(h, j, m)
        PROVE  ProcsKept
    BY <2>2, FireProcs DEF Actors
  <2>3. ASSUME NEW e \in Executors, NEW j \in Jobs, ScheduledFire(e, j) PROVE ProcsKept
    BY <2>3, FireProcs DEF Actors
  <2>4. ASSUME NEW h \in Handlers, NEW r \in RunIds, KillRead(h, r) PROVE ProcsKept
    BY <2>4, KillReadProcs
  <2>5. ASSUME NEW j \in Jobs, DeleteJob(j) PROVE ProcsKept
    BY <2>5 DEF DeleteJob, TypeInv, TypeOK, Shape, ProcsOK, ProcsKept
  <2> QED BY <1>4, <2>1, <2>2, <2>3, <2>4, <2>5 DEF Requests
<1>5. CASE Deaths
  <2>1. ASSUME NEW r \in RunIds, ChildExit(r) PROVE ProcsKept
    BY <2>1 DEF ChildExit, TypeInv, TypeOK, Shape, ProcsOK, ProcsKept
  <2>2. CASE (\E e \in Executors : ExecutorCrash(e)) \/ WebappCrash
    BY <2>2, DeathProcs
  <2> QED BY <1>5, <2>1, <2>2 DEF Deaths
<1> QED BY <1>1, <1>2, <1>3, <1>4, <1>5 DEF Next

-----------------------------------------------------------------------------
(* Steps: files, children and counters. *)

\* The part of the invariant that is not about processes.
Files ==
  /\ registry \subseteq Jobs
  /\ runs \in [RunIds -> Record]
  /\ made \in 0 .. MaxRuns
  /\ queue \in [Groups -> Seq(RunIds)]
  /\ child \in [RunIds -> {"none", "alive", "zero", "nonzero"}]
  /\ fires \in 0 .. MaxFires /\ crashes \in 0 .. MaxCrashes
  /\ starts \in [RunIds -> Nat] /\ finals \in [RunIds -> Nat]
  /\ muted \subseteq RunIds
  /\ QueueOK /\ RunsOK

LEMMA TypeInvParts ==
  TypeInv <=> Files /\ proc \in [Actors -> ProcState] /\ ProcsOK
  BY DEF TypeInv, TypeOK, Shape, Files

LEMMA FilesSame ==
  ASSUME Files, UNCHANGED <<registry, runs, made, queue, child, seen>>,
         fires' \in 0 .. MaxFires, crashes' \in 0 .. MaxCrashes
  PROVE  Files'
  BY DEF Files, QueueOK, RunsOK, Unmade, seen

\* The record of one run that exists is replaced.
LEMMA FilesRecord ==
  ASSUME Files, NEW r \in 1 .. made, NEW x \in Record, x.job = runs[r].job,
         runs' = [runs EXCEPT ![r] = x], muted' \subseteq muted \cup {r},
         UNCHANGED <<registry, made, queue, child, env, starts, finals>>
  PROVE  Files'
<1>1. r \in RunIds
  BY Ranges DEF Files
<1>2. runs' \in [RunIds -> Record]
  BY <1>1 DEF Files
<1>3. RunsOK'
  BY <1>1 DEF Files, RunsOK, Unmade
<1>4. QueueOK' /\ muted' \subseteq RunIds
  BY <1>1 DEF Files, QueueOK
<1> QED BY <1>2, <1>3, <1>4 DEF Files, env

LEMMA BlankEmpty == ~Blank(0).dir
  BY DEF Blank

\* Run ids on either side of the newest.
LEMMA RunIdOrder ==
  ASSUME NEW m \in 0 .. MaxRuns, NEW s \in RunIds
  PROVE  /\ ~(s <= m) => (s # 0 /\ \A r \in 1 .. m : s # r)
         /\ ~(s <= m + 1) => (s # m + 1 /\ ~(s <= m))
         /\ s <= m + 1 => (s <= m \/ s = m + 1)
  BY JobsAssumption DEF RunIds

\* The record of one run of job j is replaced and the job's history pruned.
LEMMA FilesPruned ==
  ASSUME Files, NEW r \in 1 .. made, NEW x \in Record, x.job = runs[r].job, NEW j \in Jobs,
         runs' = Pruned(j, [runs EXCEPT ![r] = x]), muted' \subseteq muted,
         finals' \in [RunIds -> Nat], \A s \in RunIds : s # r => finals'[s] = finals[s],
         UNCHANGED <<registry, made, queue, child, env, starts>>
  PROVE  Files'
<1> DEFINE rs == [runs EXCEPT ![r] = x]
<1>1. r \in RunIds /\ made \in 0 .. MaxRuns /\ j \in 0 .. NumJobs
  BY Ranges DEF Files
<1>2. /\ rs \in [RunIds -> Record]
      /\ \A s \in RunIds : /\ rs[s].job = runs[s].job
                           /\ s # r => rs[s] = runs[s]
  BY <1>1 DEF Files
<1> HIDE DEF rs
<1>3. runs' = Pruned(j, rs)
  BY DEF rs
<1>4. /\ runs' \in [RunIds -> Record]
      /\ \A s \in RunIds : /\ runs'[s].job = runs[s].job
                           /\ runs'[s] = rs[s] \/ rs[s].dir
  <2>1. /\ Pruned(j, rs) \in [RunIds -> Record]
        /\ \A s \in RunIds : /\ Pruned(j, rs)[s].job = rs[s].job
                             /\ Pruned(j, rs)[s] = rs[s] \/ rs[s].dir
    BY <1>1, <1>2, PrunedType
  <2> QED BY <1>2, <1>3, <2>1
<1>5. RunsOK'
  <2> SUFFICES ASSUME NEW s \in RunIds
               PROVE  IF s <= made THEN runs'[s].job \in Jobs ELSE Unmade(s)'
    BY DEF RunsOK
  <2>1. CASE s <= made
    BY <2>1, <1>4 DEF Files, RunsOK
  <2>2. CASE ~(s <= made)
    <3>1. s # r
      BY <1>1, <2>2, RunIdOrder
    <3>2. Unmade(s) /\ rs[s] = runs[s] /\ finals'[s] = finals[s]
      BY <1>2, <2>2, <3>1 DEF Files, RunsOK
    <3>3. runs'[s] = Blank(0)
      BY <1>4, <3>2, BlankEmpty DEF Unmade
    <3> QED BY <2>2, <3>2, <3>3 DEF Unmade
  <2> QED BY <2>1, <2>2
<1>6. QueueOK' /\ muted' \subseteq RunIds
  BY DEF Files, QueueOK
<1> QED BY <1>4, <1>5, <1>6 DEF Files, env

\* A directory is made for job j, maybe pruning its history.
LEMMA FilesNew ==
  ASSUME Files, made < MaxRuns, made' = made + 1, NEW j \in Jobs, NEW x \in Record, x.job = j,
         \/ runs' = [runs EXCEPT ![made + 1] = x]
         \/ runs' = Pruned(j, [runs EXCEPT ![made + 1] = x]),
         muted' \subseteq muted, UNCHANGED <<registry, queue, child, env, starts, finals>>
  PROVE  Files'
<1> DEFINE n == made + 1
           rs == [runs EXCEPT ![n] = x]
<1>1. /\ made \in 0 .. MaxRuns /\ n \in RunIds /\ j \in 0 .. NumJobs /\ made' \in 0 .. MaxRuns
  BY Ranges, JobsAssumption DEF Files
<1>2. \A s \in RunIds : /\ ~(s <= n) => (s # n /\ ~(s <= made))
                        /\ s <= n => (s <= made \/ s = n)
  BY <1>1, RunIdOrder
<1>3. \A i \in 1 .. made : i \in 1 .. made'
  BY <1>1, Ranges
<1>4. made' = n
  OBVIOUS
<1> HIDE DEF n
<1>5. /\ rs \in [RunIds -> Record] /\ rs[n].job = j
      /\ \A s \in RunIds : s # n => rs[s] = runs[s]
  BY <1>1 DEF Files
<1>6. runs' = rs \/ runs' = Pruned(j, rs)
  BY DEF n
<1> HIDE DEF rs
<1>7. /\ runs' \in [RunIds -> Record]
      /\ \A s \in RunIds : /\ runs'[s].job = rs[s].job
                           /\ runs'[s] = rs[s] \/ rs[s].dir
  BY <1>1, <1>5, <1>6, PrunedType
<1>8. RunsOK'
  <2> SUFFICES ASSUME NEW s \in RunIds
               PROVE  IF s <= made' THEN runs'[s].job \in Jobs ELSE Unmade(s)'
    BY DEF RunsOK
  <2>1. CASE s <= n
    BY <2>1, <1>2, <1>4, <1>5, <1>7 DEF Files, RunsOK
  <2>2. CASE ~(s <= n)
    <3>1. Unmade(s) /\ rs[s] = runs[s]
      BY <1>2, <1>5, <2>2 DEF Files, RunsOK
    <3>2. runs'[s] = Blank(0)
      BY <1>7, <3>1, BlankEmpty DEF Unmade
    <3> QED BY <1>4, <2>2, <3>1, <3>2 DEF Unmade
  <2> QED BY <2>1, <2>2
<1>9. QueueOK' /\ muted' \subseteq RunIds
  BY <1>3 DEF Files, QueueOK
<1> QED BY <1>1, <1>7, <1>8, <1>9 DEF Files, env

\* The run a process works on exists.
LEMMA RunFacts ==
  ASSUME TypeInv, NEW a \in Actors
  PROVE  /\ proc[a].pc \in OwnPcs => proc[a].run \in 1 .. made
         /\ proc[a].pc \in LaunchPcs => proc[a].new \in 1 .. made
         /\ proc[a].dead \subseteq 1 .. made /\ proc[a].ok \in BOOLEAN
         /\ \A r \in 1 .. made : /\ r \in RunIds /\ runs[r] \in Record
                                 /\ runs[r].exit \in {"none", "own", "kill"}
         /\ Files
<1>1. ProcShape(proc[a], made) /\ made \in 0 .. MaxRuns /\ proc[a] \in ProcState
  BY ProcFacts
<1>2. proc[a].pc \in OwnPcs => proc[a].run \in 1 .. made
  BY <1>1 DEF ProcShape
<1>3. proc[a].pc \in LaunchPcs => proc[a].new \in 1 .. made
  BY <1>1 DEF ProcShape
<1>4. \A r \in 1 .. made : r \in RunIds
  BY <1>1, Ranges
<1>5. \A r \in RunIds : runs[r] \in Record /\ runs[r].exit \in {"none", "own", "kill"}
  BY DEF TypeInv, TypeOK, Record
<1> QED BY <1>1, <1>2, <1>3, <1>4, <1>5, TypeInvParts DEF ProcShape, ProcState

\* What the writes make of the record of a run that exists.
LEMMA StampedRun ==
  ASSUME TypeInv, NEW r \in 1 .. made, NEW status \in Statuses
  PROVE  \A exit \in {"own", runs[r].exit} :
           /\ Stamped(runs[r], status, exit) \in Record
           /\ Stamped(runs[r], status, exit).job = runs[r].job
<1>1. runs[r] \in Record
  <2>1. made \in 0 .. MaxRuns BY DEF TypeInv, TypeOK
  <2>2. r \in RunIds BY <2>1, Ranges
  <2> QED BY <2>2 DEF TypeInv, TypeOK
<1>2. \A exit \in {"own", runs[r].exit} : exit \in {"none", "own", "kill"}
  BY <1>1 DEF Record
<1> QED BY <1>1, <1>2, StampedType

\* The rest of a queue keeps its entries, each one place further on.
LEMMA TailFacts ==
  ASSUME NEW S, NEW q \in Seq(S), q # << >>
  PROVE  /\ Tail(q) \in Seq(S) /\ Head(q) = q[1] /\ 1 \in DOMAIN q
         /\ \A i \in DOMAIN Tail(q) : i + 1 \in DOMAIN q /\ i + 1 # 1 /\ Tail(q)[i] = q[i + 1]
         /\ \A i, j \in DOMAIN Tail(q) : i + 1 = j + 1 => i = j
  OBVIOUS

\* A queue with one more entry.
LEMMA AppendFacts ==
  ASSUME NEW S, NEW q \in Seq(S), NEW n \in S
  PROVE  /\ Append(q, n) \in Seq(S)
         /\ \A i \in DOMAIN Append(q, n) :
              \/ i \in DOMAIN q /\ Append(q, n)[i] = q[i]
              \/ i = Len(q) + 1 /\ Append(q, n)[i] = n
  OBVIOUS

LEMMA AdmitFiles ==
  ASSUME TypeInv, NEW a \in Actors,
         MakeRunDir(a) \/ RecordFire(a) \/ Enqueue(a) \/ Spawn(a) \/ SpawnFails(a)
  PROVE  Files'
<1>1. CASE MakeRunDir(a)
  <2> DEFINE x == NewDir(proc[a].fire)
  <2>1. proc[a].fire \in Jobs /\ proc[a].fire \in 0 .. NumJobs
    BY <1>1, ProcFacts, Ranges DEF MakeRunDir, ProcShape, AdmitPcs
  <2>2. x \in Record /\ x.job = proc[a].fire
    BY <2>1, BlankType
  <2>3. /\ made < MaxRuns /\ made' = made + 1 /\ runs' = [runs EXCEPT ![made + 1] = x]
        /\ UNCHANGED <<registry, queue, child, env, starts, finals, muted>>
    BY <1>1 DEF MakeRunDir, seen
  <2> HIDE DEF x
  <2> QED BY <2>1, <2>2, <2>3, RunFacts, FilesNew
<1>2. CASE RecordFire(a)
  <2> DEFINE r == proc[a].new
             status == IF proc[a].mode = "dry_check" THEN "dry_run"
                       ELSE IF proc[a].held THEN "queued" ELSE "pending"
             s == Stamped(runs[r], status, runs[r].exit)
             x == [s EXCEPT !.dry = (proc[a].mode # "run")]
  <2>1. r \in 1 .. made
    BY <1>2, RunFacts DEF RecordFire, LaunchPcs
  <2>2. s \in Record /\ s.job = runs[r].job
    <3>1. status \in Statuses
      BY DEF Statuses
    <3> QED BY <2>1, <3>1, StampedRun
  <2> HIDE DEF s
  <2>3. x \in Record /\ x.job = runs[r].job
    BY <2>2 DEF Record
  <2>4. /\ runs' = [runs EXCEPT ![r] = x]
        /\ UNCHANGED <<registry, made, queue, child, env, starts, finals, muted>>
    BY <1>2 DEF RecordFire, seen, s
  <2> HIDE DEF x, r
  <2> QED BY <2>1, <2>3, <2>4, RunFacts, FilesRecord
<1>3. CASE Enqueue(a)
  <2> DEFINE g == Group[proc[a].fire]
             n == proc[a].new
  <2>1. n \in 1 .. made /\ n \in RunIds
    BY <1>3, RunFacts DEF Enqueue, LaunchPcs
  <2>2. /\ queue' = [queue EXCEPT ![g] = Append(@, n)]
        /\ UNCHANGED <<registry, runs, made, child, env, seen>>
    BY <1>3 DEF Enqueue
  <2> HIDE DEF g, n
  <2>3. /\ queue' \in [Groups -> Seq(RunIds)]
        /\ \A h \in Groups : \A i \in DOMAIN queue'[h] : queue'[h][i] \in 1 .. made
    <3>1. /\ queue \in [Groups -> Seq(RunIds)]
          /\ \A h \in Groups : \A i \in DOMAIN queue[h] : queue[h][i] \in 1 .. made
      BY RunFacts DEF Files, QueueOK
    <3>2. \A h \in Groups : queue'[h] = queue[h] \/ queue'[h] = Append(queue[h], n)
      BY <2>2, <3>1
    <3>3. \A h \in Groups : /\ Append(queue[h], n) \in Seq(RunIds)
                            /\ \A i \in DOMAIN Append(queue[h], n) :
                                 Append(queue[h], n)[i] \in 1 .. made
      BY <2>1, <3>1, AppendFacts
    <3>4. queue' \in [Groups -> Seq(RunIds)]
      BY <2>2, <3>1, <3>3
    <3> QED BY <3>1, <3>2, <3>3, <3>4
  <2> QED BY <2>2, <2>3, RunFacts DEF Files, QueueOK, RunsOK, Unmade, seen, env
<1>4. CASE Spawn(a)
  BY <1>4, RunFacts, FilesSame DEF Spawn, env, Files
<1>5. CASE SpawnFails(a)
  <2> DEFINE r == proc[a].new
             x == Stamped(runs[r], "failed", "own")
  <2>1. r \in 1 .. made
    BY <1>5, RunFacts DEF SpawnFails, LaunchPcs
  <2>2. x \in Record /\ x.job = runs[r].job
    <3>1. "failed" \in Statuses BY DEF Statuses
    <3> QED BY <2>1, <3>1, StampedRun
  <2>3. /\ runs' = [runs EXCEPT ![r] = x]
        /\ UNCHANGED <<registry, made, queue, child, env, starts, finals, muted>>
    BY <1>5 DEF SpawnFails, seen
  <2> HIDE DEF x, r
  <2> QED BY <2>1, <2>2, <2>3, RunFacts, FilesRecord
<1> QED BY <1>1, <1>2, <1>3, <1>4, <1>5

LEMMA SweepFiles ==
  ASSUME TypeInv, NEW a \in Actors,
         \/ SweepEnd(a) \/ LookAfterReap(a)
         \/ \E o \in Jobs : SweepLook(a, o) \/ SweepList(a, o)
  PROVE  Files'
<1>1. UNCHANGED <<registry, runs, made, queue, child, env, seen>>
  BY DEF SweepEnd, LookAfterReap, SweepLook, SweepList
<1> QED BY <1>1, RunFacts, FilesSame DEF env, Files

LEMMA ReapFiles ==
  ASSUME TypeInv, NEW a \in Actors, NEW r \in RunIds, ReapOne(a, r)
  PROVE  Files'
<1> DEFINE x == IF child[r] # "alive" THEN ReapStamped(runs[r]) ELSE runs[r]
<1>1. r \in 1 .. made
  BY RunFacts DEF ReapOne
<1>2. x \in Record /\ x.job = runs[r].job
  <2>1. runs[r] \in Record BY <1>1, RunFacts
  <2> QED BY <2>1, ReapStampedType
<1>3. /\ runs' = [runs EXCEPT ![r] = x]
      /\ UNCHANGED <<registry, made, queue, child, env, starts, finals, muted>>
  BY <1>1, RunFacts DEF ReapOne, seen, Files
<1> HIDE DEF x
<1> QED BY <1>1, <1>2, <1>3, RunFacts, FilesRecord

LEMMA DrainFiles ==
  ASSUME TypeInv, NEW a \in Actors, DrainPop(a) \/ LaunchSkip(a) \/ Launch(a) \/ LaunchFails(a)
  PROVE  Files'
<1>1. CASE UNCHANGED <<registry, runs, made, queue, child, env, seen>>
  BY <1>1, RunFacts, FilesSame DEF env, Files
<1>2. CASE DrainPop(a) /\ UNCHANGED queue
  BY <1>1, <1>2 DEF DrainPop
<1>3. CASE DrainPop(a) /\ ~UNCHANGED queue
  <2> DEFINE g == Group[proc[a].job]
  <2>1. /\ queue' = [queue EXCEPT ![g] = Tail(@)] /\ g # NoGroup /\ queue[g] # << >>
        /\ UNCHANGED <<registry, runs, made, child, env, seen>>
    BY <1>3 DEF DrainPop
  <2>2. proc[a].job \in Jobs
    BY <1>3, ProcFacts DEF DrainPop
  <2>3. g \in Groups
    BY <2>1, <2>2, GroupAssumption
  <2> HIDE DEF g
  <2>4. /\ Tail(queue[g]) \in Seq(RunIds)
        /\ \A i \in DOMAIN Tail(queue[g]) : Tail(queue[g])[i] \in 1 .. made
    <3>1. queue[g] \in Seq(RunIds) /\ \A i \in DOMAIN queue[g] : queue[g][i] \in 1 .. made
      BY <2>3, RunFacts DEF Files, QueueOK
    <3> QED BY <2>1, <3>1, TailFacts
  <2>5. /\ queue' \in [Groups -> Seq(RunIds)]
        /\ \A h \in Groups : \A i \in DOMAIN queue'[h] : queue'[h][i] \in 1 .. made
    BY <2>1, <2>4, RunFacts DEF Files, QueueOK
  <2> QED BY <2>1, <2>5, RunFacts DEF Files, QueueOK, RunsOK, Unmade, seen, env
<1> QED BY <1>1, <1>2, <1>3 DEF LaunchSkip, Launch, LaunchFails

LEMMA ExecQuietFiles ==
  ASSUME TypeInv, NEW e \in Executors,
         \/ ExecUnknownJob(e) \/ ExecStart(e) \/ ExecPopenFails(e) \/ ExecWait(e)
         \/ ExecFinish(e) \/ ExecFollow(e) \/ ExecChain(e)
  PROVE  Files'
<1>1. UNCHANGED <<registry, runs, made, queue, child, env, seen>>
  BY DEF ExecUnknownJob, ExecStart, ExecPopenFails, ExecWait, ExecFinish, ExecFollow, ExecChain
<1>2. e \in Actors
  BY DEF Actors
<1> QED BY <1>1, <1>2, RunFacts, FilesSame DEF env, Files

LEMMA CooldownFiles ==
  ASSUME TypeInv, NEW e \in Executors, CooldownSkip(e)
  PROVE  Files'
<1> DEFINE j == proc[e].job
           y == Stamped(NewDir(j), "skipped", "none")
<1>1. e \in Actors /\ j \in Jobs /\ j \in 0 .. NumJobs
  BY ProcFacts, Ranges DEF Actors, CooldownSkip
<1>2. y \in Record /\ y.job = j
  <2>1. "skipped" \in Statuses BY DEF Statuses
  <2>2. NewDir(j) \in Record /\ NewDir(j).job = j BY <1>1, BlankType
  <2> QED BY <2>1, <2>2, StampedType
<1>3. /\ muted' \subseteq muted
      /\ UNCHANGED <<registry, queue, child, env, starts, finals>>
  BY DEF CooldownSkip
<1>4. CASE /\ made < MaxRuns /\ made' = made + 1
           /\ runs' = Pruned(j, [runs EXCEPT ![made + 1] = y])
  <2> HIDE DEF y, j
  <2> QED BY <1>1, <1>2, <1>3, <1>4, RunFacts, FilesNew
<1>5. ASSUME NEW r \in RunsOf(j), UNCHANGED made,
             runs' = Pruned(j, [runs EXCEPT ![r] = Stamped(@, "skipped", @.exit)])
      PROVE  Files'
  <2> DEFINE x == Stamped(runs[r], "skipped", runs[r].exit)
  <2>1. r \in 1 .. made
    BY DEF RunsOf
  <2>2. x \in Record /\ x.job = runs[r].job
    <3>1. "skipped" \in Statuses BY DEF Statuses
    <3> QED BY <2>1, <3>1, StampedRun
  <2>3. /\ runs' = Pruned(j, [runs EXCEPT ![r] = x])
        /\ finals' \in [RunIds -> Nat] /\ \A s \in RunIds : s # r => finals'[s] = finals[s]
    BY <1>1, <1>3, <1>5, <2>1, RunFacts DEF Files
  <2> HIDE DEF x, j
  <2> QED BY <1>1, <1>3, <1>5, <2>1, <2>2, <2>3, RunFacts, FilesPruned
<1> QED BY <1>4, <1>5 DEF CooldownSkip

LEMMA ExecRunFiles ==
  ASSUME TypeInv, NEW e \in Executors,
         ExecNewRun(e) \/ ExecRunning(e) \/ ExecWritePid(e) \/ ExecPopen(e)
  PROVE  Files'
<1> DEFINE r == proc[e].run
<1>1. e \in Actors /\ proc[e].job \in Jobs /\ proc[e].job \in 0 .. NumJobs
  BY ProcFacts, Ranges DEF Actors, ExecNewRun, ExecRunning, ExecWritePid, ExecPopen
<1>2. CASE ExecNewRun(e)
  <2> DEFINE x == NewDir(proc[e].job)
  <2>1. x \in Record /\ x.job = proc[e].job
    BY <1>1, BlankType
  <2>2. /\ made < MaxRuns /\ made' = made + 1 /\ runs' = [runs EXCEPT ![made + 1] = x]
        /\ UNCHANGED <<registry, queue, child, env, starts, finals, muted>>
    BY <1>2 DEF ExecNewRun, seen
  <2> HIDE DEF x
  <2> QED BY <1>1, <2>1, <2>2, RunFacts, FilesNew
<1>3. CASE ExecRunning(e)
  <2> DEFINE x == Stamped(runs[r], "running", runs[r].exit)
  <2>1. r \in 1 .. made
    BY <1>1, <1>3, RunFacts DEF ExecRunning, OwnPcs
  <2>2. x \in Record /\ x.job = runs[r].job
    <3>1. "running" \in Statuses BY DEF Statuses
    <3> QED BY <2>1, <3>1, StampedRun
  <2>3. /\ runs' = [runs EXCEPT ![r] = x]
        /\ UNCHANGED <<registry, made, queue, child, env, starts, finals, muted>>
    BY <1>1, <1>3, <2>1, RunFacts DEF ExecRunning, seen, Files
  <2> HIDE DEF x, r
  <2> QED BY <1>1, <2>1, <2>2, <2>3, RunFacts, FilesRecord
<1>4. CASE ExecWritePid(e)
  <2> DEFINE x == [runs[r] EXCEPT !.dir = TRUE, !.pid = TRUE]
  <2>1. r \in 1 .. made
    BY <1>1, <1>4, RunFacts DEF ExecWritePid, OwnPcs
  <2>2. x \in Record /\ x.job = runs[r].job
    <3>1. runs[r] \in Record BY <1>1, <2>1, RunFacts
    <3> QED BY <3>1, PidType
  <2>3. /\ runs' = [runs EXCEPT ![r] = x]
        /\ UNCHANGED <<registry, made, queue, child, env, starts, finals, muted>>
    BY <1>1, <1>4, <2>1, RunFacts DEF ExecWritePid, seen, Files
  <2> HIDE DEF x, r
  <2> QED BY <1>1, <2>1, <2>2, <2>3, RunFacts, FilesRecord
<1>5. CASE ExecPopen(e)
  <2>1. r \in 1 .. made /\ r \in RunIds /\ made \in 0 .. MaxRuns
    BY <1>1, <1>5, RunFacts, ProcFacts DEF ExecPopen, OwnPcs
  <2>2. /\ child' = [child EXCEPT ![r] = "alive"] /\ starts' = [starts EXCEPT ![r] = @ + 1]
        /\ UNCHANGED <<registry, runs, made, queue, env, finals, muted>>
    BY <1>5 DEF ExecPopen
  <2> HIDE DEF r
  <2>3. Files
    BY <1>1, RunFacts
  <2>4. /\ child' \in [RunIds -> {"none", "alive", "zero", "nonzero"}]
        /\ starts' \in [RunIds -> Nat]
    BY <2>1, <2>2, <2>3 DEF Files
  <2>5. ASSUME NEW s \in RunIds PROVE IF s <= made' THEN runs'[s].job \in Jobs ELSE Unmade(s)'
    <3>1. CASE s <= made
      BY <2>2, <2>3, <3>1 DEF Files, RunsOK
    <3>2. CASE ~(s <= made)
      <4>1. s # r
        BY <2>1, <3>2, RunIdOrder
      <4>2. child'[s] = child[s] /\ starts'[s] = starts[s]
        BY <2>2, <2>3, <4>1 DEF Files
      <4> QED BY <2>2, <2>3, <3>2, <4>2 DEF Files, RunsOK, Unmade
    <3> QED BY <3>1, <3>2
  <2> QED BY <2>2, <2>3, <2>4, <2>5 DEF Files, QueueOK, RunsOK, env
<1> QED BY <1>2, <1>3, <1>4, <1>5

LEMMA ExecEndFiles ==
  ASSUME TypeInv, NEW e \in Executors, ExecBuildFails(e) \/ ExecFinal(e)
  PROVE  Files'
<1> DEFINE r == proc[e].run
           j == proc[e].job
           status == IF ExecBuildFails(e) \/ ~proc[e].ok THEN "failed" ELSE "success"
           x == Stamped(runs[r], status, "own")
<1>1. e \in Actors /\ j \in Jobs /\ r \in 1 .. made /\ r \in RunIds
  BY ProcFacts, RunFacts DEF Actors, ExecBuildFails, ExecFinal, OwnPcs
<1>2. x \in Record /\ x.job = runs[r].job
  <2>1. status \in Statuses BY DEF Statuses
  <2> QED BY <1>1, <2>1, StampedRun
<1>3. finals \in [RunIds -> Nat] /\ runs \in [RunIds -> Record]
  BY <1>1, RunFacts DEF Files
<1>4. /\ runs' = Pruned(j, [runs EXCEPT ![r] = x]) /\ muted' \subseteq muted
      /\ UNCHANGED <<registry, made, queue, child, env, starts>>
  BY <1>1, <1>3 DEF ExecBuildFails, ExecFinal
<1>5. finals' = finals \/ finals' = [finals EXCEPT ![r] = @ + 1]
  BY DEF ExecBuildFails, ExecFinal
<1> HIDE DEF x, r, j
<1>6. finals' \in [RunIds -> Nat] /\ \A s \in RunIds : s # r => finals'[s] = finals[s]
  BY <1>1, <1>3, <1>5
<1> QED BY <1>1, <1>2, <1>4, <1>6, RunFacts, FilesPruned

LEMMA KillFiles ==
  ASSUME TypeInv, NEW h \in Handlers, KillStep(h)
  PROVE  Files'
<1> DEFINE r == proc[h].run
           x == KillStamped(runs[r])
<1>1. h \in Actors /\ r \in 1 .. made /\ r \in RunIds /\ made \in 0 .. MaxRuns
  BY ProcFacts, RunFacts DEF Actors, KillStep, KillStamp, KillTree, OwnPcs
<1>2. Files /\ x \in Record /\ x.job = runs[r].job
  <2>1. Files /\ runs[r] \in Record BY <1>1, RunFacts
  <2> QED BY <2>1, KillStampedType
<1>3. CASE KillStamp(h)
  <2>1. /\ runs' = [runs EXCEPT ![r] = x] /\ muted' \subseteq muted \cup {r}
        /\ UNCHANGED <<registry, made, queue, child, env, starts, finals>>
    BY <1>1, <1>2, <1>3 DEF KillStamp, Files
  <2> HIDE DEF x, r
  <2> QED BY <1>1, <1>2, <2>1, FilesRecord
<1>4. CASE KillTree(h)
  <2>1. /\ child' = child \/ (child' = [child EXCEPT ![r] = "nonzero"] /\ child[r] = "alive")
        /\ UNCHANGED <<registry, runs, made, queue, env, seen>>
    BY <1>4 DEF KillTree
  <2> HIDE DEF x, r
  <2>2. /\ child' \in [RunIds -> {"none", "alive", "zero", "nonzero"}]
        /\ \A s \in RunIds : child[s] = "none" => child'[s] = "none"
    BY <1>1, <1>2, <2>1 DEF Files
  <2> QED BY <1>2, <2>1, <2>2 DEF Files, QueueOK, RunsOK, Unmade, seen, env
<1> QED BY <1>3, <1>4 DEF KillStep

LEMMA RequestFiles ==
  ASSUME TypeInv, Files, Requests
  PROVE  Files'
<1>1. CASE \E j \in Jobs : DeleteJob(j)
  BY <1>1 DEF DeleteJob, Files, QueueOK, RunsOK, Unmade, seen, env
<1>2. CASE ~\E j \in Jobs : DeleteJob(j)
  <2>1. /\ UNCHANGED <<registry, runs, made, queue, child, crashes, seen>>
        /\ fires' = fires \/ (fires < MaxFires /\ fires' = fires + 1)
    BY <1>2 DEF Requests, Request, Fire, Poll, DryRun, ScheduledFire, KillRead, env
  <2>2. fires' \in 0 .. MaxFires /\ crashes' \in 0 .. MaxCrashes
    BY <2>1, BoundAssumption DEF Files
  <2> QED BY <2>1, <2>2, FilesSame
<1> QED BY <1>1, <1>2

LEMMA DeathFiles ==
  ASSUME Files, Deaths
  PROVE  Files'
<1>1. ASSUME NEW r \in RunIds, ChildExit(r) PROVE Files'
  <2>1. /\ child' \in [RunIds -> {"none", "alive", "zero", "nonzero"}]
        /\ \A s \in RunIds : child[s] = "none" => child'[s] = "none"
    BY <1>1 DEF ChildExit, Files
  <2> QED BY <1>1, <2>1 DEF ChildExit, Files, QueueOK, RunsOK, Unmade, seen, env
<1>2. CASE (\E e \in Executors : ExecutorCrash(e)) \/ WebappCrash
  <2>1. /\ UNCHANGED <<registry, runs, made, queue, child, fires, seen>>
        /\ crashes < MaxCrashes /\ crashes' = crashes + 1
    BY <1>2 DEF ExecutorCrash, WebappCrash
  <2>2. fires' \in 0 .. MaxFires /\ crashes' \in 0 .. MaxCrashes
    BY <2>1, BoundAssumption DEF Files
  <2> QED BY <2>1, <2>2, FilesSame
<1> QED BY <1>1, <1>2 DEF Deaths

\* Every step keeps files, children and counters in shape.
LEMMA FilesStep ==
  ASSUME TypeInv, Next
  PROVE  Files'
<1>1. ASSUME NEW a \in Actors, SharedStep(a) PROVE Files'
  BY <1>1, SweepFiles, ReapFiles, AdmitFiles, DrainFiles DEF SharedStep
<1>2. ASSUME NEW e \in Executors, ExecutorStep(e) PROVE Files'
  BY <1>2, ExecQuietFiles, CooldownFiles, ExecRunFiles, ExecEndFiles DEF ExecutorStep
<1>3. ASSUME NEW h \in Handlers, KillStep(h) PROVE Files'
  BY <1>3, KillFiles
<1>4. CASE Requests
  BY <1>4, TypeInvParts, RequestFiles
<1>5. CASE Deaths
  BY <1>5, TypeInvParts, DeathFiles
<1> QED BY <1>1, <1>2, <1>3, <1>4, <1>5 DEF Next

-----------------------------------------------------------------------------
(* The theorem. *)

LEMMA TypeInvInit == Init => TypeInv
<1> SUFFICES ASSUME Init PROVE TypeInv
  OBVIOUS
<1>1. 0 \in 0 .. MaxRuns /\ Blank(0) \in Record
  BY Ranges, BlankType
<1>2. /\ fires \in 0 .. MaxFires /\ crashes \in 0 .. MaxCrashes
      /\ \A r \in RunIds : ~(r <= made)
  BY BoundAssumption DEF Init, RunIds
<1>3. Files
  BY <1>1, <1>2 DEF Init, Files, QueueOK, RunsOK, Unmade
<1>4. proc \in [Actors -> ProcState] /\ ProcsOK
  BY <1>1, IdleType, IdleShape DEF Init, ProcsOK
<1> QED BY <1>3, <1>4, TypeInvParts

LEMMA TypeInvStep == TypeInv /\ [Next]_vars => TypeInv'
<1> SUFFICES ASSUME TypeInv, [Next]_vars PROVE TypeInv'
  OBVIOUS
<1>1. CASE Next
  BY <1>1, ProcsStep, FilesStep DEF TypeInv, TypeOK, Shape, Files, ProcsKept
<1>2. CASE UNCHANGED vars
  BY <1>2 DEF vars, TypeInv, TypeOK, Shape, ProcsOK, QueueOK, RunsOK, Unmade
<1> QED BY <1>1, <1>2

\* Every reachable state is well typed, every process is where its program
\* counter says, and every queue entry and held run names a directory that was
\* made: for any registry, chains, groups and bounds.
THEOREM TypeCorrect == Spec => [](TypeOK /\ Shape)
  BY TypeInvInit, TypeInvStep, PTL DEF Spec, TypeInv

-----------------------------------------------------------------------------
(* The second layer: who holds a run. *)

ClaimsInv == TypeInv /\ Claims /\ StartedOnce
ClaimsKept == Claims' /\ StartedOnce'

-----------------------------------------------------------------------------
(* What the steps do to the holders of runs. *)

\* No run gets a new holder, and no executor goes back.
NoNewHolder ==
  /\ UNCHANGED <<queue, starts, finals>>
  /\ \A a \in Actors : proc'[a].new \in {0, proc[a].new}
  /\ \A e \in Executors : proc'[e].run # 0 =>
       /\ proc'[e].run = proc[e].run
       /\ proc'[e].pc \in Preparing => proc[e].pc \in Preparing
       /\ proc'[e].pc \in Unfinished => proc[e].pc \in Unfinished

\* Queued runs exist, so they are never "no run".
LEMMA QueueFacts ==
  ASSUME TypeInv
  PROVE  \A g \in Groups : \A i \in DOMAIN queue[g] : queue[g][i] # 0 /\ queue[g][i] \in RunIds
<1>1. made \in 0 .. MaxRuns
  BY DEF TypeInv, TypeOK
<1>2. \A i \in 1 .. made : i # 0 /\ i \in RunIds
  BY <1>1, Ranges
<1> QED BY <1>2 DEF TypeInv, Shape, QueueOK

LEMMA NoNewHolderKeeps ==
  ASSUME ClaimsInv, NoNewHolder
  PROVE  ClaimsKept
<1>1. \A e \in Executors : proc'[e].run \in {0, proc[e].run}
  BY DEF NoNewHolder
<1>2. NewApart' /\ RunApart' /\ NewRunApart'
  BY <1>1 DEF ClaimsInv, Claims, NoNewHolder, NewApart, RunApart, NewRunApart
<1>3. QueueApart'
  BY <1>1, QueueFacts DEF ClaimsInv, Claims, NoNewHolder, QueueApart
<1>4. QueueOnce' /\ QueueFresh' /\ StartedOnce'
  BY DEF ClaimsInv, Claims, NoNewHolder, QueueOnce, QueueFresh, StartedOnce
<1>5. NewFresh' /\ RunFresh'
  BY DEF ClaimsInv, Claims, NoNewHolder, NewFresh, RunFresh
<1> QED BY <1>2, <1>3, <1>4, <1>5 DEF Claims, ClaimsKept

\* One process moves on with the run it has, or without.
LEMMA MovesOn ==
  ASSUME ClaimsInv, NEW a \in Actors, NEW p, proc' = [proc EXCEPT ![a] = p],
         p.new \in {0, proc[a].new}, p.run \in {0, proc[a].run},
         a \in Executors =>
           /\ p.pc \in Preparing => (proc[a].pc \in Preparing \/ p.run = 0)
           /\ p.pc \in Unfinished => (proc[a].pc \in Unfinished \/ p.run = 0),
         UNCHANGED <<queue, starts, finals>>
  PROVE  ClaimsKept
<1>1. proc \in [Actors -> ProcState] /\ Executors \subseteq Actors
  BY DEF ClaimsInv, TypeInv, TypeOK, Actors
<1>2. \A b \in Actors : proc'[b] = IF b = a THEN p ELSE proc[b]
  BY <1>1
<1>3. NoNewHolder
  BY <1>1, <1>2 DEF NoNewHolder
<1> QED BY <1>3, NoNewHolderKeeps

\* Process a's run goes to executor e, and a holds nothing new.
HandedOver(a, e) ==
  /\ UNCHANGED <<queue, starts, finals>>
  /\ \A b \in Actors : proc'[b].new \in {0, proc[b].new}
  /\ proc'[a].new = 0
  /\ proc'[e].run = proc[a].new
  /\ \A f \in Executors \ {e} : proc'[f].run # 0 =>
       /\ proc'[f].run = proc[f].run
       /\ proc'[f].pc \in Preparing => proc[f].pc \in Preparing
       /\ proc'[f].pc \in Unfinished => proc[f].pc \in Unfinished

LEMMA HandedOverKeeps ==
  ASSUME ClaimsInv, NEW a \in Actors, NEW e \in Executors, HandedOver(a, e), proc[a].new # 0
  PROVE  ClaimsKept
<1> DEFINE n == proc[a].new
<1>1. /\ \A b \in Actors : proc'[b].new \in {0, proc[b].new}
      /\ \A f \in Executors : f # e => proc'[f].run \in {0, proc[f].run}
      /\ proc'[e].run = n /\ proc'[a].new = 0
  BY DEF HandedOver
<1>2. /\ \A b \in Actors : b # a => (proc[b].new = 0 \/ proc[b].new # n)
      /\ \A f \in Executors : proc[f].run # n
      /\ \A g \in Groups : \A i \in DOMAIN queue[g] : queue[g][i] # n
      /\ n # 0 /\ n = proc[a].new /\ starts[n] = 0 /\ finals[n] = 0
  BY DEF ClaimsInv, Claims, NewApart, NewRunApart, QueueApart, NewFresh
<1> HIDE DEF n
<1>3. NewApart'
  BY <1>1 DEF ClaimsInv, Claims, NewApart
<1>4. RunApart'
  <2> SUFFICES ASSUME NEW f \in Executors, NEW k \in Executors,
                      proc'[f].run # 0, proc'[f].run = proc'[k].run
               PROVE  f = k
    BY DEF RunApart
  <2>1. CASE f # e /\ k # e
    BY <1>1, <2>1 DEF ClaimsInv, Claims, RunApart
  <2>2. CASE f = e \/ k = e
    BY <1>1, <1>2, <2>2
  <2> QED BY <2>1, <2>2
<1>5. NewRunApart'
  <2> SUFFICES ASSUME NEW b \in Actors, NEW f \in Executors, proc'[b].new # 0
               PROVE  proc'[b].new # proc'[f].run
    BY DEF NewRunApart
  <2>1. proc'[b].new = proc[b].new /\ proc[b].new # proc[f].run /\ proc[b].new # n
    BY <1>1, <1>2 DEF ClaimsInv, Claims, NewRunApart
  <2> QED BY <1>1, <2>1
<1>6. QueueApart'
  <2> SUFFICES ASSUME NEW g \in Groups, NEW i \in DOMAIN queue[g]
               PROVE  /\ \A b \in Actors : queue[g][i] # proc'[b].new
                      /\ \A f \in Executors : queue[g][i] # proc'[f].run
    BY DEF QueueApart, HandedOver
  <2>1. /\ queue[g][i] # 0 /\ queue[g][i] # n
        /\ \A b \in Actors : queue[g][i] # proc[b].new
        /\ \A f \in Executors : queue[g][i] # proc[f].run
    BY <1>2, QueueFacts DEF ClaimsInv, Claims, QueueApart
  <2> QED BY <1>1, <2>1
<1>7. QueueOnce' /\ QueueFresh' /\ StartedOnce'
  BY DEF ClaimsInv, Claims, HandedOver, QueueOnce, QueueFresh, StartedOnce
<1>8. NewFresh'
  BY <1>1 DEF ClaimsInv, Claims, HandedOver, NewFresh
<1>9. RunFresh'
  <2> SUFFICES ASSUME NEW f \in Executors, proc'[f].run # 0
               PROVE  /\ proc'[f].pc \in Preparing => starts[proc'[f].run] = 0
                      /\ proc'[f].pc \in Unfinished => finals[proc'[f].run] = 0
    BY DEF RunFresh, HandedOver
  <2>1. CASE f = e
    BY <1>1, <1>2, <2>1
  <2>2. CASE f # e
    BY <2>2 DEF ClaimsInv, Claims, HandedOver, RunFresh
  <2> QED BY <2>1, <2>2
<1> QED BY <1>3, <1>4, <1>5, <1>6, <1>7, <1>8, <1>9 DEF Claims, ClaimsKept

\* A process hands its run to an executor that was idle.
LEMMA HandsOver ==
  ASSUME ClaimsInv, NEW a \in Actors, NEW e \in Executors, NEW p, NEW q,
         proc[a].pc \in LaunchPcs, proc[e].pc = "idle",
         proc' = [proc EXCEPT ![a] = p, ![e] = q],
         p.new = 0, p.run \in {0, proc[a].run}, p.pc \notin Unfinished,
         q.new = 0, q.run = proc[a].new, UNCHANGED <<queue, starts, finals>>
  PROVE  ClaimsKept
<1>1. proc \in [Actors -> ProcState] /\ Executors \subseteq Actors
  BY DEF ClaimsInv, TypeInv, TypeOK, Actors
<1>2. proc[a].new # 0 /\ a # e
  BY <1>1 DEF ClaimsInv, TypeInv, Shape, ProcsOK, ProcShape, LaunchPcs
<1>3. /\ proc'[a] = p /\ proc'[e] = q
      /\ \A b \in Actors : b \notin {a, e} => proc'[b] = proc[b]
  BY <1>1, <1>2
<1>4. \A f \in Executors \ {e} : f # a => proc'[f] = proc[f]
  BY <1>1, <1>3
<1>5. Preparing \subseteq Unfinished
  BY DEF Unfinished
<1>6. \A f \in Executors \ {e} : proc'[f].run # 0 =>
        /\ proc'[f].run = proc[f].run
        /\ proc'[f].pc \in Preparing => proc[f].pc \in Preparing
        /\ proc'[f].pc \in Unfinished => proc[f].pc \in Unfinished
  BY <1>3, <1>4, <1>5
<1>7. \A b \in Actors : proc'[b].new \in {0, proc[b].new}
  BY <1>3
<1>8. HandedOver(a, e)
  BY <1>3, <1>6, <1>7 DEF HandedOver
<1> QED BY <1>2, <1>8, HandedOverKeeps

\* Executors keep their runs and do not go back.
NoNewRun ==
  \A e \in Executors : proc'[e].run # 0 =>
    /\ proc'[e].run = proc[e].run
    /\ proc'[e].pc \in Preparing => proc[e].pc \in Preparing
    /\ proc'[e].pc \in Unfinished => proc[e].pc \in Unfinished

\* Process a takes a run n that nobody holds, from a queue or new.
Takes(a, n) ==
  /\ UNCHANGED <<starts, finals>> /\ NoNewRun
  /\ \A b \in Actors : b # a => proc'[b].new = proc[b].new
  /\ proc'[a].new = n
  /\ \A g \in Groups : \A i \in DOMAIN queue'[g] :
       /\ queue'[g][i] # n
       /\ \E k \in DOMAIN queue[g] : queue'[g][i] = queue[g][k]

LEMMA TakesKeeps ==
  ASSUME ClaimsInv, NEW a \in Actors, NEW n, Takes(a, n), QueueOnce',
         n # 0, starts[n] = 0, finals[n] = 0,
         \A b \in Actors : proc[b].new # n, \A f \in Executors : proc[f].run # n
  PROVE  ClaimsKept
<1>1. /\ \A b \in Actors : b # a => proc'[b].new = proc[b].new
      /\ \A f \in Executors : proc'[f].run \in {0, proc[f].run}
      /\ proc'[a].new = n
  BY DEF Takes, NoNewRun
<1>2. NewApart'
  BY <1>1 DEF ClaimsInv, Claims, NewApart
<1>3. RunApart' /\ NewRunApart'
  BY <1>1 DEF ClaimsInv, Claims, RunApart, NewRunApart
<1>4. ASSUME NEW g \in Groups, NEW i \in DOMAIN queue'[g]
      PROVE  /\ \A b \in Actors : queue'[g][i] # proc'[b].new
             /\ \A f \in Executors : queue'[g][i] # proc'[f].run
             /\ starts'[queue'[g][i]] = 0 /\ finals'[queue'[g][i]] = 0
  <2>1. PICK k \in DOMAIN queue[g] : queue'[g][i] = queue[g][k]
    BY DEF Takes
  <2>2. /\ queue[g][k] # 0 /\ queue[g][k] # n
        /\ \A b \in Actors : queue[g][k] # proc[b].new
        /\ \A f \in Executors : queue[g][k] # proc[f].run
        /\ starts[queue[g][k]] = 0 /\ finals[queue[g][k]] = 0
    BY <2>1, QueueFacts DEF ClaimsInv, Claims, QueueApart, QueueFresh, Takes
  <2> QED BY <1>1, <2>1, <2>2 DEF Takes
<1>5. QueueApart' /\ QueueFresh'
  BY <1>4 DEF QueueApart, QueueFresh
<1>6. NewFresh' /\ StartedOnce'
  BY <1>1 DEF ClaimsInv, Claims, Takes, NewFresh, StartedOnce
<1>7. RunFresh'
  BY DEF ClaimsInv, Claims, Takes, NoNewRun, RunFresh
<1> QED BY <1>2, <1>3, <1>5, <1>6, <1>7 DEF Claims, ClaimsKept

\* Executor e takes a run n that nobody holds.
TakesRun(e, n) ==
  /\ UNCHANGED <<queue, starts, finals>>
  /\ \A b \in Actors : proc'[b].new = proc[b].new
  /\ \A f \in Executors : f # e => proc'[f] = proc[f]
  /\ proc'[e].run = n

LEMMA TakesRunKeeps ==
  ASSUME ClaimsInv, NEW e \in Executors, NEW n, TakesRun(e, n),
         n # 0, starts[n] = 0, finals[n] = 0,
         \A b \in Actors : proc[b].new # n, \A f \in Executors : proc[f].run # n,
         \A g \in Groups : \A i \in DOMAIN queue[g] : queue[g][i] # n
  PROVE  ClaimsKept
<1>1. /\ \A b \in Actors : proc'[b].new = proc[b].new
      /\ \A f \in Executors : f # e => proc'[f].run = proc[f].run
      /\ proc'[e].run = n
  BY DEF TakesRun
<1>2. NewApart' /\ RunApart' /\ NewRunApart'
  BY <1>1 DEF ClaimsInv, Claims, NewApart, RunApart, NewRunApart
<1>3. QueueApart'
  BY <1>1 DEF ClaimsInv, Claims, TakesRun, QueueApart
<1>4. QueueOnce' /\ QueueFresh' /\ StartedOnce' /\ NewFresh'
  BY <1>1 DEF ClaimsInv, Claims, TakesRun, QueueOnce, QueueFresh, StartedOnce, NewFresh
<1>5. RunFresh'
  BY <1>1 DEF ClaimsInv, Claims, TakesRun, RunFresh
<1> QED BY <1>2, <1>3, <1>4, <1>5 DEF Claims, ClaimsKept

\* Process a puts its run n into the queue of h, in a place that was not there.
Queued(a, n, h, last) ==
  /\ UNCHANGED <<starts, finals>> /\ NoNewRun
  /\ \A b \in Actors : proc'[b].new \in {0, proc[b].new}
  /\ proc'[a].new = 0
  /\ \A g \in Groups : \A i \in DOMAIN queue'[g] :
       \/ i \in DOMAIN queue[g] /\ queue'[g][i] = queue[g][i]
       \/ g = h /\ i = last /\ queue'[g][i] = n

LEMMA QueuedKeeps ==
  ASSUME ClaimsInv, NEW a \in Actors, NEW n, n = proc[a].new, n # 0,
         NEW h, NEW last, Queued(a, n, h, last)
  PROVE  ClaimsKept
<1>1. /\ \A b \in Actors : proc'[b].new \in {0, proc[b].new}
      /\ \A f \in Executors : proc'[f].run \in {0, proc[f].run}
      /\ proc'[a].new = 0
  BY DEF Queued, NoNewRun
<1>2. NewApart' /\ RunApart' /\ NewRunApart'
  BY <1>1 DEF ClaimsInv, Claims, NewApart, RunApart, NewRunApart
<1>3. /\ \A b \in Actors : proc'[b].new # n
      /\ \A f \in Executors : proc'[f].run # n
      /\ \A g \in Groups : \A i \in DOMAIN queue[g] : queue[g][i] # n
      /\ starts'[n] = 0 /\ finals'[n] = 0
  BY <1>1 DEF ClaimsInv, Claims, Queued, NewApart, NewRunApart, QueueApart, NewFresh
<1>4. ASSUME NEW g \in Groups, NEW i \in DOMAIN queue'[g]
      PROVE  /\ \A b \in Actors : queue'[g][i] # proc'[b].new
             /\ \A f \in Executors : queue'[g][i] # proc'[f].run
             /\ starts'[queue'[g][i]] = 0 /\ finals'[queue'[g][i]] = 0
  <2>1. CASE i \in DOMAIN queue[g] /\ queue'[g][i] = queue[g][i]
    <3>1. /\ queue[g][i] # 0
          /\ \A b \in Actors : queue[g][i] # proc[b].new
          /\ \A f \in Executors : queue[g][i] # proc[f].run
          /\ starts'[queue[g][i]] = 0 /\ finals'[queue[g][i]] = 0
      BY <2>1, QueueFacts DEF ClaimsInv, Claims, QueueApart, QueueFresh, Queued
    <3> QED BY <1>1, <2>1, <3>1
  <2>2. CASE queue'[g][i] = n
    BY <1>3, <2>2
  <2> QED BY <2>1, <2>2 DEF Queued
<1>5. QueueApart' /\ QueueFresh'
  BY <1>4 DEF QueueApart, QueueFresh
<1>6. QueueOnce'
  BY <1>3 DEF ClaimsInv, Claims, Queued, QueueOnce
<1>7. NewFresh' /\ StartedOnce'
  BY <1>1 DEF ClaimsInv, Claims, Queued, NewFresh, StartedOnce
<1>8. RunFresh'
  BY DEF ClaimsInv, Claims, Queued, NoNewRun, RunFresh
<1> QED BY <1>2, <1>5, <1>6, <1>7, <1>8 DEF Claims, ClaimsKept

\* Executor e moves on with its run while one of the run's counters changes.
Counts(e) ==
  /\ UNCHANGED queue
  /\ \A b \in Actors : proc'[b].new = proc[b].new
  /\ \A f \in Executors : proc'[f].run = proc[f].run /\ (f # e => proc'[f] = proc[f])
  /\ \A r \in RunIds \ {proc[e].run} : starts'[r] = starts[r] /\ finals'[r] = finals[r]

LEMMA CountsKeep ==
  ASSUME ClaimsInv, NEW e \in Executors, NEW r \in RunIds, r = proc[e].run, r # 0, Counts(e),
         starts'[r] <= 1 /\ finals'[r] <= 1,
         proc'[e].pc \in Preparing => starts'[r] = 0,
         proc'[e].pc \in Unfinished => finals'[r] = 0
  PROVE  ClaimsKept
<1>1. /\ \A b \in Actors : proc[b].new # r /\ proc'[b].new = proc[b].new
      /\ \A f \in Executors : /\ proc'[f].run = proc[f].run
                              /\ f # e => proc[f].run # r /\ proc'[f].pc = proc[f].pc
      /\ \A g \in Groups : \A i \in DOMAIN queue[g] : queue[g][i] \in RunIds \ {r}
  BY QueueFacts DEF ClaimsInv, Claims, Counts, RunApart, NewRunApart, QueueApart
<1>2. \A s \in RunIds : s # r => starts'[s] = starts[s] /\ finals'[s] = finals[s]
  BY DEF Counts
<1>3. /\ \A b \in Actors : proc[b].new # 0 => proc[b].new \in RunIds
      /\ \A f \in Executors : proc[f].run # 0 => proc[f].run \in RunIds
  <2>1. ASSUME NEW b \in Actors
        PROVE  proc[b].new \in 0 .. MaxRuns /\ proc[b].run \in 0 .. MaxRuns
    BY DEF ClaimsInv, TypeInv, TypeOK, ProcState
  <2>2. \A i \in 0 .. MaxRuns : i # 0 => i \in RunIds
    BY JobsAssumption DEF RunIds
  <2> QED BY <2>1, <2>2 DEF Actors
<1>4. NewApart' /\ RunApart' /\ NewRunApart'
  BY <1>1 DEF ClaimsInv, Claims, NewApart, RunApart, NewRunApart
<1>5. QueueApart' /\ QueueOnce'
  BY <1>1 DEF ClaimsInv, Claims, Counts, QueueApart, QueueOnce
<1>6. QueueFresh'
  BY <1>1, <1>2 DEF ClaimsInv, Claims, Counts, QueueFresh
<1>7. NewFresh'
  BY <1>1, <1>2, <1>3 DEF ClaimsInv, Claims, NewFresh
<1>8. RunFresh'
  <2> SUFFICES ASSUME NEW f \in Executors, proc[f].run # 0
               PROVE  /\ proc'[f].pc \in Preparing => starts'[proc[f].run] = 0
                      /\ proc'[f].pc \in Unfinished => finals'[proc[f].run] = 0
    BY <1>1 DEF RunFresh
  <2>1. CASE f = e
    BY <2>1
  <2>2. CASE f # e
    BY <1>1, <1>2, <1>3, <2>2 DEF ClaimsInv, Claims, RunFresh
  <2> QED BY <2>1, <2>2
<1>9. StartedOnce'
  BY <1>2 DEF ClaimsInv, StartedOnce
<1> QED BY <1>4, <1>5, <1>6, <1>7, <1>8, <1>9 DEF Claims, ClaimsKept

-----------------------------------------------------------------------------
(* Steps. *)

\* What an admission that is over leaves in a process.
LEMMA AdmittedMoves ==
  ASSUME TypeInv, NEW a \in Actors, proc[a].pc # "idle"
  PROVE  /\ Admitted(a).new = 0 /\ Admitted(a).run \in {0, proc[a].run}
         /\ Admitted(a).pc \notin Unfinished
<1>1. \/ Admitted(a) = Idle
      \/ /\ Admitted(a).pc \in {"chain", "drain"} /\ Admitted(a).new = 0
         /\ Admitted(a).run = proc[a].run
  BY ProcFacts, AdmittedType
<1> QED BY <1>1 DEF Idle, Unfinished, Preparing

LEMMA SweepClaims ==
  ASSUME ClaimsInv, NEW a \in Actors,
         \/ SweepEnd(a) \/ LookAfterReap(a)
         \/ \E o \in Jobs : SweepLook(a, o) \/ SweepList(a, o)
  PROVE  ClaimsKept
<1>1. /\ TypeInv /\ proc[a] \in ProcState /\ ProcShape(proc[a], made) /\ made \in 0 .. MaxRuns
      /\ Sweeping(proc[a]) /\ proc[a].new = 0
      /\ proc[a].fire \in Jobs /\ proc[a].pc # "idle"
      /\ UNCHANGED <<queue, starts, finals>>
  BY ProcFacts DEF ClaimsInv, SweepEnd, LookAfterReap, SweepLook, SweepList, Sweeping,
       LaunchPcs, ProcShape, seen
<1>2. CASE SweepEnd(a)
  <2>1. /\ Decided(a, FALSE).new = 0 /\ Decided(a, FALSE).run = proc[a].run
        /\ Decided(a, FALSE).pc \notin Unfinished
    BY <1>1, DecidedType DEF Unfinished, Preparing
  <2>2. proc' = [proc EXCEPT ![a] = Decided(a, FALSE)]
    BY <1>2 DEF SweepEnd
  <2> QED BY <1>1, <2>1, <2>2, MovesOn DEF Unfinished
<1>3. ASSUME NEW o \in Jobs, proc' = [proc EXCEPT ![a] = Looked(a, o)]
      PROVE  ClaimsKept
  <2>1. /\ Looked(a, o).new = 0 /\ Looked(a, o).run = proc[a].run
        /\ Looked(a, o).pc \notin Unfinished
    BY <1>1, LookedType DEF Unfinished, Preparing
  <2> QED BY <1>1, <1>3, <2>1, MovesOn DEF Unfinished
<1>4. CASE LookAfterReap(a)
  <2>1. proc[a].at \in Jobs
    BY <1>1 DEF ProcShape
  <2> QED BY <1>3, <1>4, <2>1 DEF LookAfterReap
<1>5. ASSUME NEW o \in Jobs, SweepList(a, o) PROVE ClaimsKept
  <2> DEFINE p == [proc[a] EXCEPT !.pc = "reap", !.at = o, !.dead = Stranded(o)]
  <2>1. p.new = 0 /\ p.run = proc[a].run /\ p.pc \notin Unfinished
    BY <1>1 DEF ProcState, Unfinished, Preparing
  <2>2. proc' = [proc EXCEPT ![a] = p]
    BY <1>5 DEF SweepList
  <2> HIDE DEF p
  <2> QED BY <1>1, <2>1, <2>2, MovesOn DEF Unfinished
<1> QED BY <1>2, <1>3, <1>4, <1>5 DEF SweepLook

LEMMA ReapClaims ==
  ASSUME ClaimsInv, NEW a \in Actors, NEW r \in RunIds, ReapOne(a, r)
  PROVE  ClaimsKept
<1> DEFINE left == proc[a].dead \ {r}
           hit == proc[a].hit \/ child[r] # "alive"
           going == [proc[a] EXCEPT !.dead = left, !.hit = hit]
           looking == [proc[a] EXCEPT !.dead = {}, !.hit = FALSE, !.pc = "look"]
           draining == [proc[a] EXCEPT !.dead = {}, !.pc = "drain"]
<1>1. proc[a] \in ProcState /\ proc[a].pc = "reap"
  BY ProcFacts DEF ClaimsInv, ReapOne
<1>2. /\ \/ proc' = [proc EXCEPT ![a] = going]
         \/ proc' = [proc EXCEPT ![a] = looking]
         \/ proc' = [proc EXCEPT ![a] = draining]
         \/ proc' = [proc EXCEPT ![a] = Idle]
      /\ UNCHANGED <<queue, starts, finals>>
  BY DEF ReapOne, seen
<1>3. \A p \in {going, looking, draining, Idle} :
        /\ p.new \in {0, proc[a].new} /\ p.run \in {0, proc[a].run}
        /\ p.pc \in {"idle", "reap", "look", "drain"}
  <2>1. going.new = proc[a].new /\ going.run = proc[a].run /\ going.pc = "reap"
    BY <1>1 DEF ProcState
  <2>2. looking.new = proc[a].new /\ looking.run = proc[a].run /\ looking.pc = "look"
    BY <1>1 DEF ProcState
  <2>3. draining.new = proc[a].new /\ draining.run = proc[a].run /\ draining.pc = "drain"
    BY <1>1 DEF ProcState
  <2>4. Idle.new = 0 /\ Idle.run = 0 /\ Idle.pc = "idle"
    BY DEF Idle
  <2> HIDE DEF going, looking, draining
  <2> QED BY <2>1, <2>2, <2>3, <2>4
<1>4. \A x \in {"idle", "reap", "look", "drain"} : x \notin Unfinished /\ x \notin Preparing
  BY DEF Unfinished, Preparing
<1> HIDE DEF going, looking, draining
<1>5. ASSUME NEW p \in {going, looking, draining, Idle}, proc' = [proc EXCEPT ![a] = p]
      PROVE  ClaimsKept
  BY <1>2, <1>3, <1>4, <1>5, MovesOn
<1> QED BY <1>2, <1>5

\* A process that only changes its program counter, and one that ends.
LEMMA GotoClaims ==
  ASSUME ClaimsInv, NEW a \in Actors, NEW x, NEW ok,
         \/ proc' = [proc EXCEPT ![a] = [@ EXCEPT !.pc = x]]
         \/ proc' = [proc EXCEPT ![a] = [@ EXCEPT !.pc = x, !.ok = ok]],
         x \in Preparing => proc[a].pc \in Preparing,
         x \in Unfinished => proc[a].pc \in Unfinished,
         UNCHANGED <<queue, starts, finals>>
  PROVE  ClaimsKept
<1> DEFINE p == [proc[a] EXCEPT !.pc = x]
           q == [proc[a] EXCEPT !.pc = x, !.ok = ok]
<1>1. proc[a] \in ProcState /\ proc \in [Actors -> ProcState]
  BY DEF ClaimsInv, TypeInv, TypeOK
<1>2. \A s \in {p, q} : s.new = proc[a].new /\ s.run = proc[a].run /\ s.pc = x
  BY <1>1 DEF ProcState
<1>3. proc' = [proc EXCEPT ![a] = p] \/ proc' = [proc EXCEPT ![a] = q]
  BY <1>1
<1> HIDE DEF p, q
<1>4. ASSUME NEW s \in {p, q}, proc' = [proc EXCEPT ![a] = s] PROVE ClaimsKept
  BY <1>2, <1>4, MovesOn
<1> QED BY <1>3, <1>4

LEMMA IdleClaims ==
  ASSUME ClaimsInv, NEW a \in Actors, proc' = [proc EXCEPT ![a] = Idle],
         UNCHANGED <<queue, starts, finals>>
  PROVE  ClaimsKept
<1>1. Idle.new = 0 /\ Idle.run = 0
  BY DEF Idle
<1> QED BY <1>1, MovesOn

\* Fields of a process in the chain loop and of one that starts an admission.
LEMMA ChainedFields ==
  ASSUME NEW p \in ProcState, NEW c
  PROVE  /\ Chained(p, c).new = 0 /\ Chained(p, c).run = p.run /\ Chained(p, c).ok = p.ok
         /\ Chained(p, c).pc \in {"chain", "drain"} /\ Chained(p, c).dead = p.dead
  BY DEF Chained, ProcState

LEMMA AdmittingFields ==
  ASSUME NEW p \in ProcState, NEW j
  PROVE  /\ Admitting(p, j).new = p.new /\ Admitting(p, j).run = p.run
         /\ Admitting(p, j).pc \in {"sweep", "admit"} /\ Admitting(p, j).dead = p.dead
  BY DEF Admitting, ProcState

\* The next run directory is nobody's.
LEMMA NextIsFree ==
  ASSUME ClaimsInv, made < MaxRuns
  PROVE  /\ made + 1 # 0 /\ starts[made + 1] = 0 /\ finals[made + 1] = 0 /\ made + 1 \in RunIds
         /\ \A b \in Actors : proc[b].new # made + 1 /\ proc[b].run # made + 1
         /\ \A g \in Groups : \A i \in DOMAIN queue[g] : queue[g][i] # made + 1
<1>1. made \in 0 .. MaxRuns
  BY DEF ClaimsInv, TypeInv, TypeOK
<1>2. made + 1 \in RunIds /\ made + 1 # 0 /\ ~(made + 1 <= made)
  BY <1>1, JobsAssumption DEF RunIds
<1>3. \A i \in 0 .. made : i # made + 1
  BY <1>1
<1>4. \A i \in 1 .. made : i \in 0 .. made
  BY <1>1
<1>5. starts[made + 1] = 0 /\ finals[made + 1] = 0
  BY <1>2 DEF ClaimsInv, TypeInv, Shape, RunsOK, Unmade
<1>6. \A b \in Actors : proc[b].new \in 0 .. made /\ proc[b].run \in 0 .. made
  BY DEF ClaimsInv, TypeInv, Shape, ProcsOK, ProcShape
<1>7. \A g \in Groups : \A i \in DOMAIN queue[g] : queue[g][i] \in 0 .. made
  BY <1>4 DEF ClaimsInv, TypeInv, Shape, QueueOK
<1> QED BY <1>2, <1>3, <1>5, <1>6, <1>7

LEMMA AdmitClaims ==
  ASSUME ClaimsInv, NEW a \in Actors,
         MakeRunDir(a) \/ RecordFire(a) \/ Enqueue(a) \/ Spawn(a) \/ SpawnFails(a)
  PROVE  ClaimsKept
<1>1. /\ TypeInv /\ proc[a] \in ProcState /\ proc[a].pc # "idle"
      /\ proc \in [Actors -> ProcState] /\ Executors \subseteq Actors
      /\ proc[a].pc \in {"record", "enqueue", "spawn"} => proc[a].new # 0
  BY ProcFacts DEF ClaimsInv, TypeInv, TypeOK, MakeRunDir, RecordFire, Enqueue, Spawn,
       SpawnFails, Actors, Shape, ProcsOK, ProcShape, LaunchPcs
<1>2. /\ Admitted(a).new = 0 /\ Admitted(a).run \in {0, proc[a].run}
      /\ Admitted(a).pc \notin Unfinished
  BY <1>1, AdmittedMoves
<1>3. CASE MakeRunDir(a)
  <2> DEFINE n == made + 1
             p == [proc[a] EXCEPT !.pc = "record", !.new = n]
  <2>1. /\ made < MaxRuns /\ proc' = [proc EXCEPT ![a] = p]
        /\ UNCHANGED <<queue, starts, finals>>
    BY <1>3 DEF MakeRunDir, seen
  <2>2. p.new = n /\ p.run = proc[a].run /\ p.pc = "record"
    BY <1>1 DEF ProcState
  <2> HIDE DEF p
  <2>3. /\ proc'[a] = p /\ \A b \in Actors : b # a => proc'[b] = proc[b]
    BY <1>1, <2>1
  <2>4. NoNewRun
    BY <1>1, <2>2, <2>3 DEF NoNewRun, Preparing, Unfinished
  <2>5. /\ n # 0 /\ starts[n] = 0 /\ finals[n] = 0
        /\ \A b \in Actors : proc[b].new # n /\ proc[b].run # n
        /\ \A g \in Groups : \A i \in DOMAIN queue[g] : queue[g][i] # n
    BY <2>1, NextIsFree
  <2> HIDE DEF n
  <2>6. Takes(a, n)
    BY <2>1, <2>2, <2>3, <2>4, <2>5 DEF Takes
  <2>7. QueueOnce'
    BY <2>1 DEF ClaimsInv, Claims, QueueOnce
  <2> QED BY <1>1, <2>5, <2>6, <2>7, TakesKeeps
<1>4. CASE RecordFire(a)
  <2>1. /\ \/ proc' = [proc EXCEPT ![a] = Idle]
           \/ \E x \in {"enqueue", "spawn"} : proc' = [proc EXCEPT ![a] = [@ EXCEPT !.pc = x]]
        /\ UNCHANGED <<queue, starts, finals>>
    BY <1>1, <1>4 DEF RecordFire, seen
  <2>2. \A x \in {"enqueue", "spawn"} : x \notin Preparing /\ x \notin Unfinished
    BY DEF Preparing, Unfinished
  <2> QED BY <2>1, <2>2, IdleClaims, GotoClaims
<1>5. CASE Enqueue(a)
  <2> DEFINE n == proc[a].new
             h == Group[proc[a].fire]
             last == Len(queue[h]) + 1
  <2>1. /\ proc' = [proc EXCEPT ![a] = Admitted(a)] /\ queue' = [queue EXCEPT ![h] = Append(@, n)]
        /\ UNCHANGED <<starts, finals>> /\ n # 0
    BY <1>1, <1>5 DEF Enqueue, seen
  <2>2. /\ proc'[a] = Admitted(a) /\ \A b \in Actors : b # a => proc'[b] = proc[b]
    BY <1>1, <2>1
  <2>3. NoNewRun
    BY <1>1, <1>2, <2>2 DEF NoNewRun, Preparing, Unfinished
  <2>4. \A b \in Actors : proc'[b].new \in {0, proc[b].new}
    BY <1>2, <2>2
  <2>5. n \in RunIds
    BY <1>5, RunFacts DEF ClaimsInv, Enqueue, LaunchPcs
  <2>6. \A g \in Groups : \A i \in DOMAIN queue'[g] :
          \/ i \in DOMAIN queue[g] /\ queue'[g][i] = queue[g][i]
          \/ g = h /\ i = last /\ queue'[g][i] = n
    <3> HIDE DEF n
    <3>1. queue \in [Groups -> Seq(RunIds)] /\ proc[a].fire \in Jobs
      BY <1>1, <1>5, ProcFacts DEF TypeInv, TypeOK, Enqueue, ProcShape, AdmitPcs
    <3>2. CASE h \in Groups
      <4>1. \A i \in DOMAIN Append(queue[h], n) :
              \/ i \in DOMAIN queue[h] /\ Append(queue[h], n)[i] = queue[h][i]
              \/ i = last /\ Append(queue[h], n)[i] = n
        BY <2>5, <3>1, <3>2, AppendFacts
      <4>2. /\ queue'[h] = Append(queue[h], n)
            /\ \A g \in Groups : g # h => queue'[g] = queue[g]
        BY <2>1, <3>1, <3>2
      <4> QED BY <4>1, <4>2
    <3>3. CASE h \notin Groups
      <4>1. queue' = queue
        BY <2>1, <3>1, <3>3
      <4> QED BY <4>1
    <3> QED BY <3>2, <3>3
  <2> HIDE DEF h, last, n
  <2>7. Queued(a, n, h, last)
    BY <1>2, <2>1, <2>2, <2>3, <2>4, <2>6 DEF Queued
  <2> QED BY <2>1, <2>7, QueuedKeeps DEF n
<1>6. CASE Spawn(a)
  <2>1. PICK e \in Executors :
          /\ proc[e].pc = "idle"
          /\ proc' = [proc EXCEPT ![a] = Admitted(a), ![e] = Started(proc[a].fire, proc[a].new)]
    BY <1>6 DEF Spawn
  <2>2. /\ Started(proc[a].fire, proc[a].new).new = 0
        /\ Started(proc[a].fire, proc[a].new).run = proc[a].new
    BY DEF Started, Idle
  <2>3. proc[a].pc \in LaunchPcs /\ UNCHANGED <<queue, starts, finals>>
    BY <1>6 DEF Spawn, LaunchPcs, seen
  <2> QED BY <1>2, <2>1, <2>2, <2>3, HandsOver
<1>7. CASE SpawnFails(a)
  <2>1. proc' = [proc EXCEPT ![a] = Admitted(a)] /\ UNCHANGED <<queue, starts, finals>>
    BY <1>7 DEF SpawnFails, seen
  <2>2. Preparing \subseteq Unfinished
    BY DEF Unfinished
  <2> QED BY <1>2, <2>1, <2>2, MovesOn
<1> QED BY <1>3, <1>4, <1>5, <1>6, <1>7

LEMMA DrainClaims ==
  ASSUME ClaimsInv, NEW a \in Actors,
         DrainPop(a) \/ LaunchSkip(a) \/ Launch(a) \/ LaunchFails(a)
  PROVE  ClaimsKept
<1>1. /\ TypeInv /\ proc[a] \in ProcState /\ proc \in [Actors -> ProcState]
      /\ Executors \subseteq Actors /\ queue \in [Groups -> Seq(RunIds)]
  BY DEF ClaimsInv, TypeInv, TypeOK, Actors
<1>2. CASE LaunchSkip(a) \/ LaunchFails(a)
  BY <1>2, IdleClaims DEF LaunchSkip, LaunchFails, seen
<1>3. CASE Launch(a)
  <2>1. PICK e \in Executors :
          /\ proc[e].pc = "idle"
          /\ proc' = [proc EXCEPT ![a] = Idle,
                                  ![e] = Started(runs[proc[a].new].job, proc[a].new)]
    BY <1>3 DEF Launch
  <2>2. /\ Started(runs[proc[a].new].job, proc[a].new).new = 0
        /\ Started(runs[proc[a].new].job, proc[a].new).run = proc[a].new
        /\ Idle.new = 0 /\ Idle.run = 0 /\ Idle.pc \notin Unfinished
    BY DEF Started, Idle, Unfinished, Preparing
  <2>3. proc[a].pc \in LaunchPcs /\ UNCHANGED <<queue, starts, finals>>
    BY <1>3 DEF Launch, LaunchPcs, seen
  <2> QED BY <2>1, <2>2, <2>3, HandsOver
<1>4. CASE DrainPop(a)
  <2> DEFINE g == Group[proc[a].job]
             n == Head(queue[g])
             p == [proc[a] EXCEPT !.pc = "launch", !.new = n]
  <2>1. CASE g = NoGroup \/ queue[g] = << >>
    BY <1>4, <2>1, IdleClaims DEF DrainPop, seen
  <2>2. CASE ~(g = NoGroup \/ queue[g] = << >>)
    <3>1. /\ proc' = [proc EXCEPT ![a] = p] /\ queue' = [queue EXCEPT ![g] = Tail(@)]
          /\ UNCHANGED <<starts, finals>>
      BY <1>4, <2>2 DEF DrainPop, seen
    <3>2. g \in Groups
      BY <1>4, <2>2, ProcFacts, GroupAssumption DEF ClaimsInv, DrainPop
    <3>3. p.new = n /\ p.run = proc[a].run /\ p.pc = "launch"
      BY <1>1 DEF ProcState
    <3> HIDE DEF p, g
    <3>4. /\ n = queue[g][1] /\ 1 \in DOMAIN queue[g]
          /\ \A i \in DOMAIN Tail(queue[g]) :
               i + 1 \in DOMAIN queue[g] /\ i + 1 # 1 /\ Tail(queue[g])[i] = queue[g][i + 1]
          /\ \A i, j \in DOMAIN Tail(queue[g]) : i + 1 = j + 1 => i = j
      BY <1>1, <2>2, <3>2, TailFacts
    <3>5. /\ queue'[g] = Tail(queue[g])
          /\ \A h \in Groups : h # g => queue'[h] = queue[h]
      BY <1>1, <3>1, <3>2
    <3>6. /\ n # 0 /\ starts[n] = 0 /\ finals[n] = 0
          /\ \A b \in Actors : proc[b].new # n
          /\ \A f \in Executors : proc[f].run # n
      BY <1>1, <3>2, <3>4, QueueFacts DEF ClaimsInv, Claims, QueueApart, QueueFresh
    <3> DEFINE at(h, i) == IF h = g THEN i + 1 ELSE i
    <3>12. ASSUME NEW h \in Groups, NEW i \in DOMAIN queue'[h]
           PROVE  /\ at(h, i) \in DOMAIN queue[h] /\ queue'[h][i] = queue[h][at(h, i)]
                  /\ h = g => at(h, i) # 1
      <4>1. CASE h = g
        BY <3>4, <3>5, <4>1
      <4>2. CASE h # g
        BY <3>5, <4>2
      <4> QED BY <4>1, <4>2
    <3>13. \A h \in Groups : \A i, j \in DOMAIN queue'[h] : at(h, i) = at(h, j) => i = j
      <4> SUFFICES ASSUME NEW h \in Groups, NEW i \in DOMAIN queue'[h],
                          NEW j \in DOMAIN queue'[h], at(h, i) = at(h, j)
                   PROVE  i = j
        OBVIOUS
      <4>1. CASE h = g
        BY <3>4, <3>5, <4>1
      <4>2. CASE h # g
        BY <4>2
      <4> QED BY <4>1, <4>2
    <3> HIDE DEF at
    <3>14. \A h, k \in Groups : \A i \in DOMAIN queue[h], j \in DOMAIN queue[k] :
             queue[h][i] = queue[k][j] => (h = k /\ i = j)
      BY DEF ClaimsInv, Claims, QueueOnce
    <3>7. \A h \in Groups : \A i \in DOMAIN queue'[h] :
            /\ queue'[h][i] # n
            /\ \E k \in DOMAIN queue[h] : queue'[h][i] = queue[h][k]
      <4> SUFFICES ASSUME NEW h \in Groups, NEW i \in DOMAIN queue'[h]
                   PROVE  /\ queue'[h][i] # n
                          /\ \E k \in DOMAIN queue[h] : queue'[h][i] = queue[h][k]
        OBVIOUS
      <4>1. at(h, i) \in DOMAIN queue[h] /\ queue'[h][i] = queue[h][at(h, i)]
        BY <3>12
      <4>2. queue[h][at(h, i)] = queue[g][1] => h = g /\ at(h, i) = 1
        BY <3>2, <3>4, <3>14, <4>1
      <4> QED BY <3>4, <3>12, <4>1, <4>2
    <3>8. QueueOnce'
      <4> SUFFICES ASSUME NEW h \in Groups, NEW k \in Groups, NEW i \in DOMAIN queue'[h],
                          NEW j \in DOMAIN queue'[k], queue'[h][i] = queue'[k][j]
                   PROVE  h = k /\ i = j
        BY DEF QueueOnce
      <4>1. h = k /\ at(h, i) = at(k, j)
        BY <3>12, <3>14
      <4> QED BY <3>13, <4>1
    <3>9. /\ proc'[a] = p /\ \A b \in Actors : b # a => proc'[b] = proc[b]
      BY <1>1, <3>1
    <3>10. NoNewRun
      BY <1>1, <3>3, <3>9 DEF NoNewRun, Preparing, Unfinished
    <3> HIDE DEF n
    <3>11. Takes(a, n)
      BY <3>1, <3>3, <3>7, <3>9, <3>10 DEF Takes
    <3> QED BY <3>6, <3>8, <3>11, TakesKeeps
  <2> QED BY <2>1, <2>2
<1> QED BY <1>2, <1>3, <1>4

LEMMA ExecStartClaims ==
  ASSUME ClaimsInv, NEW e \in Executors, ExecUnknownJob(e) \/ ExecStart(e) \/ CooldownSkip(e)
  PROVE  ClaimsKept
<1>1. e \in Actors /\ proc[e] \in ProcState /\ proc[e].pc = "start" /\ proc[e].new = 0
  BY ProcFacts DEF ClaimsInv, ExecUnknownJob, ExecStart, CooldownSkip, Actors, LaunchPcs
<1>2. UNCHANGED <<queue, starts, finals>>
  BY DEF ExecUnknownJob, ExecStart, CooldownSkip, seen
<1>3. CASE ExecUnknownJob(e) \/ CooldownSkip(e)
  BY <1>1, <1>2, <1>3, IdleClaims DEF ExecUnknownJob, CooldownSkip
<1>4. CASE ExecStart(e)
  <2> DEFINE p == [proc[e] EXCEPT !.cfg = registry]
             q == Admitting(p, proc[e].job)
  <2>1. \/ \E x \in {"build", "newrun"} : proc' = [proc EXCEPT ![e] = [@ EXCEPT !.pc = x]]
        \/ proc' = [proc EXCEPT ![e] = q]
    BY <1>1, <1>4, ProcFacts DEF ExecStart, ClaimsInv, TypeInv, TypeOK
  <2>2. \A x \in {"build", "newrun"} : /\ x \in Preparing => proc[e].pc \in Preparing
                                       /\ x \in Unfinished => proc[e].pc \in Unfinished
    BY <1>1 DEF Preparing, Unfinished
  <2>3. q.new = 0 /\ q.run = proc[e].run /\ q.pc \in {"sweep", "admit"}
    <3>1. p \in ProcState
      BY <1>1, ZenonT(40) DEF ProcState, ClaimsInv, TypeInv, TypeOK
    <3>2. p.new = 0 /\ p.run = proc[e].run
      BY <1>1 DEF ProcState
    <3> HIDE DEF p
    <3> QED BY <3>1, <3>2, AdmittingFields
  <2>4. q.pc \notin Unfinished /\ q.pc \notin Preparing
    BY <2>3 DEF Preparing, Unfinished
  <2> HIDE DEF q
  <2>5. ASSUME proc' = [proc EXCEPT ![e] = q] PROVE ClaimsKept
    BY <1>1, <1>2, <2>3, <2>4, <2>5, MovesOn
  <2>6. ASSUME NEW x \in {"build", "newrun"}, proc' = [proc EXCEPT ![e] = [@ EXCEPT !.pc = x]]
        PROVE  ClaimsKept
    BY <1>1, <1>2, <2>2, <2>6, GotoClaims
  <2> QED BY <2>1, <2>5, <2>6
<1> QED BY <1>3, <1>4

LEMMA ExecRunClaims ==
  ASSUME ClaimsInv, NEW e \in Executors,
         \/ ExecNewRun(e) \/ ExecBuildFails(e) \/ ExecRunning(e) \/ ExecPopen(e)
         \/ ExecPopenFails(e) \/ ExecWritePid(e) \/ ExecWait(e)
  PROVE  ClaimsKept
<1>1. /\ e \in Actors /\ proc[e] \in ProcState /\ proc \in [Actors -> ProcState] /\ TypeInv
      /\ starts \in [RunIds -> Nat] /\ Executors \subseteq Actors
  BY DEF ClaimsInv, TypeInv, TypeOK, Actors
<1>2. CASE ExecNewRun(e)
  <2> DEFINE n == made + 1
             p == [proc[e] EXCEPT !.pc = "build", !.run = n]
  <2>1. /\ made < MaxRuns /\ proc' = [proc EXCEPT ![e] = p]
        /\ UNCHANGED <<queue, starts, finals>>
    BY <1>2 DEF ExecNewRun, seen
  <2>2. p.new = proc[e].new /\ p.run = n
    BY <1>1 DEF ProcState
  <2>3. /\ n # 0 /\ starts[n] = 0 /\ finals[n] = 0
        /\ \A b \in Actors : proc[b].new # n /\ proc[b].run # n
        /\ \A g \in Groups : \A i \in DOMAIN queue[g] : queue[g][i] # n
    BY <2>1, NextIsFree
  <2> HIDE DEF p, n
  <2>4. proc'[e] = p /\ \A b \in Actors : b # e => proc'[b] = proc[b]
    BY <1>1, <2>1
  <2>5. TakesRun(e, n)
    BY <1>1, <2>1, <2>2, <2>4 DEF TakesRun
  <2> QED BY <1>1, <2>3, <2>5, TakesRunKeeps
<1>3. CASE ExecBuildFails(e)
  BY <1>1, <1>3, IdleClaims DEF ExecBuildFails
<1>4. CASE ExecRunning(e) \/ ExecPopenFails(e) \/ ExecWritePid(e) \/ ExecWait(e)
  <2>1. UNCHANGED <<queue, starts, finals>>
    BY <1>4 DEF ExecRunning, ExecPopenFails, ExecWritePid, ExecWait, seen
  <2>2. CASE ExecRunning(e)
    <3>1. /\ proc' = [proc EXCEPT ![e] = [@ EXCEPT !.pc = "popen"]]
          /\ "build" \in Unfinished /\ "build" \in Preparing /\ proc[e].pc = "build"
      BY <2>2 DEF ExecRunning, Preparing, Unfinished
    <3> QED BY <1>1, <2>1, <3>1, GotoClaims
  <2>3. CASE ExecPopenFails(e) \/ ExecWait(e)
    <3>1. /\ \E ok : proc' = [proc EXCEPT ![e] = [@ EXCEPT !.pc = "finish", !.ok = ok]]
          /\ "finish" \notin Preparing /\ proc[e].pc \in Unfinished
      BY <2>3 DEF ExecPopenFails, ExecWait, Preparing, Unfinished
    <3> QED BY <1>1, <2>1, <3>1, GotoClaims
  <2>4. CASE ExecWritePid(e)
    <3>1. /\ proc' = [proc EXCEPT ![e] = [@ EXCEPT !.pc = "wait"]]
          /\ "wait" \notin Preparing /\ proc[e].pc \in Unfinished
      BY <2>4 DEF ExecWritePid, Preparing, Unfinished
    <3> QED BY <1>1, <2>1, <3>1, GotoClaims
  <2> QED BY <1>4, <2>2, <2>3, <2>4
<1>5. CASE ExecPopen(e)
  <2> DEFINE r == proc[e].run
             p == [proc[e] EXCEPT !.pc = "pid"]
  <2>1. /\ starts' = [starts EXCEPT ![r] = @ + 1] /\ proc' = [proc EXCEPT ![e] = p]
        /\ UNCHANGED <<queue, finals>> /\ proc[e].pc = "popen"
    BY <1>1, <1>5 DEF ExecPopen
  <2>2. r \in RunIds /\ r # 0
    BY <1>1, <2>1, RunFacts, ProcFacts DEF OwnPcs, ProcShape
  <2>3. p.new = proc[e].new /\ p.run = r /\ p.pc = "pid"
    BY <1>1 DEF ProcState
  <2>4. starts[r] = 0 /\ finals[r] = 0
    BY <2>1, <2>2 DEF ClaimsInv, Claims, RunFresh, Preparing, Unfinished
  <2> HIDE DEF p
  <2>5. proc'[e] = p /\ \A b \in Actors : b # e => proc'[b] = proc[b]
    BY <1>1, <2>1
  <2>6. starts'[r] = 1 /\ \A s \in RunIds : s # r => starts'[s] = starts[s]
    BY <1>1, <2>1, <2>2, <2>4
  <2>7. Counts(e)
    BY <1>1, <2>1, <2>3, <2>5, <2>6 DEF Counts
  <2>8. starts'[r] <= 1 /\ finals'[r] <= 1
    BY <2>1, <2>4, <2>6
  <2>9. proc'[e].pc \notin Preparing
    BY <2>3, <2>5 DEF Preparing
  <2>10. finals'[r] = 0
    BY <2>1, <2>4
  <2> QED BY <2>2, <2>7, <2>8, <2>9, <2>10, CountsKeep
<1> QED BY <1>2, <1>3, <1>4, <1>5

LEMMA ExecFinishClaims ==
  ASSUME ClaimsInv, NEW e \in Executors,
         ExecFinish(e) \/ ExecFinal(e) \/ ExecFollow(e) \/ ExecChain(e)
  PROVE  ClaimsKept
<1>1. /\ e \in Actors /\ proc[e] \in ProcState /\ proc \in [Actors -> ProcState] /\ TypeInv
      /\ finals \in [RunIds -> Nat] /\ Executors \subseteq Actors /\ registry \subseteq Jobs
  BY DEF ClaimsInv, TypeInv, TypeOK, Actors
<1>2. proc[e].new = 0
  BY <1>1, ProcFacts DEF ExecFinish, ExecFinal, ExecFollow, ExecChain, LaunchPcs
<1>3. CASE ExecFinish(e)
  <2>1. /\ \/ proc' = [proc EXCEPT ![e] = Idle]
           \/ proc' = [proc EXCEPT ![e] = [@ EXCEPT !.pc = "final"]]
        /\ UNCHANGED <<queue, starts, finals>> /\ proc[e].pc = "finish"
    BY <1>1, <1>3 DEF ExecFinish, seen
  <2>2. "final" \notin Preparing /\ "finish" \in Unfinished
    BY DEF Preparing, Unfinished
  <2> QED BY <1>1, <2>1, <2>2, IdleClaims, GotoClaims
<1>4. CASE ExecFinal(e)
  <2> DEFINE r == proc[e].run
             p == [proc[e] EXCEPT !.pc = "follow"]
  <2>1. /\ finals' = [finals EXCEPT ![r] = @ + 1] /\ proc' = [proc EXCEPT ![e] = p]
        /\ UNCHANGED <<queue, starts>> /\ proc[e].pc = "final"
    BY <1>1, <1>4 DEF ExecFinal
  <2>2. r \in RunIds /\ r # 0
    BY <1>1, <2>1, RunFacts, ProcFacts DEF OwnPcs, ProcShape
  <2>3. p.new = proc[e].new /\ p.run = r /\ p.pc = "follow"
    BY <1>1 DEF ProcState
  <2>4. finals[r] = 0 /\ starts[r] <= 1
    BY <2>1, <2>2 DEF ClaimsInv, Claims, RunFresh, Unfinished, StartedOnce
  <2> HIDE DEF p
  <2>5. proc'[e] = p /\ \A b \in Actors : b # e => proc'[b] = proc[b]
    BY <1>1, <2>1
  <2>6. finals'[r] = 1 /\ \A s \in RunIds : s # r => finals'[s] = finals[s]
    BY <1>1, <2>1, <2>2, <2>4
  <2>7. Counts(e)
    BY <1>1, <2>1, <2>3, <2>5, <2>6 DEF Counts
  <2>8. starts'[r] <= 1 /\ finals'[r] <= 1
    BY <2>1, <2>4, <2>6
  <2>9. proc'[e].pc \notin Preparing /\ proc'[e].pc \notin Unfinished
    BY <2>3, <2>5 DEF Preparing, Unfinished
  <2> QED BY <2>2, <2>7, <2>8, <2>9, CountsKeep
<1>5. CASE ExecFollow(e)
  <2> DEFINE p == [proc[e] EXCEPT !.cfg = registry]
  <2>1. PICK c \in {OnSuccess[proc[e].job], OnFailure[proc[e].job]} :
          proc' = [proc EXCEPT ![e] = Chained(p, c)]
    BY <1>5 DEF ExecFollow
  <2>2. p \in ProcState /\ p.run = proc[e].run
    BY <1>1, ZenonT(40) DEF ProcState
  <2> HIDE DEF p
  <2>3. /\ Chained(p, c).new = 0 /\ Chained(p, c).run = proc[e].run
        /\ Chained(p, c).pc \notin Unfinished /\ Chained(p, c).pc \notin Preparing
    BY <2>2, ChainedFields DEF Preparing, Unfinished
  <2>4. UNCHANGED <<queue, starts, finals>>
    BY <1>5 DEF ExecFollow, seen
  <2> QED BY <1>1, <2>1, <2>3, <2>4, MovesOn
<1>6. CASE ExecChain(e)
  <2> DEFINE d == Head(proc[e].chain)
             rest == Tail(proc[e].chain)
             p == [proc[e] EXCEPT !.chain = rest]
  <2>1. /\ \/ proc' = [proc EXCEPT ![e] = Admitting(p, d)]
           \/ proc' = [proc EXCEPT ![e] = Chained(proc[e], rest)]
        /\ UNCHANGED <<queue, starts, finals>>
    BY <1>6 DEF ExecChain, seen
  <2>2. proc[e].chain \in Seq(Jobs) /\ proc[e].chain # << >>
    BY <1>1, <1>6, ProcFacts DEF ProcState, ProcShape, ExecChain
  <2>3. rest \in Seq(Jobs)
    BY <2>2
  <2> HIDE DEF d, rest
  <2>4. p \in ProcState /\ p.run = proc[e].run /\ p.new = 0
    BY <1>1, <1>2, <2>3, ZenonT(40) DEF ProcState
  <2> HIDE DEF p
  <2>5. /\ Admitting(p, d).new = 0 /\ Admitting(p, d).run = proc[e].run
        /\ Admitting(p, d).pc \notin Unfinished /\ Admitting(p, d).pc \notin Preparing
    BY <2>4, AdmittingFields DEF Preparing, Unfinished
  <2>6. /\ Chained(proc[e], rest).new = 0 /\ Chained(proc[e], rest).run = proc[e].run
        /\ Chained(proc[e], rest).pc \notin Unfinished
        /\ Chained(proc[e], rest).pc \notin Preparing
    BY <1>1, ChainedFields DEF Preparing, Unfinished
  <2> QED BY <1>1, <2>1, <2>5, <2>6, MovesOn
<1> QED BY <1>3, <1>4, <1>5, <1>6

LEMMA KillClaims ==
  ASSUME ClaimsInv, NEW h \in Handlers, KillStep(h)
  PROVE  ClaimsKept
<1>1. /\ \E x \in {"killtree", "drain"} : proc' = [proc EXCEPT ![h] = [@ EXCEPT !.pc = x]]
      /\ UNCHANGED <<queue, starts, finals>> /\ h \in Actors
  BY DEF KillStep, KillStamp, KillTree, seen, Actors
<1>2. \A x \in {"killtree", "drain"} : x \notin Preparing /\ x \notin Unfinished
  BY DEF Preparing, Unfinished
<1> QED BY <1>1, <1>2, GotoClaims

\* A request is taken by a process that was idle.
LEMMA TakesUp ==
  ASSUME ClaimsInv, NEW a \in Actors, NEW p, proc' = [proc EXCEPT ![a] = p],
         p.new = 0, a \in Executors => p.run = 0, UNCHANGED <<queue, starts, finals>>
  PROVE  ClaimsKept
<1>1. proc \in [Actors -> ProcState] /\ Executors \subseteq Actors
  BY DEF ClaimsInv, TypeInv, TypeOK, Actors
<1>2. proc'[a] = p /\ \A b \in Actors : b # a => proc'[b] = proc[b]
  BY <1>1
<1>3. NoNewHolder
  BY <1>1, <1>2 DEF NoNewHolder
<1> QED BY <1>3, NoNewHolderKeeps

LEMMA RequestClaims ==
  ASSUME ClaimsInv, Requests
  PROVE  ClaimsKept
<1>1. UNCHANGED <<queue, starts, finals>>
  BY DEF Requests, Fire, Poll, DryRun, ScheduledFire, KillRead, DeleteJob, seen
<1>2. Handlers \subseteq Actors /\ Executors \subseteq Actors
      /\ \A h \in Handlers : h \notin Executors
  BY ActorAssumption DEF Actors
<1>3. ASSUME NEW h \in Handlers, NEW j \in Jobs, Fire(h, j) PROVE ClaimsKept
  <2> DEFINE p == [Idle EXCEPT !.job = j, !.cfg = registry]
  <2>1. proc' = [proc EXCEPT ![h] = Admitting(p, j)]
    BY <1>3 DEF Fire
  <2>2. p \in ProcState
    <3>1. j \in 0 .. NumJobs /\ registry \in SUBSET Jobs
      BY Ranges DEF ClaimsInv, TypeInv, TypeOK
    <3> QED BY <3>1, IdleType, ZenonT(40) DEF ProcState
  <2>3. p.new = 0
    BY DEF Idle
  <2> HIDE DEF p
  <2>4. Admitting(p, j).new = 0
    BY <2>2, <2>3, AdmittingFields
  <2> QED BY <1>1, <1>2, <2>1, <2>4, TakesUp
<1>4. ASSUME NEW h \in Handlers, NEW j \in Jobs, Poll(h, j) PROVE ClaimsKept
  <2> DEFINE p == [Idle EXCEPT !.pc = "reap", !.job = j, !.mode = "poll", !.dead = Stranded(j)]
  <2>1. proc' = [proc EXCEPT ![h] = p] /\ p.new = 0
    BY <1>4 DEF Poll, Idle
  <2> HIDE DEF p
  <2> QED BY <1>1, <1>2, <2>1, TakesUp
<1>5. ASSUME NEW h \in Handlers, NEW j \in Jobs, NEW m \in {"dry_execute", "dry_check"},
             DryRun(h, j, m)
      PROVE  ClaimsKept
  <2> DEFINE p == [Idle EXCEPT !.pc = "admit", !.job = j, !.fire = j, !.mode = m]
  <2>1. proc' = [proc EXCEPT ![h] = p] /\ p.new = 0
    BY <1>5 DEF DryRun, Idle
  <2> HIDE DEF p
  <2> QED BY <1>1, <1>2, <2>1, TakesUp
<1>6. ASSUME NEW e \in Executors, NEW j \in Jobs, ScheduledFire(e, j) PROVE ClaimsKept
  <2>1. proc' = [proc EXCEPT ![e] = Started(j, 0)]
    BY <1>6 DEF ScheduledFire
  <2>2. Started(j, 0).new = 0 /\ Started(j, 0).run = 0
    BY DEF Started, Idle
  <2> QED BY <1>1, <1>2, <2>1, <2>2, TakesUp
<1>7. ASSUME NEW h \in Handlers, NEW r \in RunIds, KillRead(h, r) PROVE ClaimsKept
  <2> DEFINE p == [Idle EXCEPT !.pc = "stamp", !.job = runs[r].job, !.run = r,
                               !.hit = runs[r].pid]
  <2>1. proc' = [proc EXCEPT ![h] = p] /\ p.new = 0
    BY <1>7 DEF KillRead, Idle
  <2> HIDE DEF p
  <2> QED BY <1>1, <1>2, <2>1, TakesUp
<1>8. ASSUME NEW j \in Jobs, DeleteJob(j) PROVE ClaimsKept
  <2>1. NoNewHolder
    BY <1>1, <1>8 DEF DeleteJob, NoNewHolder
  <2> QED BY <2>1, NoNewHolderKeeps
<1> QED BY <1>3, <1>4, <1>5, <1>6, <1>7, <1>8 DEF Requests

LEMMA DeathClaims ==
  ASSUME ClaimsInv, Deaths
  PROVE  ClaimsKept
<1>1. UNCHANGED <<queue, starts, finals>> /\ Executors \subseteq Actors
  BY DEF Deaths, ChildExit, ExecutorCrash, WebappCrash, seen, Actors
<1>2. \A a \in Actors : proc'[a] = proc[a] \/ proc'[a] = Idle
  BY DEF Deaths, ChildExit, ExecutorCrash, WebappCrash, ClaimsInv, TypeInv, TypeOK
<1>3. Idle.new = 0 /\ Idle.run = 0
  BY DEF Idle
<1>4. NoNewHolder
  BY <1>1, <1>2, <1>3 DEF NoNewHolder
<1> QED BY <1>4, NoNewHolderKeeps

-----------------------------------------------------------------------------
(* The theorem. *)

LEMMA ClaimsStep == ClaimsInv /\ [Next]_vars => ClaimsInv'
<1> SUFFICES ASSUME ClaimsInv, [Next]_vars PROVE ClaimsInv'
  OBVIOUS
<1>1. TypeInv'
  BY TypeInvStep DEF ClaimsInv
<1>2. CASE Next
  <2>1. ClaimsKept
    <3>1. ASSUME NEW a \in Actors, SharedStep(a) PROVE ClaimsKept
      BY <3>1, SweepClaims, ReapClaims, AdmitClaims, DrainClaims DEF SharedStep
    <3>2. ASSUME NEW e \in Executors, ExecutorStep(e) PROVE ClaimsKept
      BY <3>2, ExecStartClaims, ExecRunClaims, ExecFinishClaims DEF ExecutorStep
    <3>3. ASSUME NEW h \in Handlers, KillStep(h) PROVE ClaimsKept
      BY <3>3, KillClaims
    <3>4. CASE Requests
      BY <3>4, RequestClaims
    <3>5. CASE Deaths
      BY <3>5, DeathClaims
    <3> QED BY <1>2, <3>1, <3>2, <3>3, <3>4, <3>5 DEF Next
  <2> QED BY <1>1, <2>1 DEF ClaimsInv, ClaimsKept
<1>3. CASE UNCHANGED vars
  <2>1. NoNewHolder
    BY <1>3 DEF vars, NoNewHolder
  <2> QED BY <1>1, <2>1, NoNewHolderKeeps DEF ClaimsInv, ClaimsKept
<1> QED BY <1>2, <1>3

LEMMA ClaimsInit == Init => ClaimsInv
<1> SUFFICES ASSUME Init PROVE ClaimsInv
  OBVIOUS
<1>1. /\ \A a \in Actors : proc[a].new = 0
      /\ \A e \in Executors : proc[e].run = 0
      /\ \A g \in Groups : DOMAIN queue[g] = {}
      /\ \A r \in RunIds : starts[r] = 0 /\ finals[r] = 0
  BY DEF Init, Idle, Actors
<1>2. Claims
  BY <1>1 DEF Claims, NewApart, RunApart, NewRunApart, QueueApart, QueueOnce, NewFresh,
       QueueFresh, RunFresh
<1>3. StartedOnce
  BY <1>1 DEF StartedOnce
<1> QED BY <1>2, <1>3, TypeInvInit DEF ClaimsInv

THEOREM ClaimsAlways == Spec => []ClaimsInv
  BY ClaimsInit, ClaimsStep, PTL DEF Spec

\* Whatever races for a queue or a run, the right to start a run is never in
\* two hands, and every run starts one child and has its follow-ups once.
THEOREM RunsOnce == Spec => []StartedOnce
  BY ClaimsAlways, PTL DEF ClaimsInv

THEOREM OneHolder == Spec => []Claims
  BY ClaimsAlways, PTL DEF ClaimsInv
=============================================================================
