---------------------------- MODULE JobRunsRecords ----------------------------
(***************************************************************************)
(* The third layer of the invariant of JobRuns: how the record of a run,   *)
(* its child and the processes that work on it agree.  A kill is final and *)
(* silences its executor, no outcome is published while the child lives,   *)
(* and follow-ups come after it.  On it rests the fourth: where nobody     *)
(* dies, no spawn fails and no job is deleted, a run on record as queued   *)
(* is in its queue or in the hands of a process about to put it there or   *)
(* to run it.                                                              *)
(***************************************************************************)
EXTENDS JobRunsClaims

RecInv == ClaimsInv /\ Records

\* What a step has to show of runs and processes, and of queues and kills.
RunsKept == RunsFit' /\ ProcsFit'
LinesKept == QueueFits' /\ KillsApart'

-----------------------------------------------------------------------------
(* Writes to a record. *)

\* A write that does not assert a kill keeps one that is there.
LEMMA StampedFields ==
  ASSUME NEW rec \in Record, NEW status, NEW exit
  PROVE  LET x == Stamped(rec, status, exit)
         IN /\ x.dir /\ x.killed = rec.killed /\ x.pid = rec.pid
            /\ x.status = IF rec.killed THEN rec.status ELSE status
            /\ x.exit = IF rec.killed THEN rec.exit ELSE exit
  BY DEF Stamped, Record

LEMMA ReapStampedFields ==
  ASSUME NEW rec \in Record
  PROVE  LET x == ReapStamped(rec)
         IN /\ x.dir /\ x.killed = rec.killed /\ x.pid = rec.pid
            /\ x.status = IF rec.killed THEN rec.status ELSE "failed"
            /\ x.exit = rec.exit
<1> DEFINE s == Stamped(rec, "failed", rec.exit)
<1>1. /\ s.dir /\ s.killed = rec.killed /\ s.pid = rec.pid /\ s.exit = rec.exit
      /\ s.status = IF rec.killed THEN rec.status ELSE "failed"
  BY StampedFields
<1>2. s \in Record
  <2>1. rec.exit \in {"none", "own", "kill"} /\ "failed" \in Statuses
    BY DEF Record, Statuses
  <2> QED BY <2>1, StampedType
<1>3. ReapStamped(rec) = [s EXCEPT !.reaped = TRUE]
  BY DEF ReapStamped
<1> HIDE DEF s
<1> QED BY <1>1, <1>2, <1>3 DEF Record

LEMMA KillStampedFields ==
  ASSUME NEW rec \in Record
  PROVE  LET x == KillStamped(rec)
         IN x.dir /\ x.killed /\ x.pid = rec.pid /\ x.status = "failed" /\ x.exit = "kill"
  BY DEF KillStamped, Record

LEMMA BlankFields ==
  ASSUME NEW j
  PROVE  /\ ~Blank(j).dir /\ ~Blank(j).killed /\ ~Blank(j).pid /\ Blank(j).status = "none"
         /\ NewDir(j).dir /\ ~NewDir(j).killed /\ ~NewDir(j).pid /\ NewDir(j).status = "none"
  BY DEF Blank, NewDir

-----------------------------------------------------------------------------
(* What a record, its child and a process make of each kind of change. *)

\* Pruning harms nobody.
LEMMA BlankFits ==
  ASSUME NEW b, NEW p, NEW r, NEW rec, NEW kid, NEW n, NEW hush, NEW hush2, NEW j,
         r \notin hush2, Fits(b, p, r, rec, kid, n, hush)
  PROVE  Fits(b, p, r, Blank(j), kid, n, hush2)
<1>1. Unwritten(Blank(j)) /\ InLine(Blank(j)) /\ Undecided(Blank(j)) /\ ~Blank(j).dir
  BY BlankFields DEF Unwritten, InLine, Undecided
<1> QED BY <1>1 DEF Fits

LEMMA BlankRecordFits ==
  ASSUME NEW r, NEW rec, NEW kid, NEW n, NEW hush, NEW hush2, NEW j,
         r \notin hush2, RecordFits(r, rec, kid, n, hush)
  PROVE  RecordFits(r, Blank(j), kid, n, hush2)
  BY BlankFields DEF RecordFits

\* A process that neither launches nor executes a run knows only whether it
\* was started.
LEMMA StrangerFits ==
  ASSUME NEW b, NEW p, NEW r, NEW rec, NEW kid, NEW n, NEW hush,
         p.new # r, b \in Executors => p.run # r, r \in p.dead => n # 0
  PROVE  Fits(b, p, r, rec, kid, n, hush)
  BY DEF Fits

\* A kill is stamped on a run past its queue.
LEMMA KillFits ==
  ASSUME NEW b, NEW p, NEW r, NEW rec \in Record, NEW kid, NEW n, NEW hush, NEW hush2,
         Fits(b, p, r, rec, kid, n, hush), p.pc \in {"record", "enqueue"} => p.new # r,
         r \in hush2 => (r \in hush \/ kid = "alive")
  PROVE  Fits(b, p, r, KillStamped(rec), kid, n, hush2)
<1>1. Undecided(KillStamped(rec)) /\ KillStamped(rec).status \in Outcomes
  BY KillStampedFields DEF Undecided, Outcomes
<1> QED BY <1>1 DEF Fits

LEMMA KillRecordFits ==
  ASSUME NEW r, NEW rec \in Record, NEW kid, NEW n, NEW hush, NEW hush2,
         RecordFits(r, rec, kid, n, hush), r \in hush2 => (r \in hush \/ kid = "alive")
  PROVE  RecordFits(r, KillStamped(rec), kid, n, hush2)
<1>1. KillStamped(rec).dir /\ KillStamped(rec).killed /\ KillStamped(rec).pid = rec.pid
      /\ KillStamped(rec).status = "failed" /\ KillStamped(rec).exit = "kill"
  BY KillStampedFields
<1> QED BY <1>1 DEF RecordFits

\* A reap finalises a run that was started, so nobody is about to launch it.
LEMMA ReapFits ==
  ASSUME NEW b, NEW p, NEW r, NEW rec \in Record, NEW kid, NEW n, NEW hush,
         Fits(b, p, r, rec, kid, n, hush), RecordFits(r, rec, kid, n, hush),
         n # 0, p.new = r => n = 0, (b \in Executors /\ p.run = r /\ p.pc \in Preparing) => n = 0
  PROVE  Fits(b, p, r, ReapStamped(rec), kid, n, hush)
<1>1. ReapStamped(rec).status \in Outcomes
  BY ReapStampedFields DEF RecordFits, Outcomes
<1> QED BY <1>1 DEF Fits

LEMMA ReapRecordFits ==
  ASSUME NEW r, NEW rec \in Record, NEW kid, NEW n, NEW hush,
         RecordFits(r, rec, kid, n, hush), kid # "alive"
  PROVE  RecordFits(r, ReapStamped(rec), kid, n, hush)
<1> DEFINE x == ReapStamped(rec)
<1>1. /\ x.dir /\ x.killed = rec.killed /\ x.pid = rec.pid /\ x.exit = rec.exit
      /\ x.status = IF rec.killed THEN rec.status ELSE "failed"
  BY ReapStampedFields
<1> HIDE DEF x
<1> QED BY <1>1 DEF RecordFits, x

\* A cooldown skip that lands in a directory of the same second.
LEMMA SkipFits ==
  ASSUME NEW b, NEW p, NEW r, NEW rec \in Record, NEW exit, NEW kid, NEW n, NEW hush,
         Fits(b, p, r, rec, kid, n, hush), RecordFits(r, rec, kid, n, hush)
  PROVE  Fits(b, p, r, Stamped(rec, "skipped", exit), kid, n, hush)
<1> DEFINE x == Stamped(rec, "skipped", exit)
<1>1. /\ x.dir /\ x.killed = rec.killed /\ x.pid = rec.pid
      /\ x.status = IF rec.killed THEN rec.status ELSE "skipped"
  BY StampedFields
<1> HIDE DEF x
<1>2. /\ Unwritten(rec) => Unwritten(x)
      /\ InLine(rec) => InLine(x)
      /\ Undecided(x) /\ x.status \in Outcomes
  BY <1>1 DEF Unwritten, InLine, Undecided, Outcomes, RecordFits
<1> QED BY <1>2 DEF Fits, x

\* A write that gives no verdict, or one while no child lives.
LEMMA StampedRecordFits ==
  ASSUME NEW r, NEW rec \in Record, NEW status, NEW exit, NEW kid, NEW n, NEW hush,
         RecordFits(r, rec, kid, n, hush), status \in {"success", "failed"} => kid # "alive"
  PROVE  RecordFits(r, Stamped(rec, status, exit), kid, n, hush)
<1> DEFINE x == Stamped(rec, status, exit)
<1>1. /\ x.dir /\ x.killed = rec.killed /\ x.pid = rec.pid
      /\ x.status = IF rec.killed THEN rec.status ELSE status
      /\ x.exit = IF rec.killed THEN rec.exit ELSE exit
  BY StampedFields
<1> HIDE DEF x
<1> QED BY <1>1 DEF RecordFits, x

\* A child ends.
LEMMA EndFits ==
  ASSUME NEW b, NEW p, NEW r, NEW rec, NEW n, NEW hush, NEW kid2 \in {"zero", "nonzero"},
         Fits(b, p, r, rec, "alive", n, hush), RecordFits(r, rec, "alive", n, hush)
  PROVE  Fits(b, p, r, rec, kid2, n, hush) /\ RecordFits(r, rec, kid2, n, hush)
  BY DEF Fits, RecordFits

\* A process moves on: it is not about to record, queue or spawn a run, keeps
\* an executor's run only if that waits for no child, and begins no follow-up.
LEMMA MoveFits ==
  ASSUME NEW b, NEW p, NEW q, NEW r, NEW rec, NEW kid, NEW n, NEW hush,
         Fits(b, p, r, rec, kid, n, hush),
         r \in q.dead => n # 0,
         q.new = r => q.pc \notin {"record", "enqueue", "spawn"},
         (b \in Executors /\ q.run = r) =>
           /\ q.run = p.run
           /\ p.pc \notin {"pid", "wait", "finish"} /\ q.pc \notin {"pid", "wait"}
           /\ q.pc \in Preparing => p.pc \in Preparing
           /\ q.pc \in Following => p.pc \in Following
  PROVE  Fits(b, q, r, rec, kid, n, hush)
  BY DEF Fits

\* Fewer runs are muted.
LEMMA FewerFit ==
  ASSUME NEW r, NEW rec, NEW kid, NEW n, NEW hush, NEW hush2, r \in hush2 => r \in hush
  PROVE  /\ RecordFits(r, rec, kid, n, hush) => RecordFits(r, rec, kid, n, hush2)
         /\ \A b, p : Fits(b, p, r, rec, kid, n, hush) => Fits(b, p, r, rec, kid, n, hush2)
  BY DEF Fits, RecordFits

-----------------------------------------------------------------------------
(* What the steps do to runs and processes. *)

\* What the invariant says of one run.
LEMMA RecFacts ==
  ASSUME RecInv, NEW r \in RunIds
  PROVE  /\ runs[r] \in Record /\ r # 0
         /\ RecordFits(r, runs[r], child[r], starts[r], muted)
         /\ \A b \in Actors : Fits(b, proc[b], r, runs[r], child[r], starts[r], muted)
<1>1. runs[r] \in Record
  BY DEF RecInv, ClaimsInv, TypeInv, TypeOK
<1>2. r # 0
  BY JobsAssumption DEF RunIds
<1> QED BY <1>1, <1>2 DEF RecInv, Records, RunsFit, ProcsFit

\* What a step leaves of a run nobody writes: all of it, or what pruning does.
Mild(r) ==
  /\ child'[r] = child[r] /\ starts'[r] = starts[r]
  /\ \/ runs'[r] = runs[r] /\ (r \in muted' => r \in muted)
     \/ r \notin muted' /\ \E j \in Jobs : runs'[r] = Blank(j)

LEMMA MildFits ==
  ASSUME RecInv, NEW r \in RunIds, Mild(r)
  PROVE  /\ RecordFits(r, runs'[r], child'[r], starts'[r], muted')
         /\ \A b, p : Fits(b, p, r, runs[r], child[r], starts[r], muted)
                        => Fits(b, p, r, runs'[r], child'[r], starts'[r], muted')
<1>1. RecordFits(r, runs[r], child[r], starts[r], muted)
  BY RecFacts
<1>2. CASE runs'[r] = runs[r] /\ (r \in muted' => r \in muted)
  BY <1>1, <1>2, FewerFit DEF Mild
<1>3. CASE r \notin muted' /\ \E j \in Jobs : runs'[r] = Blank(j)
  <2>1. PICK j \in Jobs : runs'[r] = Blank(j)
    BY <1>3
  <2>2. RecordFits(r, Blank(j), child[r], starts[r], muted')
    BY <1>1, <1>3, BlankRecordFits
  <2>3. \A b, p : Fits(b, p, r, runs[r], child[r], starts[r], muted)
                    => Fits(b, p, r, Blank(j), child[r], starts[r], muted')
    BY <1>3, BlankFits
  <2> QED BY <2>1, <2>2, <2>3 DEF Mild
<1> QED BY <1>2, <1>3 DEF Mild

\* No run is written: every process may move.
LEMMA MovesKeep ==
  ASSUME RecInv, \A r \in RunIds : Mild(r),
         \A b \in Actors, r \in RunIds :
           Fits(b, proc[b], r, runs[r], child[r], starts[r], muted)
             => Fits(b, proc'[b], r, runs[r], child[r], starts[r], muted)
  PROVE  RunsKept
<1>1. RunsFit'
  BY MildFits DEF RunsFit
<1>2. ProcsFit'
  <2> SUFFICES ASSUME NEW b \in Actors, NEW r \in RunIds
               PROVE  Fits(b, proc'[b], r, runs'[r], child'[r], starts'[r], muted')
    BY DEF ProcsFit
  <2>1. Fits(b, proc'[b], r, runs[r], child[r], starts[r], muted)
    BY RecFacts
  <2> QED BY <2>1, MildFits
<1> QED BY <1>1, <1>2 DEF RunsKept

\* Run w is written while process a moves.
LEMMA WriteKeeps ==
  ASSUME RecInv, NEW a \in Actors, NEW w \in RunIds,
         \A r \in RunIds : r # w => Mild(r),
         \A b \in Actors : b # a => proc'[b] = proc[b],
         RecordFits(w, runs'[w], child'[w], starts'[w], muted'),
         \A b \in Actors : b # a => Fits(b, proc[b], w, runs'[w], child'[w], starts'[w], muted'),
         Fits(a, proc'[a], w, runs'[w], child'[w], starts'[w], muted'),
         \A r \in RunIds : r # w => Fits(a, proc'[a], r, runs[r], child[r], starts[r], muted)
  PROVE  RunsKept
<1>1. RunsFit'
  BY MildFits DEF RunsFit
<1>2. ProcsFit'
  <2> SUFFICES ASSUME NEW b \in Actors, NEW r \in RunIds
               PROVE  Fits(b, proc'[b], r, runs'[r], child'[r], starts'[r], muted')
    BY DEF ProcsFit
  <2>1. CASE r = w
    BY <2>1
  <2>2. CASE r # w
    <3>1. Fits(b, proc'[b], r, runs[r], child[r], starts[r], muted)
      BY <2>2, RecFacts
    <3> QED BY <2>2, <3>1, MildFits
  <2> QED BY <2>1, <2>2
<1> QED BY <1>1, <1>2 DEF RunsKept

\* Process b moves from p to q without a claim it did not have.
Harmless(b, p, q) ==
  /\ \A r \in q.dead : r \in p.dead \/ starts[r] # 0
  /\ q.pc \notin {"record", "enqueue", "spawn"}
  /\ (b \in Executors /\ q.run # 0) =>
       /\ q.run = p.run
       /\ p.pc \notin {"pid", "wait", "finish"} /\ q.pc \notin {"pid", "wait"}
       /\ q.pc \in Preparing => p.pc \in Preparing
       /\ q.pc \in Following => p.pc \in Following

LEMMA HarmlessFits ==
  ASSUME RecInv, NEW a \in Actors, NEW q, Harmless(a, proc[a], q), NEW r \in RunIds,
         NEW rec, NEW kid, NEW hush, Fits(a, proc[a], r, rec, kid, starts[r], hush)
  PROVE  Fits(a, q, r, rec, kid, starts[r], hush)
<1>1. r # 0
  BY RecFacts
<1>2. r \in proc[a].dead => starts[r] # 0
  BY DEF Fits
<1> QED BY <1>1, <1>2, MoveFits DEF Harmless

LEMMA AwaitedFacts ==
  ASSUME RecInv, NEW r, Awaited(r)
  PROVE  r \in RunIds /\ InLine(runs[r]) /\ starts[r] = 0
<1>1. ASSUME NEW a \in Actors, proc[a].pc = "enqueue", proc[a].new = r
      PROVE  r \in RunIds /\ InLine(runs[r]) /\ starts[r] = 0
  <2>1. r \in RunIds
    BY <1>1, RunFacts DEF RecInv, ClaimsInv, LaunchPcs
  <2>2. starts[r] = 0
    BY <1>1, <2>1, RecFacts DEF RecInv, ClaimsInv, Claims, NewFresh
  <2> QED BY <1>1, <2>1, <2>2, RecFacts DEF Fits
<1>2. ASSUME NEW g \in Groups, NEW i \in DOMAIN queue[g], queue[g][i] = r
      PROVE  r \in RunIds /\ InLine(runs[r]) /\ starts[r] = 0
  BY <1>2, QueueFacts DEF RecInv, ClaimsInv, Claims, QueueFresh, Records, QueueFits
<1> QED BY <1>1, <1>2 DEF Awaited

LEMMA MildLine ==
  ASSUME NEW r, Mild(r), InLine(runs[r])
  PROVE  InLine(runs'[r])
  BY BlankFields DEF Mild, InLine

\* Queues get only what was on its way there, nobody begins to stamp a kill,
\* and only new runs are about to be recorded or queued.
LEMMA LinesKeep ==
  ASSUME RecInv,
         \A g \in Groups : \A i \in DOMAIN queue'[g] : Awaited(queue'[g][i]),
         \A r \in RunIds : Awaited(r) => InLine(runs'[r]),
         \A h \in Handlers : proc'[h].pc = "stamp" => proc'[h] = proc[h],
         \A a \in Actors : proc'[a].pc \in {"record", "enqueue"} =>
           \/ proc'[a].new = proc[a].new /\ proc[a].pc \in {"record", "enqueue"}
           \/ proc'[a].new = made + 1
  PROVE  LinesKept
<1>1. QueueFits'
  BY AwaitedFacts DEF QueueFits
<1>2. ASSUME NEW h \in Handlers, proc'[h].pc = "stamp"
      PROVE  /\ \A a \in Actors : proc'[a].pc \in {"record", "enqueue"} =>
                                    proc'[a].new # proc'[h].run
             /\ \A g \in Groups : \A i \in DOMAIN queue'[g] : queue'[g][i] # proc'[h].run
  <2>1. proc'[h] = proc[h] /\ proc[h].pc = "stamp"
    BY <1>2
  <2>2. /\ \A a \in Actors : proc[a].pc \in {"record", "enqueue"} =>
                               proc[a].new # proc[h].run
        /\ \A g \in Groups : \A i \in DOMAIN queue[g] : queue[g][i] # proc[h].run
    BY <2>1 DEF RecInv, Records, KillsApart
  <2>3. proc[h].run # made + 1
    <3>1. h \in Actors /\ made \in 0 .. MaxRuns
      BY DEF Actors, RecInv, ClaimsInv, TypeInv, TypeOK
    <3>2. proc[h].run \in 0 .. made
      BY <3>1 DEF RecInv, ClaimsInv, TypeInv, Shape, ProcsOK, ProcShape
    <3> QED BY <3>1, <3>2
  <2>4. ~Awaited(proc[h].run)
    BY <2>2 DEF Awaited
  <2> QED BY <2>1, <2>2, <2>3, <2>4
<1> QED BY <1>1, <1>2 DEF KillsApart, LinesKept

\* Processes move without new claims, and only to states no kill waits in.
Calm == \A b \in Actors : \/ proc'[b] = proc[b]
                          \/ Harmless(b, proc[b], proc'[b]) /\ proc'[b].pc # "stamp"

QueuesFrom == \A g \in Groups : \A i \in DOMAIN queue'[g] : Awaited(queue'[g][i])

LEMMA SameQueues == ASSUME queue' = queue PROVE QueuesFrom
  BY DEF QueuesFrom, Awaited

\* A run w is written by processes that have no claim on it.
LEMMA CalmWrites ==
  ASSUME RecInv, Calm, QueuesFrom, NEW w \in RunIds,
         \A r \in RunIds : r # w => Mild(r),
         starts'[w] = starts[w], Awaited(w) => InLine(runs'[w]),
         RecordFits(w, runs'[w], child'[w], starts'[w], muted'),
         \A b \in Actors : Fits(b, proc[b], w, runs'[w], child'[w], starts'[w], muted')
  PROVE  Records'
<1>1. RunsFit'
  BY MildFits DEF RunsFit
<1>2. ASSUME NEW b \in Actors, NEW r \in RunIds
      PROVE  Fits(b, proc'[b], r, runs'[r], child'[r], starts'[r], muted')
  <2>1. Fits(b, proc[b], r, runs'[r], child'[r], starts'[r], muted') /\ starts'[r] = starts[r]
    <3>1. CASE r = w
      BY <3>1
    <3>2. CASE r # w
      BY <3>2, RecFacts, MildFits DEF Mild
    <3> QED BY <3>1, <3>2
  <2> QED BY <2>1, HarmlessFits DEF Calm
<1>3. LinesKept
  <2>1. \A r \in RunIds : Awaited(r) => InLine(runs'[r])
    BY AwaitedFacts, MildLine
  <2>2. Handlers \subseteq Actors
    BY DEF Actors
  <2> QED BY <2>1, <2>2, LinesKeep DEF Calm, QueuesFrom, Harmless
<1> QED BY <1>1, <1>2, <1>3 DEF Records, ProcsFit, LinesKept

\* No run is written.
LEMMA CalmKeeps ==
  ASSUME RecInv, Calm, QueuesFrom, \A r \in RunIds : Mild(r)
  PROVE  Records'
<1>1. RunsFit'
  BY MildFits DEF RunsFit
<1>2. ASSUME NEW b \in Actors, NEW r \in RunIds
      PROVE  Fits(b, proc'[b], r, runs'[r], child'[r], starts'[r], muted')
  <2>1. Fits(b, proc[b], r, runs'[r], child'[r], starts'[r], muted') /\ starts'[r] = starts[r]
    BY RecFacts, MildFits DEF Mild
  <2> QED BY <2>1, HarmlessFits DEF Calm
<1>3. LinesKept
  <2>1. \A r \in RunIds : Awaited(r) => InLine(runs'[r])
    BY AwaitedFacts, MildLine
  <2>2. Handlers \subseteq Actors
    BY DEF Actors
  <2> QED BY <2>1, <2>2, LinesKeep DEF Calm, QueuesFrom, Harmless
<1> QED BY <1>1, <1>2, <1>3 DEF Records, ProcsFit, LinesKept

\* Steps that touch no file and no child, of one process.
Still == UNCHANGED <<runs, child, starts, muted>>

LEMMA StillMild == ASSUME Still PROVE \A r \in RunIds : Mild(r)
  BY DEF Still, Mild

LEMMA OneCalm ==
  ASSUME RecInv, NEW a \in Actors, NEW q, Harmless(a, proc[a], q), q.pc # "stamp",
         proc' = [proc EXCEPT ![a] = q]
  PROVE  Calm
<1>1. proc \in [Actors -> ProcState]
  BY DEF RecInv, ClaimsInv, TypeInv, TypeOK
<1> QED BY <1>1 DEF Calm

LEMMA StillKeeps ==
  ASSUME RecInv, NEW a \in Actors, NEW q, Harmless(a, proc[a], q), q.pc # "stamp",
         proc' = [proc EXCEPT ![a] = q], Still, QueuesFrom
  PROVE  Records'
  BY OneCalm, StillMild, CalmKeeps

LEMMA IdleHarmless == \A b, p : Harmless(b, p, Idle) /\ Idle.pc # "stamp"
  BY DEF Harmless, Idle

\* An admission, a reap, a chain or a drain goes on, or is over.
LEMMA FollowsOn ==
  ASSUME NEW a, NEW p, NEW q, p.pc \in Following,
         q.pc \in {"idle", "newrun", "sweep", "reap", "look", "admit", "launch", "chain", "drain"},
         q.run \in {0, p.run}, \A r \in q.dead : r \in p.dead \/ starts[r] # 0
  PROVE  Harmless(a, p, q) /\ q.pc # "stamp"
  BY DEF Harmless, Following, Preparing

\* Nobody but process a launches or executes run w.
Alone(a, w) == \A b \in Actors : b # a => /\ proc[b].new # w
                                          /\ b \in Executors => proc[b].run # w

LEMMA AloneWithNew ==
  ASSUME RecInv, NEW a \in Actors, proc[a].new # 0
  PROVE  /\ Alone(a, proc[a].new) /\ (a \in Executors => proc[a].run # proc[a].new)
         /\ proc[a].pc # "enqueue" => ~Awaited(proc[a].new)
<1>1. Claims /\ Executors \subseteq Actors
  BY DEF RecInv, ClaimsInv, Actors
<1>2. Alone(a, proc[a].new) /\ (a \in Executors => proc[a].run # proc[a].new)
  BY <1>1 DEF Alone, Claims, NewApart, NewRunApart
<1>3. proc[a].pc # "enqueue" => ~Awaited(proc[a].new)
  BY <1>1 DEF Awaited, Claims, NewApart, QueueApart
<1> QED BY <1>2, <1>3

LEMMA AloneWithRun ==
  ASSUME RecInv, NEW e \in Executors, proc[e].run # 0
  PROVE  Alone(e, proc[e].run) /\ ~Awaited(proc[e].run) /\ proc[e].new # proc[e].run
<1>1. Claims /\ Executors \subseteq Actors
  BY DEF RecInv, ClaimsInv, Actors
<1>2. \A b \in Actors : proc[b].new # proc[e].run
  BY <1>1 DEF Claims, NewRunApart
<1>3. Alone(e, proc[e].run)
  BY <1>1, <1>2 DEF Alone, Claims, RunApart
<1>4. ~Awaited(proc[e].run)
  BY <1>1, <1>2 DEF Awaited, Claims, QueueApart
<1> QED BY <1>1, <1>2, <1>3, <1>4

LEMMA AloneWithNext ==
  ASSUME RecInv, made < MaxRuns, NEW a \in Actors
  PROVE  /\ Alone(a, made + 1) /\ ~Awaited(made + 1) /\ made + 1 \in RunIds
         /\ proc[a].new # made + 1 /\ proc[a].run # made + 1
         /\ starts[made + 1] = 0 /\ child[made + 1] = "none" /\ made + 1 \notin muted
         /\ \A h \in Actors : proc[h].run # made + 1
<1>1. /\ made + 1 \in RunIds
      /\ \A b \in Actors : proc[b].new # made + 1 /\ proc[b].run # made + 1
      /\ \A g \in Groups : \A i \in DOMAIN queue[g] : queue[g][i] # made + 1
  BY NextIsFree DEF RecInv
<1>2. ~(made + 1 <= made)
  BY DEF RecInv, ClaimsInv, TypeInv, TypeOK
<1>3. Unmade(made + 1)
  BY <1>1, <1>2 DEF RecInv, ClaimsInv, TypeInv, Shape, RunsOK
<1> QED BY <1>1, <1>3 DEF Alone, Awaited, Unmade

\* Run w is written by the process a that has it, or has just created it;
\* whatever else a executes, it goes on after its outcome.
LEMMA HolderWrites ==
  ASSUME RecInv, NEW a \in Actors, NEW w \in RunIds, NEW q,
         proc' = [proc EXCEPT ![a] = q], Alone(a, w), ~Awaited(w), queue' = queue,
         \A r \in RunIds : r # w => Mild(r),
         starts[w] # 0 => starts'[w] # 0, q.dead \subseteq proc[a].dead, q.new \in {0, w},
         (a \in Executors /\ q.run \notin {0, w}) =>
           (q.run = proc[a].run /\ proc[a].pc \in Following /\ q.pc \in Following),
         RecordFits(w, runs'[w], child'[w], starts'[w], muted'),
         Fits(a, q, w, runs'[w], child'[w], starts'[w], muted'),
         q.pc = "stamp" => q = proc[a],
         q.pc \in {"record", "enqueue"} =>
           \/ q.new = proc[a].new /\ proc[a].pc \in {"record", "enqueue"}
           \/ q.new = made + 1
  PROVE  Records'
<1>1. proc \in [Actors -> ProcState]
  BY DEF RecInv, ClaimsInv, TypeInv, TypeOK
<1>2. proc'[a] = q /\ \A b \in Actors : b # a => proc'[b] = proc[b]
  BY <1>1
<1>3. \A b \in Actors : b # a => Fits(b, proc[b], w, runs'[w], child'[w], starts'[w], muted')
  <2> SUFFICES ASSUME NEW b \in Actors, b # a
               PROVE  Fits(b, proc[b], w, runs'[w], child'[w], starts'[w], muted')
    OBVIOUS
  <2>1. w \in proc[b].dead => starts'[w] # 0
    BY RecFacts DEF Fits
  <2> QED BY <2>1, StrangerFits DEF Alone
<1>4. ASSUME NEW r \in RunIds, r # w
      PROVE  Fits(a, q, r, runs[r], child[r], starts[r], muted)
  <2>1. Fits(a, proc[a], r, runs[r], child[r], starts[r], muted) /\ r # 0
    BY RecFacts
  <2>2. r \in q.dead => starts[r] # 0
    BY <2>1 DEF Fits
  <2>3. \A x \in Following : x \notin {"pid", "wait", "finish"} /\ x \notin Preparing
    BY DEF Following, Preparing
  <2> QED BY <1>4, <2>1, <2>2, <2>3, MoveFits
<1>5. RunsKept
  BY <1>2, <1>3, <1>4, WriteKeeps
<1>6. LinesKept
  <2>1. \A r \in RunIds : Awaited(r) => InLine(runs'[r])
    BY AwaitedFacts, MildLine
  <2>2. Handlers \subseteq Actors
    BY DEF Actors
  <2>3. QueuesFrom
    BY SameQueues
  <2> QED BY <1>2, <2>1, <2>2, <2>3, LinesKeep DEF QueuesFrom
<1> QED BY <1>5, <1>6 DEF Records, RunsKept, LinesKept

\* A process hands run n to an executor that was idle.
LEMMA HandsOn ==
  ASSUME RecInv, NEW a \in Actors, NEW e \in Executors,
         proc[a].pc \in {"spawn", "launch"}, proc[e].pc = "idle",
         Undecided(runs[proc[a].new]), Harmless(a, proc[a], proc'[a]),
         proc'[a].pc # "stamp", \E j : proc'[e] = Started(j, proc[a].new),
         \A b \in Actors : b \notin {a, e} => proc'[b] = proc[b],
         Still, queue' = queue
  PROVE  Records'
<1> DEFINE n == proc[a].new
           p == proc'[a]
           q == proc'[e]
<1>1. proc \in [Actors -> ProcState] /\ Executors \subseteq Actors
  BY DEF RecInv, ClaimsInv, TypeInv, TypeOK, Actors
<1>2. n \in RunIds /\ n # 0 /\ starts[n] = 0
  <2>1. n \in 1 .. made /\ n \in RunIds
    BY RunFacts DEF RecInv, ClaimsInv, LaunchPcs
  <2>2. n # 0
    BY <2>1, RecFacts
  <2> QED BY <2>1, <2>2 DEF RecInv, ClaimsInv, Claims, NewFresh
<1>3. /\ q.pc = "start" /\ q.new = 0 /\ q.run = n /\ q.dead = {}
  BY DEF Started, Idle
<1>4. /\ proc'[e] = q /\ (a # e => proc'[a] = p)
      /\ \A b \in Actors : b \notin {a, e} => proc'[b] = proc[b]
  OBVIOUS
<1>5. a # e
  OBVIOUS
<1> HIDE DEF p, q
<1>6. ASSUME NEW r \in RunIds PROVE Fits(e, q, r, runs[r], child[r], starts[r], muted)
  <2>1. CASE r # n
    BY <1>3, <2>1, StrangerFits, RecFacts
  <2>2. CASE r = n
    <3>1. child[n] # "alive" /\ n \notin muted
      BY <1>2, RecFacts DEF RecordFits
    <3> QED BY <1>3, <2>2, <3>1 DEF Fits, Preparing, Following
  <2> QED BY <2>1, <2>2
<1>7. ASSUME NEW b \in Actors, NEW r \in RunIds
      PROVE  Fits(b, proc'[b], r, runs'[r], child'[r], starts'[r], muted')
  <2>1. Fits(b, proc'[b], r, runs[r], child[r], starts[r], muted)
    <3>1. CASE b = e
      BY <1>4, <1>6, <3>1
    <3>2. CASE b # e
      BY <1>4, <1>5, <3>2, RecFacts, HarmlessFits
    <3> QED BY <3>1, <3>2
  <2> QED BY <2>1 DEF Still
<1>8. RunsFit'
  BY DEF RunsFit, Still, RecInv, Records
<1>9. LinesKept
  <2>1. \A r \in RunIds : Awaited(r) => InLine(runs'[r])
    BY AwaitedFacts DEF Still
  <2>2. Handlers \subseteq Actors
    BY DEF Actors
  <2>3. QueuesFrom
    BY SameQueues
  <2> QED BY <1>3, <1>4, <1>5, <2>1, <2>2, <2>3, LinesKeep DEF QueuesFrom, Harmless
<1> QED BY <1>7, <1>8, <1>9 DEF Records, ProcsFit, LinesKept

-----------------------------------------------------------------------------
(* Steps. *)

LEMMA Actor ==
  ASSUME RecInv, NEW a \in Actors
  PROVE  /\ TypeInv /\ proc \in [Actors -> ProcState] /\ proc[a] \in ProcState
         /\ ProcShape(proc[a], made) /\ made \in 0 .. MaxRuns
         /\ runs \in [RunIds -> Record] /\ child \in [RunIds -> {"none", "alive", "zero", "nonzero"}]
  BY DEF RecInv, ClaimsInv, TypeInv, TypeOK, Shape, ProcsOK

LEMMA ListedStarted ==
  ASSUME RecInv, NEW o
  PROVE  \A r \in Stranded(o) : starts[r] # 0
<1>1. made \in 0 .. MaxRuns
  BY DEF RecInv, ClaimsInv, TypeInv, TypeOK
<1>2. \A r \in 1 .. made : r \in RunIds
  BY <1>1, Ranges
<1> QED BY <1>2, RecFacts DEF Stranded, RunsOf, RecordFits

LEMMA SweepRecords ==
  ASSUME RecInv, NEW a \in Actors,
         \/ SweepEnd(a) \/ LookAfterReap(a)
         \/ \E o \in Jobs : SweepLook(a, o) \/ SweepList(a, o)
  PROVE  Records'
<1>1. /\ Sweeping(proc[a]) /\ proc[a].new = 0 /\ proc[a].fire \in Jobs /\ proc[a].pc # "idle"
      /\ proc[a].pc \in Following
  BY Actor, ProcFacts DEF SweepEnd, LookAfterReap, SweepLook, SweepList, Sweeping,
       LaunchPcs, ProcShape, Following
<1>2. Still /\ QueuesFrom
  BY SameQueues DEF SweepEnd, LookAfterReap, SweepLook, SweepList, Still, seen
<1>3. CASE SweepEnd(a)
  <2>1. /\ Decided(a, FALSE).pc \in {"admit", "newrun"}
        /\ Decided(a, FALSE).run = proc[a].run /\ Decided(a, FALSE).dead = proc[a].dead
    BY <1>1, Actor, DecidedType
  <2>2. proc' = [proc EXCEPT ![a] = Decided(a, FALSE)]
    BY <1>3 DEF SweepEnd
  <2>3. Harmless(a, proc[a], Decided(a, FALSE)) /\ Decided(a, FALSE).pc # "stamp"
    BY <1>1, <2>1, FollowsOn
  <2> QED BY <1>2, <2>2, <2>3, StillKeeps
<1>4. ASSUME NEW o \in Jobs, proc' = [proc EXCEPT ![a] = Looked(a, o)]
      PROVE  Records'
  <2>1. /\ Looked(a, o).pc \in {"sweep", "admit", "newrun"}
        /\ Looked(a, o).run = proc[a].run /\ Looked(a, o).dead = proc[a].dead
    BY <1>1, Actor, LookedType
  <2>2. Harmless(a, proc[a], Looked(a, o)) /\ Looked(a, o).pc # "stamp"
    BY <1>1, <2>1, FollowsOn
  <2> QED BY <1>2, <1>4, <2>2, StillKeeps
<1>5. CASE LookAfterReap(a)
  <2>1. proc[a].at \in Jobs
    BY <1>1, Actor DEF ProcShape
  <2> QED BY <1>4, <1>5, <2>1 DEF LookAfterReap
<1>6. ASSUME NEW o \in Jobs, SweepList(a, o) PROVE Records'
  <2> DEFINE q == [proc[a] EXCEPT !.pc = "reap", !.at = o, !.dead = Stranded(o)]
  <2>1. q.pc = "reap" /\ q.run = proc[a].run /\ q.dead = Stranded(o)
    BY Actor DEF ProcState
  <2>2. proc' = [proc EXCEPT ![a] = q]
    BY <1>6 DEF SweepList
  <2> HIDE DEF q
  <2>3. Harmless(a, proc[a], q) /\ q.pc # "stamp"
    BY <1>1, <2>1, ListedStarted, FollowsOn
  <2> QED BY <1>2, <2>2, <2>3, StillKeeps
<1> QED BY <1>3, <1>4, <1>5, <1>6 DEF SweepLook

LEMMA ReapRecords ==
  ASSUME RecInv, NEW a \in Actors, NEW r \in RunIds, ReapOne(a, r)
  PROVE  Records'
<1> DEFINE left == proc[a].dead \ {r}
           hit == proc[a].hit \/ child[r] # "alive"
           going == [proc[a] EXCEPT !.dead = left, !.hit = hit]
           looking == [proc[a] EXCEPT !.dead = {}, !.hit = FALSE, !.pc = "look"]
           draining == [proc[a] EXCEPT !.dead = {}, !.pc = "drain"]
<1>1. proc[a] \in ProcState /\ proc[a].pc = "reap" /\ r \in proc[a].dead
  BY Actor DEF ReapOne
<1>2. PICK q \in {going, looking, draining, Idle} : proc' = [proc EXCEPT ![a] = q]
  BY DEF ReapOne
<1>3. q.pc \in {"reap", "look", "drain", "idle"} /\ q.run \in {0, proc[a].run}
      /\ q.dead \subseteq proc[a].dead
  <2>1. going.dead \subseteq proc[a].dead /\ going.run = proc[a].run /\ going.pc = "reap"
    BY <1>1 DEF ProcState
  <2>2. looking.dead = {} /\ looking.run = proc[a].run /\ looking.pc = "look"
    BY <1>1 DEF ProcState
  <2>3. draining.dead = {} /\ draining.run = proc[a].run /\ draining.pc = "drain"
    BY <1>1 DEF ProcState
  <2>4. Idle.dead = {} /\ Idle.run = 0 /\ Idle.pc = "idle"
    BY DEF Idle
  <2> HIDE DEF going, looking, draining
  <2> QED BY <2>1, <2>2, <2>3, <2>4
<1> HIDE DEF going, looking, draining
<1>4. Harmless(a, proc[a], q) /\ q.pc # "stamp"
  BY <1>1, <1>3, FollowsOn DEF Following
<1>5. Calm /\ QueuesFrom
  BY <1>2, <1>4, OneCalm, SameQueues DEF ReapOne
<1>6. CASE child[r] = "alive"
  <2>1. Still
    BY <1>6 DEF ReapOne, Still, seen
  <2> QED BY <1>5, <2>1, StillMild, CalmKeeps
<1>7. CASE child[r] # "alive"
  <2>1. /\ runs' = [runs EXCEPT ![r] = ReapStamped(runs[r])]
        /\ UNCHANGED <<child, starts, muted>>
    BY <1>7 DEF ReapOne, seen
  <2>2. runs'[r] = ReapStamped(runs[r]) /\ \A s \in RunIds : s # r => Mild(s)
    BY <2>1, Actor DEF Mild
  <2>3. starts[r] # 0
    BY <1>1, RecFacts DEF Fits
  <2>4. RecordFits(r, runs'[r], child'[r], starts'[r], muted')
    BY <1>7, <2>1, <2>2, RecFacts, ReapRecordFits
  <2>5. ASSUME NEW b \in Actors
        PROVE  Fits(b, proc[b], r, runs'[r], child'[r], starts'[r], muted')
    <3>1. /\ proc[b].new = r => starts[r] = 0
          /\ (b \in Executors /\ proc[b].run = r /\ proc[b].pc \in Preparing) => starts[r] = 0
      BY RecFacts DEF RecInv, ClaimsInv, Claims, NewFresh, RunFresh
    <3> QED BY <2>1, <2>2, <2>3, <3>1, RecFacts, ReapFits
  <2>6. ~Awaited(r)
    BY <2>3, AwaitedFacts
  <2> QED BY <1>5, <2>1, <2>2, <2>4, <2>5, <2>6, CalmWrites
<1> QED BY <1>6, <1>7

LEMMA AdmittedCalm ==
  ASSUME RecInv, NEW a \in Actors, proc[a].pc \in {"record", "enqueue", "spawn"}
  PROVE  /\ Admitted(a).pc \in {"idle", "chain", "drain"} /\ Admitted(a).new = 0
         /\ Admitted(a).run \in {0, proc[a].run} /\ Admitted(a).dead \subseteq proc[a].dead
         /\ Admitted(a).pc = "idle" => Admitted(a).run = 0
         /\ Harmless(a, proc[a], Admitted(a)) /\ Admitted(a).pc # "stamp"
<1>1. /\ Admitted(a).pc \in {"idle", "chain", "drain"} /\ Admitted(a).new = 0
      /\ Admitted(a).pc = "idle" => Admitted(a).run = 0
      /\ Admitted(a).run \in {0, proc[a].run} /\ Admitted(a).dead \subseteq proc[a].dead
  <2>1. \/ Admitted(a) = Idle
        \/ /\ Admitted(a).pc \in {"chain", "drain"} /\ Admitted(a).run = proc[a].run
           /\ Admitted(a).new = 0 /\ Admitted(a).dead = proc[a].dead
    BY Actor, AdmittedType
  <2> QED BY <2>1 DEF Idle
<1> QED BY <1>1, FollowsOn DEF Following

\* A launching process's run, which it alone has.
LEMMA NewRun ==
  ASSUME RecInv, NEW a \in Actors, proc[a].pc \in LaunchPcs
  PROVE  LET w == proc[a].new
         IN /\ w \in RunIds /\ w # 0 /\ runs[w] \in Record
            /\ starts[w] = 0 /\ child[w] = "none" /\ w \notin muted
            /\ w \notin proc[a].dead /\ Alone(a, w) /\ (a \in Executors => proc[a].run # w)
            /\ proc[a].pc # "enqueue" => ~Awaited(w)
            /\ RecordFits(w, runs[w], child[w], starts[w], muted)
            /\ Fits(a, proc[a], w, runs[w], child[w], starts[w], muted)
<1> DEFINE w == proc[a].new
<1>1. w \in RunIds
  BY RunFacts DEF RecInv, ClaimsInv
<1>2. w # 0 /\ runs[w] \in Record /\ RecordFits(w, runs[w], child[w], starts[w], muted)
      /\ Fits(a, proc[a], w, runs[w], child[w], starts[w], muted)
  BY <1>1, RecFacts
<1>3. starts[w] = 0
  BY <1>2 DEF RecInv, ClaimsInv, Claims, NewFresh
<1>4. child[w] = "none" /\ w \notin muted /\ w \notin proc[a].dead
  BY <1>2, <1>3 DEF RecordFits, Fits
<1>5. Alone(a, w) /\ (a \in Executors => proc[a].run # w) /\ (proc[a].pc # "enqueue" => ~Awaited(w))
  BY <1>2, AloneWithNew
<1> QED BY <1>1, <1>2, <1>3, <1>4, <1>5

LEMMA MakeRunDirRecords ==
  ASSUME RecInv, NEW a \in Actors, MakeRunDir(a)
  PROVE  Records'
<1> DEFINE w == made + 1
           q == [proc[a] EXCEPT !.pc = "record", !.new = w]
<1>1. /\ proc[a].pc = "admit" /\ made < MaxRuns /\ queue' = queue
      /\ runs' = [runs EXCEPT ![w] = NewDir(proc[a].fire)]
      /\ proc' = [proc EXCEPT ![a] = q] /\ UNCHANGED <<child, starts, muted>>
  BY DEF MakeRunDir, seen
<1>2. q.pc = "record" /\ q.new = w /\ q.run = proc[a].run /\ q.dead = proc[a].dead
  BY Actor DEF ProcState
<1> HIDE DEF q
<1>3. /\ Alone(a, w) /\ ~Awaited(w) /\ w \in RunIds /\ proc[a].run # w
      /\ starts[w] = 0 /\ child[w] = "none" /\ w \notin muted
  BY <1>1, AloneWithNext
<1>4. w \notin proc[a].dead
  BY <1>3, RecFacts DEF Fits
<1> HIDE DEF w
<1>5. runs'[w] = NewDir(proc[a].fire) /\ \A r \in RunIds : r # w => Mild(r)
  BY <1>1, <1>3, Actor DEF Mild
<1>6. /\ Unwritten(runs'[w]) /\ runs'[w].dir /\ ~runs'[w].killed /\ ~runs'[w].pid
      /\ runs'[w].status = "none"
  BY <1>5, BlankFields DEF Unwritten
<1>7. RecordFits(w, runs'[w], child'[w], starts'[w], muted')
  BY <1>1, <1>3, <1>6 DEF RecordFits
<1>8. Fits(a, q, w, runs'[w], child'[w], starts'[w], muted')
  BY <1>1, <1>2, <1>3, <1>4, <1>6 DEF Fits
<1>9. proc[a].pc \in Following /\ q.pc \in Following
  BY <1>1, <1>2 DEF Following
<1> QED BY <1>1, <1>2, <1>3, <1>5, <1>7, <1>8, <1>9, HolderWrites DEF w

LEMMA RecordFireRecords ==
  ASSUME RecInv, NEW a \in Actors, RecordFire(a)
  PROVE  Records'
<1> DEFINE w == proc[a].new
           status == IF proc[a].mode = "dry_check" THEN "dry_run"
                     ELSE IF proc[a].held THEN "queued" ELSE "pending"
           s == Stamped(runs[w], status, runs[w].exit)
           x == [s EXCEPT !.dry = (proc[a].mode # "run")]
           go == [proc[a] EXCEPT !.pc = IF proc[a].held THEN "enqueue" ELSE "spawn"]
           q == IF proc[a].mode = "dry_check" THEN Idle ELSE go
<1>1. /\ proc[a].pc = "record" /\ runs' = [runs EXCEPT ![w] = x] /\ queue' = queue
      /\ proc' = [proc EXCEPT ![a] = q] /\ UNCHANGED <<child, starts, muted>>
  BY DEF RecordFire, seen
<1>2. /\ w \in RunIds /\ w # 0 /\ runs[w] \in Record
      /\ starts[w] = 0 /\ child[w] = "none" /\ w \notin muted /\ w \notin proc[a].dead
      /\ Alone(a, w) /\ (a \in Executors => proc[a].run # w) /\ ~Awaited(w)
      /\ RecordFits(w, runs[w], child[w], starts[w], muted)
      /\ Fits(a, proc[a], w, runs[w], child[w], starts[w], muted)
  BY <1>1, NewRun DEF LaunchPcs
<1>3. ~runs[w].killed
  BY <1>1, <1>2 DEF Fits, Unwritten
<1>4. x.dir /\ ~x.killed /\ ~x.pid /\ x.status = status
  <2>1. s.dir /\ ~s.killed /\ s.status = status /\ s.pid = runs[w].pid
    BY <1>2, <1>3, StampedFields
  <2>2. s \in Record
    <3>1. status \in Statuses /\ runs[w].exit \in {"none", "own", "kill"}
      BY <1>2 DEF Statuses, Record
    <3> QED BY <1>2, <3>1, StampedType
  <2>3. x.dir = s.dir /\ x.killed = s.killed /\ x.pid = s.pid /\ x.status = s.status
    BY <2>2 DEF Record
  <2>4. ~runs[w].pid
    BY <1>2 DEF RecordFits
  <2> HIDE DEF x, s
  <2> QED BY <2>1, <2>3, <2>4
<1>5. /\ q.dead \subseteq proc[a].dead /\ q.new \in {0, w} /\ q.run \in {0, proc[a].run}
      /\ q.pc \in {"idle", "enqueue", "spawn"}
      /\ q.pc = "enqueue" => status = "queued"
      /\ q.pc = "spawn" => status = "pending"
      /\ q.pc = "enqueue" => q.new = w
      /\ q.pc = "idle" => q.run = 0
  <2>1. go.dead = proc[a].dead /\ go.new = w /\ go.run = proc[a].run
        /\ go.pc = IF proc[a].held THEN "enqueue" ELSE "spawn"
    BY Actor DEF ProcState
  <2>2. Idle.dead = {} /\ Idle.new = 0 /\ Idle.run = 0 /\ Idle.pc = "idle"
    BY DEF Idle
  <2> HIDE DEF go
  <2> QED BY <2>1, <2>2
<1> HIDE DEF q, x, status
<1>6. runs'[w] = x /\ \A r \in RunIds : r # w => Mild(r)
  BY <1>1, <1>2, Actor DEF Mild
<1>7. RecordFits(w, runs'[w], child'[w], starts'[w], muted')
  BY <1>1, <1>2, <1>4, <1>6 DEF RecordFits, status
<1>8. Fits(a, q, w, runs'[w], child'[w], starts'[w], muted')
  <2>1. q.pc = "enqueue" => InLine(x)
    BY <1>4, <1>5 DEF InLine
  <2>2. q.pc = "spawn" => Undecided(x)
    BY <1>4, <1>5 DEF Undecided
  <2> QED BY <1>1, <1>2, <1>5, <1>6, <2>1, <2>2 DEF Fits
<1>9. (a \in Executors /\ q.run \notin {0, w}) =>
        (q.run = proc[a].run /\ proc[a].pc \in Following /\ q.pc \in Following)
  BY <1>1, <1>5 DEF Following
<1> HIDE DEF w
<1> QED BY <1>1, <1>2, <1>5, <1>6, <1>7, <1>8, <1>9, HolderWrites DEF w

LEMMA SpawnFailsRecords ==
  ASSUME RecInv, NEW a \in Actors, SpawnFails(a)
  PROVE  Records'
<1> DEFINE w == proc[a].new
           x == Stamped(runs[w], "failed", "own")
           q == Admitted(a)
<1>1. /\ proc[a].pc = "spawn" /\ runs' = [runs EXCEPT ![w] = x] /\ queue' = queue
      /\ proc' = [proc EXCEPT ![a] = q] /\ UNCHANGED <<child, starts, muted>>
  BY DEF SpawnFails, seen
<1>2. /\ w \in RunIds /\ w # 0 /\ runs[w] \in Record
      /\ starts[w] = 0 /\ child[w] = "none" /\ w \notin muted /\ w \notin proc[a].dead
      /\ Alone(a, w) /\ (a \in Executors => proc[a].run # w) /\ ~Awaited(w)
      /\ RecordFits(w, runs[w], child[w], starts[w], muted)
  BY <1>1, NewRun DEF LaunchPcs
<1>3. /\ q.pc \in {"idle", "chain", "drain"} /\ q.new = 0
      /\ q.run \in {0, proc[a].run} /\ q.dead \subseteq proc[a].dead
      /\ q.pc = "idle" => q.run = 0
  BY <1>1, AdmittedCalm
<1>4. RecordFits(w, x, child[w], starts[w], muted)
  BY <1>2, StampedRecordFits
<1> HIDE DEF q, x
<1>5. runs'[w] = x /\ \A r \in RunIds : r # w => Mild(r)
  BY <1>1, <1>2, Actor DEF Mild
<1>6. Fits(a, q, w, x, child[w], starts[w], muted)
  BY <1>2, <1>3, StrangerFits
<1>7. (a \in Executors /\ q.run \notin {0, w}) =>
        (q.run = proc[a].run /\ proc[a].pc \in Following /\ q.pc \in Following)
  BY <1>1, <1>3 DEF Following
<1> HIDE DEF w
<1> QED BY <1>1, <1>2, <1>3, <1>4, <1>5, <1>6, <1>7, HolderWrites

LEMMA EnqueueRecords ==
  ASSUME RecInv, NEW a \in Actors, Enqueue(a)
  PROVE  Records'
<1> DEFINE n == proc[a].new
           h == Group[proc[a].fire]
<1>1. /\ proc[a].pc = "enqueue" /\ queue' = [queue EXCEPT ![h] = Append(@, n)]
      /\ proc' = [proc EXCEPT ![a] = Admitted(a)] /\ Still
  BY DEF Enqueue, Still, seen
<1>2. n \in RunIds
  BY <1>1, NewRun DEF LaunchPcs
<1>3. QueuesFrom
  <2> SUFFICES ASSUME NEW g \in Groups, NEW i \in DOMAIN queue'[g]
               PROVE  Awaited(queue'[g][i])
    BY DEF QueuesFrom
  <2>1. queue \in [Groups -> Seq(RunIds)]
    BY DEF RecInv, ClaimsInv, TypeInv, TypeOK
  <2>2. CASE g = h
    <3>1. i \in DOMAIN Append(queue[g], n) /\ queue'[g][i] = Append(queue[g], n)[i]
      BY <1>1, <2>1, <2>2
    <3>2. \/ i \in DOMAIN queue[g] /\ queue'[g][i] = queue[g][i]
          \/ queue'[g][i] = n
      BY <1>2, <2>1, <3>1, AppendFacts
    <3> QED BY <1>1, <3>2 DEF Awaited
  <2>3. CASE g # h
    <3>1. queue'[g] = queue[g]
      BY <1>1, <2>1, <2>3
    <3> QED BY <3>1 DEF Awaited
  <2> QED BY <2>2, <2>3
<1> QED BY <1>1, <1>3, AdmittedCalm, StillKeeps

LEMMA SpawnRecords ==
  ASSUME RecInv, NEW a \in Actors, Spawn(a)
  PROVE  Records'
<1>1. PICK e \in Executors :
        /\ proc[e].pc = "idle"
        /\ proc' = [proc EXCEPT ![a] = Admitted(a), ![e] = Started(proc[a].fire, proc[a].new)]
  BY DEF Spawn
<1>2. proc[a].pc = "spawn" /\ Still /\ queue' = queue
  BY DEF Spawn, Still, seen
<1>3. Undecided(runs[proc[a].new])
  BY <1>2, NewRun DEF LaunchPcs, Fits
<1>4. /\ proc'[a] = Admitted(a) /\ proc'[e] = Started(proc[a].fire, proc[a].new)
      /\ \A b \in Actors : b \notin {a, e} => proc'[b] = proc[b]
  BY <1>1, <1>2, Actor DEF Actors
<1>5. Harmless(a, proc[a], proc'[a]) /\ proc'[a].pc # "stamp"
  BY <1>2, <1>4, AdmittedCalm
<1> QED BY <1>1, <1>2, <1>3, <1>4, <1>5, HandsOn

LEMMA DrainRecords ==
  ASSUME RecInv, NEW a \in Actors, DrainPop(a) \/ LaunchSkip(a) \/ Launch(a) \/ LaunchFails(a)
  PROVE  Records'
<1>1. Still /\ proc[a].pc \in {"drain", "launch"}
  BY DEF DrainPop, LaunchSkip, Launch, LaunchFails, Still, seen
<1>2. CASE LaunchSkip(a) \/ LaunchFails(a)
  <2>1. proc' = [proc EXCEPT ![a] = Idle] /\ QueuesFrom
    BY <1>2, SameQueues DEF LaunchSkip, LaunchFails
  <2> QED BY <1>1, <2>1, IdleHarmless, StillKeeps
<1>3. CASE Launch(a)
  <2>1. PICK e \in Executors :
          /\ proc[e].pc = "idle"
          /\ proc' = [proc EXCEPT ![a] = Idle,
                                  ![e] = Started(runs[proc[a].new].job, proc[a].new)]
    BY <1>3 DEF Launch
  <2>2. proc[a].pc = "launch" /\ queue' = queue /\ Undecided(runs[proc[a].new])
    BY <1>3 DEF Launch, Undecided
  <2>3. /\ proc'[a] = Idle /\ proc'[e] = Started(runs[proc[a].new].job, proc[a].new)
        /\ \A b \in Actors : b \notin {a, e} => proc'[b] = proc[b]
    BY <2>1, <2>2, Actor DEF Actors
  <2>4. Harmless(a, proc[a], proc'[a]) /\ proc'[a].pc # "stamp"
    BY <2>3, IdleHarmless
  <2> QED BY <1>1, <2>1, <2>2, <2>3, <2>4, HandsOn
<1>4. CASE DrainPop(a)
  <2> DEFINE g == Group[proc[a].job]
             n == Head(queue[g])
             p == [proc[a] EXCEPT !.pc = "launch", !.new = n]
  <2>1. CASE g = NoGroup \/ queue[g] = << >>
    <3>1. proc' = [proc EXCEPT ![a] = Idle] /\ QueuesFrom
      BY <1>4, <2>1, SameQueues DEF DrainPop
    <3> QED BY <1>1, <3>1, IdleHarmless, StillKeeps
  <2>2. CASE ~(g = NoGroup \/ queue[g] = << >>)
    <3>1. /\ proc' = [proc EXCEPT ![a] = p] /\ queue' = [queue EXCEPT ![g] = Tail(@)]
      BY <1>4, <2>2 DEF DrainPop
    <3>2. g \in Groups
      BY <1>4, <2>2, ProcFacts, GroupAssumption DEF RecInv, ClaimsInv, DrainPop
    <3>3. p.run = proc[a].run /\ p.pc = "launch" /\ p.dead = proc[a].dead
      BY Actor DEF ProcState
    <3> HIDE DEF p, g
    <3>4. queue \in [Groups -> Seq(RunIds)]
      BY DEF RecInv, ClaimsInv, TypeInv, TypeOK
    <3>5. \A i \in DOMAIN Tail(queue[g]) :
            i + 1 \in DOMAIN queue[g] /\ Tail(queue[g])[i] = queue[g][i + 1]
      BY <2>2, <3>2, <3>4, TailFacts
    <3>6. /\ queue'[g] = Tail(queue[g])
          /\ \A h \in Groups : h # g => queue'[h] = queue[h]
      BY <3>1, <3>2, <3>4
    <3>7. QueuesFrom
      <4> SUFFICES ASSUME NEW h \in Groups, NEW i \in DOMAIN queue'[h]
                   PROVE  \E k \in DOMAIN queue[h] : queue[h][k] = queue'[h][i]
        BY DEF QueuesFrom, Awaited
      <4>1. CASE h = g
        BY <3>5, <3>6, <4>1
      <4>2. CASE h # g
        BY <3>6, <4>2
      <4> QED BY <4>1, <4>2
    <3>8. Harmless(a, proc[a], p) /\ p.pc # "stamp"
      BY <1>1, <3>3, FollowsOn DEF Following
    <3> QED BY <1>1, <3>1, <3>7, <3>8, StillKeeps
  <2> QED BY <2>1, <2>2
<1> QED BY <1>2, <1>3, <1>4

-----------------------------------------------------------------------------
(* Pruning. *)

LEMMA PrunedFits ==
  ASSUME NEW r, NEW rec, NEW rec2, NEW kid, NEW n, NEW hush, NEW hush2,
         r \in hush2 => r \in hush,
         rec2 = rec \/ (r \notin hush2 /\ \E j \in Jobs : rec2 = Blank(j))
  PROVE  /\ RecordFits(r, rec, kid, n, hush) => RecordFits(r, rec2, kid, n, hush2)
         /\ \A b, p : Fits(b, p, r, rec, kid, n, hush) => Fits(b, p, r, rec2, kid, n, hush2)
<1>1. CASE rec2 = rec
  BY <1>1, FewerFit
<1>2. CASE r \notin hush2 /\ \E j \in Jobs : rec2 = Blank(j)
  <2>1. RecordFits(r, rec, kid, n, hush) => RecordFits(r, rec2, kid, n, hush2)
    BY <1>2, BlankRecordFits
  <2>2. \A b, p : Fits(b, p, r, rec, kid, n, hush) => Fits(b, p, r, rec2, kid, n, hush2)
    BY <1>2, BlankFits
  <2> QED BY <2>1, <2>2
<1> QED BY <1>1, <1>2

\* A write to w with a prune of the directories of j after it.
LEMMA PruneFits ==
  ASSUME RecInv, NEW w \in RunIds, NEW x \in Record, NEW j \in Jobs,
         runs' = Pruned(j, [runs EXCEPT ![w] = x]), muted' = {r \in muted : runs'[r].dir},
         UNCHANGED <<child, starts>>
  PROVE  /\ \A r \in RunIds : r # w => Mild(r)
         /\ \/ runs'[w] = x
            \/ \E i \in Jobs : runs'[w] = Blank(i)
         /\ RecordFits(w, x, child[w], starts[w], muted)
              => RecordFits(w, runs'[w], child[w], starts[w], muted')
         /\ \A b, p : Fits(b, p, w, x, child[w], starts[w], muted)
                        => Fits(b, p, w, runs'[w], child[w], starts[w], muted')
<1> DEFINE rs == [runs EXCEPT ![w] = x]
<1>1. rs \in [RunIds -> Record] /\ rs[w] = x /\ \A r \in RunIds : r # w => rs[r] = runs[r]
  BY DEF RecInv, ClaimsInv, TypeInv, TypeOK
<1>2. j \in 0 .. NumJobs
  BY Ranges
<1> HIDE DEF rs
<1>3. \A r \in RunIds : runs'[r] = rs[r] \/ runs'[r] = Blank(j)
  BY <1>1, <1>2, PrunedType DEF rs
<1>4. \A r \in RunIds : runs'[r] = Blank(j) => r \notin muted'
  BY BlankFields
<1>5. \A r : r \in muted' => r \in muted
  OBVIOUS
<1>6. \A r \in RunIds : r # w => Mild(r)
  BY <1>1, <1>3, <1>4, <1>5 DEF Mild
<1>7. runs'[w] = x \/ (runs'[w] = Blank(j) /\ w \notin muted')
  BY <1>1, <1>3, <1>4
<1>8. /\ RecordFits(w, x, child[w], starts[w], muted)
           => RecordFits(w, runs'[w], child[w], starts[w], muted')
      /\ \A b, p : Fits(b, p, w, x, child[w], starts[w], muted)
                     => Fits(b, p, w, runs'[w], child[w], starts[w], muted')
  BY <1>5, <1>7, PrunedFits
<1> QED BY <1>6, <1>7, <1>8

-----------------------------------------------------------------------------
(* The executor. *)

\* An executor's own run, which it alone has.
LEMMA OwnRun ==
  ASSUME RecInv, NEW e \in Executors, proc[e].pc \in OwnPcs
  PROVE  LET w == proc[e].run
         IN /\ e \in Actors /\ w \in RunIds /\ w # 0 /\ runs[w] \in Record /\ proc[e].new = 0
            /\ Alone(e, w) /\ ~Awaited(w)
            /\ proc[e].pc \in Preparing => (starts[w] = 0 /\ child[w] = "none" /\ w \notin muted)
            /\ RecordFits(w, runs[w], child[w], starts[w], muted)
            /\ Fits(e, proc[e], w, runs[w], child[w], starts[w], muted)
<1> DEFINE w == proc[e].run
<1>1. e \in Actors
  BY DEF Actors
<1>2. w \in RunIds
  BY <1>1, RunFacts DEF RecInv, ClaimsInv
<1>3. w # 0 /\ runs[w] \in Record /\ RecordFits(w, runs[w], child[w], starts[w], muted)
      /\ Fits(e, proc[e], w, runs[w], child[w], starts[w], muted)
  BY <1>1, <1>2, RecFacts
<1>4. proc[e].pc \in Preparing => starts[w] = 0
  BY <1>3 DEF RecInv, ClaimsInv, Claims, RunFresh
<1>5. starts[w] = 0 => (child[w] = "none" /\ w \notin muted)
  BY <1>3 DEF RecordFits
<1>6. proc[e].new = 0
  BY <1>1, ProcFacts DEF RecInv, ClaimsInv, OwnPcs, LaunchPcs
<1> QED BY <1>1, <1>2, <1>3, <1>4, <1>5, <1>6, AloneWithRun

LEMMA ExecStartRecords ==
  ASSUME RecInv, NEW e \in Executors, ExecUnknownJob(e) \/ ExecStart(e)
  PROVE  Records'
<1>1. e \in Actors /\ proc[e].pc = "start" /\ Still /\ QueuesFrom
  BY SameQueues DEF ExecUnknownJob, ExecStart, Actors, Still, seen
<1>2. CASE ExecUnknownJob(e)
  <2>1. proc' = [proc EXCEPT ![e] = Idle]
    BY <1>2 DEF ExecUnknownJob
  <2> QED BY <1>1, <2>1, IdleHarmless, StillKeeps
<1>3. CASE ExecStart(e)
  <2> DEFINE p == [proc[e] EXCEPT !.cfg = registry]
             q == Admitting(p, proc[e].job)
             building == [proc[e] EXCEPT !.pc = "build"]
             creating == [proc[e] EXCEPT !.pc = "newrun"]
  <2>1. \/ proc[e].run # 0 /\ proc' = [proc EXCEPT ![e] = building]
        \/ proc[e].run = 0 /\ proc' = [proc EXCEPT ![e] = creating]
        \/ proc[e].run = 0 /\ proc' = [proc EXCEPT ![e] = q]
    BY <1>3 DEF ExecStart
  <2>2. /\ building.run = proc[e].run /\ building.pc = "build" /\ building.dead = proc[e].dead
        /\ creating.run = proc[e].run /\ creating.pc = "newrun" /\ creating.dead = proc[e].dead
    BY <1>1, Actor DEF ProcState
  <2>3. q.run = proc[e].run /\ q.pc \in {"sweep", "admit"} /\ q.dead = proc[e].dead
    <3>1. p \in ProcState
      BY <1>1, Actor, ZenonT(40) DEF ProcState, TypeInv, TypeOK
    <3>2. p.dead = proc[e].dead /\ p.run = proc[e].run
      BY <1>1, Actor DEF ProcState
    <3> HIDE DEF p
    <3> QED BY <3>1, <3>2, AdmittingFields
  <2> HIDE DEF q, building, creating
  <2>4. CASE proc[e].run # 0 /\ proc' = [proc EXCEPT ![e] = building]
    <3>1. Harmless(e, proc[e], building) /\ building.pc # "stamp"
      BY <1>1, <2>2 DEF Harmless, Preparing, Following
    <3> QED BY <1>1, <2>4, <3>1, StillKeeps
  <2>5. CASE proc[e].run = 0 /\ proc' = [proc EXCEPT ![e] = creating]
    <3>1. Harmless(e, proc[e], creating) /\ creating.pc # "stamp"
      BY <1>1, <2>2, <2>5 DEF Harmless
    <3> QED BY <1>1, <2>5, <3>1, StillKeeps
  <2>6. CASE proc[e].run = 0 /\ proc' = [proc EXCEPT ![e] = q]
    <3>1. Harmless(e, proc[e], q) /\ q.pc # "stamp"
      BY <1>1, <2>3, <2>6 DEF Harmless
    <3> QED BY <1>1, <2>6, <3>1, StillKeeps
  <2> QED BY <2>1, <2>4, <2>5, <2>6
<1> QED BY <1>2, <1>3

LEMMA SkipLine ==
  ASSUME NEW rec \in Record, NEW exit, InLine(rec)
  PROVE  InLine(Stamped(rec, "skipped", exit))
  BY StampedFields DEF InLine

LEMMA CooldownRecords ==
  ASSUME RecInv, NEW e \in Executors, CooldownSkip(e)
  PROVE  Records'
<1> DEFINE j == proc[e].job
<1>1. /\ e \in Actors /\ proc' = [proc EXCEPT ![e] = Idle] /\ UNCHANGED <<child, starts>>
      /\ j \in Jobs /\ muted' = {r \in muted : runs'[r].dir} /\ queue' = queue
      /\ made \in 0 .. MaxRuns
  BY Actor, ProcFacts DEF CooldownSkip, Actors
<1>2. Calm /\ QueuesFrom
  BY <1>1, IdleHarmless, OneCalm, SameQueues
<1>3. ASSUME NEW w \in RunIds, NEW x \in Record,
             runs' = Pruned(j, [runs EXCEPT ![w] = x]), Awaited(w) => InLine(x),
             RecordFits(w, x, child[w], starts[w], muted),
             \A b \in Actors : Fits(b, proc[b], w, x, child[w], starts[w], muted)
      PROVE  Records'
  <2>1. /\ \A r \in RunIds : r # w => Mild(r)
        /\ runs'[w] = x \/ \E i \in Jobs : runs'[w] = Blank(i)
        /\ RecordFits(w, runs'[w], child[w], starts[w], muted')
        /\ \A b \in Actors : Fits(b, proc[b], w, runs'[w], child[w], starts[w], muted')
    BY <1>1, <1>3, PruneFits
  <2>2. Awaited(w) => InLine(runs'[w])
    BY <1>3, <2>1, BlankFields DEF InLine
  <2> QED BY <1>1, <1>2, <2>1, <2>2, CalmWrites
<1>4. CASE made < MaxRuns /\ runs' = Pruned(j, [runs EXCEPT ![made + 1] =
                                                  Stamped(NewDir(j), "skipped", "none")])
  <2> DEFINE w == made + 1
             x == Stamped(NewDir(j), "skipped", "none")
  <2>1. /\ w \in RunIds /\ ~Awaited(w) /\ starts[w] = 0 /\ child[w] = "none" /\ w \notin muted
        /\ \A b \in Actors : proc[b].new # w /\ proc[b].run # w
    BY <1>1, <1>4, AloneWithNext
  <2>2. NewDir(j) \in Record /\ x \in Record
    <3>1. j \in 0 .. NumJobs /\ "skipped" \in Statuses
      BY <1>1, Ranges DEF Statuses
    <3>2. NewDir(j) \in Record
      BY <3>1, BlankType
    <3> QED BY <3>1, <3>2, StampedType
  <2> HIDE DEF w
  <2>3. RecordFits(w, NewDir(j), child[w], starts[w], muted)
    BY <2>1, BlankFields DEF RecordFits
  <2>4. RecordFits(w, x, child[w], starts[w], muted)
    BY <2>2, <2>3, StampedRecordFits
  <2>5. \A b \in Actors : Fits(b, proc[b], w, x, child[w], starts[w], muted)
    <3> SUFFICES ASSUME NEW b \in Actors
                 PROVE  Fits(b, proc[b], w, x, child[w], starts[w], muted)
      OBVIOUS
    <3>1. w \in proc[b].dead => starts[w] # 0
      BY <2>1, RecFacts DEF Fits
    <3> QED BY <2>1, <3>1, StrangerFits
  <2> HIDE DEF x
  <2>6. runs' = Pruned(j, [runs EXCEPT ![w] = x])
    BY <1>4 DEF w, x
  <2> QED BY <1>3, <2>1, <2>2, <2>4, <2>5, <2>6
<1>5. ASSUME NEW w \in RunsOf(j),
             runs' = Pruned(j, [runs EXCEPT ![w] = Stamped(@, "skipped", @.exit)])
      PROVE  Records'
  <2> DEFINE x == Stamped(runs[w], "skipped", runs[w].exit)
  <2>1. w \in RunIds
    BY <1>1, Ranges DEF RunsOf
  <2>2. /\ runs[w] \in Record /\ RecordFits(w, runs[w], child[w], starts[w], muted)
        /\ \A b \in Actors : Fits(b, proc[b], w, runs[w], child[w], starts[w], muted)
    BY <2>1, RecFacts
  <2>3. x \in Record
    <3>1. "skipped" \in Statuses /\ runs[w].exit \in {"none", "own", "kill"}
      BY <2>2 DEF Statuses, Record
    <3> QED BY <2>2, <3>1, StampedType
  <2>4. RecordFits(w, x, child[w], starts[w], muted)
    BY <2>2, StampedRecordFits
  <2>5. \A b \in Actors : Fits(b, proc[b], w, x, child[w], starts[w], muted)
    BY <2>2, SkipFits
  <2>6. Awaited(w) => InLine(x)
    BY <2>2, AwaitedFacts, SkipLine
  <2>7. runs' = Pruned(j, [runs EXCEPT ![w] = x])
    BY <1>5, <2>1, Actor, <1>1
  <2> QED BY <1>3, <2>1, <2>3, <2>4, <2>5, <2>6, <2>7
<1> QED BY <1>4, <1>5 DEF CooldownSkip

LEMMA ExecNewRunRecords ==
  ASSUME RecInv, NEW e \in Executors, ExecNewRun(e)
  PROVE  Records'
<1> DEFINE w == made + 1
           q == [proc[e] EXCEPT !.pc = "build", !.run = w]
<1>1. /\ proc[e].pc = "newrun" /\ made < MaxRuns /\ queue' = queue /\ e \in Actors
      /\ runs' = [runs EXCEPT ![w] = NewDir(proc[e].job)]
      /\ proc' = [proc EXCEPT ![e] = q] /\ UNCHANGED <<child, starts, muted>>
  BY DEF ExecNewRun, seen, Actors
<1>2. q.pc = "build" /\ q.new = 0 /\ q.run = w /\ q.dead = proc[e].dead
  <2>1. proc[e].new = 0
    BY <1>1, Actor, ProcFacts DEF LaunchPcs
  <2> QED BY <1>1, <2>1, Actor DEF ProcState
<1> HIDE DEF q
<1>3. /\ Alone(e, w) /\ ~Awaited(w) /\ w \in RunIds
      /\ starts[w] = 0 /\ child[w] = "none" /\ w \notin muted
  BY <1>1, AloneWithNext
<1>4. w \notin proc[e].dead /\ w # 0
  BY <1>1, <1>3, RecFacts DEF Fits
<1> HIDE DEF w
<1>5. runs'[w] = NewDir(proc[e].job) /\ \A r \in RunIds : r # w => Mild(r)
  BY <1>1, <1>3, Actor DEF Mild
<1>6. /\ Undecided(runs'[w]) /\ runs'[w].dir /\ ~runs'[w].killed /\ ~runs'[w].pid
      /\ runs'[w].status = "none"
  BY <1>5, BlankFields DEF Undecided
<1>7. RecordFits(w, runs'[w], child'[w], starts'[w], muted')
  BY <1>1, <1>3, <1>6 DEF RecordFits
<1>8. Fits(e, q, w, runs'[w], child'[w], starts'[w], muted')
  BY <1>1, <1>2, <1>3, <1>4, <1>6 DEF Fits, Preparing, Following
<1> QED BY <1>1, <1>2, <1>3, <1>5, <1>7, <1>8, HolderWrites

\* An executor of run w goes on to q, and may write the run's record.
LEMMA OwnWrites ==
  ASSUME RecInv, NEW e \in Executors, proc[e].pc \in OwnPcs, NEW w, w = proc[e].run, NEW q,
         proc' = [proc EXCEPT ![e] = q], queue' = queue,
         \A r \in RunIds : r # w => Mild(r), starts[w] # 0 => starts'[w] # 0,
         q.dead \subseteq proc[e].dead, q.new = 0, q.run \in {0, w},
         q.pc \notin {"stamp", "record", "enqueue"},
         RecordFits(w, runs'[w], child'[w], starts'[w], muted'),
         Fits(e, q, w, runs'[w], child'[w], starts'[w], muted')
  PROVE  Records'
<1>1. e \in Actors /\ w \in RunIds /\ Alone(e, w) /\ ~Awaited(w)
  BY OwnRun
<1> QED BY <1>1, HolderWrites

\* It goes on to program counter x.
LEMMA GoesTo ==
  ASSUME NEW p \in ProcState, NEW x
  PROVE  /\ LET q == [p EXCEPT !.pc = x]
            IN q.pc = x /\ q.run = p.run /\ q.new = p.new /\ q.dead = p.dead /\ q.ok = p.ok
         /\ \A ok : LET q == [p EXCEPT !.pc = x, !.ok = ok]
                    IN q.pc = x /\ q.run = p.run /\ q.new = p.new /\ q.dead = p.dead
  BY DEF ProcState

LEMMA ExecPrepareRecords ==
  ASSUME RecInv, NEW e \in Executors, ExecBuildFails(e) \/ ExecRunning(e) \/ ExecPopenFails(e)
  PROVE  Records'
<1> DEFINE w == proc[e].run
<1>1. /\ proc[e].pc \in Preparing /\ proc[e].pc \in OwnPcs /\ queue' = queue
      /\ UNCHANGED <<child, starts>> /\ proc[e].pc # "idle"
  BY DEF ExecBuildFails, ExecRunning, ExecPopenFails, Preparing, OwnPcs, seen
<1>2. /\ e \in Actors /\ w \in RunIds /\ w # 0 /\ runs[w] \in Record /\ proc[e].new = 0
      /\ starts[w] = 0 /\ child[w] = "none" /\ w \notin muted
      /\ RecordFits(w, runs[w], child[w], starts[w], muted)
      /\ Fits(e, proc[e], w, runs[w], child[w], starts[w], muted)
      /\ runs[w].exit \in {"none", "own", "kill"}
  BY <1>1, OwnRun DEF Record
<1>3. proc[e] \in ProcState /\ proc[e].job \in Jobs
  BY <1>1, <1>2, Actor, ProcFacts
<1>4. w \notin proc[e].dead
  BY <1>2 DEF Fits
<1>5. CASE ExecBuildFails(e)
  <2> DEFINE x == Stamped(runs[w], "failed", "own")
  <2>1. x \in Record
    BY <1>2, StampedType DEF Statuses
  <2>2. RecordFits(w, x, child[w], starts[w], muted)
    BY <1>2, StampedRecordFits
  <2>3. Idle.new = 0 /\ Idle.run = 0 /\ Idle.dead = {} /\ Idle.pc = "idle"
    BY DEF Idle
  <2>4. Fits(e, Idle, w, x, child[w], starts[w], muted)
    BY <1>2, <2>3, StrangerFits
  <2> HIDE DEF x
  <2>5. /\ runs' = Pruned(proc[e].job, [runs EXCEPT ![w] = x])
        /\ muted' = {r \in muted : runs'[r].dir} /\ proc' = [proc EXCEPT ![e] = Idle]
    BY <1>2, <1>5, Actor DEF ExecBuildFails, x
  <2>6. /\ \A r \in RunIds : r # w => Mild(r)
        /\ RecordFits(w, runs'[w], child[w], starts[w], muted')
        /\ Fits(e, Idle, w, runs'[w], child[w], starts[w], muted')
    BY <1>1, <1>2, <1>3, <2>1, <2>2, <2>4, <2>5, PruneFits
  <2> QED BY <1>1, <2>3, <2>5, <2>6, OwnWrites
<1>6. CASE ExecRunning(e)
  <2> DEFINE x == Stamped(runs[w], "running", runs[w].exit)
             q == [proc[e] EXCEPT !.pc = "popen"]
  <2>1. RecordFits(w, x, child[w], starts[w], muted)
    BY <1>2, StampedRecordFits
  <2>2. Undecided(x)
    BY <1>2, StampedFields DEF Undecided
  <2>3. q.pc = "popen" /\ q.run = w /\ q.new = 0 /\ q.dead = proc[e].dead
    BY <1>2, <1>3, GoesTo
  <2> HIDE DEF x, q
  <2>4. Fits(e, q, w, x, child[w], starts[w], muted)
    BY <1>2, <1>4, <2>2, <2>3 DEF Fits, Preparing, Following
  <2>5. /\ runs' = [runs EXCEPT ![w] = x] /\ proc' = [proc EXCEPT ![e] = q]
        /\ muted' = muted
    BY <1>2, <1>6, Actor DEF ExecRunning, x, q, seen
  <2>6. runs'[w] = x /\ \A r \in RunIds : r # w => Mild(r)
    BY <1>1, <1>2, <2>5, Actor DEF Mild
  <2> QED BY <1>1, <2>1, <2>3, <2>4, <2>5, <2>6, OwnWrites
<1>7. CASE ExecPopenFails(e)
  <2> DEFINE q == [proc[e] EXCEPT !.pc = "finish", !.ok = FALSE]
  <2>1. /\ proc' = [proc EXCEPT ![e] = q] /\ Still /\ proc[e].pc = "popen"
    BY <1>2, <1>7, Actor DEF ExecPopenFails, Still, seen
  <2>2. q.pc = "finish" /\ q.run = w /\ q.dead = proc[e].dead
    BY <1>3, GoesTo
  <2> HIDE DEF q
  <2>3. Harmless(e, proc[e], q) /\ q.pc # "stamp"
    BY <2>1, <2>2 DEF Harmless, Preparing, Following
  <2> QED BY <1>1, <1>2, <2>1, <2>3, SameQueues, StillKeeps
<1> QED BY <1>5, <1>6, <1>7

LEMMA ExecPopenRecords ==
  ASSUME RecInv, NEW e \in Executors, ExecPopen(e)
  PROVE  Records'
<1> DEFINE w == proc[e].run
           q == [proc[e] EXCEPT !.pc = "pid"]
<1>1. /\ proc[e].pc = "popen" /\ proc[e].pc \in Preparing /\ proc[e].pc \in OwnPcs
      /\ child' = [child EXCEPT ![w] = "alive"] /\ starts' = [starts EXCEPT ![w] = @ + 1]
      /\ UNCHANGED <<runs, queue, muted>> /\ proc' = [proc EXCEPT ![e] = q]
  BY DEF ExecPopen, Preparing, OwnPcs
<1>2. /\ e \in Actors /\ w \in RunIds /\ w # 0 /\ runs[w] \in Record /\ proc[e].new = 0
      /\ starts[w] = 0 /\ child[w] = "none" /\ w \notin muted
      /\ RecordFits(w, runs[w], child[w], starts[w], muted)
      /\ Fits(e, proc[e], w, runs[w], child[w], starts[w], muted)
  BY <1>1, OwnRun
<1>3. starts \in [RunIds -> Nat] /\ proc[e] \in ProcState
  BY <1>2, Actor DEF TypeInv, TypeOK
<1>4. q.pc = "pid" /\ q.run = w /\ q.new = 0 /\ q.dead = proc[e].dead
  BY <1>2, <1>3, GoesTo
<1> HIDE DEF q
<1>5. child'[w] = "alive" /\ starts'[w] = 1
  BY <1>1, <1>2, <1>3, Actor
<1>6. \A r \in RunIds : r # w => Mild(r)
  BY <1>1, <1>2, <1>3, Actor DEF Mild
<1>7. Undecided(runs[w])
  BY <1>1, <1>2 DEF Fits
<1>8. RecordFits(w, runs'[w], child'[w], starts'[w], muted')
  BY <1>1, <1>2, <1>5, <1>7 DEF RecordFits, Undecided
<1>9. Fits(e, q, w, runs'[w], child'[w], starts'[w], muted')
  BY <1>1, <1>2, <1>4, <1>5 DEF Fits, Preparing, Following
<1>10. starts'[w] # 0
  BY <1>5
<1> QED BY <1>1, <1>4, <1>6, <1>8, <1>9, <1>10, OwnWrites

LEMMA ExecWaitRecords ==
  ASSUME RecInv, NEW e \in Executors, ExecWritePid(e) \/ ExecWait(e) \/ ExecFinish(e)
  PROVE  Records'
<1> DEFINE w == proc[e].run
<1>1. /\ proc[e].pc \in OwnPcs /\ queue' = queue /\ UNCHANGED <<child, starts, muted>>
  BY DEF ExecWritePid, ExecWait, ExecFinish, OwnPcs, seen
<1>2. /\ e \in Actors /\ w \in RunIds /\ w # 0 /\ runs[w] \in Record /\ proc[e].new = 0
      /\ RecordFits(w, runs[w], child[w], starts[w], muted)
      /\ Fits(e, proc[e], w, runs[w], child[w], starts[w], muted)
  BY <1>1, OwnRun
<1>3. proc[e] \in ProcState
  BY <1>2, Actor
<1>4. CASE ExecWritePid(e)
  <2> DEFINE x == [runs[w] EXCEPT !.dir = TRUE, !.pid = TRUE]
             q == [proc[e] EXCEPT !.pc = "wait"]
  <2>1. /\ proc[e].pc = "pid" /\ proc' = [proc EXCEPT ![e] = q]
        /\ runs' = [runs EXCEPT ![w] = x]
    BY <1>2, <1>4, Actor DEF ExecWritePid
  <2>2. x.dir /\ x.pid /\ x.killed = runs[w].killed /\ x.status = runs[w].status
        /\ x.exit = runs[w].exit
    BY <1>2 DEF Record
  <2>3. q.pc = "wait" /\ q.run = w /\ q.new = 0 /\ q.dead = proc[e].dead
    BY <1>2, <1>3, GoesTo
  <2> HIDE DEF x, q
  <2>4. runs'[w] = x /\ \A r \in RunIds : r # w => Mild(r)
    BY <1>1, <1>2, <2>1, Actor DEF Mild
  <2>5. starts[w] # 0
    BY <1>2, <2>1 DEF Fits
  <2>6. RecordFits(w, x, child[w], starts[w], muted)
    BY <1>2, <2>2, <2>5 DEF RecordFits
  <2>7. Fits(e, q, w, x, child[w], starts[w], muted)
    BY <1>2, <2>3, <2>5 DEF Fits, Preparing, Following
  <2> QED BY <1>1, <2>1, <2>3, <2>4, <2>6, <2>7, OwnWrites
<1>5. ASSUME Still PROVE \A r \in RunIds : Mild(r)
  BY <1>5, StillMild
<1>6. CASE ExecWait(e)
  <2> DEFINE ok == child[w] = "zero"
             q == [proc[e] EXCEPT !.pc = "finish", !.ok = ok]
  <2>1. proc[e].pc = "wait" /\ proc' = [proc EXCEPT ![e] = q] /\ Still /\ child[w] # "alive"
    BY <1>2, <1>6, Actor DEF ExecWait, Still, seen
  <2>2. q.pc = "finish" /\ q.run = w /\ q.new = 0 /\ q.dead = proc[e].dead
    BY <1>2, <1>3, GoesTo
  <2> HIDE DEF q
  <2>3. Fits(e, q, w, runs[w], child[w], starts[w], muted)
    BY <1>2, <2>1, <2>2 DEF Fits, Preparing, Following
  <2>4. /\ RecordFits(w, runs'[w], child'[w], starts'[w], muted')
        /\ Fits(e, q, w, runs'[w], child'[w], starts'[w], muted')
    BY <1>2, <2>1, <2>3 DEF Still
  <2> QED BY <1>1, <1>5, <2>1, <2>2, <2>4, OwnWrites
<1>7. CASE ExecFinish(e)
  <2> DEFINE go == [proc[e] EXCEPT !.pc = "final"]
  <2>1. /\ proc[e].pc = "finish" /\ Still
        /\ \/ proc' = [proc EXCEPT ![e] = Idle]
           \/ proc' = [proc EXCEPT ![e] = go] /\ ~runs[w].killed
    BY <1>2, <1>7, Actor DEF ExecFinish, Still, seen
  <2>2. go.pc = "final" /\ go.run = w /\ go.new = 0 /\ go.dead = proc[e].dead
    BY <1>2, <1>3, GoesTo
  <2> HIDE DEF go
  <2>3. CASE proc' = [proc EXCEPT ![e] = Idle]
    BY <1>1, <1>2, <2>1, <2>3, IdleHarmless, SameQueues, StillKeeps
  <2>4. CASE proc' = [proc EXCEPT ![e] = go] /\ ~runs[w].killed
    <3>1. w \notin muted /\ child[w] # "alive"
      BY <1>2, <2>1, <2>4 DEF RecordFits, Fits
    <3>2. Fits(e, go, w, runs[w], child[w], starts[w], muted)
      BY <1>2, <2>2, <3>1 DEF Fits, Preparing, Following
    <3>3. /\ RecordFits(w, runs'[w], child'[w], starts'[w], muted')
          /\ Fits(e, go, w, runs'[w], child'[w], starts'[w], muted')
      BY <1>2, <2>1, <3>2 DEF Still
    <3> QED BY <1>1, <1>5, <2>1, <2>2, <2>4, <3>3, OwnWrites
  <2> QED BY <2>1, <2>3, <2>4
<1> QED BY <1>4, <1>6, <1>7

LEMMA ExecFinalRecords ==
  ASSUME RecInv, NEW e \in Executors, ExecFinal(e)
  PROVE  Records'
<1> DEFINE w == proc[e].run
           status == IF proc[e].ok THEN "success" ELSE "failed"
           x == Stamped(runs[w], status, "own")
           q == [proc[e] EXCEPT !.pc = "follow"]
<1>1. /\ proc[e].pc = "final" /\ proc[e].pc \in OwnPcs /\ queue' = queue
      /\ UNCHANGED <<child, starts>> /\ muted' = {r \in muted : runs'[r].dir}
      /\ proc' = [proc EXCEPT ![e] = q]
      /\ runs' = Pruned(proc[e].job, [runs EXCEPT ![w] = Stamped(@, status, "own")])
  BY DEF ExecFinal, OwnPcs
<1>2. /\ e \in Actors /\ w \in RunIds /\ w # 0 /\ runs[w] \in Record /\ proc[e].new = 0
      /\ RecordFits(w, runs[w], child[w], starts[w], muted)
      /\ Fits(e, proc[e], w, runs[w], child[w], starts[w], muted)
  BY <1>1, OwnRun
<1>3. proc[e] \in ProcState /\ proc[e].job \in Jobs
  BY <1>1, <1>2, Actor, ProcFacts
<1>4. q.pc = "follow" /\ q.run = w /\ q.new = 0 /\ q.dead = proc[e].dead
  BY <1>2, <1>3, GoesTo
<1> HIDE DEF q
<1>5. child[w] # "alive" /\ w \notin muted
  BY <1>1, <1>2 DEF Fits
<1>6. x \in Record
  <2>1. status \in Statuses
    BY DEF Statuses
  <2> QED BY <1>2, <2>1, StampedType
<1>7. RecordFits(w, x, child[w], starts[w], muted)
  BY <1>2, <1>5, StampedRecordFits
<1>8. x.status \in Outcomes
  BY <1>2, StampedFields DEF RecordFits, Outcomes
<1>9. runs' = Pruned(proc[e].job, [runs EXCEPT ![w] = x])
  BY <1>1, <1>2, Actor
<1> HIDE DEF x, status
<1>10. Fits(e, q, w, x, child[w], starts[w], muted)
  BY <1>2, <1>4, <1>5, <1>8 DEF Fits, Preparing, Following
<1>11. /\ \A r \in RunIds : r # w => Mild(r)
       /\ RecordFits(w, runs'[w], child[w], starts[w], muted')
       /\ Fits(e, q, w, runs'[w], child[w], starts[w], muted')
  BY <1>1, <1>2, <1>3, <1>6, <1>7, <1>9, <1>10, PruneFits
<1> QED BY <1>1, <1>4, <1>11, OwnWrites

LEMMA ExecChainRecords ==
  ASSUME RecInv, NEW e \in Executors, ExecFollow(e) \/ ExecChain(e)
  PROVE  Records'
<1>1. /\ e \in Actors /\ proc[e].pc \in Following /\ Still /\ QueuesFrom
      /\ proc[e] \in ProcState /\ registry \subseteq Jobs
  BY Actor, SameQueues DEF ExecFollow, ExecChain, Following, Actors, Still, seen, RecInv,
       ClaimsInv, TypeInv, TypeOK
<1>2. ASSUME NEW q, q.pc \in {"sweep", "admit", "chain", "drain"}, q.run = proc[e].run,
             q.dead = proc[e].dead, proc' = [proc EXCEPT ![e] = q]
      PROVE  Records'
  BY <1>1, <1>2, FollowsOn, StillKeeps
<1>3. CASE ExecFollow(e)
  <2> DEFINE p == [proc[e] EXCEPT !.cfg = registry]
  <2>1. PICK c \in {OnSuccess[proc[e].job], OnFailure[proc[e].job]} :
          proc' = [proc EXCEPT ![e] = Chained(p, c)]
    BY <1>3 DEF ExecFollow
  <2>2. p \in ProcState /\ p.run = proc[e].run /\ p.dead = proc[e].dead
    BY <1>1, ZenonT(40) DEF ProcState
  <2> HIDE DEF p
  <2> DEFINE q == Chained(p, c)
  <2>3. q.pc \in {"chain", "drain"} /\ q.run = proc[e].run /\ q.dead = proc[e].dead
    BY <2>2, ChainedFields
  <2>4. proc' = [proc EXCEPT ![e] = q]
    BY <2>1
  <2> HIDE DEF q
  <2>5. Harmless(e, proc[e], q) /\ q.pc # "stamp"
    BY <1>1, <2>3, FollowsOn
  <2> QED BY <1>1, <2>4, <2>5, StillKeeps
<1>4. CASE ExecChain(e)
  <2> DEFINE d == Head(proc[e].chain)
             rest == Tail(proc[e].chain)
             p == [proc[e] EXCEPT !.chain = rest]
  <2>1. \/ proc' = [proc EXCEPT ![e] = Admitting(p, d)]
        \/ proc' = [proc EXCEPT ![e] = Chained(proc[e], rest)]
    BY <1>4 DEF ExecChain
  <2>2. proc[e].chain \in Seq(Jobs) /\ proc[e].chain # << >>
    BY <1>1, <1>4, Actor DEF ProcState, ProcShape, ExecChain
  <2>3. rest \in Seq(Jobs)
    BY <2>2
  <2> HIDE DEF d, rest
  <2>4. p \in ProcState /\ p.run = proc[e].run /\ p.dead = proc[e].dead
    BY <1>1, <2>3, ZenonT(40) DEF ProcState
  <2> HIDE DEF p
  <2> DEFINE q == Admitting(p, d)
             t == Chained(proc[e], rest)
  <2>5. q.pc \in {"sweep", "admit"} /\ q.run = proc[e].run /\ q.dead = proc[e].dead
    BY <2>4, AdmittingFields
  <2>6. t.pc \in {"chain", "drain"} /\ t.run = proc[e].run /\ t.dead = proc[e].dead
    BY <1>1, ChainedFields
  <2>7. proc' = [proc EXCEPT ![e] = q] \/ proc' = [proc EXCEPT ![e] = t]
    BY <2>1
  <2> HIDE DEF q, t
  <2> QED BY <1>2, <2>5, <2>6, <2>7
<1> QED BY <1>3, <1>4

-----------------------------------------------------------------------------
(* Kills, requests and deaths. *)

LEMMA KillRecords ==
  ASSUME RecInv, NEW h \in Handlers, KillStep(h)
  PROVE  Records'
<1> DEFINE w == proc[h].run
<1>1. /\ h \in Actors /\ h \notin Executors /\ queue' = queue /\ starts' = starts
      /\ proc[h].pc \in OwnPcs
  BY ActorAssumption DEF KillStep, KillStamp, KillTree, Actors, seen, OwnPcs
<1>2. w \in RunIds /\ proc[h] \in ProcState
  BY <1>1, Actor, RunFacts
<1>3. /\ runs[w] \in Record /\ RecordFits(w, runs[w], child[w], starts[w], muted)
      /\ \A b \in Actors : Fits(b, proc[b], w, runs[w], child[w], starts[w], muted)
  BY <1>2, RecFacts
<1>4. ASSUME NEW x \in {"killtree", "drain"}, proc' = [proc EXCEPT ![h] = [@ EXCEPT !.pc = x]]
      PROVE  Calm /\ QueuesFrom
  <2> DEFINE q == [proc[h] EXCEPT !.pc = x]
  <2>1. q.pc = x /\ q.dead = proc[h].dead
    BY <1>2, GoesTo
  <2>2. proc' = [proc EXCEPT ![h] = q]
    BY <1>1, <1>4, Actor
  <2> HIDE DEF q
  <2>3. Harmless(h, proc[h], q) /\ q.pc # "stamp"
    BY <1>1, <2>1 DEF Harmless
  <2> QED BY <1>1, <2>2, <2>3, OneCalm, SameQueues
<1>5. CASE KillStamp(h)
  <2>1. /\ runs' = [runs EXCEPT ![w] = KillStamped(@)] /\ child' = child
        /\ muted' \subseteq muted \cup {w} /\ (w \in muted' => w \in muted \/ child[w] = "alive")
        /\ proc[h].pc = "stamp"
    BY <1>5 DEF KillStamp
  <2>2. Calm /\ QueuesFrom
    BY <1>4, <1>5 DEF KillStamp
  <2>3. runs'[w] = KillStamped(runs[w]) /\ \A r \in RunIds : r # w => Mild(r)
    BY <1>1, <1>2, <2>1, Actor DEF Mild
  <2>4. RecordFits(w, runs'[w], child'[w], starts'[w], muted')
    BY <1>1, <1>3, <2>1, <2>3, KillRecordFits
  <2>5. \A b \in Actors : proc[b].pc \in {"record", "enqueue"} => proc[b].new # w
    BY <2>1 DEF RecInv, Records, KillsApart
  <2>6. \A b \in Actors : Fits(b, proc[b], w, runs'[w], child'[w], starts'[w], muted')
    BY <1>1, <1>3, <2>1, <2>3, <2>5, KillFits
  <2>7. ~Awaited(w)
    BY <2>1 DEF RecInv, Records, KillsApart, Awaited
  <2> QED BY <1>1, <1>2, <2>2, <2>3, <2>4, <2>6, <2>7, CalmWrites
<1>6. CASE KillTree(h)
  <2>1. UNCHANGED <<runs, muted>>
    BY <1>6 DEF KillTree, seen
  <2>2. Calm /\ QueuesFrom
    BY <1>4, <1>6 DEF KillTree
  <2>3. CASE child' = child
    <3>1. Still
      BY <1>1, <2>1, <2>3 DEF Still
    <3> QED BY <2>2, <3>1, StillMild, CalmKeeps
  <2>4. CASE child[w] = "alive" /\ child' = [child EXCEPT ![w] = "nonzero"]
    <3>1. child'[w] = "nonzero" /\ \A r \in RunIds : r # w => Mild(r)
      BY <1>1, <1>2, <2>1, <2>4, Actor DEF Mild
    <3>2. RecordFits(w, runs[w], "nonzero", starts[w], muted)
      BY <1>1, <1>3, <2>4, EndFits
    <3>3. \A b \in Actors : Fits(b, proc[b], w, runs[w], "nonzero", starts[w], muted)
      BY <1>3, <2>4, EndFits
    <3>4. Awaited(w) => InLine(runs'[w])
      BY <2>1, AwaitedFacts
    <3> QED BY <1>1, <1>2, <2>1, <2>2, <3>1, <3>2, <3>3, <3>4, CalmWrites
  <2> QED BY <1>6, <2>3, <2>4 DEF KillTree
<1> QED BY <1>5, <1>6 DEF KillStep

\* A process that was idle takes up a request.
LEMMA TakesUpHarmless ==
  ASSUME RecInv, NEW a \in Actors, NEW q, a \in Executors => q.run = 0,
         q.pc \in {"sweep", "admit", "reap", "start"}, \A r \in q.dead : starts[r] # 0,
         proc' = [proc EXCEPT ![a] = q], Still, queue' = queue
  PROVE  Records'
<1>1. Harmless(a, proc[a], q) /\ q.pc # "stamp"
  BY DEF Harmless
<1> QED BY <1>1, SameQueues, StillKeeps

\* A kill is only asked for a pending or running run, which is past its queue.
LEMMA KillReadRecords ==
  ASSUME RecInv, NEW h \in Handlers, NEW w \in RunIds, KillRead(h, w)
  PROVE  Records'
<1> DEFINE q == [Idle EXCEPT !.pc = "stamp", !.job = runs[w].job, !.run = w,
                             !.hit = runs[w].pid]
<1>1. h \in Actors /\ h \notin Executors /\ proc' = [proc EXCEPT ![h] = q] /\ Still
      /\ queue' = queue /\ runs[w].status \in Live
  BY ActorAssumption DEF KillRead, Actors, Still, seen
<1>2. q.pc = "stamp" /\ q.dead = {} /\ q.run = w /\ q.new = 0
  BY DEF Idle
<1> HIDE DEF q
<1>3. Harmless(h, proc[h], q)
  BY <1>1, <1>2 DEF Harmless
<1>4. proc'[h] = q /\ \A b \in Actors : b # h => proc'[b] = proc[b]
  BY <1>1, Actor
<1>5. RunsFit' /\ QueueFits'
  BY <1>1 DEF Still, RunsFit, QueueFits, RecInv, Records
<1>6. ASSUME NEW b \in Actors, NEW r \in RunIds
      PROVE  Fits(b, proc'[b], r, runs'[r], child'[r], starts'[r], muted')
  <2>1. Fits(b, proc'[b], r, runs[r], child[r], starts[r], muted)
    BY <1>1, <1>3, <1>4, RecFacts, HarmlessFits
  <2> QED BY <1>1, <2>1 DEF Still
<1>7. ~InLine(runs[w]) /\ ~Unwritten(runs[w])
  BY <1>1 DEF InLine, Unwritten, Live
<1>8. /\ \A b \in Actors : proc[b].pc \in {"record", "enqueue"} => proc[b].new # w
      /\ \A g \in Groups : \A i \in DOMAIN queue[g] : queue[g][i] # w
  <2>1. ~Awaited(w)
    BY <1>7, AwaitedFacts
  <2>2. \A b \in Actors : proc[b].pc = "record" => proc[b].new # w
    BY <1>7, RecFacts DEF Fits
  <2> QED BY <2>1, <2>2 DEF Awaited
<1>9. KillsApart'
  <2> SUFFICES ASSUME NEW k \in Handlers, proc'[k].pc = "stamp"
               PROVE  /\ \A a \in Actors : proc'[a].pc \in {"record", "enqueue"} =>
                                             proc'[a].new # proc'[k].run
                      /\ \A g \in Groups : \A i \in DOMAIN queue[g] :
                           queue[g][i] # proc'[k].run
    BY <1>1 DEF KillsApart
  <2>1. CASE k = h
    BY <1>2, <1>4, <1>8, <2>1
  <2>2. CASE k # h
    <3>1. proc'[k] = proc[k]
      BY <1>4, <2>2 DEF Actors
    <3> QED BY <1>2, <1>4, <3>1 DEF RecInv, Records, KillsApart
  <2> QED BY <2>1, <2>2
<1> QED BY <1>5, <1>6, <1>9 DEF Records, ProcsFit

LEMMA RequestRecords ==
  ASSUME RecInv, Requests
  PROVE  Records'
<1>1. /\ queue' = queue /\ Still /\ Handlers \subseteq Actors /\ Executors \subseteq Actors
      /\ \A h \in Handlers : h \notin Executors
  BY ActorAssumption DEF Requests, Fire, Poll, DryRun, ScheduledFire, KillRead, DeleteJob, seen,
       Still, Actors
<1>2. ASSUME NEW h \in Handlers, NEW j \in Jobs, Fire(h, j) PROVE Records'
  <2> DEFINE p == [Idle EXCEPT !.job = j, !.cfg = registry]
             q == Admitting(p, j)
  <2>1. proc' = [proc EXCEPT ![h] = q]
    BY <1>2 DEF Fire
  <2>2. p \in ProcState
    <3>1. j \in 0 .. NumJobs /\ registry \in SUBSET Jobs
      BY Ranges DEF RecInv, ClaimsInv, TypeInv, TypeOK
    <3> QED BY <3>1, IdleType, ZenonT(40) DEF ProcState
  <2>3. p.dead = {}
    BY DEF Idle
  <2> HIDE DEF p
  <2>4. q.pc \in {"sweep", "admit"} /\ q.dead = {}
    BY <2>2, <2>3, AdmittingFields
  <2> HIDE DEF q
  <2> QED BY <1>1, <2>1, <2>4, TakesUpHarmless
<1>3. ASSUME NEW h \in Handlers, NEW j \in Jobs, Poll(h, j) PROVE Records'
  <2> DEFINE q == [Idle EXCEPT !.pc = "reap", !.job = j, !.mode = "poll", !.dead = Stranded(j)]
  <2>1. proc' = [proc EXCEPT ![h] = q] /\ q.pc = "reap" /\ q.dead = Stranded(j)
    BY <1>3 DEF Poll, Idle
  <2> HIDE DEF q
  <2> QED BY <1>1, <2>1, ListedStarted, TakesUpHarmless
<1>4. ASSUME NEW h \in Handlers, NEW j \in Jobs, NEW m \in {"dry_execute", "dry_check"},
             DryRun(h, j, m)
      PROVE  Records'
  <2> DEFINE q == [Idle EXCEPT !.pc = "admit", !.job = j, !.fire = j, !.mode = m]
  <2>1. proc' = [proc EXCEPT ![h] = q] /\ q.pc = "admit" /\ q.dead = {}
    BY <1>4 DEF DryRun, Idle
  <2> HIDE DEF q
  <2> QED BY <1>1, <2>1, TakesUpHarmless
<1>5. ASSUME NEW e \in Executors, NEW j \in Jobs, ScheduledFire(e, j) PROVE Records'
  <2> DEFINE q == Started(j, 0)
  <2>1. proc' = [proc EXCEPT ![e] = q] /\ q.pc = "start" /\ q.dead = {} /\ q.run = 0
    BY <1>5 DEF ScheduledFire, Started, Idle
  <2> HIDE DEF q
  <2> QED BY <1>1, <2>1, TakesUpHarmless
<1>6. ASSUME NEW j \in Jobs, DeleteJob(j) PROVE Records'
  <2>1. Calm /\ QueuesFrom
    BY <1>1, <1>6, SameQueues DEF DeleteJob, Calm
  <2> QED BY <1>1, <2>1, StillMild, CalmKeeps
<1> QED BY <1>2, <1>3, <1>4, <1>5, <1>6, KillReadRecords DEF Requests

LEMMA DeathRecords ==
  ASSUME RecInv, Deaths
  PROVE  Records'
<1>1. queue' = queue /\ QueuesFrom
  BY SameQueues DEF Deaths, ChildExit, ExecutorCrash, WebappCrash
<1>2. Calm
  <2>1. \A a \in Actors : proc'[a] = proc[a] \/ proc'[a] = Idle
    BY DEF Deaths, ChildExit, ExecutorCrash, WebappCrash, RecInv, ClaimsInv, TypeInv, TypeOK
  <2> QED BY <2>1, IdleHarmless DEF Calm
<1>3. ASSUME NEW w \in RunIds, ChildExit(w) PROVE Records'
  <2>1. PICK code \in {"zero", "nonzero"} : child' = [child EXCEPT ![w] = code]
    BY <1>3 DEF ChildExit
  <2>2. child[w] = "alive" /\ UNCHANGED <<runs, starts, muted>>
    BY <1>3 DEF ChildExit, seen
  <2>3. child \in [RunIds -> {"none", "alive", "zero", "nonzero"}]
    BY DEF RecInv, ClaimsInv, TypeInv, TypeOK
  <2>4. child'[w] = code /\ \A r \in RunIds : r # w => Mild(r)
    BY <2>1, <2>2, <2>3 DEF Mild
  <2>5. /\ RecordFits(w, runs[w], child[w], starts[w], muted)
        /\ \A b \in Actors : Fits(b, proc[b], w, runs[w], child[w], starts[w], muted)
    BY RecFacts
  <2>6. RecordFits(w, runs[w], code, starts[w], muted)
    BY <2>2, <2>5 DEF RecordFits
  <2>7. \A b \in Actors : Fits(b, proc[b], w, runs[w], code, starts[w], muted)
    BY <2>2, <2>5, EndFits
  <2>8. Awaited(w) => InLine(runs'[w])
    BY <2>2, AwaitedFacts
  <2> QED BY <1>1, <1>2, <2>2, <2>4, <2>6, <2>7, <2>8, CalmWrites
<1>4. CASE ~\E w \in RunIds : ChildExit(w)
  <2>1. Still
    BY <1>4 DEF Deaths, ExecutorCrash, WebappCrash, Still, seen
  <2> QED BY <1>1, <1>2, <2>1, StillMild, CalmKeeps
<1> QED BY <1>3, <1>4

-----------------------------------------------------------------------------
(* The theorems. *)

LEMMA RecordsStep == RecInv /\ [Next]_vars => RecInv'
<1> SUFFICES ASSUME RecInv, [Next]_vars PROVE RecInv'
  OBVIOUS
<1>1. ClaimsInv'
  BY ClaimsStep DEF RecInv
<1>2. CASE Next
  <2>1. Records'
    <3>1. ASSUME NEW a \in Actors, SharedStep(a) PROVE Records'
      BY <3>1, SweepRecords, ReapRecords, MakeRunDirRecords, RecordFireRecords, EnqueueRecords,
         SpawnRecords, SpawnFailsRecords, DrainRecords DEF SharedStep
    <3>2. ASSUME NEW e \in Executors, ExecutorStep(e) PROVE Records'
      BY <3>2, ExecStartRecords, CooldownRecords, ExecNewRunRecords, ExecPrepareRecords,
         ExecPopenRecords, ExecWaitRecords, ExecFinalRecords, ExecChainRecords DEF ExecutorStep
    <3>3. ASSUME NEW h \in Handlers, KillStep(h) PROVE Records'
      BY <3>3, KillRecords
    <3> QED BY <1>2, <3>1, <3>2, <3>3, RequestRecords, DeathRecords DEF Next
  <2> QED BY <1>1, <2>1 DEF RecInv
<1>3. CASE UNCHANGED vars
  <2>1. Calm /\ QueuesFrom /\ Still
    BY <1>3, SameQueues DEF vars, Calm, Still
  <2> QED BY <1>1, <2>1, StillMild, CalmKeeps DEF RecInv
<1> QED BY <1>2, <1>3

LEMMA RecordsInit == Init => RecInv
<1> SUFFICES ASSUME Init PROVE RecInv
  OBVIOUS
<1>1. /\ \A a \in Actors : proc[a] = Idle
      /\ \A g \in Groups : DOMAIN queue[g] = {}
      /\ muted = {}
      /\ \A r \in RunIds : starts[r] = 0 /\ child[r] = "none" /\ runs[r] = Blank(0) /\ r # 0
  BY JobsAssumption DEF Init, RunIds
<1>2. RunsFit
  BY <1>1, BlankFields DEF RunsFit, RecordFits
<1>3. ProcsFit
  <2>1. Idle.new = 0 /\ Idle.run = 0 /\ Idle.dead = {}
    BY DEF Idle
  <2> QED BY <1>1, <2>1, StrangerFits DEF ProcsFit
<1>4. QueueFits /\ KillsApart
  BY <1>1 DEF QueueFits, KillsApart, Idle, Actors
<1> QED BY <1>2, <1>3, <1>4, ClaimsInit DEF RecInv, Records

\* Whatever other processes wrote to a record between its own two accesses, what
\* a process takes for granted of the run holds of its run.json and its child:
\* reads before a sweep, a launch, a kill or a finalise are never stale in a way
\* that matters.
THEOREM RecordsAlways == Spec => []RecInv
  BY RecordsInit, RecordsStep, PTL DEF Spec

\* A kill stamped while the child was alive silences the run's executor: it
\* never gets as far as its outcome, a notification, a chain or a drain.
THEOREM KillsSilence == Spec => []KilledAliveSilent
<1>1. RecInv => KilledAliveSilent
  <2> SUFFICES ASSUME RecInv, NEW e \in Executors, proc[e].run \in muted
               PROVE  proc[e].pc \in {"pid", "wait", "finish"}
    BY DEF KilledAliveSilent
  <2>1. e \in Actors /\ muted \subseteq RunIds
    BY DEF Actors, RecInv, ClaimsInv, TypeInv, TypeOK
  <2> QED BY <2>1, RecFacts DEF Fits
<1> QED BY <1>1, RecordsAlways, PTL

\* No outcome is published while the child lives, unless it is a kill's.
THEOREM OutcomesWait == Spec => []OutcomeMeansEnded
<1>1. RecInv => OutcomeMeansEnded
  BY RecFacts DEF OutcomeMeansEnded, RecordFits
<1> QED BY <1>1, RecordsAlways, PTL

\* An executor chains and drains only once its record shows an outcome, so
\* the sweep of a job it starts does not find it in the way.
THEOREM FollowUpsWait == Spec => []FollowUpsAfterOutcome
<1>1. RecInv => FollowUpsAfterOutcome
  <2> SUFFICES ASSUME RecInv, NEW e \in Executors, proc[e].run # 0, proc[e].pc \in Following
               PROVE  runs[proc[e].run].status \in Outcomes \/ ~runs[proc[e].run].dir
    BY DEF FollowUpsAfterOutcome, Following
  <2>1. e \in Actors
    BY DEF Actors
  <2>2. proc[e].run \in RunIds
    <3>1. proc[e].run \in 0 .. MaxRuns
      BY <2>1, Actor DEF ProcState
    <3> QED BY <3>1, JobsAssumption DEF RunIds
  <2> QED BY <2>1, <2>2, RecFacts DEF Fits
<1> QED BY <1>1, RecordsAlways, PTL

-----------------------------------------------------------------------------
(* Kills, skips and queueing on record. *)

\* A new run is recorded as queued.
Queueing(r) == \E a \in Actors : /\ proc[a].new = r /\ proc[a].held
                                 /\ proc[a].mode # "dry_check" /\ RecordFire(a)

\* A step keeps a kill that is on record, unless it prunes the directory; only
\* a cooldown skips; and only a fire that found a holder is queued.
Honours(r) ==
  /\ (runs[r].killed /\ runs'[r].dir) => runs'[r].killed
  /\ runs'[r].status = "skipped" => (runs[r].status = "skipped" \/ CooldownJobs # {})
  /\ runs'[r].status = "queued" => (runs[r].status = "queued" \/ Queueing(r))

LEMMA WriteHonours ==
  ASSUME RecInv, NEW w \in RunIds, NEW x, runs' = [runs EXCEPT ![w] = x],
         runs[w].killed => x.killed,
         x.status = "skipped" => (runs[w].status = "skipped" \/ CooldownJobs # {}),
         x.status = "queued" => (runs[w].status = "queued" \/ Queueing(w))
  PROVE  \A r \in RunIds : Honours(r)
  BY DEF Honours, RecInv, ClaimsInv, TypeInv, TypeOK

LEMMA PruneHonours ==
  ASSUME RecInv, NEW w \in RunIds, NEW x \in Record, NEW j \in Jobs,
         runs' = Pruned(j, [runs EXCEPT ![w] = x]), runs[w].killed => x.killed,
         x.status = "skipped" => (runs[w].status = "skipped" \/ CooldownJobs # {}),
         x.status = "queued" => (runs[w].status = "queued" \/ Queueing(w))
  PROVE  \A r \in RunIds : Honours(r)
<1> DEFINE rs == [runs EXCEPT ![w] = x]
<1>1. rs \in [RunIds -> Record] /\ rs[w] = x /\ \A r \in RunIds : r # w => rs[r] = runs[r]
  BY DEF RecInv, ClaimsInv, TypeInv, TypeOK
<1>2. j \in 0 .. NumJobs
  BY Ranges
<1> HIDE DEF rs
<1>3. \A r \in RunIds : runs'[r] = rs[r] \/ runs'[r] = Blank(j)
  BY <1>1, <1>2, PrunedType DEF rs
<1>4. ~Blank(j).dir /\ Blank(j).status = "none"
  BY BlankFields
<1> QED BY <1>1, <1>3, <1>4 DEF Honours

LEMMA StampHonours ==
  ASSUME NEW rec \in Record, NEW status \in Statuses \ {"skipped"}, NEW exit \in {"none", "own", "kill"}
  PROVE  LET x == Stamped(rec, status, exit)
         IN /\ x \in Record
            /\ rec.killed => x.killed
            /\ x.status = "skipped" => (rec.status = "skipped" \/ CooldownJobs # {})
            /\ x.status = "queued" => (rec.status = "queued" \/ status = "queued")
  BY StampedType, StampedFields

LEMMA SharedHonours ==
  ASSUME RecInv, NEW a \in Actors, SharedStep(a)
  PROVE  \A r \in RunIds : Honours(r)
<1>1. CASE runs' = runs
  BY <1>1 DEF Honours
<1>2. ASSUME NEW w \in RunIds, ReapOne(a, w), runs' # runs PROVE \A r \in RunIds : Honours(r)
  <2>1. runs' = [runs EXCEPT ![w] = ReapStamped(runs[w])]
    BY <1>2 DEF ReapOne
  <2> DEFINE x == ReapStamped(runs[w])
  <2>2. /\ (runs[w].killed => x.killed) /\ (x.status = "skipped" => runs[w].status = "skipped")
        /\ x.status = "queued" => runs[w].status = "queued"
    BY RecFacts, ReapStampedFields
  <2> HIDE DEF x
  <2> QED BY <2>1, <2>2, WriteHonours DEF x
<1>3. CASE MakeRunDir(a)
  <2> DEFINE w == made + 1
             x == NewDir(proc[a].fire)
  <2>1. w \in RunIds /\ runs' = [runs EXCEPT ![w] = x] /\ Unmade(w)
    <3>1. made < MaxRuns /\ made \in 0 .. MaxRuns
      BY <1>3, Actor DEF MakeRunDir
    <3>2. w \in RunIds /\ ~(w <= made)
      BY <3>1, Ranges
    <3> QED BY <1>3, <3>2, Actor DEF MakeRunDir, TypeInv, Shape, RunsOK
  <2>2. ~runs[w].killed /\ x.status = "none"
    BY <2>1, BlankFields DEF Unmade
  <2> HIDE DEF x, w
  <2> QED BY <2>1, <2>2, WriteHonours
<1>4. CASE RecordFire(a)
  <2> DEFINE w == proc[a].new
             status == IF proc[a].mode = "dry_check" THEN "dry_run"
                       ELSE IF proc[a].held THEN "queued" ELSE "pending"
             s == Stamped(runs[w], status, runs[w].exit)
             x == [s EXCEPT !.dry = (proc[a].mode # "run")]
  <2>1. w \in RunIds /\ runs[w] \in Record /\ runs[w].exit \in {"none", "own", "kill"}
    BY <1>4, NewRun DEF RecordFire, LaunchPcs, Record
  <2>2. runs' = [runs EXCEPT ![w] = x]
    BY <1>4 DEF RecordFire
  <2>3. status \in Statuses \ {"skipped"}
    BY DEF Statuses
  <2> HIDE DEF status
  <2>4. /\ s \in Record /\ (runs[w].killed => s.killed)
        /\ s.status = "skipped" => (runs[w].status = "skipped" \/ CooldownJobs # {})
        /\ s.status = "queued" => (runs[w].status = "queued" \/ status = "queued")
    BY <2>1, <2>3, StampHonours
  <2>6. status = "queued" => Queueing(w)
    BY <1>4 DEF status, Queueing
  <2> HIDE DEF s
  <2>5. x.killed = s.killed /\ x.status = s.status
    BY <2>4 DEF Record
  <2> HIDE DEF x, w
  <2> QED BY <2>1, <2>2, <2>4, <2>5, <2>6, WriteHonours
<1>5. CASE SpawnFails(a)
  <2> DEFINE w == proc[a].new
             x == Stamped(runs[w], "failed", "own")
  <2>1. w \in RunIds /\ runs[w] \in Record
    BY <1>5, NewRun DEF SpawnFails, LaunchPcs
  <2>2. runs' = [runs EXCEPT ![w] = x]
    BY <1>5 DEF SpawnFails
  <2>3. /\ x \in Record /\ (runs[w].killed => x.killed)
        /\ x.status = "skipped" => (runs[w].status = "skipped" \/ CooldownJobs # {})
        /\ x.status = "queued" => runs[w].status = "queued"
    BY <2>1, StampHonours DEF Statuses
  <2> HIDE DEF x, w
  <2> QED BY <2>1, <2>2, <2>3, WriteHonours
<1>6. \/ runs' = runs \/ MakeRunDir(a) \/ RecordFire(a) \/ SpawnFails(a)
      \/ \E w \in RunIds : ReapOne(a, w)
  BY DEF SharedStep, SweepEnd, LookAfterReap, SweepLook, SweepList, Enqueue, Spawn, DrainPop,
     LaunchSkip, Launch, LaunchFails
<1> QED BY <1>1, <1>2, <1>3, <1>4, <1>5, <1>6

LEMMA ExecHonours ==
  ASSUME RecInv, NEW e \in Executors, ExecutorStep(e)
  PROVE  \A r \in RunIds : Honours(r)
<1> DEFINE w == proc[e].run
<1>1. e \in Actors /\ (proc[e].pc # "idle" => proc[e].job \in Jobs)
  BY ProcFacts DEF Actors, RecInv, ClaimsInv
<1>2. proc[e].pc \in OwnPcs => /\ w \in RunIds /\ runs[w] \in Record
                               /\ runs[w].exit \in {"none", "own", "kill"}
  BY OwnRun DEF Record
<1>3. CASE runs' = runs
  BY <1>3 DEF Honours
<1>4. CASE CooldownSkip(e)
  <2>1. CooldownJobs # {}
    BY <1>4 DEF CooldownSkip
  <2>2. proc[e].job \in Jobs /\ made \in 0 .. MaxRuns
    BY <1>1, <1>4, Actor DEF CooldownSkip
  <2>3. ASSUME NEW r \in RunIds, NEW rec \in Record, NEW exit \in {"none", "own", "kill"},
               rec.killed \/ ~runs[r].killed, rec.killed => rec.status = "failed",
               runs' = Pruned(proc[e].job, [runs EXCEPT ![r] = Stamped(rec, "skipped", exit)])
        PROVE  \A s \in RunIds : Honours(s)
    <3> DEFINE x == Stamped(rec, "skipped", exit)
    <3>1. x \in Record /\ (runs[r].killed => x.killed) /\ x.status # "queued"
      BY <2>3, StampedType, StampedFields DEF Statuses
    <3> HIDE DEF x
    <3>2. runs' = Pruned(proc[e].job, [runs EXCEPT ![r] = x])
      BY <2>3 DEF x
    <3> QED BY <2>1, <2>2, <3>1, <3>2, PruneHonours
  <2>4. CASE /\ made < MaxRuns
             /\ runs' = Pruned(proc[e].job, [runs EXCEPT ![made + 1] =
                                 Stamped(NewDir(proc[e].job), "skipped", "none")])
    <3>1. made + 1 \in RunIds /\ ~(made + 1 <= made)
      BY <2>2, <2>4, Ranges
    <3>2. ~runs[made + 1].killed
      BY <1>1, <3>1, Actor, BlankFields DEF TypeInv, Shape, RunsOK, Unmade
    <3>3. NewDir(proc[e].job) \in Record
      BY <2>2, Ranges, BlankType
    <3>4. ~NewDir(proc[e].job).killed
      BY BlankFields
    <3> QED BY <2>3, <2>4, <3>1, <3>2, <3>3, <3>4
  <2>5. ASSUME NEW r \in RunsOf(proc[e].job),
               runs' = Pruned(proc[e].job, [runs EXCEPT ![r] = Stamped(@, "skipped", @.exit)])
        PROVE  \A s \in RunIds : Honours(s)
    <3>1. r \in RunIds
      BY <2>2, Ranges DEF RunsOf
    <3>2. runs[r] \in Record /\ runs[r].exit \in {"none", "own", "kill"}
      BY <3>1, RecFacts DEF Record
    <3>3. runs' = Pruned(proc[e].job, [runs EXCEPT ![r] = Stamped(runs[r], "skipped", runs[r].exit)])
      BY <1>1, <2>5, <3>1, Actor
    <3>4. runs[r].killed => runs[r].status = "failed"
      BY <3>1, RecFacts DEF RecordFits
    <3> QED BY <2>3, <3>1, <3>2, <3>3, <3>4
  <2> QED BY <1>4, <2>4, <2>5 DEF CooldownSkip
<1>5. CASE ExecNewRun(e)
  <2> DEFINE n == made + 1
             x == NewDir(proc[e].job)
  <2>1. n \in RunIds /\ runs' = [runs EXCEPT ![n] = x] /\ Unmade(n)
    <3>1. made < MaxRuns /\ made \in 0 .. MaxRuns
      BY <1>1, <1>5, Actor DEF ExecNewRun
    <3>2. n \in RunIds /\ ~(n <= made)
      BY <3>1, Ranges
    <3> QED BY <1>1, <1>5, <3>2, Actor DEF ExecNewRun, TypeInv, Shape, RunsOK
  <2>2. ~runs[n].killed /\ x.status = "none"
    BY <2>1, BlankFields DEF Unmade
  <2> HIDE DEF x, n
  <2> QED BY <2>1, <2>2, WriteHonours
<1>6. ASSUME NEW status \in Statuses \ {"skipped", "queued"}, NEW exit \in {"none", "own", "kill"},
             proc[e].pc \in OwnPcs,
             \/ runs' = [runs EXCEPT ![w] = Stamped(runs[w], status, exit)]
             \/ runs' = Pruned(proc[e].job, [runs EXCEPT ![w] = Stamped(runs[w], status, exit)])
      PROVE  \A r \in RunIds : Honours(r)
  <2> DEFINE x == Stamped(runs[w], status, exit)
  <2>1. proc[e].job \in Jobs /\ w \in RunIds
    BY <1>1, <1>2, <1>6 DEF OwnPcs
  <2>2. /\ x \in Record /\ (runs[w].killed => x.killed)
        /\ x.status = "skipped" => (runs[w].status = "skipped" \/ CooldownJobs # {})
        /\ x.status = "queued" => runs[w].status = "queued"
    BY <1>2, <1>6, StampHonours
  <2>3. \/ runs' = [runs EXCEPT ![w] = x]
        \/ runs' = Pruned(proc[e].job, [runs EXCEPT ![w] = x])
    BY <1>6
  <2> HIDE DEF x, w
  <2> QED BY <2>1, <2>2, <2>3, WriteHonours, PruneHonours
<1>7. CASE ExecBuildFails(e) \/ ExecFinal(e)
  <2>1. proc[e].pc \in OwnPcs
    BY <1>7 DEF ExecBuildFails, ExecFinal, OwnPcs
  <2>2. \E status \in {"success", "failed"} :
          runs' = Pruned(proc[e].job, [runs EXCEPT ![w] = Stamped(runs[w], status, "own")])
    <3>1. \E status \in {"success", "failed"} :
            runs' = Pruned(proc[e].job, [runs EXCEPT ![w] = Stamped(@, status, "own")])
      BY <1>7 DEF ExecBuildFails, ExecFinal
    <3> QED BY <1>1, <1>2, <2>1, <3>1, Actor
  <2> HIDE DEF w
  <2> QED BY <1>6, <2>1, <2>2 DEF Statuses
<1>8. CASE ExecRunning(e)
  <2>1. proc[e].pc \in OwnPcs
    BY <1>8 DEF ExecRunning, OwnPcs
  <2>2. runs' = [runs EXCEPT ![w] = Stamped(runs[w], "running", runs[w].exit)]
    BY <1>1, <1>2, <1>8, <2>1, Actor DEF ExecRunning
  <2>3. runs[w].exit \in {"none", "own", "kill"}
    BY <1>2, <2>1
  <2> HIDE DEF w
  <2> QED BY <1>6, <2>1, <2>2, <2>3 DEF Statuses
<1>9. CASE ExecWritePid(e)
  <2> DEFINE x == [runs[w] EXCEPT !.dir = TRUE, !.pid = TRUE]
  <2>1. proc[e].pc \in OwnPcs
    BY <1>9 DEF ExecWritePid, OwnPcs
  <2>2. x.killed = runs[w].killed /\ x.status = runs[w].status
    BY <1>2, <2>1 DEF Record
  <2>3. runs' = [runs EXCEPT ![w] = x]
    BY <1>1, <1>2, <1>9, <2>1, Actor DEF ExecWritePid
  <2> HIDE DEF x, w
  <2> QED BY <1>2, <2>1, <2>2, <2>3, WriteHonours
<1> QED BY <1>3, <1>4, <1>5, <1>7, <1>8, <1>9 DEF ExecutorStep, ExecUnknownJob, ExecStart,
  ExecPopen, ExecPopenFails, ExecWait, ExecFinish, ExecFollow, ExecChain

LEMMA StepHonours ==
  ASSUME RecInv, [Next]_vars
  PROVE  \A r \in RunIds : Honours(r)
<1>1. CASE runs' = runs
  BY <1>1 DEF Honours
<1>2. ASSUME NEW h \in Handlers, KillStamp(h) PROVE \A r \in RunIds : Honours(r)
  <2> DEFINE w == proc[h].run
             x == KillStamped(runs[w])
  <2>1. w \in RunIds
    <3>1. h \in Actors /\ proc[h].pc \in OwnPcs
      BY <1>2 DEF Actors, KillStamp, OwnPcs
    <3> QED BY <3>1, RunFacts DEF RecInv, ClaimsInv
  <2>2. x.killed /\ x.status = "failed"
    BY <2>1, RecFacts, KillStampedFields
  <2>3. runs' = [runs EXCEPT ![w] = x]
    BY <1>2 DEF KillStamp
  <2> HIDE DEF x, w
  <2> QED BY <2>1, <2>2, <2>3, WriteHonours
<1>3. \/ runs' = runs
      \/ \E a \in Actors : SharedStep(a)
      \/ \E e \in Executors : ExecutorStep(e)
      \/ \E h \in Handlers : KillStamp(h)
  BY DEF Next, vars, KillStep, KillTree, Requests, Fire, DryRun, ScheduledFire, KillRead, Poll,
     DeleteJob, Deaths, ChildExit, ExecutorCrash, WebappCrash
<1> QED BY <1>1, <1>2, <1>3, SharedHonours, ExecHonours

\* A kill on the record is final: no later write of the executor's, of a reap
\* or of a cooldown clears the flag or changes the outcome; only pruning the
\* directory forgets it.
THEOREM KillsAreFinal == Spec => KillSticky
<1>1. RecInv /\ RecInv' /\ [Next]_vars =>
        [\A r \in RunIds : (runs[r].killed /\ runs'[r].dir) =>
           (runs'[r].killed /\ runs'[r].status = "failed" /\ runs'[r].exit = "kill")]_vars
  <2> SUFFICES ASSUME RecInv, RecInv', [Next]_vars, NEW r \in RunIds,
                      runs[r].killed, runs'[r].dir
               PROVE  runs'[r].killed /\ runs'[r].status = "failed" /\ runs'[r].exit = "kill"
    OBVIOUS
  <2>1. runs'[r].killed
    BY StepHonours DEF Honours
  <2>2. RunsFit'
    BY DEF RecInv, Records
  <2> QED BY <2>1, <2>2 DEF RunsFit, RecordFits
<1> QED BY <1>1, RecordsAlways, PTL DEF Spec, KillSticky

\* Where no job has a cooldown, no record says skipped: only a scheduled fire
\* within its cooldown does (run_job_cmd.py:236), in a directory another run of
\* the same second may own.
THEOREM SkipsAreCooldowns == Spec => []NoSkips
<1>1. Init => NoSkips
  BY BlankFields DEF Init, NoSkips
<1>2. NoSkips /\ RecInv /\ [Next]_vars => NoSkips'
  BY StepHonours DEF NoSkips, Honours
<1> QED BY <1>1, <1>2, RecordsAlways, PTL DEF Spec

\* Where no scheduled fire is skipped for a cooldown, every entry of a mutex
\* queue names a run whose record still says queued, or was pruned.
THEOREM QueuesHoldQueued ==
  ASSUME CooldownJobs = {}
  PROVE  Spec => []EntriesAreQueued
<1>1. RecInv /\ NoSkips => EntriesAreQueued
  <2> SUFFICES ASSUME RecInv, NoSkips, NEW g \in Groups, NEW i \in DOMAIN queue[g]
               PROVE  runs[queue[g][i]].status = "queued" \/ ~runs[queue[g][i]].dir
    BY DEF EntriesAreQueued
  <2>1. Awaited(queue[g][i])
    BY DEF Awaited
  <2>2. InLine(runs[queue[g][i]]) /\ runs[queue[g][i]].status # "skipped"
    BY <2>1, AwaitedFacts DEF NoSkips
  <2> QED BY <2>2 DEF InLine
<1> QED BY <1>1, RecordsAlways, SkipsAreCooldowns, PTL
-----------------------------------------------------------------------------
(* Only jobs with a group are swept for and queued. *)

GroupedAs(p) ==
  (Sweeping(p) \/ p.pc = "enqueue" \/ (p.pc \in {"admit", "record"} /\ p.held))
    => Group[p.fire] # NoGroup

LEMMA GroupedFacts == Grouped <=> \A a \in Actors : GroupedAs(proc[a])
BY DEF Grouped, GroupedAs

\* Program counters of which nothing is asked.
LEMMA FreePcs ==
  ASSUME NEW p, p.pc \notin {"sweep", "look", "reap", "enqueue", "admit", "record"}
  PROVE  GroupedAs(p)
BY DEF GroupedAs, Sweeping

LEMMA OneGrouped ==
  ASSUME RecInv, Grouped, NEW a \in Actors, NEW q, GroupedAs(q), proc' = [proc EXCEPT ![a] = q]
  PROVE  Grouped'
<1>1. \A b \in Actors : proc'[b] = IF b = a THEN q ELSE proc[b]
  BY Actor
<1>2. \A b \in Actors : GroupedAs(proc'[b])
  BY <1>1, GroupedFacts
<1> QED BY <1>2 DEF Grouped, GroupedAs

LEMMA OthersGrouped ==
  ASSUME RecInv, Grouped, NEW a \in Actors, GroupedAs(proc'[a]),
         \A b \in Actors : b # a => proc'[b] = proc[b]
  PROVE  Grouped'
<1>1. \A b \in Actors : GroupedAs(proc'[b])
  BY GroupedFacts
<1> QED BY <1>1 DEF Grouped, GroupedAs

LEMMA AdmittingGrouped ==
  ASSUME NEW p \in ProcState, NEW j
  PROVE  GroupedAs(Admitting(p, j))
BY DEF Admitting, ProcState, GroupedAs, Sweeping

LEMMA DecidedGrouped ==
  ASSUME RecInv, NEW a \in Actors, Group[proc[a].fire] # NoGroup, NEW held
  PROVE  GroupedAs(Decided(a, held))
<1>1. proc[a] \in ProcState
  BY Actor
<1> QED BY <1>1 DEF Decided, GroupedAs, Sweeping, ProcState

LEMMA LookedGrouped ==
  ASSUME RecInv, NEW a \in Actors, Group[proc[a].fire] # NoGroup, NEW o
  PROVE  GroupedAs(Looked(a, o))
<1>1. proc[a] \in ProcState
  BY Actor
<1>2. GroupedAs([proc[a] EXCEPT !.pc = "sweep", !.at = o + 1])
  BY <1>1 DEF GroupedAs, Sweeping, ProcState
<1> QED BY <1>2, DecidedGrouped DEF Looked

LEMMA SharedGrouped ==
  ASSUME RecInv, Grouped, NEW a \in Actors, SharedStep(a)
  PROVE  Grouped'
<1> DEFINE p == proc[a]
<1>1. p \in ProcState /\ GroupedAs(p) /\ proc \in [Actors -> ProcState]
  BY Actor, GroupedFacts
<1>2. p.pc \in {"sweep", "look"} => Group[p.fire] # NoGroup
  BY <1>1 DEF GroupedAs, Sweeping
<1>3. CASE SweepEnd(a) \/ LookAfterReap(a) \/ \E o \in Jobs : SweepLook(a, o)
  <2>1. \E q : GroupedAs(q) /\ proc' = [proc EXCEPT ![a] = q]
    BY <1>2, <1>3, DecidedGrouped, LookedGrouped DEF SweepEnd, LookAfterReap, SweepLook
  <2> QED BY <2>1, OneGrouped
<1>4. ASSUME NEW o \in Jobs, SweepList(a, o) PROVE Grouped'
  <2> DEFINE q == [p EXCEPT !.pc = "reap", !.at = o, !.dead = Stranded(o)]
  <2>1. q.pc = "reap" /\ q.fire = p.fire
    BY <1>1 DEF ProcState
  <2>2. proc' = [proc EXCEPT ![a] = q] /\ p.pc = "sweep"
    BY <1>1, <1>4 DEF SweepList
  <2>3. GroupedAs(q)
    BY <1>2, <2>1, <2>2 DEF GroupedAs
  <2> HIDE DEF q
  <2> QED BY <2>2, <2>3, OneGrouped
<1>5. ASSUME NEW r \in RunIds, ReapOne(a, r) PROVE Grouped'
  <2> DEFINE q == proc'[a]
  <2>1. \A b \in Actors : b # a => proc'[b] = proc[b]
    BY <1>1, <1>5 DEF ReapOne
  <2>2. \/ q.pc = "drain" \/ q = Idle
        \/ q.pc = "look" /\ p.mode # "poll" /\ q.fire = p.fire
        \/ q.pc = "reap" /\ q.mode = p.mode /\ q.fire = p.fire
    BY <1>1, <1>5 DEF ReapOne, ProcState
  <2>3. p.pc = "reap"
    BY <1>5 DEF ReapOne
  <2>4. GroupedAs(q)
    BY <1>1, <2>2, <2>3 DEF GroupedAs, Sweeping, Idle
  <2> QED BY <2>1, <2>4, OthersGrouped
<1>6. CASE MakeRunDir(a)
  <2> DEFINE q == [p EXCEPT !.pc = "record", !.new = made + 1]
  <2>1. q.pc = "record" /\ q.fire = p.fire /\ q.held = p.held /\ p.pc = "admit"
    BY <1>1, <1>6 DEF ProcState, MakeRunDir
  <2>2. proc' = [proc EXCEPT ![a] = q]
    BY <1>1, <1>6 DEF MakeRunDir
  <2>3. GroupedAs(q)
    BY <1>1, <2>1 DEF GroupedAs, Sweeping
  <2> HIDE DEF q
  <2> QED BY <2>2, <2>3, OneGrouped
<1>7. CASE RecordFire(a)
  <2> DEFINE q == proc'[a]
  <2>1. \A b \in Actors : b # a => proc'[b] = proc[b]
    BY <1>1, <1>7 DEF RecordFire
  <2>2. \/ q = Idle \/ q.pc = "spawn"
        \/ q.pc = "enqueue" /\ q.fire = p.fire /\ p.held /\ p.pc = "record"
    BY <1>1, <1>7 DEF RecordFire, ProcState
  <2>3. GroupedAs(q)
    BY <1>1, <2>2 DEF GroupedAs, Sweeping, Idle
  <2> QED BY <2>1, <2>3, OthersGrouped
<1>8. CASE Enqueue(a) \/ SpawnFails(a)
  <2>1. proc' = [proc EXCEPT ![a] = Admitted(a)] /\ p.pc \in {"enqueue", "spawn"}
    BY <1>8 DEF Enqueue, SpawnFails
  <2>2. GroupedAs(Admitted(a))
    BY <2>1, AdmittedCalm, FreePcs
  <2> QED BY <2>1, <2>2, OneGrouped
<1>9. CASE Spawn(a) \/ Launch(a)
  <2>1. PICK e, q, s :
          /\ e \in Executors /\ proc' = [proc EXCEPT ![a] = q, ![e] = s]
          /\ q \in {Idle, Admitted(a)} /\ \E j, r : s = Started(j, r)
          /\ p.pc \in {"spawn", "launch"} /\ (p.pc = "launch" => q = Idle)
    BY <1>9 DEF Spawn, Launch
  <2>2. GroupedAs(q)
    BY <2>1, AdmittedCalm, FreePcs DEF Idle
  <2>3. s.pc = "start"
    BY <2>1 DEF Started, Idle
  <2>4. GroupedAs(s)
    BY <2>3, FreePcs
  <2>5. \A b \in Actors : proc'[b] \in {proc[b], q, s}
    BY <1>1, <2>1 DEF Actors
  <2>6. \A b \in Actors : GroupedAs(proc'[b])
    BY <2>2, <2>4, <2>5, GroupedFacts
  <2> QED BY <2>6 DEF Grouped, GroupedAs
<1>10. CASE DrainPop(a) \/ LaunchSkip(a) \/ LaunchFails(a)
  <2>1. \A b \in Actors : b # a => proc'[b] = proc[b]
    BY <1>1, <1>10 DEF DrainPop, LaunchSkip, LaunchFails
  <2>2. proc'[a].pc \in {"idle", "launch"}
    <3>1. Idle.pc = "idle" /\ \A n : [p EXCEPT !.pc = "launch", !.new = n].pc = "launch"
      BY <1>1 DEF Idle, ProcState
    <3>2. CASE DrainPop(a)
      <4>1. \/ proc' = [proc EXCEPT ![a] = Idle]
            \/ \E n : proc' = [proc EXCEPT ![a] = [p EXCEPT !.pc = "launch", !.new = n]]
        BY <1>1, <3>2 DEF DrainPop
      <4> QED BY <1>1, <3>1, <4>1
    <3>3. CASE LaunchSkip(a) \/ LaunchFails(a)
      BY <1>1, <3>1, <3>3 DEF LaunchSkip, LaunchFails
    <3> QED BY <1>10, <3>2, <3>3
  <2>3. GroupedAs(proc'[a])
    BY <2>2, FreePcs
  <2> QED BY <2>1, <2>3, OthersGrouped
<1> HIDE DEF p
<1> QED BY <1>3, <1>4, <1>5, <1>6, <1>7, <1>8, <1>9, <1>10 DEF SharedStep

LEMMA ExecGrouped ==
  ASSUME RecInv, Grouped, NEW e \in Executors, ExecutorStep(e)
  PROVE  Grouped'
<1>1. e \in Actors /\ proc[e] \in ProcState /\ proc \in [Actors -> ProcState] /\ registry \subseteq Jobs
  BY Actor DEF Actors, RecInv, ClaimsInv, TypeInv, TypeOK
<1>2. ASSUME NEW p \in ProcState, NEW j, proc' = [proc EXCEPT ![e] = Admitting(p, j)]
      PROVE  Grouped'
  BY <1>1, <1>2, AdmittingGrouped, OneGrouped
<1>3. ASSUME NEW q, proc' = [proc EXCEPT ![e] = q],
             q.pc \notin {"sweep", "look", "reap", "enqueue", "admit", "record"}
      PROVE  Grouped'
  BY <1>1, <1>3, FreePcs, OneGrouped
<1>4. CASE ExecStart(e)
  <2> DEFINE p == [proc[e] EXCEPT !.cfg = registry]
  <2>1. \/ proc' = [proc EXCEPT ![e] = Admitting(p, proc[e].job)]
        \/ \E pc \in {"build", "newrun"} : proc' = [proc EXCEPT ![e] = [proc[e] EXCEPT !.pc = pc]]
    BY <1>4 DEF ExecStart
  <2>2. p \in ProcState
    BY <1>1, ZenonT(40) DEF ProcState
  <2>3. \A pc : [proc[e] EXCEPT !.pc = pc].pc = pc
    BY <1>1 DEF ProcState
  <2> HIDE DEF p
  <2> QED BY <1>2, <1>3, <2>1, <2>2, <2>3
<1>5. CASE ExecFollow(e)
  <2> DEFINE p == [proc[e] EXCEPT !.cfg = registry]
  <2>1. PICK c \in {OnSuccess[proc[e].job], OnFailure[proc[e].job]} :
          proc' = [proc EXCEPT ![e] = Chained(p, c)]
    BY <1>5 DEF ExecFollow
  <2>2. p \in ProcState
    BY <1>1, ZenonT(40) DEF ProcState
  <2> HIDE DEF p
  <2>3. Chained(p, c).pc \in {"chain", "drain"}
    BY <2>2, ChainedFields
  <2> QED BY <1>3, <2>1, <2>3
<1>6. CASE ExecChain(e)
  <2> DEFINE d == Head(proc[e].chain)
             rest == Tail(proc[e].chain)
             p == [proc[e] EXCEPT !.chain = rest]
  <2>1. \/ proc' = [proc EXCEPT ![e] = Admitting(p, d)]
        \/ proc' = [proc EXCEPT ![e] = Chained(proc[e], rest)]
    BY <1>6 DEF ExecChain
  <2>2. proc[e].chain \in Seq(Jobs) /\ proc[e].chain # << >>
    BY <1>1, <1>6, Actor DEF ProcState, ProcShape, ExecChain
  <2>3. rest \in Seq(Jobs)
    BY <2>2
  <2> HIDE DEF d, rest
  <2>4. p \in ProcState
    BY <1>1, <2>3, ZenonT(40) DEF ProcState
  <2> HIDE DEF p
  <2>5. Chained(proc[e], rest).pc \in {"chain", "drain"}
    BY <1>1, ChainedFields
  <2> QED BY <1>2, <1>3, <2>1, <2>4, <2>5
<1>7. CASE \/ ExecUnknownJob(e) \/ CooldownSkip(e) \/ ExecNewRun(e) \/ ExecBuildFails(e)
           \/ ExecRunning(e) \/ ExecPopen(e) \/ ExecPopenFails(e) \/ ExecWritePid(e)
           \/ ExecWait(e) \/ ExecFinish(e) \/ ExecFinal(e)
  <2>1. \A b \in Actors : b # e => proc'[b] = proc[b]
    BY <1>1, <1>7 DEF ExecUnknownJob, CooldownSkip, ExecNewRun, ExecBuildFails, ExecRunning,
       ExecPopen, ExecPopenFails, ExecWritePid, ExecWait, ExecFinish, ExecFinal
  <2>2. proc'[e].pc \in {"idle", "build", "popen", "pid", "finish", "wait", "final", "follow"}
    <3>1. CASE ExecUnknownJob(e) \/ CooldownSkip(e) \/ ExecBuildFails(e)
      BY <1>1, <3>1 DEF ExecUnknownJob, CooldownSkip, ExecBuildFails, Idle
    <3>2. CASE ExecNewRun(e) \/ ExecRunning(e) \/ ExecPopen(e)
      BY <1>1, <3>2 DEF ExecNewRun, ExecRunning, ExecPopen, ProcState
    <3>3. CASE ExecPopenFails(e) \/ ExecWritePid(e) \/ ExecWait(e)
      <4>1. \/ \E ok : proc' = [proc EXCEPT ![e] = [proc[e] EXCEPT !.pc = "finish", !.ok = ok]]
            \/ proc' = [proc EXCEPT ![e] = [proc[e] EXCEPT !.pc = "wait"]]
        BY <1>1, <3>3, Zenon DEF ExecPopenFails, ExecWritePid, ExecWait
      <4>2. [proc[e] EXCEPT !.pc = "wait"].pc = "wait"
        BY <1>1, GoesTo
      <4>3. \A ok : [proc[e] EXCEPT !.pc = "finish", !.ok = ok].pc = "finish"
        BY <1>1, GoesTo
      <4>4. ASSUME NEW q, proc' = [proc EXCEPT ![e] = q] PROVE proc'[e] = q
        BY <1>1, <4>4
      <4>5. proc'[e].pc \in {"finish", "wait"}
        BY <4>1, <4>2, <4>3, <4>4, Zenon
      <4> QED BY <4>5
    <3>4. CASE ExecFinish(e) \/ ExecFinal(e)
      BY <1>1, <3>4 DEF ExecFinish, ExecFinal, ProcState, Idle
    <3> QED BY <1>7, <3>1, <3>2, <3>3, <3>4
  <2>3. GroupedAs(proc'[e])
    BY <2>2, FreePcs
  <2> QED BY <1>1, <2>1, <2>3, OthersGrouped
<1> QED BY <1>4, <1>5, <1>6, <1>7 DEF ExecutorStep

LEMMA RequestGrouped ==
  ASSUME RecInv, Grouped, Requests
  PROVE  Grouped'
<1>1. Handlers \subseteq Actors /\ Executors \subseteq Actors /\ registry \subseteq Jobs
  BY DEF Actors, RecInv, ClaimsInv, TypeInv, TypeOK
<1>2. ASSUME NEW h \in Handlers, NEW j \in Jobs, Fire(h, j) PROVE Grouped'
  <2> DEFINE p == [Idle EXCEPT !.job = j, !.cfg = registry]
  <2>1. p \in ProcState
    <3>1. j \in 0 .. NumJobs /\ Idle \in ProcState
      BY Ranges, IdleType
    <3> QED BY <1>1, <3>1, ZenonT(40) DEF ProcState
  <2>2. proc' = [proc EXCEPT ![h] = Admitting(p, j)]
    BY <1>2 DEF Fire
  <2> HIDE DEF p
  <2> QED BY <1>1, <2>1, <2>2, AdmittingGrouped, OneGrouped
<1>3. ASSUME NEW a \in Actors, NEW q, proc' = [proc EXCEPT ![a] = q],
             \/ q.pc \in {"start", "stamp"} \/ (q.pc = "admit" /\ ~q.held)
             \/ (q.pc = "reap" /\ q.mode = "poll")
      PROVE  Grouped'
  <2>1. GroupedAs(q)
    BY <1>3 DEF GroupedAs, Sweeping
  <2> QED BY <1>3, <2>1, OneGrouped
<1>4. ASSUME NEW h \in Handlers, NEW j \in Jobs, NEW m \in {"dry_execute", "dry_check"},
             DryRun(h, j, m)
      PROVE  Grouped'
  <2> DEFINE q == [Idle EXCEPT !.pc = "admit", !.job = j, !.fire = j, !.mode = m]
  <2>1. proc' = [proc EXCEPT ![h] = q] /\ q.pc = "admit" /\ ~q.held
    BY <1>4 DEF DryRun, Idle
  <2> HIDE DEF q
  <2> QED BY <1>1, <1>3, <2>1
<1>5. ASSUME NEW e \in Executors, NEW j \in Jobs, ScheduledFire(e, j) PROVE Grouped'
  <2>1. proc' = [proc EXCEPT ![e] = Started(j, 0)] /\ Started(j, 0).pc = "start"
    BY <1>5 DEF ScheduledFire, Started, Idle
  <2> QED BY <1>1, <1>3, <2>1
<1>6. ASSUME NEW h \in Handlers, NEW r \in RunIds, KillRead(h, r) PROVE Grouped'
  <2> DEFINE q == [Idle EXCEPT !.pc = "stamp", !.job = runs[r].job, !.run = r, !.hit = runs[r].pid]
  <2>1. proc' = [proc EXCEPT ![h] = q] /\ q.pc = "stamp"
    BY <1>6 DEF KillRead, Idle
  <2> HIDE DEF q
  <2> QED BY <1>1, <1>3, <2>1
<1>7. ASSUME NEW h \in Handlers, NEW j \in Jobs, Poll(h, j) PROVE Grouped'
  <2> DEFINE q == [Idle EXCEPT !.pc = "reap", !.job = j, !.mode = "poll", !.dead = Stranded(j)]
  <2>1. proc' = [proc EXCEPT ![h] = q] /\ q.pc = "reap" /\ q.mode = "poll"
    BY <1>7 DEF Poll, Idle
  <2> HIDE DEF q
  <2> QED BY <1>1, <1>3, <2>1
<1>8. ASSUME NEW j \in Jobs, DeleteJob(j) PROVE Grouped'
  BY <1>8 DEF DeleteJob, Grouped, Sweeping
<1> QED BY <1>2, <1>4, <1>5, <1>6, <1>7, <1>8 DEF Requests

LEMMA GroupedStep ==
  ASSUME RecInv, Grouped, [Next]_vars
  PROVE  Grouped'
<1>1. CASE UNCHANGED proc
  <2>1. \A a \in Actors : GroupedAs(proc'[a])
    BY <1>1, GroupedFacts
  <2> QED BY <2>1 DEF Grouped, GroupedAs
<1>2. ASSUME NEW h \in Handlers, KillStep(h) PROVE Grouped'
  <2>1. h \in Actors
    BY DEF Actors
  <2>2. \/ proc' = [proc EXCEPT ![h] = [proc[h] EXCEPT !.pc = "killtree"]]
        \/ proc' = [proc EXCEPT ![h] = [proc[h] EXCEPT !.pc = "drain"]]
    BY <1>2, <2>1, Actor DEF KillStep, KillStamp, KillTree
  <2>3. /\ [proc[h] EXCEPT !.pc = "killtree"].pc = "killtree"
        /\ [proc[h] EXCEPT !.pc = "drain"].pc = "drain"
    BY <2>1, Actor DEF ProcState
  <2>4. /\ GroupedAs([proc[h] EXCEPT !.pc = "killtree"])
        /\ GroupedAs([proc[h] EXCEPT !.pc = "drain"])
    BY <2>3, FreePcs
  <2> QED BY <2>1, <2>2, <2>4, OneGrouped
<1>3. CASE Deaths
  <2>1. \A a \in Actors : proc'[a] = proc[a] \/ proc'[a] = Idle
    BY <1>3 DEF Deaths, ChildExit, ExecutorCrash, WebappCrash, RecInv, ClaimsInv, TypeInv, TypeOK
  <2>2. GroupedAs(Idle)
    BY FreePcs DEF Idle
  <2>3. \A a \in Actors : GroupedAs(proc'[a])
    BY <2>1, <2>2, GroupedFacts
  <2> QED BY <2>3 DEF Grouped, GroupedAs
<1>4. \/ UNCHANGED proc \/ Deaths \/ Requests \/ \E h \in Handlers : KillStep(h)
      \/ (\E a \in Actors : SharedStep(a)) \/ \E e \in Executors : ExecutorStep(e)
  BY DEF Next, vars
<1> QED BY <1>1, <1>2, <1>3, <1>4, SharedGrouped, ExecGrouped, RequestGrouped

-----------------------------------------------------------------------------
(* Where there are no faults, a run on record as queued stays in its queue  *)
(* or in somebody's hands.                                                  *)

\* Who can let go of a run on record as queued.
HandsPcs == {"enqueue", "launch", "start", "build"}
LetsGo(a) ==
  \/ Enqueue(a) \/ Launch(a) \/ LaunchSkip(a)
  \/ a \in Executors /\ (\/ ExecUnknownJob(a) \/ ExecStart(a) \/ CooldownSkip(a)
                         \/ ExecBuildFails(a) \/ ExecRunning(a))

LEMMA SharedHands ==
  ASSUME RecInv, ~SpawnMayFail, NEW b \in Actors, SharedStep(b), NEW a \in Actors,
         proc[a].pc \in HandsPcs
  PROVE  proc'[a] = proc[a] \/ LetsGo(a)
<1>1. proc \in [Actors -> ProcState]
  BY Actor
<1>2. ASSUME NEW q, proc' = [proc EXCEPT ![b] = q], proc[b].pc \notin HandsPcs
      PROVE  proc'[a] = proc[a]
  BY <1>1, <1>2
<1>3. CASE SweepEnd(b) \/ LookAfterReap(b) \/ (\E o \in Jobs : SweepLook(b, o) \/ SweepList(b, o))
  <2>1. proc[b].pc \in {"sweep", "look"} /\ \E q : proc' = [proc EXCEPT ![b] = q]
    BY <1>3 DEF SweepEnd, LookAfterReap, SweepLook, SweepList
  <2> QED BY <1>2, <2>1 DEF HandsPcs
<1>4. CASE MakeRunDir(b) \/ RecordFire(b) \/ DrainPop(b) \/ \E r \in RunIds : ReapOne(b, r)
  <2>1. proc[b].pc \in {"admit", "record", "reap", "drain"} /\ \E q : proc' = [proc EXCEPT ![b] = q]
    BY <1>4 DEF MakeRunDir, RecordFire, ReapOne, DrainPop
  <2> QED BY <1>2, <2>1 DEF HandsPcs
<1>5. CASE Enqueue(b) \/ LaunchSkip(b)
  <2>1. a = b => LetsGo(a)
    BY <1>5 DEF LetsGo
  <2>2. a # b => proc'[a] = proc[a]
    BY <1>1, <1>5 DEF Enqueue, LaunchSkip
  <2> QED BY <2>1, <2>2
<1>6. CASE Spawn(b) \/ Launch(b)
  <2>1. proc[a].pc # "idle"
    BY DEF HandsPcs
  <2>2. a # b => proc'[a] = proc[a]
    BY <1>1, <1>6, <2>1 DEF Spawn, Launch
  <2>3. a = b => LetsGo(a)
    BY <1>6 DEF LetsGo, Spawn, HandsPcs
  <2> QED BY <2>2, <2>3
<1> QED BY <1>3, <1>4, <1>5, <1>6 DEF SharedStep, SpawnFails, LaunchFails

LEMMA ExecHands ==
  ASSUME RecInv, NEW e \in Executors, ExecutorStep(e), NEW a \in Actors,
         proc[a].pc \in HandsPcs
  PROVE  proc'[a] = proc[a] \/ LetsGo(a)
<1>1. proc \in [Actors -> ProcState] /\ e \in Actors
  BY Actor DEF Actors
<1>2. \E q : proc' = [proc EXCEPT ![e] = q]
  BY DEF ExecutorStep, ExecUnknownJob, ExecStart, CooldownSkip, ExecNewRun, ExecBuildFails,
     ExecRunning, ExecPopen, ExecPopenFails, ExecWritePid, ExecWait, ExecFinish, ExecFinal,
     ExecFollow, ExecChain
<1>3. a # e => proc'[a] = proc[a]
  BY <1>1, <1>2
<1>4. a = e => LetsGo(a)
  BY DEF LetsGo, HandsPcs, ExecutorStep, ExecNewRun, ExecPopen, ExecPopenFails, ExecWritePid,
     ExecWait, ExecFinish, ExecFinal, ExecFollow, ExecChain
<1> QED BY <1>3, <1>4

LEMMA HandsStep ==
  ASSUME RecInv, NoFaults, [Next]_vars, NEW a \in Actors, proc[a].pc \in HandsPcs
  PROVE  proc'[a] = proc[a] \/ LetsGo(a)
<1>1. proc \in [Actors -> ProcState] /\ proc[a].pc # "idle" /\ crashes \in 0 .. MaxCrashes
  BY Actor DEF HandsPcs, RecInv, ClaimsInv, TypeInv, TypeOK
<1>2. CASE UNCHANGED proc
  BY <1>2
<1>3. ASSUME NEW h \in Handlers, KillStep(h) PROVE proc'[a] = proc[a]
  BY <1>1, <1>3 DEF KillStep, KillStamp, KillTree, HandsPcs
<1>4. CASE Requests
  <2>1. ASSUME NEW b \in Actors, NEW q, proc[b].pc = "idle", proc' = [proc EXCEPT ![b] = q]
        PROVE  proc'[a] = proc[a]
    BY <1>1, <2>1
  <2>2. \/ UNCHANGED proc
        \/ \E b \in Actors : \E q : proc[b].pc = "idle" /\ proc' = [proc EXCEPT ![b] = q]
    BY <1>4 DEF Requests, Fire, Poll, DryRun, ScheduledFire, KillRead, DeleteJob, Actors
  <2> QED BY <2>1, <2>2
<1>5. CASE Deaths
  <2>1. MaxCrashes = 0 /\ ~(crashes < MaxCrashes)
    BY <1>1 DEF NoFaults
  <2> QED BY <1>5, <2>1 DEF Deaths, ChildExit, ExecutorCrash, WebappCrash
<1>6. \/ UNCHANGED proc \/ Deaths \/ Requests \/ \E h \in Handlers : KillStep(h)
      \/ (\E b \in Actors : SharedStep(b)) \/ \E e \in Executors : ExecutorStep(e)
  BY DEF Next, vars
<1> QED BY <1>2, <1>3, <1>4, <1>5, <1>6, SharedHands, ExecHands DEF NoFaults

\* Queues grow at the end and shrink at the head.
LEMMA QueueMoves ==
  ASSUME [Next]_vars
  PROVE  queue' = queue \/ \E b \in Actors : Enqueue(b) \/ DrainPop(b)
<1>1. CASE \E a \in Actors : SharedStep(a)
  BY <1>1 DEF SharedStep, SweepEnd, LookAfterReap, SweepLook, SweepList, ReapOne, MakeRunDir,
     RecordFire, Spawn, SpawnFails, LaunchSkip, Launch, LaunchFails
<1>2. CASE \E e \in Executors : ExecutorStep(e)
  BY <1>2 DEF ExecutorStep, ExecUnknownJob, ExecStart, CooldownSkip, ExecNewRun, ExecBuildFails,
     ExecRunning, ExecPopen, ExecPopenFails, ExecWritePid, ExecWait, ExecFinish, ExecFinal,
     ExecFollow, ExecChain
<1>3. CASE \/ UNCHANGED vars \/ (\E h \in Handlers : KillStep(h)) \/ Requests \/ Deaths
  BY <1>3 DEF vars, KillStep, KillStamp, KillTree, Requests, Fire, Poll, DryRun, ScheduledFire,
     KillRead, DeleteJob, Deaths, ChildExit, ExecutorCrash, WebappCrash
<1> QED BY <1>1, <1>2, <1>3 DEF Next

Held(r) == Awaited(r) \/ Popped(r) \/ Begun(r)

\* The entries of a queue.
Entry(q, r) == \E i \in DOMAIN q : q[i] = r

LEMMA EntryMoves ==
  ASSUME NEW q \in Seq(RunIds), NEW r
  PROVE  /\ \A n \in RunIds : Entry(Append(q, n), n)
         /\ \A n \in RunIds : Entry(q, r) => Entry(Append(q, n), r)
         /\ (Entry(q, r) /\ q # << >>) => (Head(q) = r \/ Entry(Tail(q), r))
<1>1. \A n \in RunIds : Entry(Append(q, n), n)
  <2> TAKE n \in RunIds
  <2>1. Len(q) + 1 \in DOMAIN Append(q, n) /\ Append(q, n)[Len(q) + 1] = n
    OBVIOUS
  <2> QED BY <2>1 DEF Entry
<1>2. \A n \in RunIds : Entry(q, r) => Entry(Append(q, n), r)
  <2> SUFFICES ASSUME NEW n \in RunIds, NEW i \in DOMAIN q, q[i] = r
               PROVE  Entry(Append(q, n), r)
    BY DEF Entry
  <2>1. i \in DOMAIN Append(q, n) /\ Append(q, n)[i] = r
    OBVIOUS
  <2> QED BY <2>1 DEF Entry
<1>3. ASSUME NEW i \in DOMAIN q, q[i] = r, q # << >> PROVE Head(q) = r \/ Entry(Tail(q), r)
  <2>1. CASE i = 1
    BY <1>3, <2>1
  <2>2. CASE i # 1
    <3>1. i - 1 \in DOMAIN Tail(q) /\ Tail(q)[i - 1] = r
      BY <1>3, <2>2
    <3> QED BY <3>1 DEF Entry
  <2> QED BY <2>1, <2>2
<1>4. (Entry(q, r) /\ q # << >>) => (Head(q) = r \/ Entry(Tail(q), r))
  BY <1>3 DEF Entry
<1> QED BY <1>1, <1>2, <1>4

\* A queued entry stays in its queue until it is popped to be launched.
LEMMA EntryStays ==
  ASSUME RecInv, [Next]_vars, NEW g \in Groups, NEW r, Entry(queue[g], r)
  PROVE  Entry(queue'[g], r) \/ Popped(r)'
<1>1. queue \in [Groups -> Seq(RunIds)] /\ queue[g] \in Seq(RunIds)
  BY DEF RecInv, ClaimsInv, TypeInv, TypeOK
<1>2. CASE queue' = queue
  BY <1>2
<1>3. ASSUME NEW b \in Actors, Enqueue(b) PROVE Entry(queue'[g], r)
  <2>1. proc[b].new \in RunIds
    BY <1>3, NewRun DEF Enqueue, LaunchPcs
  <2>2. queue'[g] = queue[g] \/ queue'[g] = Append(queue[g], proc[b].new)
    BY <1>1, <1>3 DEF Enqueue
  <2>3. Entry(Append(queue[g], proc[b].new), r)
    BY <1>1, <2>1, EntryMoves
  <2> QED BY <2>2, <2>3
<1>4. ASSUME NEW b \in Actors, DrainPop(b) PROVE Entry(queue'[g], r) \/ Popped(r)'
  <2> DEFINE k == Group[proc[b].job]
             q == [proc[b] EXCEPT !.pc = "launch", !.new = Head(queue[k])]
  <2>1. CASE queue' = queue
    BY <2>1
  <2>2. CASE queue' # queue
    <3>1. /\ queue' = [queue EXCEPT ![k] = Tail(queue[k])] /\ queue[k] # << >>
          /\ proc' = [proc EXCEPT ![b] = q]
      BY <1>1, <1>4, <2>2, Actor DEF DrainPop
    <3>2. proc'[b] = q /\ q.pc = "launch" /\ q.new = Head(queue[k])
      BY <3>1, Actor DEF ProcState
    <3>3. CASE k # g
      BY <1>1, <3>1, <3>3
    <3>4. CASE k = g
      <4>1. queue'[g] = Tail(queue[g]) /\ queue[g] # << >>
        BY <1>1, <3>1, <3>4
      <4>2. Head(queue[g]) = r \/ Entry(Tail(queue[g]), r)
        BY <1>1, <4>1, EntryMoves
      <4>3. Head(queue[g]) = r => Popped(r)'
        BY <3>2, <3>4 DEF Popped
      <4> QED BY <4>1, <4>2, <4>3
    <3> QED BY <3>3, <3>4
  <2> QED BY <2>1, <2>2
<1> QED BY <1>2, <1>3, <1>4, QueueMoves

\* A run that waits in a queue, or that a process is about to put there.
LEMMA AwaitedStays ==
  ASSUME RecInv, NoFaults, Grouped, [Next]_vars, NEW r, Awaited(r)
  PROVE  Held(r)'
<1>1. ASSUME NEW g \in Groups, Entry(queue[g], r) PROVE Held(r)'
  <2>1. Entry(queue'[g], r) \/ Popped(r)'
    BY <1>1, EntryStays
  <2> QED BY <2>1 DEF Held, Awaited, Entry
<1>2. ASSUME NEW a \in Actors, proc[a].pc = "enqueue", proc[a].new = r PROVE Held(r)'
  <2>1. proc'[a] = proc[a] \/ LetsGo(a)
    BY <1>2, HandsStep DEF HandsPcs
  <2>2. CASE proc'[a] = proc[a]
    BY <1>2, <2>2 DEF Held, Awaited
  <2>3. CASE LetsGo(a)
    <3> DEFINE g == Group[proc[a].fire]
    <3>1. Enqueue(a)
      BY <1>2, <2>3 DEF LetsGo, Launch, LaunchSkip, ExecUnknownJob, ExecStart, CooldownSkip,
         ExecBuildFails, ExecRunning
    <3>2. g \in Groups
      <4>1. proc[a].fire \in Jobs
        BY <1>2, Actor DEF ProcShape, AdmitPcs
      <4>2. g # NoGroup
        BY <1>2, GroupedFacts DEF GroupedAs
      <4> QED BY <4>1, <4>2, GroupAssumption
    <3> HIDE DEF g
    <3>3. queue' = [queue EXCEPT ![g] = Append(queue[g], r)]
      BY <1>2, <3>1, <3>2 DEF Enqueue, g, RecInv, ClaimsInv, TypeInv, TypeOK
    <3>4. queue'[g] = Append(queue[g], r) /\ queue[g] \in Seq(RunIds)
      BY <3>2, <3>3 DEF RecInv, ClaimsInv, TypeInv, TypeOK
    <3>5. r \in RunIds
      BY <1>2, NewRun DEF LaunchPcs
    <3>6. Entry(queue'[g], r)
      BY <3>4, <3>5, EntryMoves
    <3> QED BY <3>2, <3>6 DEF Held, Awaited, Entry
  <2> QED BY <2>1, <2>2, <2>3
<1> QED BY <1>1, <1>2 DEF Awaited, Entry

\* A popped run is spawned, or is no longer on record as queued.
LEMMA PoppedStays ==
  ASSUME RecInv, NoFaults, [Next]_vars, NEW r, Popped(r), runs[r].status = "queued"
  PROVE  Held(r)'
<1>1. PICK a \in Actors : proc[a].pc = "launch" /\ proc[a].new = r
  BY DEF Popped
<1>2. proc'[a] = proc[a] \/ LetsGo(a)
  BY <1>1, HandsStep DEF HandsPcs
<1>3. CASE proc'[a] = proc[a]
  BY <1>1, <1>3 DEF Held, Popped
<1>4. CASE LetsGo(a)
  <2>1. Launch(a)
    BY <1>1, <1>4 DEF LetsGo, Enqueue, LaunchSkip, ExecUnknownJob, ExecStart, CooldownSkip,
       ExecBuildFails, ExecRunning
  <2>2. PICK e \in Executors :
          proc' = [proc EXCEPT ![a] = Idle, ![e] = Started(runs[proc[a].new].job, proc[a].new)]
    BY <2>1 DEF Launch
  <2>3. proc'[e] = Started(runs[r].job, r)
    BY <1>1, <2>2, Actor DEF Actors
  <2>4. proc'[e].pc = "start" /\ proc'[e].run = r
    BY <2>3 DEF Started, Idle
  <2> QED BY <2>4 DEF Held, Begun
<1> QED BY <1>2, <1>3, <1>4

\* An executor that was spawned for a run keeps it until it has marked it
\* running, or as failed.
LEMMA BegunStays ==
  ASSUME RecInv, NoFaults, registry = Jobs, [Next]_vars, NEW r \in RunIds, Begun(r),
         runs'[r].status = "queued"
  PROVE  Held(r)'
<1>1. PICK e \in Executors : proc[e].pc \in {"start", "build"} /\ proc[e].run = r
  BY DEF Begun
<1>2. e \in Actors /\ proc[e] \in ProcState /\ proc[e].job \in Jobs /\ r # 0
  BY <1>1, Actor, RecFacts DEF Actors, ProcShape
<1>3. proc'[e] = proc[e] \/ LetsGo(e)
  BY <1>1, <1>2, HandsStep DEF HandsPcs
<1>4. CASE proc'[e] = proc[e]
  BY <1>1, <1>4 DEF Held, Begun
<1>5. CASE ExecStart(e)
  <2>1. proc' = [proc EXCEPT ![e] = [proc[e] EXCEPT !.pc = "build"]]
    BY <1>1, <1>2, <1>5 DEF ExecStart
  <2>2. proc'[e].pc = "build" /\ proc'[e].run = r
    BY <1>1, <1>2, <2>1, Actor DEF ProcState
  <2> QED BY <2>2 DEF Held, Begun
<1>6. ASSUME NEW status \in {"failed", "running"}, NEW exit \in {"none", "own", "kill"}
      PROVE  /\ Stamped(runs[r], status, exit) \in Record
             /\ Stamped(runs[r], status, exit).status # "queued"
  <2>1. runs[r] \in Record /\ (runs[r].killed => runs[r].status = "failed")
    BY RecFacts DEF RecordFits
  <2> QED BY <2>1, StampedType, StampedFields DEF Statuses
<1>7. CASE ExecBuildFails(e)
  <2> DEFINE x == Stamped(runs[r], "failed", "own")
             rs == [runs EXCEPT ![r] = x]
  <2>1. runs' = Pruned(proc[e].job, rs)
    BY <1>1, <1>2, <1>7, Actor DEF ExecBuildFails
  <2>2. x \in Record /\ x.status # "queued"
    BY <1>6
  <2> HIDE DEF x
  <2>3. rs \in [RunIds -> Record] /\ rs[r] = x
    BY <1>2, <2>2, Actor
  <2>4. proc[e].job \in 0 .. NumJobs
    BY <1>2, Ranges
  <2> HIDE DEF rs
  <2>5. runs'[r] = rs[r] \/ runs'[r] = Blank(proc[e].job)
    BY <2>1, <2>3, <2>4, PrunedType
  <2> QED BY <2>2, <2>3, <2>5, BlankFields
<1>8. CASE ExecRunning(e)
  <2> DEFINE x == Stamped(runs[r], "running", runs[r].exit)
  <2>1. x.status # "queued"
    <3>1. runs[r].exit \in {"none", "own", "kill"}
      BY RecFacts DEF Record
    <3> QED BY <1>6, <3>1
  <2>2. runs'[r] = x
    BY <1>1, <1>2, <1>8, Actor DEF ExecRunning
  <2> QED BY <2>1, <2>2
<1>9. CASE LetsGo(e)
  <2>1. ExecStart(e) \/ ExecBuildFails(e) \/ ExecRunning(e)
    BY <1>1, <1>2, <1>9 DEF LetsGo, Enqueue, Launch, LaunchSkip, ExecUnknownJob, CooldownSkip
  <2> QED BY <1>5, <1>7, <1>8, <2>1
<1> QED BY <1>3, <1>4, <1>9

\* A fire recorded as queued is next put in the queue.
LEMMA QueueingHeld ==
  ASSUME RecInv, NEW r, Queueing(r)
  PROVE  Held(r)'
<1>1. PICK a \in Actors : /\ proc[a].new = r /\ proc[a].held
                          /\ proc[a].mode # "dry_check" /\ RecordFire(a)
  BY DEF Queueing
<1>2. proc' = [proc EXCEPT ![a] = [proc[a] EXCEPT !.pc = "enqueue"]]
  BY <1>1 DEF RecordFire
<1>3. proc'[a].pc = "enqueue" /\ proc'[a].new = r
  BY <1>1, <1>2, Actor DEF ProcState
<1> QED BY <1>3 DEF Held, Awaited

LEMMA LinesStep ==
  ASSUME RecInv, NoFaults, Lines, [Next]_vars
  PROVE  Lines'
<1>1. registry' = registry
  <2>1. ~\E j \in Jobs : DeleteJob(j)
    BY DEF NoFaults, DeleteJob
  <2>2. CASE \E a \in Actors : SharedStep(a)
    BY <2>2 DEF SharedStep, SweepEnd, LookAfterReap, SweepLook, SweepList, ReapOne, MakeRunDir,
       RecordFire, Enqueue, Spawn, SpawnFails, DrainPop, LaunchSkip, Launch, LaunchFails
  <2>3. CASE \E e \in Executors : ExecutorStep(e)
    BY <2>3 DEF ExecutorStep, ExecUnknownJob, ExecStart, CooldownSkip, ExecNewRun,
       ExecBuildFails, ExecRunning, ExecPopen, ExecPopenFails, ExecWritePid, ExecWait, ExecFinish,
       ExecFinal, ExecFollow, ExecChain
  <2>4. CASE UNCHANGED vars \/ (\E h \in Handlers : KillStep(h)) \/ Requests \/ Deaths
    BY <2>1, <2>4 DEF vars, KillStep, KillStamp, KillTree, Requests, Fire, Poll, DryRun,
       ScheduledFire, KillRead, Deaths, ChildExit, ExecutorCrash, WebappCrash
  <2> QED BY <2>2, <2>3, <2>4 DEF Next
<1>2. Grouped'
  BY GroupedStep DEF Lines
<1>3. ASSUME NEW r \in RunIds, runs'[r].status = "queued" PROVE Held(r)'
  <2>1. runs[r].status = "queued" \/ Queueing(r)
    BY <1>3, StepHonours DEF Honours
  <2>2. CASE runs[r].status = "queued"
    <3>1. Awaited(r) \/ Popped(r) \/ Begun(r)
      BY <2>2 DEF Lines, QueuedHeld
    <3> QED BY <1>3, <2>2, <3>1, AwaitedStays, PoppedStays, BegunStays DEF Lines
  <2> QED BY <2>1, <2>2, QueueingHeld
<1> QED BY <1>1, <1>2, <1>3 DEF Lines, QueuedHeld, Held

LEMMA LinesInit == Init => Lines
  BY BlankFields DEF Init, Lines, Grouped, Sweeping, QueuedHeld, Idle

\* Where nobody dies, no spawn fails and no job is deleted, no queued fire is
\* lost: a run on record as queued is in a queue, with a process that is about
\* to queue or launch it, or with the executor spawned for it.
THEOREM QueuedRunsKept ==
  ASSUME NoFaults
  PROVE  Spec => []NoQueuedRunLost
<1>1. RecInv /\ Lines /\ [Next]_vars => Lines'
  BY LinesStep
<1>2. RecInv /\ Lines => NoQueuedRunLost
  <2> SUFFICES ASSUME RecInv, Lines, NEW r \in 1 .. made, runs[r].status = "queued"
               PROVE  QueuedAt(r) # {} \/ Launching(r) # {} \/ ExecutorsOf(r) # {}
    BY DEF NoQueuedRunLost
  <2>1. r \in RunIds
    BY Ranges DEF RecInv, ClaimsInv, TypeInv, TypeOK
  <2>2. Awaited(r) \/ Popped(r) \/ Begun(r)
    BY <2>1 DEF Lines, QueuedHeld
  <2> QED BY <2>2 DEF Awaited, Popped, Begun, QueuedAt, Launching, ExecutorsOf
<1> QED BY <1>1, <1>2, LinesInit, RecordsAlways, PTL DEF Spec
=============================================================================
