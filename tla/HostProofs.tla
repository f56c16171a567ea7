----------------------------- MODULE HostProofs -----------------------------
(***************************************************************************)
(* What is proved of the processes this host runs and of what they are     *)
(* given, each from the inductive invariant stated before its theorem: the *)
(* tray with its webapp and its other children, the apps it launches, the  *)
(* parameters of a run, the code a host and a page are running, the        *)
(* sessions a host holds, what is typed into one of them, and what the     *)
(* board shows: the last exchange of a session, and its card.              *)
(***************************************************************************)
EXTENDS Integers, Sequences, FiniteSets, FiniteSetTheorems, FunctionTheorems,
  SequenceTheorems, WellFoundedInduction, TLAPS

CONSTANTS
  FailuresToAlert, MaxSpawns, MaxTrays, MaxTrouble,
  Apps, Trays, Pids, Tolerance, MaxSeconds, MaxProcesses,
  Drafts, Given, Payloads, Secrets, MaxRuns, MaxEdits,
  Trees, Trunk, Pointers, Attempts, MaxSwitches, MaxStarts,
  Hashed, Index, Imports, Icons, MaxPages,
  Clicks, Detached,
  Senders, Floor, Quiet, Cap, Chunks,
  RuleGap, Boxes, Tails, MaxRows, MaxPrompts,
  Agents, Cast, Below, Activity, Stale, MaxAgents, MaxTime, MaxBetween

VARIABLES
  procs, byHand, own, thread, inMutex, bypassed, gaveUp, quit, unbound, failures, alerted,
  tray, trays, quitting, hostThread, tunnelThread, host, tunnel, tunnelProc, urlFile, trouble,
  ended, blind, late,
  runs, instances, stops, seconds, started, unnoticed, excused, strays,
  row, fileSecret, appSecret, busy, queue, spawned, edits,
  head, merged, pointer, ask, switches, starts,
  disk, read, cache, page, pages, dirty, reverted, drifted,
  click, work, roster, reused,
  sender, composer, ingesting, submitted, silence, agent, spoiled,
  rows, box, prompts, logged, sending,
  now, agents, listed, written, poll

Tray == INSTANCE WebappTray
Child == INSTANCE TrayChildren
AppRows == INSTANCE AppInstances
Params == INSTANCE RunParams
Fresh == INSTANCE HostFreshness
Assets == INSTANCE StaticAssets
Roster == INSTANCE SessionRoster
Input == INSTANCE TerminalInput
Exchange == INSTANCE BoardExchange
Cards == INSTANCE BoardCards

-----------------------------------------------------------------------------
(* The tray and its webapp. *)

TrayAssumption == FailuresToAlert \in Nat

Webapps == {"booting", "up", "hung", "gone"}
TrayTypes ==
  /\ procs \in Seq(Webapps) /\ own \in Nat /\ own <= Len(procs)
  /\ thread \in [Tray!Threads -> {"idle", "lock", "inside", "spawn", "ready", "stop"}]
  /\ inMutex \in {"nobody"} \cup Tray!Threads /\ failures \in 0 .. FailuresToAlert

\* A thread starts a webapp holding the mutex, or one has gone ahead without it.
MutexKept ==
  ~bypassed => \A t \in Tray!Threads : thread[t] \in {"inside", "spawn", "ready"} => inMutex = t

\* The webapp that runs is the tray's; none runs when one is about to be spawned, and one
\* that does not listen yet is waited for.
OwnOnly ==
  ~bypassed /\ ~gaveUp =>
    /\ Tray!NoStray
    /\ \A t \in Tray!Threads : thread[t] = "spawn" => \A p \in DOMAIN procs : ~Tray!Alive(p)
    /\ ~quit /\ own # 0 /\ procs[own] = "booting" => \E t \in Tray!Threads : thread[t] = "ready"

AfterQuit ==
  /\ quit => \A t \in Tray!Threads : thread[t] = "idle"
  /\ ~quit => unbound = {}

TrayInv == TrayTypes /\ MutexKept /\ OwnOnly /\ AfterQuit

LEMMA TrayInit == ASSUME TrayAssumption, Tray!Init PROVE TrayInv
  <1>1. /\ procs = << >> /\ own = 0 /\ inMutex = "nobody" /\ failures = 0 /\ unbound = {} /\ ~quit
        /\ thread = [t \in Tray!Threads |-> IF t = "start" THEN "lock" ELSE "idle"]
    BY DEF Tray!Init, Tray!None
  <1>2. procs \in Seq(Webapps) /\ Len(procs) = 0 /\ DOMAIN procs = {}
    BY <1>1
  <1>3. \A t \in Tray!Threads : thread[t] \in {"idle", "lock"}
    BY <1>1
  <1>4. TrayTypes
    BY <1>1, <1>2 DEF TrayTypes, TrayAssumption
  <1>5. MutexKept /\ OwnOnly /\ AfterQuit
    BY <1>1, <1>2, <1>3 DEF MutexKept, OwnOnly, AfterQuit, Tray!NoStray
  <1> QED BY <1>4, <1>5 DEF TrayInv

\* A webapp's state replaced: the processes are the same, and a sequence still.
LEMMA WebappBecomes ==
  ASSUME procs \in Seq(Webapps), NEW p \in DOMAIN procs, NEW state \in Webapps,
         Tray!Becomes(p, state)
  PROVE  /\ procs' \in Seq(Webapps) /\ Len(procs') = Len(procs) /\ DOMAIN procs' = DOMAIN procs
         /\ procs'[p] = state /\ \A q \in DOMAIN procs : q # p => procs'[q] = procs[q]
  <1>1. procs' = [procs EXCEPT ![p] = state]
    BY DEF Tray!Becomes
  <1> QED BY <1>1

LEMMA OwnThere ==
  ASSUME TrayTypes, own # 0 PROVE own \in DOMAIN procs
  BY DEF TrayTypes

\* A step after which no more webapps run, none boots that did not, and the threads'
\* work is where it was.
LEMMA FewerRun ==
  ASSUME TrayInv, TrayTypes', DOMAIN procs' = DOMAIN procs,
         \A q \in DOMAIN procs : /\ Tray!Alive(q)' => Tray!Alive(q)
                                 /\ procs'[q] = "booting" => procs[q] = "booting",
         UNCHANGED <<own, thread, inMutex, bypassed, gaveUp, quit, unbound>>
  PROVE  TrayInv'
  <1>1. TrayTypes /\ MutexKept /\ OwnOnly /\ AfterQuit
    BY DEF TrayInv
  <1>2. MutexKept' /\ AfterQuit'
    BY <1>1 DEF MutexKept, AfterQuit
  <1>3. OwnOnly'
    <2> SUFFICES ASSUME ~bypassed, ~gaveUp PROVE OwnOnly'
      BY DEF OwnOnly
    <2>1. Tray!NoStray'
      BY <1>1 DEF OwnOnly, Tray!NoStray
    <2>2. \A t \in Tray!Threads : thread'[t] = "spawn" => \A p \in DOMAIN procs' : ~Tray!Alive(p)'
      BY <1>1 DEF OwnOnly
    <2>3. ~quit /\ own # 0 /\ procs'[own] = "booting" => \E t \in Tray!Threads : thread[t] = "ready"
      BY <1>1, OwnThere DEF OwnOnly
    <2> QED BY <2>1, <2>2, <2>3 DEF OwnOnly
  <1> QED BY <1>2, <1>3 DEF TrayInv

LEMMA WebappsMove ==
  ASSUME TrayInv, NEW p \in DOMAIN procs, Tray!Boot(p) \/ Tray!Hang(p) \/ Tray!Die(p)
  PROVE  TrayInv'
  <1>1. /\ UNCHANGED <<own, thread, inMutex, bypassed, gaveUp, quit, unbound, failures>>
        /\ \E state \in Webapps \ {"booting"} : Tray!Becomes(p, state)
        /\ Tray!Alive(p)
    BY DEF Tray!Boot, Tray!Hang, Tray!Die, Tray!manager, Tray!watchdog, Webapps, Tray!Alive
  <1>2. PICK state \in Webapps \ {"booting"} : Tray!Becomes(p, state)
    BY <1>1
  <1>3. TrayTypes
    BY DEF TrayInv
  <1>4. /\ procs' \in Seq(Webapps) /\ Len(procs') = Len(procs) /\ DOMAIN procs' = DOMAIN procs
        /\ procs'[p] = state /\ \A q \in DOMAIN procs : q # p => procs'[q] = procs[q]
    BY <1>2, <1>3, WebappBecomes DEF TrayTypes
  <1>5. TrayTypes'
    BY <1>1, <1>3, <1>4 DEF TrayTypes
  <1>6. \A q \in DOMAIN procs : /\ Tray!Alive(q)' => Tray!Alive(q)
                                /\ procs'[q] = "booting" => procs[q] = "booting"
    BY <1>1, <1>4 DEF Tray!Alive
  <1> QED BY <1>1, <1>4, <1>5, <1>6, FewerRun

LEMMA StatusOne ==
  /\ Tray!Status \in {"ours", "external", "not running"}
  /\ Tray!Status = "ours" => own # 0 /\ Tray!Alive(own)
  /\ Tray!Status = "not running" => ~Tray!PortInUse
  <1>1. CASE Tray!PortInUse /\ own # 0 /\ Tray!Alive(own)
    BY <1>1 DEF Tray!Status, Tray!None
  <1>2. CASE Tray!PortInUse /\ (own = 0 \/ ~Tray!Alive(own))
    BY <1>2 DEF Tray!Status, Tray!None
  <1>3. CASE ~Tray!PortInUse
    BY <1>3 DEF Tray!Status, Tray!None
  <1> QED BY <1>1, <1>2, <1>3

\* stop ends the tray's webapp and forgets it, or does nothing.
LEMMA OwnStops ==
  ASSUME TrayTypes, Tray!StopOwn
  PROVE  /\ procs' \in Seq(Webapps) /\ Len(procs') = Len(procs) /\ DOMAIN procs' = DOMAIN procs
         /\ \A q \in DOMAIN procs : q # own => procs'[q] = procs[q]
         /\ \/ own' = 0 /\ own # 0 /\ procs'[own] = "gone"
            \/ own' = own /\ procs' = procs /\ (own # 0 /\ Tray!Alive(own) => ~Tray!PortInUse)
  <1>1. CASE Tray!Status = "ours"
    <2>1. Tray!Becomes(own, "gone") /\ own' = 0 /\ own # 0
      BY <1>1, StatusOne DEF Tray!StopOwn, Tray!None
    <2>2. own \in DOMAIN procs /\ procs \in Seq(Webapps) /\ "gone" \in Webapps
      BY <2>1, OwnThere DEF TrayTypes, Webapps
    <2>3. /\ procs' \in Seq(Webapps) /\ Len(procs') = Len(procs) /\ DOMAIN procs' = DOMAIN procs
          /\ procs'[own] = "gone" /\ \A q \in DOMAIN procs : q # own => procs'[q] = procs[q]
      BY <2>1, <2>2, WebappBecomes
    <2> QED BY <2>1, <2>3
  <1>2. CASE Tray!Status # "ours"
    <2>1. UNCHANGED <<procs, own>>
      BY <1>2 DEF Tray!StopOwn
    <2>2. own # 0 /\ Tray!Alive(own) => ~Tray!PortInUse
      BY <1>2 DEF Tray!Status, Tray!None
    <2> QED BY <2>1, <2>2 DEF TrayTypes
  <1> QED BY <1>1, <1>2

TrayWork == {"idle", "lock", "inside", "spawn", "ready", "stop"}

\* A thread that goes on, while the tray runs.
LEMMA ThreadGoes ==
  ASSUME TrayInv, NEW t \in Tray!Threads, NEW to \in TrayWork, Tray!Goes(t, to)
  PROVE  /\ thread' \in [Tray!Threads -> TrayWork] /\ thread'[t] = to
         /\ \A s \in Tray!Threads : s # t => thread'[s] = thread[s]
         /\ ~quit /\ unbound = {}
  <1>1. thread \in [Tray!Threads -> TrayWork] /\ (~quit => unbound = {})
    BY DEF TrayInv, TrayTypes, AfterQuit, TrayWork
  <1> QED BY <1>1 DEF Tray!Goes

\* A step of a thread that neither spawns nor ends a webapp.
LEMMA WorkMoves ==
  ASSUME TrayInv, NEW t \in Tray!Threads, NEW to \in TrayWork, Tray!Goes(t, to),
         UNCHANGED <<procs, own, quit, unbound, failures>>,
         inMutex' \in {"nobody"} \cup Tray!Threads, MutexKept',
         bypassed => bypassed', gaveUp => gaveUp',
         ~bypassed' /\ ~gaveUp' =>
           /\ to = "spawn" => \A p \in DOMAIN procs : ~Tray!Alive(p)
           /\ thread[t] = "ready" /\ own # 0 => procs[own] # "booting"
  PROVE  TrayInv'
  <1>1. TrayTypes /\ OwnOnly
    BY DEF TrayInv
  <1>2. /\ thread' \in [Tray!Threads -> TrayWork] /\ thread'[t] = to
        /\ \A s \in Tray!Threads : s # t => thread'[s] = thread[s]
        /\ ~quit /\ unbound = {}
    BY ThreadGoes
  <1>3. TrayTypes' /\ AfterQuit'
    BY <1>1, <1>2 DEF TrayTypes, AfterQuit, TrayWork
  <1>4. ASSUME ~bypassed', ~gaveUp' PROVE OwnOnly'
    <2>1. /\ ~bypassed /\ ~gaveUp /\ Tray!NoStray
          /\ \A s \in Tray!Threads : thread[s] = "spawn" => \A p \in DOMAIN procs : ~Tray!Alive(p)
          /\ own # 0 /\ procs[own] = "booting" => \E s \in Tray!Threads : thread[s] = "ready"
      BY <1>1, <1>2, <1>4 DEF OwnOnly
    <2>2. Tray!NoStray'
      BY <2>1 DEF Tray!NoStray, Tray!Alive
    <2>3. ASSUME NEW s \in Tray!Threads, thread'[s] = "spawn", NEW p \in DOMAIN procs
          PROVE  procs[p] = "gone"
      BY <1>2, <1>4, <2>1, <2>3 DEF Tray!Alive
    <2>4. own # 0 /\ procs[own] = "booting" => \E s \in Tray!Threads : thread'[s] = "ready"
      BY <1>2, <1>4, <2>1
    <2> QED BY <2>2, <2>3, <2>4 DEF OwnOnly, Tray!Alive
  <1>5. OwnOnly'
    BY <1>4 DEF OwnOnly
  <1> QED BY <1>3, <1>5 DEF TrayInv

\* Whoever leaves frees the mutex if it is his; whoever works in it keeps it.
LEMMA LeavesKeeps ==
  ASSUME TrayInv, NEW t \in Tray!Threads, Tray!Leaves(t), UNCHANGED bypassed
  PROVE  /\ Tray!Goes(t, "idle") /\ "idle" \in TrayWork
         /\ inMutex' \in {"nobody"} \cup Tray!Threads /\ MutexKept'
  <1>1. TrayTypes /\ MutexKept
    BY DEF TrayInv
  <1>2. Tray!Goes(t, "idle") /\ "idle" \in TrayWork /\ inMutex' = IF inMutex = t THEN "nobody" ELSE inMutex
    BY DEF Tray!Leaves, TrayWork
  <1>3. thread'[t] = "idle" /\ \A s \in Tray!Threads : s # t => thread'[s] = thread[s]
    BY <1>2, ThreadGoes
  <1>4. inMutex' \in {"nobody"} \cup Tray!Threads
    BY <1>1, <1>2 DEF TrayTypes
  <1>5. MutexKept'
    BY <1>1, <1>2, <1>3 DEF MutexKept
  <1> QED BY <1>2, <1>4, <1>5

LEMMA LockKeeps ==
  ASSUME TrayInv, NEW t \in Tray!Threads, Tray!Lock(t) PROVE TrayInv'
  <1>1. TrayTypes /\ MutexKept
    BY DEF TrayInv
  <1>2. /\ Tray!Goes(t, "inside") /\ "inside" \in TrayWork /\ thread[t] = "lock"
        /\ UNCHANGED <<procs, own, gaveUp, quit, unbound, failures>>
        /\ \/ inMutex = "nobody" /\ inMutex' = t /\ UNCHANGED bypassed
           \/ bypassed' = TRUE /\ UNCHANGED inMutex
    BY DEF Tray!Lock, Tray!watchdog, TrayWork
  <1>3. thread'[t] = "inside" /\ \A s \in Tray!Threads : s # t => thread'[s] = thread[s]
    BY <1>2, ThreadGoes
  <1>4. inMutex' \in {"nobody"} \cup Tray!Threads /\ (bypassed => bypassed')
    BY <1>1, <1>2 DEF TrayTypes
  <1>5. MutexKept'
    <2>1. \A s \in Tray!Threads : s # "nobody"
      BY DEF Tray!Threads
    <2> QED BY <1>1, <1>2, <1>3, <2>1 DEF MutexKept
  <1> QED BY <1>2, <1>4, <1>5, WorkMoves

LEMMA AdoptKeeps ==
  ASSUME TrayInv, NEW t \in Tray!Threads, Tray!Adopt(t) PROVE TrayInv'
  <1>1. /\ Tray!Leaves(t) /\ thread[t] = "inside"
        /\ UNCHANGED <<procs, own, bypassed, gaveUp, quit, unbound, failures>>
    BY DEF Tray!Adopt, Tray!watchdog
  <1>2. /\ Tray!Goes(t, "idle") /\ "idle" \in TrayWork
        /\ inMutex' \in {"nobody"} \cup Tray!Threads /\ MutexKept'
    BY <1>1, LeavesKeeps
  <1> QED BY <1>1, <1>2, WorkMoves

\* Where the mutex was kept and no start was over too soon, nothing listens under the mutex
\* only if nothing runs: what the tray owns would boot, and a thread wait for it in there.
LEMMA NothingThereKeeps ==
  ASSUME TrayInv, NEW t \in Tray!Threads, Tray!NothingThere(t) PROVE TrayInv'
  <1>1. TrayTypes /\ MutexKept /\ OwnOnly /\ AfterQuit
    BY DEF TrayInv
  <1>2. /\ Tray!Goes(t, "spawn") /\ "spawn" \in TrayWork /\ thread[t] = "inside" /\ ~Tray!PortInUse
        /\ UNCHANGED <<procs, own, inMutex, bypassed, gaveUp, quit, unbound, failures>>
    BY DEF Tray!NothingThere, Tray!watchdog, TrayWork
  <1>3. /\ thread'[t] = "spawn" /\ \A s \in Tray!Threads : s # t => thread'[s] = thread[s]
        /\ ~quit /\ unbound = {}
    BY <1>2, ThreadGoes
  <1>4. MutexKept'
    BY <1>1, <1>2, <1>3 DEF MutexKept
  <1>5. ASSUME ~bypassed, ~gaveUp, NEW p \in DOMAIN procs PROVE ~Tray!Alive(p)
    <2> SUFFICES ASSUME Tray!Alive(p) PROVE FALSE
      OBVIOUS
    <2>1. p = own
      BY <1>1, <1>3, <1>5 DEF OwnOnly, Tray!NoStray
    <2>2. procs[p] = "booting"
      <3>1. procs[p] \in Webapps /\ procs[p] # "gone"
        BY <1>1 DEF TrayTypes, Tray!Alive
      <3>2. procs[p] \notin {"up", "hung"}
        BY <1>2 DEF Tray!PortInUse, Tray!Listening
      <3> QED BY <3>1, <3>2 DEF Webapps
    <2>3. own # 0
      BY <2>1, <1>1 DEF TrayTypes
    <2>4. PICK s \in Tray!Threads : thread[s] = "ready"
      BY <1>1, <1>3, <1>5, <2>1, <2>2, <2>3 DEF OwnOnly
    <2>5. inMutex = s /\ inMutex = t
      BY <1>1, <1>2, <1>5, <2>4 DEF MutexKept
    <2> QED BY <1>2, <2>4, <2>5
  <1>6. inMutex' \in {"nobody"} \cup Tray!Threads
    BY <1>1, <1>2 DEF TrayTypes
  <1> QED BY <1>2, <1>4, <1>5, <1>6, WorkMoves

LEMMA SpawnKeeps ==
  ASSUME TrayInv, NEW t \in Tray!Threads, Tray!Spawn(t) PROVE TrayInv'
  <1>1. TrayTypes /\ MutexKept /\ OwnOnly
    BY DEF TrayInv
  <1>2. /\ Tray!Goes(t, "ready") /\ "ready" \in TrayWork /\ thread[t] = "spawn"
        /\ procs' = Append(procs, "booting") /\ own' = Len(procs')
        /\ UNCHANGED <<inMutex, bypassed, gaveUp, quit, unbound, failures>>
    BY DEF Tray!Spawn, Tray!watchdog, TrayWork
  <1>3. /\ thread' \in [Tray!Threads -> TrayWork] /\ thread'[t] = "ready"
        /\ \A s \in Tray!Threads : s # t => thread'[s] = thread[s]
        /\ ~quit /\ unbound = {}
    BY <1>2, ThreadGoes
  <1>4. /\ procs' \in Seq(Webapps) /\ Len(procs') = Len(procs) + 1
        /\ DOMAIN procs' = DOMAIN procs \cup {own'} /\ own' \in Nat
        /\ \A p \in DOMAIN procs : procs'[p] = procs[p]
    <2>1. procs \in Seq(Webapps) /\ "booting" \in Webapps
      BY <1>1 DEF TrayTypes, Webapps
    <2> QED BY <1>2, <2>1
  <1>5. TrayTypes' /\ AfterQuit'
    BY <1>1, <1>2, <1>3, <1>4 DEF TrayTypes, AfterQuit, TrayWork
  <1>6. MutexKept'
    BY <1>1, <1>2, <1>3 DEF MutexKept
  <1>7. ASSUME ~bypassed, ~gaveUp PROVE OwnOnly'
    <2>1. \A p \in DOMAIN procs : procs[p] = "gone"
      BY <1>1, <1>2, <1>7 DEF OwnOnly, Tray!Alive
    <2>2. \A p \in DOMAIN procs' : procs'[p] # "gone" => p = own'
      BY <1>4, <2>1
    <2>3. Tray!NoStray'
      BY <1>2, <1>3, <2>2 DEF Tray!NoStray, Tray!Alive
    <2>4. \A s \in Tray!Threads : thread'[s] # "spawn"
      <3>1. \A s \in Tray!Threads : thread[s] = "spawn" => s = t
        BY <1>1, <1>2, <1>7 DEF MutexKept
      <3> QED BY <1>3, <3>1
    <2> QED BY <1>3, <2>3, <2>4 DEF OwnOnly
  <1>8. OwnOnly'
    BY <1>2, <1>7 DEF OwnOnly
  <1> QED BY <1>5, <1>6, <1>8 DEF TrayInv

LEMMA WaitEndsKeeps ==
  ASSUME TrayInv, NEW t \in Tray!Threads, Tray!WaitEnds(t) PROVE TrayInv'
  <1>1. /\ Tray!Leaves(t) /\ UNCHANGED <<procs, own, bypassed, quit, unbound, failures>>
        /\ gaveUp' = (gaveUp \/ (own # 0 /\ procs[own] = "booting"))
    BY DEF Tray!WaitEnds, Tray!watchdog, Tray!None
  <1>2. /\ Tray!Goes(t, "idle") /\ "idle" \in TrayWork
        /\ inMutex' \in {"nobody"} \cup Tray!Threads /\ MutexKept'
    BY <1>1, LeavesKeeps
  <1> QED BY <1>1, <1>2, WorkMoves

LEMMA ClickKeeps ==
  ASSUME TrayInv, Tray!ClickRestart PROVE TrayInv'
  <1>1. TrayTypes /\ MutexKept
    BY DEF TrayInv
  <1>2. /\ "restart" \in Tray!Threads /\ thread["restart"] = "idle"
        /\ UNCHANGED <<procs, own, inMutex, bypassed, gaveUp, quit, unbound, failures>>
    BY DEF Tray!ClickRestart, Tray!watchdog, Tray!Threads
  <1>3. PICK to \in {"idle", "stop", "lock"} : Tray!Goes("restart", to)
    <2>1. CASE Tray!Status = "external"
      BY <2>1 DEF Tray!ClickRestart
    <2>2. CASE Tray!Status = "ours"
      BY <2>2 DEF Tray!ClickRestart
    <2>3. CASE Tray!Status = "not running"
      BY <2>3 DEF Tray!ClickRestart
    <2> QED BY <2>1, <2>2, <2>3, StatusOne
  <1>4. to \in TrayWork /\ to # "spawn"
    BY DEF TrayWork
  <1>5. thread'["restart"] = to /\ \A s \in Tray!Threads : s # "restart" => thread'[s] = thread[s]
    BY <1>2, <1>3, <1>4, ThreadGoes
  <1>6. MutexKept'
    BY <1>1, <1>2, <1>5 DEF MutexKept
  <1>7. inMutex' \in {"nobody"} \cup Tray!Threads
    BY <1>1, <1>2 DEF TrayTypes
  <1> QED BY <1>2, <1>3, <1>4, <1>6, <1>7, WorkMoves

LEMMA StopTypes ==
  ASSUME TrayTypes, Tray!StopOwn PROVE own' \in Nat /\ own' <= Len(procs')
  <1>1. own' = 0 \/ own' = own
    BY OwnStops
  <1>2. Len(procs') = Len(procs) /\ procs \in Seq(Webapps)
    BY OwnStops DEF TrayTypes
  <1> QED BY <1>1, <1>2 DEF TrayTypes

LEMMA RestartStopsKeeps ==
  ASSUME TrayInv, Tray!RestartStops PROVE TrayInv'
  <1>1. TrayTypes /\ MutexKept /\ OwnOnly
    BY DEF TrayInv
  <1>2. /\ "restart" \in Tray!Threads /\ thread["restart"] = "stop" /\ Tray!Goes("restart", "lock")
        /\ "lock" \in TrayWork /\ Tray!StopOwn
        /\ UNCHANGED <<inMutex, bypassed, gaveUp, quit, unbound, failures>>
    BY DEF Tray!RestartStops, Tray!watchdog, Tray!Threads, TrayWork
  <1>3. /\ thread' \in [Tray!Threads -> TrayWork] /\ thread'["restart"] = "lock"
        /\ \A s \in Tray!Threads : s # "restart" => thread'[s] = thread[s]
        /\ ~quit /\ unbound = {}
    BY <1>2, ThreadGoes
  <1>4. MutexKept'
    BY <1>1, <1>2, <1>3 DEF MutexKept
  <1>5. /\ procs' \in Seq(Webapps) /\ DOMAIN procs' = DOMAIN procs
        /\ \A q \in DOMAIN procs : q # own => procs'[q] = procs[q]
        /\ \/ own' = 0 /\ procs'[own] = "gone"
           \/ own' = own /\ procs' = procs
    BY <1>1, <1>2, OwnStops
  <1>6. TrayTypes' /\ AfterQuit'
    BY <1>1, <1>2, <1>3, <1>5, StopTypes DEF TrayTypes, AfterQuit, TrayWork
  <1>7. CASE own' = own /\ procs' = procs
    <2>1. inMutex' \in {"nobody"} \cup Tray!Threads
      BY <1>6 DEF TrayTypes
    <2> QED BY <1>2, <1>4, <1>7, <2>1, WorkMoves
  <1>8. CASE own' = 0 /\ procs'[own] = "gone"
    <2>1. ASSUME ~bypassed, ~gaveUp, NEW q \in DOMAIN procs PROVE procs'[q] = "gone"
      <3>1. procs[q] # "gone" => q = own
        BY <1>1, <1>3, <2>1 DEF OwnOnly, Tray!NoStray, Tray!Alive
      <3> QED BY <1>5, <1>8, <3>1
    <2>2. OwnOnly'
      BY <1>2, <1>5, <1>8, <2>1 DEF OwnOnly, Tray!NoStray, Tray!Alive
    <2> QED BY <1>4, <1>6, <2>2 DEF TrayInv
  <1> QED BY <1>5, <1>7, <1>8

LEMMA QuitKeeps ==
  ASSUME TrayInv, Tray!Quit PROVE TrayInv'
  <1>1. TrayTypes /\ MutexKept /\ OwnOnly /\ AfterQuit
    BY DEF TrayInv
  <1>2. /\ ~quit /\ quit' = TRUE /\ Tray!StopOwn /\ inMutex' = "nobody"
        /\ unbound' = {p \in DOMAIN procs : procs[p] = "booting"}
        /\ thread' = [t \in Tray!Threads |-> "idle"]
        /\ UNCHANGED <<bypassed, gaveUp, failures>>
    BY DEF Tray!Quit, Tray!watchdog
  <1>3. \A t \in Tray!Threads : thread'[t] = "idle"
    BY <1>2
  <1>4. /\ procs' \in Seq(Webapps) /\ DOMAIN procs' = DOMAIN procs
        /\ \A q \in DOMAIN procs : q # own => procs'[q] = procs[q]
        /\ \/ own' = 0 /\ procs'[own] = "gone"
           \/ own' = own /\ procs' = procs /\ (own # 0 /\ Tray!Alive(own) => ~Tray!PortInUse)
    BY <1>1, <1>2, OwnStops
  <1>5. TrayTypes'
    BY <1>1, <1>2, <1>4, StopTypes DEF TrayTypes
  <1>6. MutexKept' /\ AfterQuit'
    BY <1>2, <1>3 DEF MutexKept, AfterQuit
  <1>7. ASSUME ~bypassed, ~gaveUp, NEW p \in DOMAIN procs, procs'[p] # "gone"
        PROVE  procs[p] = "booting"
    <2>1. procs[p] # "gone"
      BY <1>4, <1>7
    <2>2. p = own
      BY <1>1, <1>2, <1>7, <2>1 DEF OwnOnly, AfterQuit, Tray!NoStray, Tray!Alive
    <2>3. ~Tray!PortInUse
      <3>1. own # 0
        BY <1>1, <2>2 DEF TrayTypes
      <3> QED BY <1>4, <1>7, <2>1, <2>2, <3>1 DEF Tray!Alive
    <2>4. procs[p] \in Webapps /\ procs[p] \notin {"up", "hung"}
      BY <1>1, <2>3 DEF TrayTypes, Tray!PortInUse, Tray!Listening
    <2> QED BY <2>1, <2>4 DEF Webapps
  <1>8. OwnOnly'
    BY <1>2, <1>3, <1>4, <1>7 DEF OwnOnly, Tray!NoStray, Tray!Alive
  <1> QED BY <1>5, <1>6, <1>8 DEF TrayInv

\* Neither a webapp started by hand nor the probe touches what the invariant speaks of.
LEMMA OthersKeep ==
  ASSUME TrayAssumption, TrayInv, Tray!ByHand \/ Tray!Probe PROVE TrayInv'
  <1>1. /\ UNCHANGED <<procs, own, thread, inMutex, bypassed, gaveUp, quit, unbound>>
        /\ failures' \in 0 .. FailuresToAlert
    <2>1. failures \in 0 .. FailuresToAlert
      BY DEF TrayInv, TrayTypes
    <2>2. CASE Tray!ByHand
      BY <2>1, <2>2 DEF Tray!ByHand, Tray!manager, Tray!watchdog
    <2>3. CASE Tray!Probe
      BY <2>1, <2>3 DEF Tray!Probe, Tray!manager, TrayAssumption
    <2> QED BY <2>2, <2>3
  <1>2. TrayTypes /\ MutexKept /\ OwnOnly /\ AfterQuit
    BY DEF TrayInv
  <1>3. TrayTypes' /\ MutexKept' /\ AfterQuit'
    BY <1>1, <1>2 DEF TrayTypes, MutexKept, AfterQuit
  <1>4. OwnOnly'
    BY <1>1, <1>2 DEF OwnOnly, Tray!NoStray, Tray!Alive
  <1> QED BY <1>3, <1>4 DEF TrayInv

LEMMA TrayStep ==
  ASSUME TrayAssumption, TrayInv, [Tray!Next]_(Tray!vars) PROVE TrayInv'
  <1>1. CASE Tray!Next
    <2>1. CASE Tray!ByHand \/ Tray!Probe
      BY <2>1, OthersKeep
    <2>2. CASE Tray!ClickRestart
      BY <2>2, ClickKeeps
    <2>3. CASE Tray!RestartStops
      BY <2>3, RestartStopsKeeps
    <2>4. CASE Tray!Quit
      BY <2>4, QuitKeeps
    <2>5. CASE \E p \in DOMAIN procs : Tray!Boot(p) \/ Tray!Hang(p) \/ Tray!Die(p)
      BY <2>5, WebappsMove
    <2>6. ASSUME NEW t \in Tray!Threads,
                 \/ Tray!Lock(t) \/ Tray!Adopt(t) \/ Tray!NothingThere(t)
                 \/ Tray!Spawn(t) \/ Tray!WaitEnds(t)
          PROVE  TrayInv'
      BY <2>6, LockKeeps, AdoptKeeps, NothingThereKeeps, SpawnKeeps, WaitEndsKeeps
    <2> QED BY <1>1, <2>1, <2>2, <2>3, <2>4, <2>5, <2>6 DEF Tray!Next
  <1>2. CASE UNCHANGED Tray!vars
    <2>1. UNCHANGED <<procs, own, thread, inMutex, bypassed, gaveUp, quit, unbound, failures>>
      BY <1>2 DEF Tray!vars
    <2>2. TrayTypes /\ MutexKept /\ OwnOnly /\ AfterQuit
      BY DEF TrayInv
    <2>3. TrayTypes' /\ MutexKept' /\ AfterQuit'
      BY <2>1, <2>2 DEF TrayTypes, MutexKept, AfterQuit
    <2>4. OwnOnly'
      BY <2>1, <2>2 DEF OwnOnly, Tray!NoStray, Tray!Alive
    <2> QED BY <2>3, <2>4 DEF TrayInv
  <1> QED BY <1>1, <1>2

\* However starts, restarts, webapps started by hand, deaths and hangs interleave: every
\* webapp the tray spawned and that still runs is the one it can stop, and none is left when
\* it has quit but one that did not listen yet, unless a start went ahead without the mutex
\* or was over before its webapp listened (WebappManager, cross_process_lock, quit_app).
THEOREM NoStrayAlways ==
  ASSUME TrayAssumption
  PROVE  Tray!Spec => [](Tray!TypeOK /\ Tray!NoStray)
  <1>1. Tray!Init => TrayInv
    BY TrayInit
  <1>2. TrayInv => Tray!TypeOK /\ Tray!NoStray
    <2> SUFFICES ASSUME TrayInv PROVE Tray!TypeOK /\ Tray!NoStray
      OBVIOUS
    <2>1. TrayTypes /\ OwnOnly
      BY DEF TrayInv
    <2>2. own \in {0} \cup DOMAIN procs
      BY <2>1, OwnThere
    <2>3. \A p \in DOMAIN procs : procs[p] \in {"booting", "up", "hung", "gone"}
      BY <2>1 DEF TrayTypes, Webapps
    <2>4. Tray!TypeOK
      BY <2>1, <2>2, <2>3 DEF TrayTypes, Tray!TypeOK, Tray!None
    <2>5. Tray!NoStray
      <3>1. ~bypassed /\ ~gaveUp => Tray!NoStray
        BY <2>1 DEF OwnOnly
      <3> QED BY <3>1 DEF Tray!NoStray
    <2> QED BY <2>4, <2>5
  <1> QED BY <1>1, <1>2, TrayStep, PTL DEF Tray!Spec

-----------------------------------------------------------------------------
(* The tunnel and the session host a tray starts. *)

ChildAssumption == MaxTrays \in Nat

ChildTypes ==
  /\ tray \in Child!Hosts /\ trays \in Child!Hosts /\ urlFile \in Child!Hosts
  /\ tunnelProc \in Child!Hosts /\ quitting \in {0, 1, 2, 3}
  /\ host \in [Child!Hosts -> {"none", "booting", "up", "gone"}]
  /\ tunnel \in [Child!Hosts -> {"none", "up", "gone"}]
  /\ hostThread \in {"look", "spawn", "done"}
  /\ tunnelThread \in {"spawn", "keep", "write", "done"}

\* There is one tray, the newest; it quits in order.
OneTray == (tray # 0 => tray = trays) /\ (quitting # 0 => tray # 0)

\* The handle kept is of the tray's own tunnel, until it quits.
Handle ==
  tray # 0 =>
    /\ tunnelProc # 0 => tunnelProc = tray /\ tunnelThread \in {"write", "done"}
    /\ quitting = 0 /\ tunnelThread \in {"write", "done"} => tunnelProc = tray

Unkept(t) == <<"tunnel", t>> \in blind
Tunnels ==
  /\ tunnel[0] # "up"
  /\ \A t \in Child!Hosts : tunnel[t] = "up" => t = tray \/ Unkept(t)
  /\ quitting # 0 => Unkept(tray) \/ (tunnelThread \in {"write", "done"} /\ tunnel[tray] # "up")

\* From the step that reclaims the host on, those not ended are known not to be.
HostsLeft ==
  quitting = 3 \/ (tray = 0 /\ ended = "quit") =>
    \A h \in Child!Hosts : host[h] \in {"booting", "up"} => <<"host", h>> \in blind
OneHost == \A g, h \in Child!Hosts : host[g] = "up" /\ host[h] = "up" => g = h

UrlLeft ==
  quitting \in {2, 3} \/ (tray = 0 /\ ended = "quit") =>
    (urlFile # 0 => late \/ Unkept(trays))

ChildInv ==
  /\ ChildTypes /\ OneTray /\ Handle /\ Tunnels /\ HostsLeft /\ OneHost /\ UrlLeft
  /\ Child!UrlCurrent

LEMMA HostsRange ==
  ASSUME ChildAssumption
  PROVE  /\ 0 \in Child!Hosts /\ Child!Hosts \subseteq Nat
         /\ \A n \in Child!Hosts : n < MaxTrays => n + 1 \in Child!Hosts /\ n + 1 # 0
  BY DEF ChildAssumption, Child!Hosts

LEMMA ChildInit == ASSUME ChildAssumption, Child!Init PROVE ChildInv
  <1>1. /\ tray = 0 /\ trays = 0 /\ quitting = 0 /\ hostThread = "done" /\ tunnelThread = "done"
        /\ tunnelProc = 0 /\ urlFile = 0 /\ ended = "killed"
        /\ tunnel = [t \in Child!Hosts |-> "none"] /\ host \in [Child!Hosts -> {"none", "up"}]
        /\ \A h \in Child!Hosts : host[h] = "up" => h = 0
    BY DEF Child!Init
  <1>2. 0 \in Child!Hosts /\ \A t \in Child!Hosts : tunnel[t] = "none"
    BY <1>1, HostsRange
  <1>3. ChildTypes
    BY <1>1, <1>2 DEF ChildTypes
  <1>4. OneTray /\ Handle /\ Tunnels /\ HostsLeft /\ OneHost /\ UrlLeft /\ Child!UrlCurrent
    BY <1>1, <1>2 DEF OneTray, Handle, Tunnels, HostsLeft, OneHost, UrlLeft, Child!UrlCurrent
  <1> QED BY <1>3, <1>4 DEF ChildInv

\* What a start, an exit or a kill of the tray does.
LEMMA TrayStarts == ASSUME ChildAssumption, ChildInv, Child!StartTray PROVE ChildInv'
  <1>1. /\ ChildTypes /\ OneTray /\ Tunnels /\ OneHost
        /\ 0 \in Child!Hosts /\ Child!Hosts \subseteq Nat
    BY HostsRange DEF ChildInv
  <1>2. /\ tray = 0 /\ trays' = trays + 1 /\ tray' = trays + 1 /\ trays + 1 \in Child!Hosts
        /\ trays + 1 # 0 /\ hostThread' = "look" /\ tunnelThread' = "spawn" /\ quitting' = 0
        /\ tunnelProc' = 0 /\ UNCHANGED <<host, tunnel, urlFile, ended, blind>>
    BY <1>1, HostsRange DEF Child!StartTray, ChildTypes
  <1>3. ChildTypes' /\ OneTray' /\ Handle'
    BY <1>1, <1>2 DEF ChildTypes, OneTray, Handle
  <1>4. Tunnels'
    BY <1>1, <1>2 DEF Tunnels, Unkept
  <1>5. HostsLeft' /\ OneHost' /\ UrlLeft' /\ Child!UrlCurrent'
    BY <1>1, <1>2 DEF HostsLeft, OneHost, UrlLeft, Child!UrlCurrent
  <1> QED BY <1>3, <1>4, <1>5 DEF ChildInv

LEMMA TrayExits == ASSUME ChildAssumption, ChildInv, Child!Exit PROVE ChildInv'
  <1>1. /\ ChildTypes /\ OneTray /\ Tunnels /\ HostsLeft /\ OneHost /\ UrlLeft
        /\ 0 \in Child!Hosts /\ Child!Hosts \subseteq Nat
    BY HostsRange DEF ChildInv
  <1>2. /\ quitting = 3 /\ tray' = 0 /\ quitting' = 0 /\ hostThread' = "done" /\ tunnelThread' = "done"
        /\ UNCHANGED <<trays, host, tunnel, tunnelProc, urlFile, blind, late>>
    BY DEF Child!Exit
  <1>3. ChildTypes' /\ OneTray' /\ Handle'
    BY <1>1, <1>2 DEF ChildTypes, OneTray, Handle
  <1>4. Tunnels'
    BY <1>1, <1>2 DEF Tunnels, Unkept
  <1>5. HostsLeft' /\ OneHost'
    BY <1>1, <1>2 DEF HostsLeft, OneHost
  <1>6. UrlLeft' /\ Child!UrlCurrent'
    BY <1>1, <1>2 DEF UrlLeft, Child!UrlCurrent, Unkept
  <1> QED BY <1>3, <1>4, <1>5, <1>6 DEF ChildInv

LEMMA TrayKilled == ASSUME ChildAssumption, ChildInv, Child!Kill PROVE ChildInv'
  <1>1. /\ ChildTypes /\ OneTray /\ Tunnels /\ OneHost
        /\ 0 \in Child!Hosts /\ Child!Hosts \subseteq Nat
    BY HostsRange DEF ChildInv
  <1>2. /\ tray # 0 /\ tray' = 0 /\ quitting' = 0 /\ hostThread' = "done" /\ tunnelThread' = "done"
        /\ tunnel' = [tunnel EXCEPT ![tray] = IF @ = "up" THEN "gone" ELSE @]
        /\ ended' = "killed" /\ UNCHANGED <<trays, host, tunnelProc, urlFile, blind, late>>
    BY DEF Child!Kill
  <1>3. /\ tunnel' \in [Child!Hosts -> {"none", "up", "gone"}] /\ tunnel'[tray] # "up"
        /\ \A t \in Child!Hosts : t # tray => tunnel'[t] = tunnel[t]
    BY <1>1, <1>2 DEF ChildTypes
  <1>4. ChildTypes' /\ OneTray' /\ Handle'
    BY <1>1, <1>2, <1>3 DEF ChildTypes, OneTray, Handle
  <1>5. Tunnels'
    BY <1>1, <1>2, <1>3 DEF Tunnels, Unkept
  <1>6. HostsLeft' /\ OneHost' /\ UrlLeft' /\ Child!UrlCurrent'
    BY <1>1, <1>2 DEF HostsLeft, OneHost, UrlLeft, Child!UrlCurrent
  <1> QED BY <1>4, <1>5, <1>6 DEF ChildInv

\* The session hosts start and end beside the rest: no step of theirs revives one that is
\* gone, but a spawn, and that one Quit knows of or has still to look for.
LEMMA HostsMove ==
  ASSUME ChildAssumption, ChildInv,
         UNCHANGED <<tray, trays, quitting, tunnelThread, tunnelProc, urlFile, ended, late>>,
         hostThread' \in {"look", "spawn", "done"},
         host' \in [Child!Hosts -> {"none", "booting", "up", "gone"}],
         tunnel' \in [Child!Hosts -> {"none", "up", "gone"}],
         \A t \in Child!Hosts : tunnel'[t] = "up" => tunnel[t] = "up",
         blind \subseteq blind',
         OneHost', HostsLeft'
  PROVE  ChildInv'
  <1>1. /\ ChildTypes /\ OneTray /\ Handle /\ Tunnels /\ UrlLeft /\ Child!UrlCurrent
        /\ 0 \in Child!Hosts
    BY HostsRange DEF ChildInv
  <1>2. ChildTypes' /\ OneTray' /\ Handle'
    BY <1>1 DEF ChildTypes, OneTray, Handle
  <1>3. Tunnels'
    BY <1>1 DEF Tunnels, Unkept, ChildTypes
  <1>4. UrlLeft' /\ Child!UrlCurrent'
    BY <1>1 DEF UrlLeft, Child!UrlCurrent, Unkept
  <1> QED BY <1>2, <1>3, <1>4 DEF ChildInv

LEMMA HostLooked == ASSUME ChildAssumption, ChildInv, Child!LookForHost PROVE ChildInv'
  <1>1. ChildTypes /\ HostsLeft /\ OneHost
    BY DEF ChildInv
  <1>2. /\ UNCHANGED <<tray, trays, quitting, tunnelThread, host, tunnel, tunnelProc, urlFile, ended,
                       blind, late>>
        /\ hostThread' \in {"look", "spawn", "done"}
    BY DEF Child!LookForHost
  <1>3. HostsLeft' /\ OneHost'
    BY <1>1, <1>2 DEF HostsLeft, OneHost
  <1>4. /\ host' \in [Child!Hosts -> {"none", "booting", "up", "gone"}]
        /\ tunnel' \in [Child!Hosts -> {"none", "up", "gone"}]
        /\ \A t \in Child!Hosts : tunnel'[t] = "up" => tunnel[t] = "up"
        /\ blind \subseteq blind'
    BY <1>1, <1>2 DEF ChildTypes
  <1> QED BY <1>2, <1>3, <1>4, HostsMove

LEMMA HostSpawned == ASSUME ChildAssumption, ChildInv, Child!SpawnHost PROVE ChildInv'
  <1>1. ChildTypes /\ HostsLeft /\ OneHost /\ OneTray
    BY DEF ChildInv
  <1>2. /\ UNCHANGED <<tray, trays, quitting, tunnelThread, tunnel, tunnelProc, urlFile, ended, late>>
        /\ tray # 0 /\ hostThread' = "done" /\ host' = [host EXCEPT ![tray] = "booting"]
        /\ blind' = IF quitting > 2 THEN blind \cup {<<"host", tray>>} ELSE blind
    BY DEF Child!SpawnHost
  <1>3. /\ host' \in [Child!Hosts -> {"none", "booting", "up", "gone"}] /\ host'[tray] = "booting"
        /\ \A h \in Child!Hosts : h # tray => host'[h] = host[h]
    BY <1>1, <1>2 DEF ChildTypes
  <1>4. quitting > 2 <=> quitting = 3
    BY <1>1 DEF ChildTypes
  <1>5. HostsLeft'
    BY <1>1, <1>2, <1>3, <1>4 DEF HostsLeft
  <1>6. OneHost'
    BY <1>1, <1>3 DEF OneHost
  <1>7. /\ tunnel' \in [Child!Hosts -> {"none", "up", "gone"}] /\ blind \subseteq blind'
        /\ \A t \in Child!Hosts : tunnel'[t] = "up" => tunnel[t] = "up"
        /\ hostThread' \in {"look", "spawn", "done"}
    BY <1>1, <1>2 DEF ChildTypes
  <1> QED BY <1>2, <1>3, <1>5, <1>6, <1>7, HostsMove

LEMMA HostBooted ==
  ASSUME ChildAssumption, ChildInv, NEW h \in Child!Hosts, Child!HostBoots(h) PROVE ChildInv'
  <1>1. ChildTypes /\ HostsLeft /\ OneHost
    BY DEF ChildInv
  <1>2. /\ UNCHANGED <<tray, trays, quitting, hostThread, tunnelThread, tunnel, tunnelProc, urlFile, ended,
                       blind, late>>
        /\ host[h] = "booting"
        /\ host' = [host EXCEPT ![h] = IF Child!PortListening THEN "gone" ELSE "up"]
    BY DEF Child!HostBoots
  <1>3. /\ host' \in [Child!Hosts -> {"none", "booting", "up", "gone"}]
        /\ host'[h] \in {"gone", "up"} /\ (host'[h] = "up" => ~Child!PortListening)
        /\ \A g \in Child!Hosts : g # h => host'[g] = host[g]
    BY <1>1, <1>2 DEF ChildTypes
  <1>4. HostsLeft'
    BY <1>1, <1>2, <1>3 DEF HostsLeft
  <1>5. OneHost'
    BY <1>1, <1>3 DEF OneHost, Child!PortListening
  <1>6. /\ tunnel' \in [Child!Hosts -> {"none", "up", "gone"}] /\ blind \subseteq blind'
        /\ \A t \in Child!Hosts : tunnel'[t] = "up" => tunnel[t] = "up"
        /\ hostThread' \in {"look", "spawn", "done"}
    BY <1>1, <1>2 DEF ChildTypes
  <1> QED BY <1>2, <1>3, <1>4, <1>5, <1>6, HostsMove

LEMMA ChildDies == ASSUME ChildAssumption, ChildInv, Child!Dies PROVE ChildInv'
  <1>1. ChildTypes /\ HostsLeft /\ OneHost
    BY DEF ChildInv
  <1>2. UNCHANGED <<tray, trays, quitting, hostThread, tunnelThread, tunnelProc, urlFile, ended, blind, late>>
    BY DEF Child!Dies
  <1>3. /\ host' \in [Child!Hosts -> {"none", "booting", "up", "gone"}]
        /\ tunnel' \in [Child!Hosts -> {"none", "up", "gone"}]
        /\ \A h \in Child!Hosts : host'[h] = host[h] \/ host'[h] = "gone"
        /\ \A t \in Child!Hosts : tunnel'[t] = "up" => tunnel[t] = "up"
    <2>1. CASE \E t \in Child!Hosts : tunnel' = [tunnel EXCEPT ![t] = "gone"] /\ host' = host
      BY <1>1, <2>1 DEF ChildTypes
    <2>2. CASE \E h \in Child!Hosts : host' = [host EXCEPT ![h] = "gone"] /\ tunnel' = tunnel
      BY <1>1, <2>2 DEF ChildTypes
    <2> QED BY <2>1, <2>2 DEF Child!Dies
  <1>4. HostsLeft'
    BY <1>1, <1>2, <1>3 DEF HostsLeft
  <1>5. OneHost'
    BY <1>1, <1>3 DEF OneHost
  <1>6. hostThread' \in {"look", "spawn", "done"} /\ blind \subseteq blind'
    BY <1>1, <1>2 DEF ChildTypes
  <1> QED BY <1>2, <1>3, <1>4, <1>5, <1>6, HostsMove

\* The thread that starts the tunnel.
LEMMA TunnelThreadKeeps ==
  ASSUME ChildAssumption, ChildInv, Child!SpawnTunnel \/ Child!KeepTunnel \/ Child!WriteUrl
  PROVE  ChildInv'
  <1>1. /\ ChildTypes /\ OneTray /\ Handle /\ Tunnels /\ HostsLeft /\ OneHost /\ UrlLeft
        /\ Child!UrlCurrent /\ 0 \in Child!Hosts
    BY HostsRange DEF ChildInv
  <1>2. tray # 0 /\ UNCHANGED <<tray, trays, quitting, hostThread, host, ended, blind>>
    BY DEF Child!SpawnTunnel, Child!KeepTunnel, Child!WriteUrl
  <1>3. OneTray' /\ HostsLeft' /\ OneHost'
    BY <1>1, <1>2 DEF OneTray, HostsLeft, OneHost
  <1>4. CASE Child!SpawnTunnel
    <2>1. /\ tunnelThread = "spawn" /\ tunnelThread' = "keep" /\ tunnel' = [tunnel EXCEPT ![tray] = "up"]
          /\ UNCHANGED <<tunnelProc, urlFile, late>>
      BY <1>4 DEF Child!SpawnTunnel
    <2>2. /\ tunnel' \in [Child!Hosts -> {"none", "up", "gone"}]
          /\ \A t \in Child!Hosts : t # tray => tunnel'[t] = tunnel[t]
      BY <1>1, <2>1 DEF ChildTypes
    <2>3. ChildTypes' /\ Handle'
      BY <1>1, <1>2, <2>1, <2>2 DEF ChildTypes, Handle
    <2>4. Tunnels'
      BY <1>1, <1>2, <2>1, <2>2 DEF Tunnels, Unkept
    <2>5. UrlLeft' /\ Child!UrlCurrent'
      BY <1>1, <1>2, <2>1 DEF UrlLeft, Child!UrlCurrent, Unkept
    <2> QED BY <1>3, <2>3, <2>4, <2>5 DEF ChildInv
  <1>5. CASE Child!KeepTunnel
    <2>1. /\ tunnelThread = "keep" /\ tunnelThread' = "write" /\ tunnelProc' = tray
          /\ UNCHANGED <<tunnel, urlFile, late>>
      BY <1>5 DEF Child!KeepTunnel
    <2>2. ChildTypes' /\ Handle'
      BY <1>1, <1>2, <2>1 DEF ChildTypes, Handle
    <2>3. Tunnels'
      BY <1>1, <1>2, <2>1 DEF Tunnels, Unkept
    <2>4. UrlLeft' /\ Child!UrlCurrent'
      BY <1>1, <1>2, <2>1 DEF UrlLeft, Child!UrlCurrent, Unkept
    <2> QED BY <1>3, <2>2, <2>3, <2>4 DEF ChildInv
  <1>6. CASE Child!WriteUrl
    <2>1. /\ tunnelThread = "write" /\ tunnelThread' = "done" /\ urlFile' = tray
          /\ late' = (late \/ quitting > 1) /\ UNCHANGED <<tunnel, tunnelProc>>
      BY <1>6 DEF Child!WriteUrl
    <2>2. ChildTypes' /\ Handle'
      BY <1>1, <1>2, <2>1 DEF ChildTypes, Handle
    <2>3. Tunnels'
      BY <1>1, <1>2, <2>1 DEF Tunnels, Unkept
    <2>4. Child!UrlCurrent'
      BY <1>2, <2>1 DEF Child!UrlCurrent
    <2>5. quitting \in {2, 3} => quitting > 1
      OBVIOUS
    <2>6. quitting \in {2, 3} => late'
      BY <2>1, <2>5
    <2>7. UrlLeft'
      BY <1>2, <2>6 DEF UrlLeft
    <2> QED BY <1>3, <2>2, <2>3, <2>4, <2>7 DEF ChildInv
  <1> QED BY <1>4, <1>5, <1>6

\* The steps of Quit.
LEMMA QuitStepKeeps ==
  ASSUME ChildAssumption, ChildInv, Child!StopTunnel \/ Child!RemoveUrl \/ Child!StopHost
  PROVE  ChildInv'
  <1>1. /\ ChildTypes /\ OneTray /\ Handle /\ Tunnels /\ HostsLeft /\ OneHost /\ UrlLeft
        /\ Child!UrlCurrent /\ 0 \in Child!Hosts
    BY HostsRange DEF ChildInv
  <1>2. tray # 0 /\ tray = trays /\ UNCHANGED <<tray, trays, hostThread, tunnelThread, ended, late>>
    BY <1>1 DEF Child!StopTunnel, Child!RemoveUrl, Child!StopHost, OneTray
  <1>3. CASE Child!StopTunnel
    <2>1. /\ quitting = 0 /\ quitting' = (IF tunnelProc = 0 THEN 2 ELSE 1) /\ tunnelProc' = 0
          /\ tunnel' = IF tunnelProc = 0 THEN tunnel ELSE [tunnel EXCEPT ![tunnelProc] = "gone"]
          /\ blind' = IF tunnelProc = 0 THEN blind \cup {<<"tunnel", tray>>} ELSE blind
          /\ UNCHANGED <<host, urlFile>>
      BY <1>3 DEF Child!StopTunnel
    <2>2. CASE tunnelProc = 0
      <3>1. ChildTypes' /\ OneTray' /\ Handle'
        BY <1>1, <1>2, <2>1, <2>2 DEF ChildTypes, OneTray, Handle
      <3>2. Tunnels'
        BY <1>1, <1>2, <2>1, <2>2 DEF Tunnels, Unkept
      <3>3. HostsLeft' /\ OneHost' /\ UrlLeft' /\ Child!UrlCurrent'
        BY <1>1, <1>2, <2>1, <2>2 DEF HostsLeft, OneHost, UrlLeft, Child!UrlCurrent, Unkept
      <3> QED BY <3>1, <3>2, <3>3 DEF ChildInv
    <2>3. CASE tunnelProc # 0
      <3>1. tunnelProc = tray /\ tunnelThread \in {"write", "done"}
        BY <1>1, <1>2, <2>3 DEF Handle
      <3>2. /\ tunnel' \in [Child!Hosts -> {"none", "up", "gone"}] /\ tunnel'[tray] # "up"
            /\ \A t \in Child!Hosts : t # tray => tunnel'[t] = tunnel[t]
        BY <1>1, <2>1, <2>3, <3>1 DEF ChildTypes
      <3>3. ChildTypes' /\ OneTray' /\ Handle'
        BY <1>1, <1>2, <2>1, <2>3, <3>2 DEF ChildTypes, OneTray, Handle
      <3>4. Tunnels'
        BY <1>1, <1>2, <2>1, <2>3, <3>1, <3>2 DEF Tunnels, Unkept
      <3>5. HostsLeft' /\ OneHost' /\ UrlLeft' /\ Child!UrlCurrent'
        BY <1>1, <1>2, <2>1, <2>3 DEF HostsLeft, OneHost, UrlLeft, Child!UrlCurrent
      <3> QED BY <3>3, <3>4, <3>5 DEF ChildInv
    <2> QED BY <2>2, <2>3
  <1>4. CASE Child!RemoveUrl
    <2>1. /\ quitting = 1 /\ quitting' = 2 /\ urlFile' = 0
          /\ UNCHANGED <<host, tunnel, tunnelProc, blind>>
      BY <1>4 DEF Child!RemoveUrl
    <2>2. ChildTypes' /\ OneTray' /\ Handle'
      BY <1>1, <1>2, <2>1 DEF ChildTypes, OneTray, Handle
    <2>3. Tunnels'
      BY <1>1, <1>2, <2>1 DEF Tunnels, Unkept
    <2>4. HostsLeft' /\ OneHost' /\ UrlLeft' /\ Child!UrlCurrent'
      BY <1>1, <1>2, <2>1 DEF HostsLeft, OneHost, UrlLeft, Child!UrlCurrent
    <2> QED BY <2>2, <2>3, <2>4 DEF ChildInv
  <1>5. CASE Child!StopHost
    <2>1. /\ quitting = 2 /\ quitting' = 3 /\ UNCHANGED <<tunnel, tunnelProc, urlFile>>
          /\ \/ host' = [h \in Child!Hosts |-> IF host[h] = "up" THEN "gone" ELSE host[h]]
             \/ host' = host
          /\ blind' = blind \cup {<<"host", h>> : h \in {x \in Child!Hosts : host[x] = "booting" \/ host'[x] = "up"}}
      BY <1>5 DEF Child!StopHost
    <2>2. /\ host' \in [Child!Hosts -> {"none", "booting", "up", "gone"}]
          /\ \A h \in Child!Hosts : host'[h] = host[h] \/ host'[h] = "gone"
      BY <1>1, <2>1 DEF ChildTypes
    <2>3. blind \subseteq blind'
      BY <2>1
    <2>4. ChildTypes' /\ OneTray' /\ Handle'
      BY <1>1, <1>2, <2>1, <2>2 DEF ChildTypes, OneTray, Handle
    <2>5. Tunnels'
      BY <1>1, <1>2, <2>1, <2>3 DEF Tunnels, Unkept
    <2>6. ASSUME NEW h \in Child!Hosts, host'[h] \in {"booting", "up"} PROVE <<"host", h>> \in blind'
      <3>1. host[h] = "booting" \/ host'[h] = "up"
        BY <2>2, <2>6
      <3>2. h \in {x \in Child!Hosts : host[x] = "booting" \/ host'[x] = "up"}
        BY <3>1
      <3> QED BY <2>1, <3>2
    <2>7. HostsLeft' /\ OneHost'
      BY <1>1, <2>2, <2>6 DEF HostsLeft, OneHost
    <2>8. UrlLeft' /\ Child!UrlCurrent'
      BY <1>1, <1>2, <2>1, <2>3 DEF UrlLeft, Child!UrlCurrent, Unkept
    <2> QED BY <2>4, <2>5, <2>7, <2>8 DEF ChildInv
  <1> QED BY <1>3, <1>4, <1>5

LEMMA ChildStep ==
  ASSUME ChildAssumption, ChildInv, [Child!Next]_(Child!vars) PROVE ChildInv'
  <1>1. CASE Child!Next
    <2>1. CASE Child!StartTray \/ Child!Exit \/ Child!Kill
      BY <2>1, TrayStarts, TrayExits, TrayKilled
    <2>2. CASE Child!LookForHost \/ Child!SpawnHost \/ Child!Dies
      BY <2>2, HostLooked, HostSpawned, ChildDies
    <2>3. CASE \E h \in Child!Hosts : Child!HostBoots(h)
      BY <2>3, HostBooted
    <2>4. CASE Child!SpawnTunnel \/ Child!KeepTunnel \/ Child!WriteUrl
      BY <2>4, TunnelThreadKeeps
    <2>5. CASE Child!StopTunnel \/ Child!RemoveUrl \/ Child!StopHost
      BY <2>5, QuitStepKeeps
    <2> QED BY <1>1, <2>1, <2>2, <2>3, <2>4, <2>5 DEF Child!Next
  <1>2. CASE UNCHANGED Child!vars
    <2>1. UNCHANGED <<tray, trays, quitting, hostThread, tunnelThread, host, tunnel, tunnelProc,
                      urlFile, ended, blind, late>>
      BY <1>2 DEF Child!vars
    <2>2. ChildTypes /\ HostsLeft /\ OneHost
      BY DEF ChildInv
    <2>3. HostsLeft' /\ OneHost'
      BY <2>1, <2>2 DEF HostsLeft, OneHost
    <2>4. /\ hostThread' \in {"look", "spawn", "done"}
          /\ host' \in [Child!Hosts -> {"none", "booting", "up", "gone"}]
          /\ tunnel' \in [Child!Hosts -> {"none", "up", "gone"}] /\ blind \subseteq blind'
          /\ \A t \in Child!Hosts : tunnel'[t] = "up" => tunnel[t] = "up"
      BY <2>1, <2>2 DEF ChildTypes
    <2> QED BY <2>1, <2>3, <2>4, HostsMove
  <1> QED BY <1>1, <1>2

\* However trays start, quit and are killed, one after the other, and whatever dies or cannot
\* be killed: one session host has the port and one tunnel runs, a tray that has quit leaves
\* neither behind but those it had no handle of, and the URL file names the tunnel that runs
\* once its tray is past its start (_start_session_host, _start_tunnel, quit_app).
THEOREM ChildrenTrueAlways ==
  ASSUME ChildAssumption
  PROVE  Child!Spec => [](Child!TypeOK /\ Child!ChildrenTrue)
  <1>1. Child!Init => ChildInv
    BY ChildInit
  <1>2. ChildInv => Child!TypeOK /\ Child!ChildrenTrue
    <2> SUFFICES ASSUME ChildInv PROVE Child!TypeOK /\ Child!ChildrenTrue
      OBVIOUS
    <2>1. /\ ChildTypes /\ Tunnels /\ HostsLeft /\ OneHost /\ UrlLeft /\ Child!UrlCurrent
      BY DEF ChildInv
    <2>2. Child!TypeOK
      BY <2>1 DEF ChildTypes, Child!TypeOK
    <2>3. Cardinality({h \in Child!Hosts : host[h] = "up"}) <= 1
      <3> DEFINE Up == {h \in Child!Hosts : host[h] = "up"}
      <3>1. CASE Up = {}
        BY <3>1, FS_EmptySet
      <3>2. CASE Up # {}
        <4>1. PICK h \in Child!Hosts : host[h] = "up"
          BY <3>2
        <4>2. Up = {h}
          BY <2>1, <4>1 DEF OneHost
        <4>3. Cardinality(Up) = 1
          BY <4>2, FS_Singleton
        <4> QED BY <4>3
      <3> QED BY <3>1, <3>2
    <2>4. Child!OneOfEach
      BY <2>1, <2>3 DEF Tunnels, Unkept, Child!OneOfEach, Child!Cardinality, Cardinality
    <2>5. Child!NothingLeft
      BY <2>1 DEF Tunnels, HostsLeft, UrlLeft, Unkept, Child!NothingLeft
    <2> QED BY <2>1, <2>2, <2>4, <2>5 DEF Child!ChildrenTrue
  <1> QED BY <1>1, <1>2, ChildStep, PTL DEF Child!Spec

-----------------------------------------------------------------------------
(* The apps that run, and the rows that stand for them. *)

AppsAssumption ==
  /\ Tolerance \in Nat /\ MaxSeconds \in Nat /\ MaxProcesses \in Nat
  /\ "other" \notin Apps /\ "nothing" \notin Apps

Processes == [of : Apps \cup {"other", "nothing"}, born : 0 .. MaxSeconds, id : 0 .. MaxProcesses]
AppsTypes ==
  /\ runs \in [Pids -> Processes]
  /\ \A p \in Pids : AppRows!Running(p) => runs[p].of # "nothing" /\ runs[p].id # 0
  /\ instances \subseteq [app : Apps \ Trays, pid : Pids, started : 0 .. MaxSeconds]
  /\ stops \subseteq [app : Apps, pid : Pids, stage : {"kill", "forget"}]
  /\ seconds \in 0 .. MaxSeconds /\ started \in 0 .. MaxProcesses
  /\ unnoticed \subseteq Apps \X Pids /\ excused \subseteq 1 .. started
  /\ strays \subseteq [unnoticed : BOOLEAN, alike : BOOLEAN]

\* A row nobody has to notice is of a process that runs, and looks like its app's.
RowsRun ==
  \A i \in instances : AppRows!Key(i) \notin unnoticed =>
    AppRows!Running(i.pid) /\ (runs[i.pid].of = i.app \/ AppRows!CreatedNear(i))

\* There is one stop of a row at a time; before the kill its row is there, or was seen to
\* go; after it, what runs there is excused.
StopsHold ==
  /\ \A s, t \in stops : AppRows!Key(s) = AppRows!Key(t) => s = t
  /\ \A s \in stops :
       IF s.stage = "kill"
       THEN AppRows!Key(s) \notin unnoticed => \E i \in instances : AppRows!Key(i) = AppRows!Key(s)
       ELSE runs[s.pid].of = s.app => runs[s.pid].id \in excused

\* The row of an app that runs and is not excused has the time its process began.
Listed(p) ==
  runs[p].of \in Apps \ Trays /\ runs[p].id \notin excused =>
    \E i \in instances : AppRows!Key(i) = <<runs[p].of, p>> /\ AppRows!CreatedNear(i)

AppsInv ==
  /\ AppsTypes /\ RowsRun /\ StopsHold
  /\ \A p \in Pids : Listed(p)
  /\ AppRows!StrayKillsExplained

LEMMA AppsInit == ASSUME AppsAssumption, AppRows!Init PROVE AppsInv
  <1>1. /\ runs = [p \in Pids |-> AppRows!Nothing] /\ instances = {} /\ stops = {} /\ seconds = 0
        /\ started = 0 /\ unnoticed = {} /\ excused = {} /\ strays = {}
    BY DEF AppRows!Init
  <1>2. AppRows!Nothing \in Processes /\ AppRows!Nothing.of = "nothing"
    BY DEF AppsAssumption, AppRows!Nothing, Processes
  <1>3. AppsTypes
    BY <1>1, <1>2 DEF AppsTypes, AppsAssumption, AppRows!Running
  <1> QED BY <1>1, <1>2, <1>3 DEF AppsInv, RowsRun, StopsHold, Listed, AppsAssumption,
    AppRows!StrayKillsExplained

\* A process appears where none was: no row that nobody has to notice is of its pid.
LEMMA AppearFacts ==
  ASSUME AppsAssumption, AppsInv, NEW p \in Pids, NEW who \in Apps \cup {"other"},
         AppRows!Appear(p, who)
  PROVE  /\ started' = started + 1 /\ started' \in 0 .. MaxProcesses /\ started \in Nat
         /\ runs' \in [Pids -> Processes] /\ runs'[p] = [of |-> who, born |-> seconds, id |-> started']
         /\ \A q \in Pids : q # p => runs'[q] = runs[q]
         /\ \A q \in Pids : AppRows!Running(q)' => runs'[q].of # "nothing" /\ runs'[q].id # 0
         /\ AppRows!Running(p)' /\ ~AppRows!Running(p)
         /\ \A q \in Pids : q # p => (AppRows!Running(q)' <=> AppRows!Running(q))
         /\ \A i \in instances : i.pid = p => AppRows!Key(i) \in unnoticed
         /\ excused \subseteq 1 .. started' /\ started' \notin excused
  <1>1. AppsTypes /\ RowsRun
    BY DEF AppsInv
  <1>2. /\ ~AppRows!Running(p) /\ started < MaxProcesses /\ started' = started + 1
        /\ runs' = [runs EXCEPT ![p] = [of |-> who, born |-> seconds, id |-> started + 1]]
    BY DEF AppRows!Appear
  <1>3. started \in Nat /\ started' \in 0 .. MaxProcesses /\ started' \in 1 .. MaxProcesses
    BY <1>1, <1>2 DEF AppsTypes, AppsAssumption
  <1>4. [of |-> who, born |-> seconds, id |-> started + 1] \in Processes
    BY <1>1, <1>2, <1>3 DEF AppsTypes, Processes
  <1>5. /\ runs' \in [Pids -> Processes] /\ \A q \in Pids : q # p => runs'[q] = runs[q]
        /\ runs'[p] = [of |-> who, born |-> seconds, id |-> started']
    BY <1>1, <1>2, <1>4 DEF AppsTypes
  <1>6. runs'[p].of # "nothing" /\ runs'[p].id # 0
    BY <1>3, <1>5 DEF AppsAssumption
  <1>7. runs'[p] # AppRows!Nothing
    BY <1>6 DEF AppRows!Nothing
  <1>8. excused \subseteq 1 .. started' /\ started' \notin excused
    BY <1>1, <1>2, <1>3 DEF AppsTypes
  <1> QED BY <1>1, <1>2, <1>3, <1>5, <1>6, <1>7, <1>8 DEF RowsRun, AppsTypes, AppRows!Running

LEMMA OtherStep ==
  ASSUME AppsAssumption, AppsInv, NEW p \in Pids, AppRows!OtherStarts(p)
  PROVE  AppsInv'
  <1>1. AppsTypes /\ RowsRun /\ StopsHold /\ (\A q \in Pids : Listed(q)) /\ AppRows!StrayKillsExplained
    BY DEF AppsInv
  <1>2. /\ AppRows!Appear(p, "other")
        /\ UNCHANGED <<instances, stops, seconds, unnoticed, excused, strays>>
    BY DEF AppRows!OtherStarts
  <1>3. /\ started' = started + 1 /\ started' \in 0 .. MaxProcesses
        /\ runs' \in [Pids -> Processes] /\ runs'[p] = [of |-> "other", born |-> seconds, id |-> started']
        /\ \A q \in Pids : q # p => runs'[q] = runs[q]
        /\ \A q \in Pids : AppRows!Running(q)' => runs'[q].of # "nothing" /\ runs'[q].id # 0
        /\ \A q \in Pids : q # p => (AppRows!Running(q)' <=> AppRows!Running(q))
        /\ \A i \in instances : i.pid = p => AppRows!Key(i) \in unnoticed
        /\ excused \subseteq 1 .. started'
    BY <1>2, AppearFacts
  <1>4. AppsTypes'
    BY <1>1, <1>2, <1>3 DEF AppsTypes
  <1>5. RowsRun'
    BY <1>1, <1>2, <1>3 DEF AppsTypes, RowsRun, AppRows!CreatedNear, AppRows!Key
  <1>6. StopsHold'
    BY <1>1, <1>2, <1>3 DEF AppsTypes, AppsAssumption, StopsHold, AppRows!Key
  <1>7. \A q \in Pids : Listed(q)'
    BY <1>1, <1>2, <1>3 DEF AppsAssumption, Listed, AppRows!CreatedNear, AppRows!Key
  <1>8. AppRows!StrayKillsExplained'
    BY <1>1, <1>2 DEF AppRows!StrayKillsExplained
  <1> QED BY <1>4, <1>5, <1>6, <1>7, <1>8 DEF AppsInv

LEMMA LaunchStep ==
  ASSUME AppsAssumption, AppsInv, NEW a \in Apps, NEW p \in Pids, NEW wait \in 0 .. MaxSeconds,
         AppRows!LaunchBatEntry(a, p, wait)
  PROVE  AppsInv'
  <1> DEFINE new == [app |-> a, pid |-> p, started |-> seconds']
             key == <<a, p>>
  <1>1. AppsTypes /\ RowsRun /\ StopsHold /\ (\A q \in Pids : Listed(q)) /\ AppRows!StrayKillsExplained
    BY DEF AppsInv
  <1>2. /\ seconds + wait <= MaxSeconds /\ AppRows!Appear(p, a) /\ seconds' = seconds + wait
        /\ instances' = IF a \in Trays THEN instances
                        ELSE {i \in instances : AppRows!Key(i) # key} \cup {new}
        /\ unnoticed' = unnoticed \ (IF AppRows!StopOf(key) THEN {} ELSE {key})
        /\ excused' = IF AppRows!StopOf(key) \/ wait > Tolerance THEN excused \cup {started'} ELSE excused
        /\ UNCHANGED <<stops, strays>>
    BY DEF AppRows!LaunchBatEntry
  <1>3. /\ started' = started + 1 /\ started' \in 0 .. MaxProcesses /\ started \in Nat
        /\ runs' \in [Pids -> Processes] /\ runs'[p] = [of |-> a, born |-> seconds, id |-> started']
        /\ \A q \in Pids : q # p => runs'[q] = runs[q]
        /\ \A q \in Pids : AppRows!Running(q)' => runs'[q].of # "nothing" /\ runs'[q].id # 0
        /\ AppRows!Running(p)'
        /\ \A q \in Pids : q # p => (AppRows!Running(q)' <=> AppRows!Running(q))
        /\ \A i \in instances : i.pid = p => AppRows!Key(i) \in unnoticed
        /\ excused \subseteq 1 .. started' /\ started' \notin excused
    BY <1>2, AppearFacts
  <1>4. seconds' \in 0 .. MaxSeconds /\ seconds \in Nat /\ wait \in Nat
    BY <1>1, <1>2 DEF AppsTypes, AppsAssumption
  <1>5. AppRows!Key(new) = key
    BY DEF AppRows!Key
  <1>6. excused' \subseteq 1 .. started' /\ excused \subseteq excused'
        /\ (AppRows!StopOf(key) \/ wait > Tolerance => started' \in excused')
    BY <1>2, <1>3
  <1>7. instances' \subseteq [app : Apps \ Trays, pid : Pids, started : 0 .. MaxSeconds]
    BY <1>1, <1>2, <1>4 DEF AppsTypes
  <1>8. AppsTypes'
    BY <1>1, <1>2, <1>3, <1>4, <1>6, <1>7 DEF AppsTypes
  <1>9. RowsRun'
    <2> SUFFICES ASSUME NEW i \in instances', AppRows!Key(i) \notin unnoticed'
                 PROVE  /\ AppRows!Running(i.pid)'
                        /\ (runs[i.pid].of = i.app)' \/ AppRows!CreatedNear(i)'
      BY DEF RowsRun, AppRows!Key
    <2>1. i.pid \in Pids
      BY <1>7
    <2>2. CASE AppRows!Key(i) = key
      <3>1. i.pid = p /\ i.app = a
        BY <2>2 DEF AppRows!Key
      <3> QED BY <1>3, <3>1
    <2>3. CASE AppRows!Key(i) # key
      <3>1. i \in instances /\ AppRows!Key(i) \notin unnoticed
        BY <1>2, <1>5, <2>3
      <3>2. i.pid # p
        BY <1>3, <3>1
      <3> QED BY <1>1, <1>3, <2>1, <3>1, <3>2 DEF RowsRun, AppRows!CreatedNear
    <2> QED BY <2>2, <2>3
  <1>10. StopsHold'
    <2>1. ASSUME NEW s \in stops, s.stage = "kill", AppRows!Key(s) \notin unnoticed'
          PROVE  \E i \in instances' : AppRows!Key(i) = AppRows!Key(s)
      <3>1. AppRows!Key(s) = key => AppRows!StopOf(key)
        BY DEF AppRows!StopOf
      <3>2. AppRows!Key(s) \notin unnoticed
        BY <1>2, <2>1, <3>1
      <3>3. PICK i \in instances : AppRows!Key(i) = AppRows!Key(s)
        BY <1>1, <2>1, <3>2 DEF StopsHold
      <3>4. CASE AppRows!Key(i) = key
        BY <1>2, <1>3, <3>2, <3>3, <3>4 DEF AppRows!Key
      <3>5. CASE AppRows!Key(i) # key
        BY <1>2, <3>3, <3>5
      <3> QED BY <3>4, <3>5
    <2>2. ASSUME NEW s \in stops, s.stage # "kill", runs'[s.pid].of = s.app
          PROVE  runs'[s.pid].id \in excused'
      <3>1. s.pid \in Pids
        BY <1>1 DEF AppsTypes
      <3>2. CASE s.pid = p
        <4>1. AppRows!Key(s) = key
          BY <1>3, <2>2, <3>2 DEF AppRows!Key
        <4>2. AppRows!StopOf(key)
          BY <4>1 DEF AppRows!StopOf
        <4> QED BY <1>3, <1>6, <3>2, <4>2
      <3>3. CASE s.pid # p
        BY <1>1, <1>3, <1>6, <2>2, <3>1, <3>3 DEF StopsHold
      <3> QED BY <3>2, <3>3
    <2> QED BY <1>1, <1>2, <2>1, <2>2 DEF StopsHold, AppRows!Key
  <1>11. ASSUME NEW q \in Pids PROVE Listed(q)'
    <2>1. CASE q = p
      <3> SUFFICES ASSUME a \notin Trays, started' \notin excused'
                   PROVE  \E i \in instances' : AppRows!Key(i) = key /\ AppRows!CreatedNear(i)'
        BY <1>3, <2>1 DEF Listed, AppRows!Key
      <3>1. new \in instances' /\ ~(wait > Tolerance)
        BY <1>2, <1>6
      <3>2. PICK i \in instances' : i.app = a /\ i.pid = p /\ i.started = seconds + wait
        BY <1>2, <3>1
      <3>3. runs'[i.pid].born - i.started = -wait
        BY <1>3, <1>4, <3>2
      <3>4. -wait \in -Tolerance .. Tolerance
        BY <1>4, <3>1 DEF AppsAssumption
      <3>5. AppRows!CreatedNear(i)' /\ AppRows!Key(i) = key
        BY <3>2, <3>3, <3>4 DEF AppRows!CreatedNear, AppRows!Key
      <3> QED BY <3>5
    <2>2. CASE q # p
      <3> SUFFICES ASSUME runs[q].of \in Apps \ Trays, runs[q].id \notin excused'
                   PROVE  \E i \in instances' : AppRows!Key(i) = <<runs[q].of, q>> /\ AppRows!CreatedNear(i)'
        BY <1>3, <2>2 DEF Listed, AppRows!Key
      <3>1. PICK i \in instances : AppRows!Key(i) = <<runs[q].of, q>> /\ AppRows!CreatedNear(i)
        BY <1>1, <1>6 DEF Listed
      <3>2. i.pid = q
        BY <3>1 DEF AppRows!Key
      <3>3. i \in instances'
        BY <1>2, <2>2, <3>1
      <3>4. AppRows!CreatedNear(i)'
        BY <1>3, <2>2, <3>1, <3>2 DEF AppRows!CreatedNear
      <3> QED BY <3>1, <3>3, <3>4
    <2> QED BY <2>1, <2>2
  <1>12. AppRows!StrayKillsExplained'
    BY <1>1, <1>2 DEF AppRows!StrayKillsExplained
  <1> QED BY <1>8, <1>9, <1>10, <1>11, <1>12 DEF AppsInv

\* A process ends: the rows of its pid are there to be noticed.
LEMMA EndsFacts ==
  ASSUME AppsAssumption, AppsInv, NEW p \in Pids, AppRows!Ends(p)
  PROVE  /\ runs' \in [Pids -> Processes] /\ runs'[p].of = "nothing" /\ ~AppRows!Running(p)'
         /\ \A q \in Pids : q # p => /\ runs'[q] = runs[q]
                                     /\ AppRows!Running(q)' <=> AppRows!Running(q)
         /\ unnoticed \subseteq unnoticed' /\ unnoticed' \subseteq Apps \X Pids
         /\ \A i \in instances : i.pid = p => AppRows!Key(i) \in unnoticed'
  <1>1. AppsTypes
    BY DEF AppsInv
  <1>2. /\ runs' = [runs EXCEPT ![p] = AppRows!Nothing]
        /\ unnoticed' = unnoticed \cup {AppRows!Key(i) : i \in {j \in instances : j.pid = p}}
    BY DEF AppRows!Ends
  <1>3. AppRows!Nothing \in Processes /\ AppRows!Nothing.of = "nothing"
    BY DEF AppsAssumption, AppRows!Nothing, Processes
  <1>4. {AppRows!Key(i) : i \in {j \in instances : j.pid = p}} \subseteq Apps \X Pids
    BY <1>1 DEF AppsTypes, AppRows!Key
  <1> QED BY <1>1, <1>2, <1>3, <1>4 DEF AppsTypes, AppRows!Running

\* What its end leaves of the rows, for the processes still there.
LEMMA EndsKeeps ==
  ASSUME AppsAssumption, AppsInv, NEW p \in Pids, AppRows!Ends(p),
         UNCHANGED <<instances, seconds, started, excused>>
  PROVE  RowsRun' /\ \A q \in Pids : Listed(q)'
  <1>1. AppsTypes /\ RowsRun /\ \A q \in Pids : Listed(q)
    BY DEF AppsInv
  <1>2. /\ runs' \in [Pids -> Processes] /\ runs'[p].of = "nothing"
        /\ \A q \in Pids : q # p => /\ runs'[q] = runs[q]
                                    /\ AppRows!Running(q)' <=> AppRows!Running(q)
        /\ unnoticed \subseteq unnoticed'
        /\ \A i \in instances : i.pid = p => AppRows!Key(i) \in unnoticed'
    BY EndsFacts
  <1>3. RowsRun'
    <2> SUFFICES ASSUME NEW i \in instances, AppRows!Key(i) \notin unnoticed'
                 PROVE  /\ AppRows!Running(i.pid)'
                        /\ (runs[i.pid].of = i.app)' \/ AppRows!CreatedNear(i)'
      BY DEF RowsRun, AppRows!Key
    <2>1. i.pid \in Pids /\ i.pid # p /\ AppRows!Key(i) \notin unnoticed
      BY <1>1, <1>2 DEF AppsTypes
    <2> QED BY <1>1, <1>2, <2>1 DEF RowsRun, AppRows!CreatedNear
  <1>4. \A q \in Pids : Listed(q)'
    BY <1>1, <1>2 DEF AppsAssumption, Listed, AppRows!CreatedNear, AppRows!Key
  <1> QED BY <1>3, <1>4

LEMMA ExitStep ==
  ASSUME AppsAssumption, AppsInv, NEW p \in Pids, AppRows!Exits(p)
  PROVE  AppsInv'
  <1>1. AppsTypes /\ StopsHold /\ AppRows!StrayKillsExplained
    BY DEF AppsInv
  <1>2. AppRows!Ends(p) /\ UNCHANGED <<instances, stops, seconds, started, excused, strays>>
    BY DEF AppRows!Exits
  <1>3. RowsRun' /\ \A q \in Pids : Listed(q)'
    BY <1>2, EndsKeeps
  <1>4. /\ runs' \in [Pids -> Processes] /\ runs'[p].of = "nothing" /\ ~AppRows!Running(p)'
        /\ \A q \in Pids : q # p => /\ runs'[q] = runs[q]
                                    /\ AppRows!Running(q)' <=> AppRows!Running(q)
        /\ unnoticed \subseteq unnoticed' /\ unnoticed' \subseteq Apps \X Pids
    BY <1>2, EndsFacts
  <1>5. AppsTypes'
    BY <1>1, <1>2, <1>4 DEF AppsTypes
  <1>6. StopsHold'
    BY <1>1, <1>2, <1>4 DEF AppsTypes, AppsAssumption, StopsHold, AppRows!Key
  <1> QED BY <1>1, <1>2, <1>3, <1>5, <1>6 DEF AppsInv, AppRows!StrayKillsExplained

LEMMA KillStep ==
  ASSUME AppsAssumption, AppsInv, NEW s \in stops, AppRows!KillProcessTree(s)
  PROVE  AppsInv'
  <1> DEFINE over == [s EXCEPT !.stage = "forget"]
             kill == [unnoticed |-> AppRows!Key(s) \in unnoticed,
                      alike |-> \E i \in instances : AppRows!Key(i) = AppRows!Key(s) /\ AppRows!CreatedNear(i)]
  <1>1. AppsTypes /\ RowsRun /\ StopsHold /\ AppRows!StrayKillsExplained
    BY DEF AppsInv
  <1>2. /\ s.stage = "kill" /\ AppRows!Ends(s.pid)
        /\ strays' = IF AppRows!Running(s.pid) /\ runs[s.pid].of # s.app THEN strays \cup {kill} ELSE strays
        /\ stops' = (stops \ {s}) \cup {over}
        /\ UNCHANGED <<instances, seconds, started, excused>>
    BY DEF AppRows!KillProcessTree
  <1>3. s.pid \in Pids /\ s.app \in Apps /\ over \in [app : Apps, pid : Pids, stage : {"kill", "forget"}]
        /\ over.stage = "forget" /\ AppRows!Key(over) = AppRows!Key(s) /\ over.pid = s.pid /\ over.app = s.app
    BY <1>1 DEF AppsTypes, AppRows!Key
  <1>4. RowsRun' /\ \A q \in Pids : Listed(q)'
    BY <1>2, <1>3, EndsKeeps
  <1>5. /\ runs' \in [Pids -> Processes] /\ runs'[s.pid].of = "nothing" /\ ~AppRows!Running(s.pid)'
        /\ \A q \in Pids : q # s.pid => /\ runs'[q] = runs[q]
                                        /\ AppRows!Running(q)' <=> AppRows!Running(q)
        /\ unnoticed \subseteq unnoticed' /\ unnoticed' \subseteq Apps \X Pids
    BY <1>2, <1>3, EndsFacts
  <1>6. kill \in [unnoticed : BOOLEAN, alike : BOOLEAN]
    OBVIOUS
  <1>7. AppRows!Running(s.pid) /\ runs[s.pid].of # s.app => kill.unnoticed \/ kill.alike
    <2> SUFFICES ASSUME runs[s.pid].of # s.app, AppRows!Key(s) \notin unnoticed
                 PROVE  \E i \in instances : AppRows!Key(i) = AppRows!Key(s) /\ AppRows!CreatedNear(i)
      OBVIOUS
    <2>1. PICK i \in instances : AppRows!Key(i) = AppRows!Key(s)
      BY <1>1, <1>2 DEF StopsHold
    <2>2. i.pid = s.pid /\ i.app = s.app
      BY <2>1 DEF AppRows!Key
    <2> QED BY <1>1, <2>1, <2>2 DEF RowsRun
  <1> HIDE DEF kill, over
  <1>8. AppsTypes'
    <2>1. stops' \subseteq [app : Apps, pid : Pids, stage : {"kill", "forget"}]
      BY <1>1, <1>2, <1>3 DEF AppsTypes
    <2>2. strays' \subseteq [unnoticed : BOOLEAN, alike : BOOLEAN]
      BY <1>1, <1>2, <1>6 DEF AppsTypes
    <2> QED BY <1>1, <1>2, <1>5, <2>1, <2>2 DEF AppsTypes
  <1>9. StopsHold'
    <2>1. \A t, r \in stops' : AppRows!Key(t) = AppRows!Key(r) => t = r
      BY <1>1, <1>2, <1>3 DEF StopsHold
    <2>2. ASSUME NEW t \in stops'
          PROVE  IF t.stage = "kill"
                 THEN AppRows!Key(t) \notin unnoticed' =>
                        \E i \in instances : AppRows!Key(i) = AppRows!Key(t)
                 ELSE runs'[t.pid].of = t.app => runs'[t.pid].id \in excused
      <3>1. CASE t = over
        BY <1>3, <1>5, <3>1 DEF AppsAssumption
      <3>2. CASE t \in stops
        <4>1. t.pid \in Pids /\ t.app # "nothing"
          BY <1>1, <3>2 DEF AppsTypes, AppsAssumption
        <4> QED BY <1>1, <1>5, <3>2, <4>1 DEF StopsHold
      <3> QED BY <1>2, <2>2, <3>1, <3>2
    <2> QED BY <1>2, <2>1, <2>2 DEF StopsHold, AppRows!Key
  <1>10. AppRows!StrayKillsExplained'
    BY <1>1, <1>2, <1>7 DEF AppRows!StrayKillsExplained
  <1> QED BY <1>4, <1>8, <1>9, <1>10 DEF AppsInv

LEMMA ListStep ==
  ASSUME AppsAssumption, AppsInv, AppRows!GetRunningApps
  PROVE  AppsInv'
  <1>1. AppsTypes /\ RowsRun /\ StopsHold /\ (\A q \in Pids : Listed(q)) /\ AppRows!StrayKillsExplained
    BY DEF AppsInv
  <1>2. /\ instances' = {i \in instances : AppRows!IsPidAlive(i)}
        /\ unnoticed' = {key \in unnoticed \cup {AppRows!Key(i) : i \in instances \ instances'} :
                           AppRows!StopOf(key)}
        /\ UNCHANGED <<runs, stops, seconds, started, excused, strays>>
    BY DEF AppRows!GetRunningApps
  <1>3. {AppRows!Key(i) : i \in instances \ instances'} \subseteq Apps \X Pids
    BY <1>1 DEF AppsTypes, AppRows!Key
  <1>4. AppsTypes'
    BY <1>1, <1>2, <1>3 DEF AppsTypes, AppRows!Running
  <1>5. RowsRun'
    BY <1>2 DEF RowsRun, AppRows!IsPidAlive, AppRows!CreatedNear, AppRows!Running
  <1>6. StopsHold'
    <2>1. ASSUME NEW s \in stops, s.stage = "kill", AppRows!Key(s) \notin unnoticed'
          PROVE  \E i \in instances' : AppRows!Key(i) = AppRows!Key(s)
      <3>1. AppRows!StopOf(AppRows!Key(s))
        BY DEF AppRows!StopOf
      <3>2. AppRows!Key(s) \notin unnoticed
            /\ AppRows!Key(s) \notin {AppRows!Key(i) : i \in instances \ instances'}
        BY <1>2, <2>1, <3>1
      <3>3. PICK i \in instances : AppRows!Key(i) = AppRows!Key(s)
        BY <1>1, <2>1, <3>2 DEF StopsHold
      <3> QED BY <3>2, <3>3
    <2> QED BY <1>1, <1>2, <2>1 DEF StopsHold, AppRows!Key
  <1>7. ASSUME NEW q \in Pids PROVE Listed(q)'
    <2> SUFFICES ASSUME runs[q].of \in Apps \ Trays, runs[q].id \notin excused
                 PROVE  \E i \in instances' : AppRows!Key(i) = <<runs[q].of, q>> /\ AppRows!CreatedNear(i)'
      BY <1>2 DEF Listed, AppRows!Key
    <2>1. PICK i \in instances : AppRows!Key(i) = <<runs[q].of, q>> /\ AppRows!CreatedNear(i)
      BY <1>1 DEF Listed
    <2>2. i.pid = q
      BY <2>1 DEF AppRows!Key
    <2>3. AppRows!Running(q)
      BY DEF AppRows!Running, AppRows!Nothing, AppsAssumption
    <2>4. i \in instances' /\ AppRows!CreatedNear(i)'
      BY <1>2, <2>1, <2>2, <2>3 DEF AppRows!IsPidAlive, AppRows!CreatedNear
    <2> QED BY <2>1, <2>4
  <1> QED BY <1>1, <1>2, <1>4, <1>5, <1>6, <1>7 DEF AppsInv, AppRows!StrayKillsExplained

LEMMA StopStep ==
  ASSUME AppsAssumption, AppsInv, NEW a \in Apps, NEW p \in Pids, AppRows!StopAppInstance(a, p)
  PROVE  AppsInv'
  <1> DEFINE s == [app |-> a, pid |-> p, stage |-> "kill"]
  <1>1. AppsTypes /\ RowsRun /\ StopsHold /\ (\A q \in Pids : Listed(q)) /\ AppRows!StrayKillsExplained
    BY DEF AppsInv
  <1>2. /\ \E i \in instances : AppRows!Key(i) = <<a, p>>
        /\ ~AppRows!StopOf(<<a, p>>) /\ stops' = stops \cup {s}
        /\ UNCHANGED <<runs, instances, seconds, started, unnoticed, excused, strays>>
    BY DEF AppRows!StopAppInstance
  <1>3. AppRows!Key(s) = <<a, p>> /\ s \in [app : Apps, pid : Pids, stage : {"kill", "forget"}]
        /\ s.stage = "kill"
    BY DEF AppRows!Key
  <1> HIDE DEF s
  <1>4. AppsTypes' /\ RowsRun' /\ AppRows!StrayKillsExplained'
    BY <1>1, <1>2, <1>3 DEF AppsTypes, RowsRun, AppRows!StrayKillsExplained, AppRows!Running,
      AppRows!CreatedNear, AppRows!Key
  <1>5. \A q \in Pids : Listed(q)'
    BY <1>1, <1>2 DEF Listed, AppRows!Key, AppRows!CreatedNear
  <1>6. StopsHold'
    <2>1. \A t \in stops : AppRows!Key(t) # AppRows!Key(s)
      BY <1>2, <1>3 DEF AppRows!StopOf
    <2>2. \A t, r \in stops' : AppRows!Key(t) = AppRows!Key(r) => t = r
      BY <1>1, <1>2, <2>1 DEF StopsHold
    <2>3. ASSUME NEW t \in stops'
          PROVE  IF t.stage = "kill"
                 THEN AppRows!Key(t) \notin unnoticed =>
                        \E i \in instances : AppRows!Key(i) = AppRows!Key(t)
                 ELSE runs[t.pid].of = t.app => runs[t.pid].id \in excused
      BY <1>1, <1>2, <1>3 DEF StopsHold
    <2> QED BY <1>2, <2>2, <2>3 DEF StopsHold, AppRows!Key
  <1> QED BY <1>4, <1>5, <1>6 DEF AppsInv

LEMMA ForgetStep ==
  ASSUME AppsAssumption, AppsInv, NEW s \in stops, AppRows!ForgetSpawn(s)
  PROVE  AppsInv'
  <1>1. AppsTypes /\ RowsRun /\ StopsHold /\ (\A q \in Pids : Listed(q)) /\ AppRows!StrayKillsExplained
    BY DEF AppsInv
  <1>2. /\ s.stage = "forget" /\ stops' = stops \ {s}
        /\ instances' = {i \in instances : AppRows!Key(i) # AppRows!Key(s)}
        /\ unnoticed' = unnoticed \ {AppRows!Key(s)}
        /\ UNCHANGED <<runs, seconds, started, excused, strays>>
    BY DEF AppRows!ForgetSpawn
  <1>3. AppsTypes' /\ RowsRun' /\ AppRows!StrayKillsExplained'
    BY <1>1, <1>2 DEF AppsTypes, RowsRun, AppRows!StrayKillsExplained, AppRows!Running,
      AppRows!CreatedNear, AppRows!Key
  <1>4. StopsHold'
    <2>1. \A t \in stops' : t \in stops /\ AppRows!Key(t) # AppRows!Key(s)
      BY <1>1, <1>2 DEF StopsHold
    <2>2. ASSUME NEW t \in stops', t.stage = "kill", AppRows!Key(t) \notin unnoticed'
          PROVE  \E i \in instances' : AppRows!Key(i) = AppRows!Key(t)
      BY <1>1, <1>2, <2>1, <2>2 DEF StopsHold
    <2>3. \A t \in stops' : t.stage # "kill" /\ runs[t.pid].of = t.app => runs[t.pid].id \in excused
      BY <1>1, <2>1 DEF StopsHold
    <2> QED BY <1>1, <1>2, <2>1, <2>2, <2>3 DEF StopsHold, AppRows!Key
  <1>5. ASSUME NEW q \in Pids PROVE Listed(q)'
    <2> SUFFICES ASSUME runs[q].of \in Apps \ Trays, runs[q].id \notin excused
                 PROVE  \E i \in instances' : AppRows!Key(i) = <<runs[q].of, q>> /\ AppRows!CreatedNear(i)'
      BY <1>2 DEF Listed, AppRows!Key
    <2>1. PICK i \in instances : AppRows!Key(i) = <<runs[q].of, q>> /\ AppRows!CreatedNear(i)
      BY <1>1 DEF Listed
    <2>2. AppRows!Key(s) # <<runs[q].of, q>>
      <3>1. s.pid = q => runs[q].of # s.app
        BY <1>1, <1>2 DEF StopsHold
      <3> QED BY <3>1 DEF AppRows!Key
    <2>3. i \in instances' /\ AppRows!CreatedNear(i)'
      BY <1>2, <2>1, <2>2 DEF AppRows!CreatedNear
    <2> QED BY <2>1, <2>3
  <1> QED BY <1>3, <1>4, <1>5 DEF AppsInv

\* A step that changes the clock at most.
LEMMA ClockStep ==
  ASSUME AppsInv, seconds' \in 0 .. MaxSeconds,
         UNCHANGED <<runs, instances, stops, started, unnoticed, excused, strays>>
  PROVE  AppsInv'
  <1>1. AppsTypes' /\ RowsRun' /\ StopsHold' /\ AppRows!StrayKillsExplained'
    BY DEF AppsInv, AppsTypes, RowsRun, StopsHold, AppRows!StrayKillsExplained, AppRows!Running,
      AppRows!CreatedNear, AppRows!Key
  <1>2. \A q \in Pids : Listed(q)'
    BY DEF AppsInv, Listed, AppRows!Key, AppRows!CreatedNear
  <1> QED BY <1>1, <1>2 DEF AppsInv

LEMMA AppsStep ==
  ASSUME AppsAssumption, AppsInv, [AppRows!Next]_(AppRows!vars)
  PROVE  AppsInv'
  <1>1. seconds \in 0 .. MaxSeconds
    BY DEF AppsInv, AppsTypes
  <1>2. CASE AppRows!Tick
    BY <1>1, <1>2, ClockStep DEF AppRows!Tick, AppsAssumption
  <1>3. CASE UNCHANGED AppRows!vars
    BY <1>1, <1>3, ClockStep DEF AppRows!vars
  <1> QED BY <1>2, <1>3, LaunchStep, StopStep, OtherStep, ExitStep, KillStep, ForgetStep, ListStep
        DEF AppRows!Next

\* A stop kills a process that is not its app's only where the app had ended unseen or one
\* took its pid at once, and an app that runs is on the list unless it was recorded late
\* or while a row of its name and pid was being stopped (stop_app_instance, prune_dead).
THEOREM AppsAccountedAlways ==
  ASSUME AppsAssumption PROVE AppRows!Spec => [](AppRows!TypeOK /\ AppRows!AppsAccounted)
<1>1. AppRows!Init => AppsInv
  BY AppsInit
<1>2. AppsInv /\ [AppRows!Next]_(AppRows!vars) => AppsInv'
  BY AppsStep
<1>3. AppsInv => AppRows!TypeOK
  <2> SUFFICES ASSUME AppsInv PROVE AppRows!TypeOK
    OBVIOUS
  <2>1. ASSUME NEW p \in Pids, AppRows!Running(p)
        PROVE  runs[p] \in [of : Apps \cup {"other"}, born : 0 .. MaxSeconds, id : 1 .. MaxProcesses]
    BY <2>1 DEF AppsInv, AppsTypes, Processes, AppsAssumption
  <2>2. excused \subseteq 1 .. MaxProcesses
    BY DEF AppsInv, AppsTypes, AppsAssumption
  <2> QED BY <2>1, <2>2 DEF AppsInv, AppsTypes, AppRows!TypeOK
<1>4. AppsInv => AppRows!AppsAccounted
  <2> SUFFICES ASSUME AppsInv, NEW p \in Pids, runs[p].of \in Apps \ Trays, runs[p].id \notin excused
               PROVE  [app |-> runs[p].of, pid |-> p] \in {[app |-> i.app, pid |-> i.pid] : i \in instances}
    BY DEF AppsInv, AppRows!AppsAccounted, AppRows!RunningListed
  <2>1. PICK i \in instances : AppRows!Key(i) = <<runs[p].of, p>>
    BY DEF AppsInv, Listed
  <2>2. i.app = runs[p].of /\ i.pid = p
    BY <2>1 DEF AppRows!Key
  <2> QED BY <2>2
<1> QED BY <1>1, <1>2, <1>3, <1>4, PTL DEF AppRows!Spec

-----------------------------------------------------------------------------
(* The parameters of a run. *)

ParamsAssumption ==
  \A draft \in Drafts : \A i \in DOMAIN draft : draft[i].kind \in {"string", "int", "bool"}

RunFields == {"trigger", "params", "payload", "status", "argv", "env", "admitted", "started"}
ParamsTypes ==
  /\ row \in Params!Rows /\ {fileSecret, appSecret} \subseteq Secrets /\ busy \in BOOLEAN
  /\ runs \in Seq({runs[i] : i \in DOMAIN runs})
  /\ \A i \in DOMAIN runs :
       /\ DOMAIN runs[i] = RunFields
       /\ runs[i].status \in {"queued", "pending", "running", "failed"}

\* Whatever is in the queue or on its way to an executor names a run and its values.
Handed == {Params!Token(i, runs[i].params) : i \in DOMAIN runs}
HandedOn == queue \in Seq(Handed) /\ spawned \subseteq Handed

\* A run was checked against the row of its fire, or names no value.
AdmittedWell ==
  \A i \in DOMAIN runs :
    IF runs[i].trigger = "chain" THEN runs[i].params = Params!NoValues
    ELSE Params!Composable(runs[i].admitted, runs[i].params)

ParamsInv == ParamsTypes /\ HandedOn /\ AdmittedWell /\ Params!ParamsHonest

\* A sequence is one of what it holds.
LEMMA OwnRange ==
  ASSUME NEW S, NEW s \in Seq(S) PROVE s \in Seq({s[i] : i \in DOMAIN s})
  <1> DEFINE R == {s[i] : i \in DOMAIN s}
  <1>1. Len(s) \in Nat /\ DOMAIN s = 1 .. Len(s) /\ s \in [1 .. Len(s) -> S]
    BY LenProperties
  <1>2. s \in [1 .. Len(s) -> R]
    BY <1>1
  <1> HIDE DEF R
  <1>3. s \in UNION {[1 .. n -> R] : n \in Nat}
    BY <1>1, <1>2
  <1>4. s \in Seq(R)
    BY <1>3, SeqDef, Zenon
  <1> QED BY <1>4 DEF R

LEMMA ParamsInit == ASSUME Params!Init PROVE ParamsInv
  <1>1. runs = << >> /\ queue = << >> /\ spawned = {} /\ DOMAIN runs = {}
    BY DEF Params!Init
  <1>2. runs \in Seq({runs[i] : i \in DOMAIN runs}) /\ queue \in Seq(Handed)
    BY <1>1
  <1>3. ParamsTypes
    BY <1>1, <1>2 DEF Params!Init, ParamsTypes
  <1>4. HandedOn /\ AdmittedWell /\ Params!ParamsHonest
    BY <1>1, <1>2 DEF HandedOn, AdmittedWell, Params!ParamsHonest, Params!ChildGetsItsValues,
      Params!CheckedOnce
  <1> QED BY <1>3, <1>4 DEF ParamsInv

\* A default a row may declare renders.
LEMMA DefaultsRender ==
  ASSUME ParamsAssumption, NEW declared \in Params!Rows, NEW i \in DOMAIN declared,
         declared[i].default # Params!None
  PROVE  Params!Rendered(declared[i].kind, declared[i].default) \notin {"bad", Params!None}
  <1> DEFINE param == declared[i]
  <1>1. param.kind \in {"string", "int", "bool"} /\ param.default \in Params!Typed(param.kind)
    BY DEF ParamsAssumption, Params!Rows, Params!Declarable
  <1>2. CASE param.kind = "string"
    BY <1>1, <1>2 DEF Params!Typed, Params!Rendered, Params!None
  <1>3. CASE param.kind = "int"
    BY <1>1, <1>3 DEF Params!Typed, Params!Rendered, Params!None
  <1>4. CASE param.kind = "bool"
    BY <1>1, <1>4 DEF Params!Typed, Params!Rendered, Params!None
  <1> QED BY <1>1, <1>2, <1>3, <1>4

\* A run that names no values fails over them only where one is required and has none.
LEMMA NothingNamed ==
  ASSUME ParamsAssumption, NEW declared \in Params!Rows,
         ~Params!Composable(declared, Params!NoValues)
  PROVE  \E j \in DOMAIN declared : declared[j].required /\ declared[j].default = Params!None
  <1>1. DOMAIN Params!NoValues = {}
    BY DEF Params!NoValues
  <1>2. PICK j \in DOMAIN declared :
          \/ Params!Value(declared[j], Params!NoValues) = "bad"
          \/ declared[j].required /\ Params!Value(declared[j], Params!NoValues) = Params!None
    BY <1>1 DEF Params!Composable
  <1>3. CASE declared[j].default = Params!None
    <2>1. Params!Value(declared[j], Params!NoValues) = Params!None
      BY <1>1, <1>3 DEF Params!Value
    <2> QED BY <1>2, <1>3, <2>1 DEF Params!None
  <1>4. CASE declared[j].default # Params!None
    <2>1. Params!Value(declared[j], Params!NoValues)
            = Params!Rendered(declared[j].kind, declared[j].default)
      BY <1>1, <1>4 DEF Params!Value
    <2> QED BY <1>2, <1>4, <2>1, DefaultsRender
  <1> QED BY <1>3, <1>4

\* A fire, checked or one that names nothing: a new run, handed on with its values.
LEMMA AdmitStep ==
  ASSUME ParamsInv, NEW trigger, NEW values, NEW payload, Params!Admit(trigger, values, payload),
         IF trigger = "chain" THEN values = Params!NoValues ELSE Params!Composable(row, values),
         trigger = "webhook" => values = Params!Mapped(payload)
  PROVE  ParamsInv'
  <1> DEFINE n == Len(runs) + 1
             fresh == [trigger |-> trigger, params |-> values, payload |-> payload,
                       status |-> IF busy THEN "queued" ELSE "pending",
                       argv |-> << >>, env |-> Params!None, admitted |-> row, started |-> row]
             Old == {runs[i] : i \in DOMAIN runs}
  <1>1. /\ runs' = Append(runs, fresh) /\ UNCHANGED <<row, fileSecret, appSecret, busy, edits>>
        /\ queue' = IF busy THEN Append(queue, Params!Token(n, values)) ELSE queue
        /\ spawned' = IF busy THEN spawned ELSE spawned \cup {Params!Token(n, values)}
    BY DEF Params!Admit
  <1>2. ParamsTypes /\ HandedOn /\ AdmittedWell /\ Params!ParamsHonest
    BY DEF ParamsInv
  <1>3. runs \in Seq(Old) /\ runs \in Seq(Old \cup {fresh})
    <2>1. runs \in Seq(Old)
      BY <1>2 DEF ParamsTypes
    <2> QED BY <2>1
  <1> HIDE DEF fresh, Old
  <1>4. /\ runs' \in Seq(Old \cup {fresh}) /\ DOMAIN runs' = DOMAIN runs \cup {n} /\ n \notin DOMAIN runs
        /\ runs'[n] = fresh /\ \A i \in DOMAIN runs : runs'[i] = runs[i]
    BY <1>1, <1>3
  <1>5. runs' \in Seq({runs'[i] : i \in DOMAIN runs'})
    BY <1>4, OwnRange
  <1>6. /\ DOMAIN fresh = RunFields /\ fresh.status \in {"queued", "pending"}
        /\ fresh.trigger = trigger /\ fresh.params = values /\ fresh.payload = payload
        /\ fresh.admitted = row
    BY DEF fresh, RunFields
  <1>7. ParamsTypes'
    BY <1>1, <1>2, <1>4, <1>5, <1>6 DEF ParamsTypes
  <1>8. Handed \subseteq Handed' /\ Params!Token(n, values) \in Handed'
    <2>1. \A i \in DOMAIN runs : i \in DOMAIN runs' /\ runs'[i].params = runs[i].params
      BY <1>4
    <2>2. n \in DOMAIN runs' /\ runs'[n].params = values
      BY <1>4, <1>6
    <2> QED BY <2>1, <2>2 DEF Handed, Params!Token
  <1>9. HandedOn'
    <2>1. queue \in Seq(Handed) /\ queue \in Seq(Handed')
      BY <1>2, <1>8 DEF HandedOn
    <2>2. queue' \in Seq(Handed')
      BY <1>1, <1>8, <2>1
    <2> QED BY <1>1, <1>2, <1>8, <2>2 DEF HandedOn
  <1>10. AdmittedWell'
    BY <1>2, <1>4, <1>6 DEF AdmittedWell
  <1>11. Params!ChildGetsItsValues' /\ Params!CheckedOnce'
    <2>1. Params!ChildGetsItsValues /\ Params!CheckedOnce
      BY <1>2 DEF Params!ParamsHonest
    <2>2. Params!Wished(fresh) = fresh.params
      BY <1>6 DEF Params!Wished
    <2> QED BY <2>1, <2>2, <1>4, <1>6 DEF Params!ChildGetsItsValues, Params!CheckedOnce
  <1> QED BY <1>7, <1>9, <1>10, <1>11 DEF ParamsInv, Params!ParamsHonest

LEMMA ExecuteStep ==
  ASSUME ParamsInv, ParamsAssumption, NEW token \in spawned, Params!Execute(token)
  PROVE  ParamsInv'
  <1> DEFINE w == token.run
             sound == Params!Composable(row, token.params) /\ fileSecret # Params!NoSecret
             after == IF sound
                THEN [runs[w] EXCEPT !.status = "running", !.started = row,
                        !.argv = Params!Argv(row, token.params),
                        !.env = Params!ChildEnv(row, token.params, fileSecret)]
                ELSE [runs[w] EXCEPT !.status = "failed", !.started = row, !.env = fileSecret]
             Old == {runs[i] : i \in DOMAIN runs}
  <1>1. ParamsTypes /\ HandedOn /\ AdmittedWell /\ Params!ParamsHonest
    BY DEF ParamsInv
  <1>2. w \in DOMAIN runs /\ token.params = runs[w].params
    BY <1>1 DEF HandedOn, Handed, Params!Token
  <1>3. /\ spawned' = spawned \ {token} /\ runs' = [runs EXCEPT ![w] = after]
        /\ UNCHANGED <<row, fileSecret, appSecret, busy, queue, edits>>
    BY DEF Params!Execute
  <1>4. DOMAIN runs[w] = RunFields
    BY <1>1, <1>2 DEF ParamsTypes
  <1>5. /\ DOMAIN after = RunFields /\ after.started = row
        /\ after.trigger = runs[w].trigger /\ after.params = runs[w].params
        /\ after.payload = runs[w].payload /\ after.admitted = runs[w].admitted
        /\ sound => after.status = "running" /\ after.argv = Params!Argv(row, runs[w].params)
        /\ ~sound => after.status = "failed" /\ after.env = fileSecret
    BY <1>2, <1>4 DEF RunFields
  <1>6. runs \in Seq(Old)
    BY <1>1 DEF ParamsTypes
  <1> HIDE DEF after, Old
  <1>7. /\ DOMAIN runs' = DOMAIN runs /\ Len(runs') = Len(runs) /\ runs'[w] = after
        /\ \A i \in DOMAIN runs : i # w => runs'[i] = runs[i]
        /\ DOMAIN runs' = 1 .. Len(runs) /\ Len(runs) \in Nat
    BY <1>2, <1>3, <1>6
  <1>8. runs' \in Seq({runs'[i] : i \in DOMAIN runs'})
    <2>1. runs' \in Seq(Old \cup {after})
      BY <1>2, <1>3, <1>6
    <2> QED BY <2>1, OwnRange
  <1>9. ParamsTypes'
    BY <1>1, <1>3, <1>5, <1>7, <1>8 DEF ParamsTypes
  <1>10. Handed' = Handed
    <2>1. \A i \in DOMAIN runs : runs'[i].params = runs[i].params
      BY <1>5, <1>7
    <2> QED BY <2>1, <1>7 DEF Handed
  <1>11. HandedOn'
    BY <1>1, <1>3, <1>10 DEF HandedOn
  <1>12. AdmittedWell'
    BY <1>1, <1>5, <1>7 DEF AdmittedWell
  <1>13. Params!ChildGetsItsValues'
    <2>1. Params!ChildGetsItsValues
      BY <1>1 DEF Params!ParamsHonest
    <2>2. Params!Wished(after) = Params!Wished(runs[w])
      BY <1>5 DEF Params!Wished
    <2>3. after.status = "running" => after.argv = Params!Argv(after.started, after.params)
      BY <1>5
    <2> QED BY <1>2, <1>5, <1>7, <2>1, <2>2, <2>3 DEF Params!ChildGetsItsValues
  <1>14. Params!CheckedOnce'
    <2>1. Params!CheckedOnce /\ row \in Params!Rows
      BY <1>1 DEF Params!ParamsHonest, ParamsTypes
    <2>2. ASSUME ~sound, fileSecret # Params!NoSecret, row = runs[w].admitted
          PROVE  /\ after.trigger = "chain"
                 /\ \E j \in DOMAIN row : row[j].required /\ row[j].default = Params!None
      <3>1. ~Params!Composable(row, runs[w].params)
        BY <2>2, <1>2
      <3>2. runs[w].trigger = "chain" /\ runs[w].params = Params!NoValues
        BY <1>1, <1>2, <2>2, <3>1 DEF AdmittedWell
      <3> QED BY <1>5, <2>1, <3>1, <3>2, NothingNamed
    <2> QED BY <1>5, <1>7, <2>1, <2>2 DEF Params!CheckedOnce
  <1> QED BY <1>9, <1>11, <1>12, <1>13, <1>14 DEF ParamsInv, Params!ParamsHonest

\* A step that leaves the runs and hands on at most what was handed.
LEMMA RunsLeft ==
  ASSUME ParamsInv, runs' = runs, row' \in Params!Rows, {fileSecret, appSecret}' \subseteq Secrets,
         busy' \in BOOLEAN, queue' \in Seq(Handed), spawned' \subseteq Handed
  PROVE  ParamsInv'
  <1>1. Handed' = Handed
    BY DEF Handed
  <1>2. ParamsTypes'
    BY DEF ParamsInv, ParamsTypes
  <1>3. HandedOn' /\ AdmittedWell'
    BY <1>1 DEF ParamsInv, HandedOn, AdmittedWell
  <1>4. Params!ParamsHonest'
    BY DEF ParamsInv, Params!ParamsHonest, Params!ChildGetsItsValues, Params!CheckedOnce
  <1> QED BY <1>2, <1>3, <1>4 DEF ParamsInv

LEMMA ParamsStep ==
  ASSUME ParamsAssumption, ParamsInv, [Params!Next]_(Params!vars)
  PROVE  ParamsInv'
  <1>1. ParamsTypes /\ HandedOn
    BY DEF ParamsInv
  <1>2. ASSUME NEW values \in Given, Params!RunJob(values) PROVE ParamsInv'
    BY <1>2, AdmitStep DEF Params!RunJob
  <1>3. ASSUME NEW payload \in Payloads, NEW signed \in Secrets,
               Params!RunJobWebhook(payload, signed)
        PROVE  ParamsInv'
    BY <1>3, AdmitStep DEF Params!RunJobWebhook
  <1>4. CASE Params!ChainFire
    BY <1>4, AdmitStep DEF Params!ChainFire
  <1>5. CASE Params!Drain
    <2>1. queue # << >> /\ queue' = Tail(queue) /\ spawned' = spawned \cup {Head(queue)}
      BY <1>5 DEF Params!Drain
    <2>2. queue' \in Seq(Handed) /\ spawned' \subseteq Handed
      BY <1>1, <2>1 DEF HandedOn
    <2> QED BY <1>1, <1>5, <2>2, RunsLeft DEF Params!Drain, ParamsTypes
  <1>6. CASE Params!Holder
    BY <1>1, <1>6, RunsLeft DEF Params!Holder, ParamsTypes, HandedOn
  <1>7. CASE Params!Edit
    BY <1>1, <1>7, RunsLeft DEF Params!Edit, ParamsTypes, HandedOn
  <1>8. CASE UNCHANGED Params!vars
    BY <1>1, <1>8, RunsLeft DEF Params!vars, ParamsTypes, HandedOn
  <1> QED BY <1>2, <1>3, <1>4, <1>5, <1>6, <1>7, <1>8, ExecuteStep DEF Params!Next

\* A child starts with the values its fire named, in the order of the row it starts from,
\* and a run that was checked fails over its values only when its row has been edited
\* since, where a declared kind is one of the three (param_from_dict, build_invocation).
THEOREM ParamsHonestAlways ==
  ASSUME ParamsAssumption PROVE Params!Spec => [](Params!TypeOK /\ Params!ParamsHonest)
<1>1. Params!Init => ParamsInv
  BY ParamsInit
<1>2. ParamsInv /\ [Params!Next]_(Params!vars) => ParamsInv'
  BY ParamsStep
<1>3. ParamsInv => Params!TypeOK /\ Params!ParamsHonest
  BY DEF ParamsInv, ParamsTypes, HandedOn, Handed, Params!Token, Params!TypeOK
<1> QED BY <1>1, <1>2, <1>3, PTL DEF Params!Spec

-----------------------------------------------------------------------------
(* What is said of the session-host's code. *)

FreshAssumption ==
  /\ Attempts \in Nat \ {0} /\ Fresh!Unknown \notin Fresh!Revisions
  /\ Trunk \in Seq(Fresh!Revisions) /\ Trunk # << >>

Known == Fresh!Revisions \cup {Fresh!Unknown}
Identities ==
  [at : {"down", "importing", "up"}, runs : Known, sha : Known, moved : BOOLEAN, failed : 0 .. Attempts]
Asked ==
  [at : {"none", "deployed", "scope", "answered"}, host : Identities, deployed : Known,
   truth : Known, declares : {{}} \cup {Trees[r].declares : r \in Fresh!Revisions},
   stale : {"unknown", "yes", "no"}, relevant : {"unknown", "yes", "no"}, failed : BOOLEAN]

FreshTypes ==
  /\ head \in Fresh!Revisions /\ merged \in DOMAIN Trunk /\ pointer \in Pointers
  /\ host \in Identities /\ ask \in Asked

\* A host that is up knows what it loaded but for a checkout meanwhile, or never got an answer.
Identified(h) ==
  /\ h.at = "up" => \/ h.sha \in Fresh!Revisions /\ (h.moved \/ h.sha = h.runs)
                    \/ h.sha = Fresh!Unknown /\ h.failed = Attempts
  /\ h.at # "up" => h.sha = Fresh!Unknown
  /\ h.at = "importing" => h.failed < Attempts

\* The deployed revision a request has read is the one of that moment, or it has none;
\* it says nothing before it has both.
Read ==
  /\ Identified(ask.host) /\ ask.host.at # "importing"
  /\ ask.at # "answered" => ask.relevant = "unknown"
  /\ ask.at = "deployed" => ask.deployed = Fresh!Unknown /\ (ask.host.at = "down" \/ ~ask.failed)
  /\ ask.at \in {"scope", "answered"} =>
       \/ ask.deployed = ask.truth /\ ask.deployed # Fresh!Unknown
       \/ ask.deployed = Fresh!Unknown /\ (ask.failed \/ ~Fresh!Resolvable)

FreshInv == FreshTypes /\ Identified(host) /\ Read /\ Fresh!FreshnessHonest

LEMMA FreshInit == ASSUME FreshAssumption, Fresh!Init PROVE FreshInv
  <1>1. /\ head = Trunk[1] /\ merged = 1 /\ pointer \in Pointers
        /\ host = Fresh!NoHost /\ ask = Fresh!NoAsk
    BY DEF Fresh!Init
  <1>2. head \in Fresh!Revisions /\ merged \in DOMAIN Trunk
    BY <1>1 DEF FreshAssumption
  <1>3. Fresh!NoHost \in Identities
    BY DEF FreshAssumption, Fresh!NoHost, Identities, Known
  <1>4. Fresh!NoAsk \in Asked
    BY <1>3 DEF Fresh!NoAsk, Asked, Known
  <1>5. Identified(Fresh!NoHost) /\ Fresh!NoAsk.host = Fresh!NoHost /\ Fresh!NoAsk.at = "none"
    BY DEF Identified, Fresh!NoHost, Fresh!NoAsk
  <1>6. Read
    BY <1>1, <1>5 DEF Read, Fresh!NoHost, Fresh!NoAsk
  <1>7. Fresh!FreshnessHonest
    BY <1>1, <1>5 DEF Fresh!FreshnessHonest, Fresh!NoFalseAllClear, Fresh!NoFalseAlarm,
      Fresh!UnknownForCause
  <1> QED BY <1>1, <1>2, <1>3, <1>4, <1>5, <1>6, <1>7 DEF FreshInv, FreshTypes

\* A step that leaves the request alone.
LEMMA AskLeft ==
  ASSUME FreshInv, FreshTypes', Identified(host)', ask' = ask, pointer' = pointer
  PROVE  FreshInv'
  <1>1. Read' /\ Fresh!FreshnessHonest'
    BY DEF FreshInv, Read, Fresh!FreshnessHonest, Fresh!NoFalseAllClear, Fresh!NoFalseAlarm,
      Fresh!UnknownForCause, Fresh!Resolvable
  <1> QED BY <1>1 DEF FreshInv

\* A step of a request that has no answer yet.
LEMMA NotAnswered ==
  ASSUME FreshInv, UNCHANGED <<head, merged, pointer, host>>, ask' \in Asked, Read',
         ask'.at # "answered"
  PROVE  FreshInv'
  BY DEF FreshInv, FreshTypes, Identified, Fresh!FreshnessHonest, Fresh!NoFalseAllClear,
    Fresh!NoFalseAlarm, Fresh!UnknownForCause

LEMMA HostSteps ==
  ASSUME FreshAssumption, FreshInv, Fresh!Start \/ Fresh!Capture
  PROVE  FreshInv'
  <1>1. FreshTypes /\ Identified(host)
    BY DEF FreshInv
  <1>2. CASE Fresh!Start
    <2>1. host' = [Fresh!NoHost EXCEPT !.at = "importing", !.runs = head]
          /\ UNCHANGED <<head, merged, pointer, ask>>
      BY <1>2 DEF Fresh!Start
    <2>2. host' = [at |-> "importing", runs |-> head, sha |-> Fresh!Unknown, moved |-> FALSE,
                   failed |-> 0]
      BY <2>1 DEF Fresh!NoHost
    <2>3. host' \in Identities /\ Identified(host)'
      BY <1>1, <2>2 DEF FreshAssumption, FreshTypes, Identities, Known, Identified
    <2> QED BY <1>1, <2>1, <2>3, AskLeft DEF FreshTypes
  <1>3. CASE Fresh!Capture
    <2>1. host.at = "importing" /\ UNCHANGED <<head, merged, pointer, ask>> /\ host.failed < Attempts
      BY <1>1, <1>3 DEF Fresh!Capture, Identified
    <2>2. CASE host' = [host EXCEPT !.at = "up", !.sha = head, !.moved = head # host.runs]
      <3>1. host' \in Identities /\ Identified(host)'
        BY <1>1, <2>2 DEF FreshTypes, Identities, Known, Identified
      <3> QED BY <1>1, <2>1, <3>1, AskLeft DEF FreshTypes
    <2>3. CASE host' = [host EXCEPT !.failed = @ + 1,
                                    !.at = IF host.failed + 1 = Attempts THEN "up" ELSE @]
      <3>1. host.failed + 1 \in 0 .. Attempts
        BY <1>1, <2>1 DEF FreshAssumption, FreshTypes, Identities
      <3>2. /\ host'.failed = host.failed + 1 /\ host'.sha = host.sha
            /\ host'.at = IF host.failed + 1 = Attempts THEN "up" ELSE "importing"
        BY <1>1, <2>1, <2>3 DEF FreshTypes, Identities
      <3>3. host' \in Identities
        BY <1>1, <2>1, <2>3, <3>1 DEF FreshTypes, Identities
      <3>4. Identified(host)'
        BY <1>1, <2>1, <3>1, <3>2 DEF Identified, FreshAssumption
      <3> QED BY <1>1, <2>1, <3>3, <3>4, AskLeft DEF FreshTypes
    <2> QED BY <1>3, <2>2, <2>3 DEF Fresh!Capture
  <1> QED BY <1>2, <1>3

LEMMA AskHostStep ==
  ASSUME FreshAssumption, FreshInv, Fresh!AskHost
  PROVE  FreshInv'
  <1>1. FreshTypes /\ Identified(host)
    BY DEF FreshInv
  <1>2. Fresh!NoHost \in Identities /\ Identified(Fresh!NoHost) /\ Fresh!NoHost.at = "down"
    BY DEF FreshAssumption, Fresh!NoHost, Identities, Known, Identified
  <1>3. PICK h \in Identities, f \in BOOLEAN :
          /\ ask' = [at |-> "deployed", host |-> h, deployed |-> Fresh!Unknown,
                     truth |-> Fresh!Unknown, declares |-> {}, stale |-> "unknown",
                     relevant |-> "unknown", failed |-> f]
          /\ Identified(h) /\ h.at # "importing" /\ (h.at = "down" \/ ~f)
    <2>1. CASE ask' = Fresh!Answers(IF host.at = "up" THEN host ELSE Fresh!NoHost)
      BY <1>1, <1>2, <2>1 DEF Fresh!Answers, Fresh!NoAsk, FreshTypes
    <2>2. CASE ask' = [Fresh!Answers(Fresh!NoHost) EXCEPT !.failed = TRUE]
      BY <1>1, <1>2, <2>2 DEF Fresh!Answers, Fresh!NoAsk, FreshTypes
    <2> QED BY <2>1, <2>2 DEF Fresh!AskHost
  <1>4. ask' \in Asked
    BY <1>3 DEF Asked, Known
  <1>5. Read'
    BY <1>3 DEF Read
  <1> QED BY <1>3, <1>4, <1>5, NotAnswered DEF Fresh!AskHost

LEMMA AskDeployedStep ==
  ASSUME FreshAssumption, FreshInv, Fresh!AskDeployed
  PROVE  FreshInv'
  <1>1. FreshTypes /\ Read /\ ask \in Asked /\ ask.at = "deployed"
    BY DEF FreshInv, FreshTypes, Fresh!AskDeployed
  <1>2. Fresh!Deployed \in Fresh!Revisions
    BY <1>1 DEF FreshTypes, FreshAssumption, Fresh!Deployed
  <1>3. CASE ask' = [ask EXCEPT !.at = "scope", !.truth = Fresh!Deployed,
                       !.deployed = IF Fresh!Resolvable THEN Fresh!Deployed ELSE Fresh!Unknown]
    <2>1. ask' \in Asked
      BY <1>1, <1>2, <1>3 DEF Asked, Known
    <2>2. /\ ask'.at = "scope" /\ ask'.host = ask.host /\ ask'.truth = Fresh!Deployed
          /\ ask'.relevant = ask.relevant
          /\ ask'.deployed = IF Fresh!Resolvable THEN Fresh!Deployed ELSE Fresh!Unknown
      BY <1>1, <1>3 DEF Asked
    <2>3. Fresh!Deployed # Fresh!Unknown /\ pointer' = pointer
      BY <1>2 DEF FreshAssumption, Fresh!AskDeployed
    <2>4. Read'
      BY <1>1, <2>2, <2>3 DEF Read, Fresh!Resolvable, Identified
    <2> QED BY <2>1, <2>2, <2>4, NotAnswered DEF Fresh!AskDeployed
  <1>4. CASE ask' = [ask EXCEPT !.at = "scope", !.failed = TRUE, !.truth = Fresh!Deployed]
    <2>1. ask' \in Asked
      BY <1>1, <1>2, <1>4 DEF Asked, Known
    <2>2. /\ ask'.at = "scope" /\ ask'.host = ask.host /\ ask'.failed
          /\ ask'.deployed = ask.deployed /\ ask'.relevant = ask.relevant
      BY <1>1, <1>4 DEF Asked
    <2>3. Read'
      BY <1>1, <2>2 DEF Read, Fresh!AskDeployed, Identified
    <2> QED BY <2>1, <2>2, <2>3, NotAnswered DEF Fresh!AskDeployed
  <1> QED BY <1>3, <1>4 DEF Fresh!AskDeployed

LEMMA JudgeStep ==
  ASSUME FreshAssumption, FreshInv, Fresh!Judge
  PROVE  FreshInv'
  <1> DEFINE declares == Trees[head].declares
             stale == IF Fresh!Known THEN IF ~Fresh!Same THEN "yes" ELSE "no" ELSE "unknown"
             relevant == IF ~Fresh!Known \/ (~Fresh!Same /\ declares = {}) THEN "unknown"
                         ELSE IF ~Fresh!Same /\ Fresh!Touched(declares) THEN "yes" ELSE "no"
  <1>1. FreshTypes /\ Identified(host) /\ Read /\ ask \in Asked /\ ask.at = "scope"
    BY DEF FreshInv, FreshTypes, Fresh!Judge
  <1>2. UNCHANGED <<head, merged, pointer, host>>
    BY DEF Fresh!Judge
  <1>3. PICK s \in {"unknown", "yes", "no"}, v \in {"unknown", "yes", "no"}, f \in BOOLEAN :
          /\ ask' = [ask EXCEPT !.at = "answered", !.declares = declares, !.stale = s,
                                !.relevant = v, !.failed = f]
          /\ \/ s = stale /\ v = relevant /\ f = ask.failed
             \/ Fresh!Known /\ ~Fresh!Same /\ s = "yes" /\ v = ask.relevant /\ f
    <2>1. ask.failed \in BOOLEAN /\ ask.relevant \in {"unknown", "yes", "no"}
      BY <1>1 DEF Asked
    <2>2. CASE ask' = [ask EXCEPT !.at = "answered", !.declares = declares, !.stale = stale,
                                  !.relevant = relevant]
      <3>1. ask' = [ask EXCEPT !.at = "answered", !.declares = declares, !.stale = stale,
                               !.relevant = relevant, !.failed = ask.failed]
        BY <1>1, <2>2 DEF Asked
      <3> QED BY <2>1, <3>1
    <2>3. CASE Fresh!Known /\ ~Fresh!Same /\ ask' = [ask EXCEPT !.at = "answered",
                  !.declares = declares, !.stale = "yes", !.failed = TRUE]
      <3>1. ask' = [ask EXCEPT !.at = "answered", !.declares = declares, !.stale = "yes",
                               !.relevant = ask.relevant, !.failed = TRUE]
        BY <1>1, <2>3 DEF Asked
      <3> QED BY <2>1, <2>3, <3>1
    <2> QED BY <2>2, <2>3 DEF Fresh!Judge, Fresh!Declared
  <1>4. /\ ask'.at = "answered" /\ ask'.declares = declares /\ ask'.stale = s
        /\ ask'.relevant = v /\ ask'.failed = f /\ ask'.host = ask.host
        /\ ask'.deployed = ask.deployed /\ ask'.truth = ask.truth
    BY <1>1, <1>3 DEF Asked
  <1>5. ask' \in Asked
    BY <1>1, <1>3 DEF FreshTypes, Asked
  <1>6. Read'
    <2>1. ask.failed => f
      BY <1>3
    <2>2. ask'.failed <=> f
      BY <1>4
    <2>3. \/ ask.deployed = ask.truth /\ ask.deployed # Fresh!Unknown
          \/ ask.deployed = Fresh!Unknown /\ (f \/ ~Fresh!Resolvable)
      BY <1>1, <2>1 DEF Read
    <2>4. Identified(ask'.host) /\ ask'.host.at # "importing"
      BY <1>1, <1>4 DEF Read
    <2> QED BY <1>2, <1>4, <2>2, <2>3, <2>4 DEF Read, Identified, Fresh!Resolvable
  <1>7. Fresh!Known' = Fresh!Known /\ Fresh!Same' = Fresh!Same
    BY <1>4 DEF Fresh!Known, Fresh!Same
  <1>8. Fresh!Known => /\ ask.host.at = "up" /\ ask.deployed = ask.truth
                       /\ ask.host.moved \/ ask.host.sha = ask.host.runs
    BY <1>1 DEF Read, Identified, Fresh!Known, Asked, Identities, FreshAssumption
  <1>9. Fresh!NoFalseAllClear'
    <2>1. SUFFICES ASSUME v = "no", ~ask.host.moved
          PROVE  \/ Trees[ask.host.runs]["host"] = Trees[ask.truth]["host"]
                 \/ ask.host.sha # ask.deployed /\ "host" \notin declares
      BY <1>4 DEF Fresh!NoFalseAllClear
    <2>2. ask.relevant = "unknown"
      BY <1>1 DEF Read
    <2>3. relevant = "no"
      BY <1>3, <2>1, <2>2
    <2>4. Fresh!Known /\ (Fresh!Same \/ ~Fresh!Touched(declares))
      BY <2>3
    <2>5. ask.deployed = ask.truth /\ ask.host.sha = ask.host.runs
      BY <1>8, <2>1, <2>4
    <2>6. CASE Fresh!Same
      BY <2>5, <2>6 DEF Fresh!Same
    <2>7. CASE ~Fresh!Touched(declares) /\ ~Fresh!Same
      BY <2>5, <2>7 DEF Fresh!Touched, Fresh!Same
    <2> QED BY <2>4, <2>6, <2>7
  <1>10. Fresh!NoFalseAlarm'
    <2>1. SUFFICES ASSUME v = "yes"
          PROVE  s = "yes" /\ \E p \in declares : Trees[ask.host.sha][p] # Trees[ask.truth][p]
      BY <1>4 DEF Fresh!NoFalseAlarm
    <2>2. s = stale /\ relevant = "yes"
      <3>1. ask.relevant = "unknown"
        BY <1>1 DEF Read
      <3> QED BY <1>3, <2>1, <3>1
    <2>3. Fresh!Known /\ ~Fresh!Same /\ Fresh!Touched(declares)
      BY <2>2
    <2> QED BY <1>8, <2>2, <2>3 DEF Fresh!Touched
  <1>11. Fresh!UnknownForCause'
    <2>1. ask.host.sha = Fresh!Unknown => s = "unknown" /\ v = "unknown"
      <3>1. ask.host.sha = Fresh!Unknown => ~Fresh!Known
        BY DEF Fresh!Known
      <3>2. ~Fresh!Known => s = stale /\ v = relevant /\ stale = "unknown" /\ relevant = "unknown"
        BY <1>3
      <3> QED BY <3>1, <3>2
    <2>2. ASSUME v = "unknown"
          PROVE  \/ f \/ ask.host.at = "down" \/ ask.host.failed = Attempts
                 \/ ~Fresh!Resolvable \/ declares = {}
      <3>1. CASE f
        BY <3>1
      <3>2. CASE ~f
        <4>1. relevant = "unknown" /\ ~ask.failed
          BY <1>3, <2>2, <3>2
        <4>2. ~Fresh!Known \/ declares = {}
          BY <4>1
        <4>3. CASE ask.host.sha = Fresh!Unknown
          BY <1>1, <4>3 DEF Read, Identified, FreshAssumption, Asked, Identities
        <4>4. CASE ask.deployed = Fresh!Unknown /\ ask.host.sha # Fresh!Unknown
          <5>1. ask.deployed # ask.truth \/ ask.truth = Fresh!Unknown
            BY <4>4
          <5> QED BY <1>1, <4>1, <4>4 DEF Read
        <4> QED BY <4>2, <4>3, <4>4 DEF Fresh!Known
      <3> QED BY <3>1, <3>2
    <2>3. Fresh!Resolvable' = Fresh!Resolvable
      BY <1>2 DEF Fresh!Resolvable
    <2> QED BY <1>4, <2>1, <2>2, <2>3 DEF Fresh!UnknownForCause
  <1>12. FreshTypes' /\ Identified(host)'
    BY <1>1, <1>2, <1>5 DEF FreshTypes, Identified
  <1> QED BY <1>6, <1>9, <1>10, <1>11, <1>12 DEF FreshInv, Fresh!FreshnessHonest

LEMMA FreshStep ==
  ASSUME FreshAssumption, FreshInv, [Fresh!Next]_(Fresh!vars)
  PROVE  FreshInv'
  <1>1. FreshTypes /\ Identified(host)
    BY DEF FreshInv
  <1>2. CASE Fresh!Pull
    <2>1. FreshTypes'
      BY <1>1, <1>2 DEF Fresh!Pull, FreshTypes, FreshAssumption
    <2> QED BY <1>1, <1>2, <2>1, AskLeft DEF Fresh!Pull, Identified
  <1>3. ASSUME NEW revision \in Fresh!Revisions, Fresh!Checkout(revision) PROVE FreshInv'
    <2>1. FreshTypes' /\ Identified(host)'
      BY <1>1, <1>3 DEF Fresh!Checkout, FreshTypes, Identified
    <2> QED BY <1>3, <2>1, AskLeft DEF Fresh!Checkout
  <1>4. CASE UNCHANGED Fresh!vars
    <2>1. FreshTypes' /\ Identified(host)'
      BY <1>1, <1>4 DEF Fresh!vars, FreshTypes, Identified
    <2> QED BY <1>4, <2>1, AskLeft DEF Fresh!vars
  <1> QED BY <1>2, <1>3, <1>4, HostSteps, AskHostStep, AskDeployedStep, JudgeStep DEF Fresh!Next

\* What is said of the session-host's code is never a guess: "nothing to restart for" and
\* "restart" are true of what was deployed when git was asked, and "unknown" has a cause
\* (_session_host_freshness).
THEOREM FreshnessHonestAlways ==
  ASSUME FreshAssumption PROVE Fresh!Spec => [](Fresh!TypeOK /\ Fresh!FreshnessHonest)
<1>1. Fresh!Init => FreshInv
  BY FreshInit
<1>2. FreshInv /\ [Fresh!Next]_(Fresh!vars) => FreshInv'
  BY FreshStep
<1>3. FreshInv => Fresh!TypeOK /\ Fresh!FreshnessHonest
  BY DEF FreshInv, FreshTypes, Fresh!TypeOK, Identities, Asked, FreshAssumption
<1> QED BY <1>1, <1>2, <1>3, PTL DEF Fresh!Spec

-----------------------------------------------------------------------------
(* The static files a page runs. *)

\* Whatever a hashed file refers to is hashed.
AssetsAssumption ==
  /\ Hashed \in Seq(Assets!Files) /\ Index \subseteq Assets!Files
  /\ \A f \in Assets!Files :
       /\ Icons[f] \subseteq Assets!Files
       /\ \A g \in Imports[f] : Assets!Path(Assets!Dir(f), g) \in Assets!Files

Places == DOMAIN Hashed
Stamps == [Places -> {0, 1}]
Urls == Assets!Files \X Stamps
Responses == [content : {0, 1}, imports : SUBSET Urls]

PageStates ==
  [clean : BOOLEAN, under : Stamps \cup {Assets!Unstamped}, wants : SUBSET Urls,
   got : SUBSET [url : Urls, content : {0, 1}]]

AssetsTypes ==
  /\ disk \in [Assets!Files -> {0, 1}] /\ read \in Seq({0, 1}) /\ Len(read) <= Len(Hashed)
  /\ cache \in [DOMAIN cache -> Responses] /\ DOMAIN cache \subseteq Urls
  /\ page \in PageStates
  /\ dirty \in BOOLEAN /\ reverted \in BOOLEAN /\ drifted \subseteq DOMAIN cache

\* A stamp that stands for the files as they are.
IsNow(stamp) == \A i \in Places : stamp[i] = disk[Hashed[i]]

CleanRead ==
  /\ ~dirty => \A i \in DOMAIN read : read[i] = disk[Hashed[i]]
  /\ page.clean => ~dirty /\ Assets!Up /\ page.under = read
GotCached ==
  /\ \A g \in page.got : g.url \in DOMAIN cache /\ g.content = cache[g.url].content
  /\ page.wants \cap {g.url : g \in page.got} = {}

\* What is answered under its own stamp is what the stamp stands for.
Undrifted ==
  \A u \in DOMAIN cache : u \notin drifted =>
    /\ \A i \in Places : Hashed[i] = u[1] => cache[u].content = u[2][i]
    /\ \A v \in cache[u].imports : v[2] = u[2]
PageUrls == page.wants \cup {g.url : g \in page.got}
Straight == page.clean => \A u \in PageUrls : u[2] = page.under \/ drifted # {}

\* As long as no content comes back, a stamp is no newer than the disk; one that stands
\* for the disk is the only one there can be from then on.
Seen ==
  {u[2] : u \in page.wants} \cup {u[2] : u \in DOMAIN cache}
    \cup {v[2] : v \in UNION {cache[u].imports : u \in DOMAIN cache}}
Forward ==
  ~reverted =>
    /\ \A i \in DOMAIN read : read[i] <= disk[Hashed[i]]
    /\ \A s \in Seen : \A i \in Places : s[i] <= disk[Hashed[i]]
    /\ \A s \in Seen : IsNow(s) => \A i \in DOMAIN read : read[i] = s[i]
    /\ \A u \in DOMAIN cache : IsNow(u[2]) =>
         cache[u].content = disk[u[1]] /\ \A v \in cache[u].imports : v[2] = u[2]
    /\ page.clean => \A u \in PageUrls : u[2] = page.under

AssetsInv ==
  AssetsTypes /\ CleanRead /\ GotCached /\ Undrifted /\ Straight /\ Forward

LEMMA AssetsInit == ASSUME AssetsAssumption, Assets!Init PROVE AssetsInv
  <1>1. /\ disk = [f \in Assets!Files |-> 0] /\ read = [i \in DOMAIN Hashed |-> 0]
        /\ cache = << >> /\ page = Assets!NoPage /\ ~dirty /\ dirty \in BOOLEAN /\ drifted = {}
        /\ ~reverted /\ reverted \in BOOLEAN
    BY DEF Assets!Init
  <1>2. Len(Hashed) \in Nat /\ DOMAIN Hashed = 1 .. Len(Hashed)
        /\ \A i \in DOMAIN Hashed : Hashed[i] \in Assets!Files
    BY DEF AssetsAssumption
  <1>3. /\ read \in Seq({0, 1}) /\ Len(read) = Len(Hashed) /\ DOMAIN read = DOMAIN Hashed
        /\ \A i \in DOMAIN read : read[i] = disk[Hashed[i]] /\ read[i] = 0
    BY <1>1, <1>2
  <1>4. DOMAIN cache = {} /\ cache \in [DOMAIN cache -> Responses]
    BY <1>1
  <1>5. /\ page.clean = FALSE /\ page.wants = {} /\ page.got = {}
        /\ page \in PageStates
    BY <1>1 DEF Assets!NoPage, PageStates
  <1>6. AssetsTypes
    BY <1>1, <1>3, <1>4, <1>5 DEF AssetsTypes
  <1>7. Seen = {}
    BY <1>4, <1>5 DEF Seen
  <1> QED BY <1>1, <1>2, <1>3, <1>4, <1>5, <1>6, <1>7 DEF AssetsInv, CleanRead, GotCached, Undrifted,
    Straight, Forward

\* The places of the list, and what a complete read is.
LEMMA PlaceFacts ==
  ASSUME AssetsAssumption, AssetsTypes
  PROVE  /\ Len(Hashed) \in Nat /\ Places = 1 .. Len(Hashed) /\ Len(read) \in Nat
         /\ \A i \in Places : Hashed[i] \in Assets!Files /\ disk[Hashed[i]] \in {0, 1}
         /\ \A f \in Assets!Files : \E i \in Places : Hashed[i] = f
         /\ DOMAIN read = 1 .. Len(read) /\ DOMAIN read \subseteq Places
         /\ \A i \in DOMAIN read : read[i] \in {0, 1}
         /\ Assets!Up => read \in Stamps /\ DOMAIN read = Places
  <1>1. Len(Hashed) \in Nat /\ Places = 1 .. Len(Hashed)
        /\ \A i \in Places : Hashed[i] \in Assets!Files
    BY DEF AssetsAssumption, Places
  <1>2. \A f \in Assets!Files : \E i \in Places : Hashed[i] = f
    BY DEF Assets!Files, Assets!Range, Places
  <1>3. /\ Len(read) \in Nat /\ DOMAIN read = 1 .. Len(read)
        /\ \A i \in DOMAIN read : read[i] \in {0, 1}
        /\ Len(read) <= Len(Hashed) /\ read \in [1 .. Len(read) -> {0, 1}]
    BY DEF AssetsTypes
  <1>4. DOMAIN read \subseteq Places
    BY <1>1, <1>3
  <1>5. Assets!Up => read \in Stamps /\ DOMAIN read = Places
    BY <1>1, <1>3 DEF Assets!Up, Stamps
  <1> QED BY <1>1, <1>2, <1>3, <1>4, <1>5 DEF AssetsTypes

\* An edit: as long as it takes nothing back, no stamp stands for the files any more.
LEMMA EditStep ==
  ASSUME AssetsAssumption, AssetsInv, NEW f \in Assets!Files, Assets!Edit(f)
  PROVE  AssetsInv'
  <1>1. AssetsTypes /\ CleanRead /\ GotCached /\ Undrifted /\ Straight /\ Forward
    BY DEF AssetsInv
  <1>2. /\ disk' = [disk EXCEPT ![f] = 1 - @] /\ dirty' = TRUE
        /\ reverted' = (reverted \/ disk[f] = 1)
        /\ page' = [page EXCEPT !.clean = FALSE] /\ UNCHANGED <<read, cache, drifted>>
    BY DEF Assets!Edit
  <1>3. /\ page'.clean = FALSE /\ page'.wants = page.wants /\ page'.got = page.got
        /\ page' \in PageStates
    BY <1>1, <1>2 DEF AssetsTypes, PageStates
  <1>4. disk' \in [Assets!Files -> {0, 1}] /\ disk'[f] = 1 - disk[f]
        /\ \A g \in Assets!Files : g # f => disk'[g] = disk[g]
    BY <1>1, <1>2 DEF AssetsTypes
  <1>5. AssetsTypes'
    BY <1>1, <1>2, <1>3, <1>4 DEF AssetsTypes
  <1>6. CleanRead' /\ GotCached' /\ Undrifted' /\ Straight'
    BY <1>1, <1>2, <1>3 DEF CleanRead, GotCached, Undrifted, Straight, Places
  <1>7. Forward'
    <2> SUFFICES ASSUME ~reverted' PROVE Forward'
      BY DEF Forward
    <2>1. ~reverted /\ disk[f] = 0 /\ disk'[f] = 1
      <3>1. reverted' = (reverted \/ disk[f] = 1)
        BY <1>2
      <3>2. ~reverted /\ disk[f] # 1
        BY <3>1, Zenon
      <3> QED BY <1>1, <1>4, <3>2 DEF AssetsTypes
    <2>2. \A g \in Assets!Files : disk[g] \in {0, 1} /\ disk'[g] \in {0, 1} /\ disk[g] <= disk'[g]
      BY <1>1, <1>4, <2>1 DEF AssetsTypes
    <2>3. Seen' = Seen
      BY <1>2, <1>3 DEF Seen
    <2>4. PICK k \in Places : Hashed[k] = f
      BY <1>1, PlaceFacts
    <2>5. \A s \in Seen : s[k] <= 0
      BY <1>1, <2>1, <2>4 DEF Forward
    <2>6. \A s \in Seen : ~IsNow(s)'
      BY <2>1, <2>4, <2>5 DEF IsNow, Places
    <2>7. \A u \in DOMAIN cache : u[2] \in Seen
      BY DEF Seen
    <2>8. \A i \in DOMAIN read : read[i] <= disk'[Hashed[i]]
      <3>1. ASSUME NEW i \in DOMAIN read PROVE read[i] <= disk'[Hashed[i]]
        <4>1. read[i] <= disk[Hashed[i]]
          BY <1>1, <2>1 DEF Forward
        <4>2. Hashed[i] \in Assets!Files /\ read[i] \in {0, 1}
          BY <1>1, PlaceFacts
        <4> HIDE DEF Forward
        <4> QED BY <4>1, <4>2, <2>2
      <3> QED BY <3>1
    <2>9. \A s \in Seen, i \in Places : s[i] <= disk'[Hashed[i]]
      <3>1. ASSUME NEW s \in Seen, NEW i \in Places PROVE s[i] <= disk'[Hashed[i]]
        <4>1. s[i] <= disk[Hashed[i]] /\ s[i] \in {0, 1}
          <5>1. s \in Stamps
            BY <1>1 DEF Seen, AssetsTypes, PageStates, Urls, Responses
          <5> QED BY <1>1, <2>1, <5>1 DEF Forward, Stamps
        <4>2. Hashed[i] \in Assets!Files
          BY <1>1, PlaceFacts
        <4> QED BY <4>1, <4>2, <2>2
      <3> QED BY <3>1
    <2> QED BY <1>2, <1>3, <2>3, <2>6, <2>7, <2>8, <2>9 DEF Forward, Places
  <1> QED BY <1>5, <1>6, <1>7 DEF AssetsInv

LEMMA RestartStep ==
  ASSUME AssetsAssumption, AssetsInv, Assets!Restart
  PROVE  AssetsInv'
  <1>1. AssetsTypes /\ CleanRead /\ GotCached /\ Undrifted /\ Straight /\ Forward
    BY DEF AssetsInv
  <1>2. /\ read' = << >> /\ dirty' = FALSE /\ page' = [page EXCEPT !.clean = FALSE]
        /\ UNCHANGED <<disk, cache, reverted, drifted>>
    BY DEF Assets!Restart
  <1>3. /\ page'.clean = FALSE /\ page'.wants = page.wants /\ page'.got = page.got
        /\ page' \in PageStates
    BY <1>1, <1>2 DEF AssetsTypes, PageStates
  <1>4. read' \in Seq({0, 1}) /\ Len(read') = 0 /\ DOMAIN read' = {}
    BY <1>2
  <1>5. AssetsTypes'
    <2>1. Len(Hashed) \in Nat
      BY <1>1, PlaceFacts
    <2>2. Len(read') <= Len(Hashed)
      BY <1>4, <2>1
    <2>3. dirty' \in BOOLEAN
      BY <1>2
    <2> QED BY <1>1, <1>2, <1>3, <1>4, <2>2, <2>3 DEF AssetsTypes
  <1>6. CleanRead' /\ GotCached' /\ Undrifted' /\ Straight'
    BY <1>1, <1>2, <1>3, <1>4 DEF CleanRead, GotCached, Undrifted, Straight, Places
  <1>7. Seen' = Seen /\ \A s : IsNow(s)' <=> IsNow(s)
    BY <1>2, <1>3 DEF Seen, IsNow, Places
  <1>8. Forward'
    BY <1>1, <1>2, <1>3, <1>4, <1>7 DEF Forward, Places
  <1> QED BY <1>5, <1>6, <1>8 DEF AssetsInv

LEMMA HashStep ==
  ASSUME AssetsAssumption, AssetsInv, Assets!HashNext
  PROVE  AssetsInv'
  <1> DEFINE n == Len(read) + 1
             x == disk[Hashed[n]]
  <1>1. AssetsTypes /\ CleanRead /\ GotCached /\ Undrifted /\ Straight /\ Forward
    BY DEF AssetsInv
  <1>2. /\ ~Assets!Up /\ read' = Append(read, x)
        /\ UNCHANGED <<disk, cache, page, dirty, reverted, drifted>>
    BY DEF Assets!HashNext
  <1>3. n \in Places /\ x \in {0, 1} /\ Len(read) \in Nat /\ n <= Len(Hashed)
    BY <1>1, <1>2, PlaceFacts DEF Assets!Up, AssetsTypes
  <1>4. /\ read' \in Seq({0, 1}) /\ Len(read') = n /\ DOMAIN read' = DOMAIN read \cup {n}
        /\ read'[n] = x /\ \A i \in DOMAIN read : read'[i] = read[i]
    BY <1>1, <1>2, <1>3 DEF AssetsTypes
  <1>5. AssetsTypes'
    BY <1>1, <1>2, <1>3, <1>4 DEF AssetsTypes
  <1>6. page.clean = FALSE
    BY <1>1, <1>2 DEF CleanRead, AssetsTypes
  <1>7. CleanRead' /\ GotCached' /\ Undrifted' /\ Straight'
    BY <1>1, <1>2, <1>4, <1>6 DEF CleanRead, GotCached, Undrifted, Straight, Places
  <1>8. Seen' = Seen /\ \A s : IsNow(s)' <=> IsNow(s)
    BY <1>2 DEF Seen, IsNow, Places
  <1>9. \A s : IsNow(s) => s[n] = x
    BY <1>3 DEF IsNow
  <1>10. x <= disk[Hashed[n]]
    BY <1>3
  <1>11. Forward'
    BY <1>1, <1>2, <1>4, <1>6, <1>8, <1>9, <1>10 DEF Forward, Places
  <1> QED BY <1>5, <1>7, <1>11 DEF AssetsInv

\* The stamp of a hashed file is the hash as it was read.
LEMMA StampIs ==
  ASSUME NEW f \in Assets!Files PROVE Assets!Stamp(f) = read
  BY DEF Assets!Stamp, Assets!Files

LEMMA OpenStep ==
  ASSUME AssetsAssumption, AssetsInv, Assets!Open
  PROVE  AssetsInv'
  <1>1. AssetsTypes /\ CleanRead /\ GotCached /\ Undrifted /\ Straight /\ Forward
    BY DEF AssetsInv
  <1>2. /\ Assets!Up /\ UNCHANGED <<disk, read, cache, dirty, reverted, drifted>>
        /\ page' = [clean |-> ~dirty, under |-> read, got |-> {},
                    wants |-> {<<f, Assets!Stamp(f)>> : f \in Index}]
    BY DEF Assets!Open
  <1>3. read \in Stamps /\ DOMAIN read = Places
    BY <1>1, <1>2, PlaceFacts
  <1>4. page'.wants \subseteq Urls /\ \A u \in page'.wants : u[2] = read
    BY <1>2, <1>3, StampIs DEF AssetsAssumption, Urls
  <1>5. page'.got = {} /\ page'.under = read /\ page'.clean = ~dirty /\ PageUrls' = page'.wants
    BY <1>2 DEF PageUrls
  <1>6. page' \in PageStates
    BY <1>2, <1>3, <1>4 DEF PageStates
  <1>7. AssetsTypes'
    BY <1>1, <1>2, <1>6 DEF AssetsTypes
  <1>8. CleanRead' /\ GotCached' /\ Undrifted' /\ Straight'
    BY <1>1, <1>2, <1>4, <1>5 DEF CleanRead, GotCached, Undrifted, Straight, Places, Assets!Up
  <1>9. Seen' \subseteq Seen \cup {read}
    BY <1>2, <1>4 DEF Seen
  <1>10. \A s : IsNow(s)' <=> IsNow(s)
    BY <1>2 DEF IsNow, Places
  <1>11. Forward'
    BY <1>1, <1>2, <1>3, <1>4, <1>5, <1>9, <1>10 DEF Forward, Places
  <1> QED BY <1>7, <1>8, <1>11 DEF AssetsInv

\* What a page gets, and asks for next.
LEMMA TakeFacts ==
  ASSUME AssetsAssumption, AssetsTypes, NEW u \in page.wants, NEW r \in Responses,
         Assets!Takes(u, r)
  PROVE  /\ page' \in PageStates /\ page'.clean = page.clean /\ page'.under = page.under
         /\ page'.got = page.got \cup {[url |-> u, content |-> r.content]}
         /\ page'.wants \cap {g.url : g \in page'.got} = {}
         /\ \A w \in PageUrls' : w \in PageUrls \/ w[2] = u[2] \/ \E v \in r.imports : w[2] = v[2]
         /\ \A w \in page'.wants :
              w \in page.wants \/ w[2] = u[2] \/ \E v \in r.imports : w[2] = v[2]
  <1> DEFINE got == page.got \cup {[url |-> u, content |-> r.content]}
             wants == (page.wants \cup Assets!Asks(u, r)) \ {g.url : g \in got}
  <1>1. page \in PageStates /\ page.wants \subseteq Urls
    BY DEF AssetsTypes, PageStates
  <1>2. page' = [page EXCEPT !.got = got, !.wants = wants]
    BY DEF Assets!Takes
  <1>3. u \in Urls /\ r.content \in {0, 1} /\ r.imports \subseteq Urls
    BY <1>1 DEF Responses
  <1>4. \A w \in Assets!Asks(u, r) : w \in r.imports \/ w \in {<<icon, u[2]>> : icon \in Icons[u[1]]}
    BY DEF Assets!Asks
  <1>5. {<<icon, u[2]>> : icon \in Icons[u[1]]} \subseteq Urls
    BY <1>3 DEF Urls, AssetsAssumption
  <1>6. Assets!Asks(u, r) \subseteq Urls
    BY <1>3, <1>4, <1>5
  <1>7. \A w \in Assets!Asks(u, r) : w[2] = u[2] \/ \E v \in r.imports : w[2] = v[2]
    BY <1>4
  <1>8. wants \subseteq page.wants \cup Assets!Asks(u, r) /\ wants \cap {g.url : g \in got} = {}
    OBVIOUS
  <1>9. got \in SUBSET [url : Urls, content : {0, 1}]
    BY <1>1, <1>3 DEF PageStates
  <1>10. wants \in SUBSET Urls
    BY <1>1, <1>6, <1>8
  <1> HIDE DEF got, wants
  <1>11. /\ page' \in PageStates /\ page'.clean = page.clean /\ page'.under = page.under
         /\ page'.got = got /\ page'.wants = wants
    BY <1>1, <1>2, <1>9, <1>10 DEF PageStates
  <1>12. {g.url : g \in got} \subseteq {g.url : g \in page.got} \cup {u}
    <2>1. [url |-> u, content |-> r.content].url = u
      OBVIOUS
    <2>2. \A g \in got : g.url \in {h.url : h \in page.got} \cup {u}
      BY <2>1 DEF got
    <2> QED BY <2>2
  <1>13. PageUrls' \subseteq PageUrls \cup {u} \cup Assets!Asks(u, r)
    BY <1>8, <1>11, <1>12 DEF PageUrls
  <1> QED BY <1>7, <1>8, <1>11, <1>13 DEF got

LEMMA LoadStep ==
  ASSUME AssetsAssumption, AssetsInv, NEW u \in page.wants, Assets!LoadCached(u)
  PROVE  AssetsInv'
  <1> DEFINE r == cache[u]
  <1>1. AssetsTypes /\ CleanRead /\ GotCached /\ Undrifted /\ Straight /\ Forward
    BY DEF AssetsInv
  <1>2. /\ u \in DOMAIN cache /\ Assets!Takes(u, r)
        /\ UNCHANGED <<disk, read, cache, dirty, reverted, drifted>>
    BY DEF Assets!LoadCached
  <1>3. r \in Responses /\ page \in PageStates
    BY <1>1, <1>2 DEF AssetsTypes
  <1>4. /\ page' \in PageStates /\ page'.clean = page.clean /\ page'.under = page.under
        /\ page'.got = page.got \cup {[url |-> u, content |-> r.content]}
        /\ page'.wants \cap {g.url : g \in page'.got} = {}
        /\ \A w \in PageUrls' : w \in PageUrls \/ w[2] = u[2] \/ \E v \in r.imports : w[2] = v[2]
        /\ \A w \in page'.wants :
             w \in page.wants \/ w[2] = u[2] \/ \E v \in r.imports : w[2] = v[2]
    BY <1>1, <1>2, <1>3, TakeFacts
  <1>5. u \in PageUrls
    BY DEF PageUrls
  <1>6. AssetsTypes'
    BY <1>1, <1>2, <1>4 DEF AssetsTypes
  <1>7. CleanRead' /\ Undrifted'
    BY <1>1, <1>2, <1>4 DEF CleanRead, Undrifted, Places, Assets!Up
  <1>8. GotCached'
    BY <1>1, <1>2, <1>4 DEF GotCached
  <1>9. Straight'
    <2>1. u \in drifted \/ \A v \in r.imports : v[2] = u[2]
      BY <1>1, <1>2 DEF Undrifted
    <2> QED BY <1>1, <1>2, <1>4, <1>5, <2>1 DEF Straight
  <1>10. Seen' \subseteq Seen
    <2>1. \A w \in page'.wants : w[2] \in Seen
      <3>1. \A v \in r.imports : v[2] \in Seen
        BY <1>2 DEF Seen
      <3>2. \A w \in page.wants : w[2] \in Seen
        BY DEF Seen
      <3> QED BY <1>4, <3>1, <3>2
    <2> QED BY <1>2, <2>1 DEF Seen
  <1>11. Forward'
    <2> SUFFICES ASSUME ~reverted PROVE Forward'
      BY <1>2 DEF Forward
    <2>1. ASSUME page.clean, NEW w \in PageUrls' PROVE w[2] = page.under
      <3>1. u[2] = page.under
        BY <1>1, <1>5, <2>1 DEF Forward
      <3>2. IsNow(u[2])
        BY <1>1, <2>1, <3>1, PlaceFacts DEF CleanRead, IsNow
      <3>3. \A v \in r.imports : v[2] = u[2]
        BY <1>1, <1>2, <3>2 DEF Forward
      <3> QED BY <1>1, <1>4, <2>1, <3>1, <3>3 DEF Forward
    <2>2. \A s : IsNow(s)' <=> IsNow(s)
      BY <1>2 DEF IsNow, Places
    <2> QED BY <1>1, <1>2, <1>4, <1>10, <2>1, <2>2 DEF Forward, Places
  <1> QED BY <1>6, <1>7, <1>8, <1>9, <1>11 DEF AssetsInv

LEMMA FetchStep ==
  ASSUME AssetsAssumption, AssetsInv, NEW u \in page.wants, Assets!Fetch(u)
  PROVE  AssetsInv'
  <1> DEFINE r == Assets!Response(u[1])
  <1>1. AssetsTypes /\ CleanRead /\ GotCached /\ Undrifted /\ Straight /\ Forward
    BY DEF AssetsInv
  <1>2. /\ Assets!Up /\ u \notin DOMAIN cache /\ Assets!Takes(u, r)
        /\ cache' = [w \in DOMAIN cache \cup {u} |-> IF w = u THEN r ELSE cache[w]]
        /\ drifted' = IF dirty \/ read # u[2] THEN drifted \cup {u} ELSE drifted
        /\ UNCHANGED <<disk, read, dirty, reverted>>
    BY DEF Assets!Fetch
  <1>3. page \in PageStates /\ u \in Urls /\ u[1] \in Assets!Files /\ u[2] \in Stamps
    BY <1>1 DEF AssetsTypes, PageStates, Urls
  <1>4. read \in Stamps /\ DOMAIN read = Places
    BY <1>1, <1>2, PlaceFacts
  <1>5. r.content = disk[u[1]] /\ \A v \in r.imports : v \in Urls /\ v[2] = read
    <2>1. r.content = disk[u[1]]
      BY DEF Assets!Response
    <2>2. r.imports = {<<Assets!Path(Assets!Dir(u[1]), g), Assets!Stamp(Assets!Resolve(Assets!Dir(u[1]), g))>>
                         : g \in Imports[u[1]]}
      BY DEF Assets!Response
    <2>3. ASSUME NEW g \in Imports[u[1]]
          PROVE  /\ Assets!Path(Assets!Dir(u[1]), g) \in Assets!Files
                 /\ Assets!Stamp(Assets!Resolve(Assets!Dir(u[1]), g)) = read
      <3>1. Assets!Path(Assets!Dir(u[1]), g) \in Assets!Files
        BY <1>3 DEF AssetsAssumption
      <3>2. Assets!Resolve(Assets!Dir(u[1]), g) = Assets!Path(Assets!Dir(u[1]), g)
        BY DEF Assets!Resolve, Assets!Path
      <3> QED BY <3>1, <3>2, StampIs
    <2> QED BY <1>4, <2>1, <2>2, <2>3 DEF Urls
  <1>6. r \in Responses
    <2>1. disk[u[1]] \in {0, 1} /\ r.imports \in SUBSET Urls
      BY <1>1, <1>3, <1>5 DEF AssetsTypes
    <2> QED BY <2>1, <1>5 DEF Responses, Assets!Response
  <1> HIDE DEF r
  <1>7. /\ page' \in PageStates /\ page'.clean = page.clean /\ page'.under = page.under
        /\ page'.got = page.got \cup {[url |-> u, content |-> r.content]}
        /\ page'.wants \cap {g.url : g \in page'.got} = {}
        /\ \A w \in PageUrls' : w \in PageUrls \/ w[2] = u[2] \/ \E v \in r.imports : w[2] = v[2]
        /\ \A w \in page'.wants :
             w \in page.wants \/ w[2] = u[2] \/ \E v \in r.imports : w[2] = v[2]
    BY <1>1, <1>2, <1>6, TakeFacts
  <1>8. /\ DOMAIN cache' = DOMAIN cache \cup {u} /\ cache'[u] = r
        /\ \A w \in DOMAIN cache : cache'[w] = cache[w] /\ w # u
    BY <1>2
  <1>9. AssetsTypes'
    <2>1. cache' \in [DOMAIN cache' -> Responses]
      BY <1>1, <1>2, <1>6 DEF AssetsTypes
    <2> QED BY <1>1, <1>2, <1>3, <1>7, <1>8, <2>1 DEF AssetsTypes
  <1>10. CleanRead'
    BY <1>1, <1>2, <1>7 DEF CleanRead, Assets!Up
  <1>11. GotCached'
    <2>1. ASSUME NEW g \in page'.got
          PROVE  g.url \in DOMAIN cache' /\ g.content = cache'[g.url].content
      <3>1. CASE g \in page.got
        BY <1>1, <1>8, <3>1 DEF GotCached
      <3>2. CASE g = [url |-> u, content |-> r.content]
        BY <1>8, <3>2
      <3> QED BY <1>7, <2>1, <3>1, <3>2
    <2> QED BY <1>7, <2>1 DEF GotCached
  <1>12. Undrifted'
    <2>1. ASSUME u \notin drifted'
          PROVE  /\ \A i \in Places : Hashed[i] = u[1] => r.content = u[2][i]
                 /\ \A v \in r.imports : v[2] = u[2]
      <3>1. ~dirty /\ read = u[2]
        BY <1>2, <2>1
      <3>2. \A i \in Places : read[i] = disk[Hashed[i]]
        BY <1>1, <1>4, <3>1 DEF CleanRead
      <3> QED BY <1>5, <3>1, <3>2
    <2>2. drifted \subseteq drifted'
      BY <1>2
    <2> QED BY <1>1, <1>8, <2>1, <2>2 DEF Undrifted, Places
  <1>13. u \in PageUrls
    BY DEF PageUrls
  <1>14. Straight'
    <2>1. page.clean => page.under = read
      BY <1>1 DEF CleanRead
    <2>2. drifted \subseteq drifted'
      BY <1>2
    <2> QED BY <1>1, <1>5, <1>7, <1>13, <2>1, <2>2 DEF Straight
  <1>15. Seen' \subseteq Seen \cup {read}
    <2>1. u[2] \in Seen /\ \A w \in page.wants : w[2] \in Seen
      BY DEF Seen
    <2>2. \A w \in page'.wants : w[2] \in Seen \cup {read}
      BY <1>5, <1>7, <2>1
    <2>3. \A w \in DOMAIN cache' : w[2] \in Seen \cup {read}
      BY <1>8, <2>1 DEF Seen
    <2>4. \A w \in DOMAIN cache' : \A v \in cache'[w].imports : v[2] \in Seen \cup {read}
      BY <1>5, <1>8 DEF Seen
    <2> QED BY <2>2, <2>3, <2>4 DEF Seen
  <1>16. Forward'
    <2> SUFFICES ASSUME ~reverted PROVE Forward'
      BY <1>2 DEF Forward
    <2>1. ASSUME page.clean, NEW w \in PageUrls' PROVE w[2] = page.under
      <3>1. u[2] = page.under
        BY <1>1, <1>13, <2>1 DEF Forward
      <3>2. page.under = read
        BY <1>1, <2>1 DEF CleanRead
      <3> QED BY <1>1, <1>5, <1>7, <2>1, <3>1, <3>2 DEF Forward
    <2>2. \A s : IsNow(s)' <=> IsNow(s)
      BY <1>2 DEF IsNow, Places
    <2>3. ASSUME IsNow(u[2])
          PROVE  r.content = disk[u[1]] /\ \A v \in r.imports : v[2] = u[2]
      <3>1. u[2] \in Seen
        BY DEF Seen
      <3>2. \A i \in Places : read[i] = u[2][i]
        BY <1>1, <1>4, <2>3, <3>1 DEF Forward
      <3>3. read = u[2]
        BY <1>3, <1>4, <3>2 DEF Stamps
      <3> QED BY <1>5, <3>3
    <2>4. \A w \in DOMAIN cache' : IsNow(w[2]) =>
            cache'[w].content = disk[w[1]] /\ \A v \in cache'[w].imports : v[2] = w[2]
      BY <1>1, <1>8, <2>3 DEF Forward
    <2>5. /\ \A i \in DOMAIN read : read[i] <= disk[Hashed[i]]
          /\ \A s \in Seen' : \A i \in Places : s[i] <= disk[Hashed[i]]
          /\ \A s \in Seen' : IsNow(s) => \A i \in DOMAIN read : read[i] = s[i]
      BY <1>1, <1>4, <1>15 DEF Forward
    <2> QED BY <1>2, <1>7, <2>1, <2>2, <2>4, <2>5 DEF Forward, Places
  <1> QED BY <1>9, <1>10, <1>11, <1>12, <1>14, <1>16 DEF AssetsInv

LEMMA AssetsStep ==
  ASSUME AssetsAssumption, AssetsInv, [Assets!Next]_(Assets!vars)
  PROVE  AssetsInv'
  <1>1. CASE UNCHANGED Assets!vars
    <2>1. UNCHANGED <<disk, read, cache, page, dirty, reverted, drifted>>
      BY <1>1 DEF Assets!vars
    <2>2. Seen' = Seen /\ PageUrls' = PageUrls /\ \A s : IsNow(s)' <=> IsNow(s)
      BY <2>1 DEF Seen, PageUrls, IsNow, Places
    <2>3. AssetsTypes' /\ CleanRead' /\ GotCached' /\ Undrifted' /\ Straight'
      BY <2>1, <2>2 DEF AssetsInv, AssetsTypes, CleanRead, GotCached, Undrifted, Straight, Places,
        Assets!Up
    <2>4. Forward'
      BY <2>1, <2>2 DEF AssetsInv, Forward, Places
    <2> QED BY <2>3, <2>4 DEF AssetsInv
  <1> QED BY <1>1, EditStep, RestartStep, HashStep, OpenStep, LoadStep, FetchStep DEF Assets!Next

LEMMA AssetsMean ==
  ASSUME AssetsAssumption, AssetsInv PROVE Assets!TypeOK /\ Assets!AssetsFresh
  <1>1. AssetsTypes /\ CleanRead /\ GotCached /\ Undrifted /\ Straight /\ Forward
    BY DEF AssetsInv
  <1>2. Assets!TypeOK
    BY <1>1 DEF Assets!TypeOK, AssetsTypes, GotCached
  <1>3. ASSUME page.clean, NEW g \in page.got
        PROVE  /\ \/ g.content = disk[g.url[1]]
                  \/ reverted /\ (g.url \in drifted \/ g.url[2] # page.under)
               /\ g.url[2] = page.under \/ (reverted /\ drifted # {})
    <2>1. g.url \in DOMAIN cache /\ g.content = cache[g.url].content /\ g.url \in PageUrls
      BY <1>1 DEF GotCached, PageUrls
    <2>2. page.under = read /\ IsNow(page.under)
      BY <1>1, <1>3, PlaceFacts DEF CleanRead, IsNow
    <2>3. CASE ~reverted
      <3>1. g.url[2] = page.under
        BY <1>1, <1>3, <2>1, <2>3 DEF Forward
      <3>2. cache[g.url].content = disk[g.url[1]]
        BY <1>1, <2>1, <2>2, <2>3, <3>1 DEF Forward
      <3> QED BY <2>1, <3>1, <3>2
    <2>4. CASE reverted
      <3>1. g.url[2] = page.under \/ drifted # {}
        BY <1>1, <1>3, <2>1 DEF Straight
      <3>2. ASSUME g.url \notin drifted, g.url[2] = page.under
            PROVE  g.content = disk[g.url[1]]
        <4>1. g.url[1] \in Assets!Files
          BY <1>1, <2>1 DEF AssetsTypes, Urls
        <4>2. PICK i \in Places : Hashed[i] = g.url[1]
          BY <1>1, <4>1, PlaceFacts
        <4>3. g.content = g.url[2][i]
          BY <1>1, <2>1, <3>2, <4>2 DEF Undrifted
        <4> QED BY <2>2, <3>2, <4>2, <4>3 DEF IsNow
      <3> QED BY <2>4, <3>1, <3>2
    <2> QED BY <2>3, <2>4
  <1> QED BY <1>2, <1>3 DEF Assets!AssetsFresh, Assets!DeployReachesPage, Assets!OneInstance

\* A page opened on a clean deploy runs the files that were deployed, one copy of each,
\* whatever the phone has cached; but for what was answered between an edit and the
\* restart for it, and only once the old content comes back (rewrite_js_imports,
\* _VersionedStatic).
THEOREM AssetsFreshAlways ==
  ASSUME AssetsAssumption PROVE Assets!Spec => [](Assets!TypeOK /\ Assets!AssetsFresh)
<1>1. Assets!Init => AssetsInv
  BY AssetsInit
<1>2. AssetsInv /\ [Assets!Next]_(Assets!vars) => AssetsInv'
  BY AssetsStep
<1>3. AssetsInv => Assets!TypeOK /\ Assets!AssetsFresh
  BY AssetsMean
<1> QED BY <1>1, <1>2, <1>3, PTL DEF Assets!Spec

-----------------------------------------------------------------------------
(* The roster of sessions. *)

RosterAssumption == MaxTrouble \in Nat

OwnEndings == {"exited", "stopped"}
Endings == OwnEndings \cup {"with the host"}
Spawned == [click : Clicks, ended : {"no"} \cup Endings, here : BOOLEAN]
Threads == [click : Clicks, at : {"spawn", "register"}, sid : Nat, try : {"sent", "sent again"}]
Before == {"idle", "sent", "sent again"}
Requests ==
  [at : {"idle", "sent", "sent again", "awaited", "awaited again", "told", "failed", "gave up"}, sid : Nat]
RosterTypes ==
  /\ host \in {"down", "booting", "up", "closing"} /\ tray \in BOOLEAN /\ trouble \in 0 .. MaxTrouble
  /\ click \in [Clicks -> Requests]
  /\ \A c \in Clicks : click[c].sid \in 0 .. Len(procs)
  /\ procs \in Seq(Spawned) /\ work \subseteq Threads
  /\ roster \subseteq Roster!Sids /\ reused \subseteq Roster!Sids

\* A click has one worker thread at most, and none before its request got through.
WorkSound ==
  \A w \in work :
    /\ IF w.at = "spawn" THEN w.sid = 0
       ELSE w.sid \in Roster!Sids /\ procs[w.sid].click = w.click
    /\ click[w.click].at \notin Before
    /\ \A v \in work : v.click = w.click => v = w

\* A console that runs is the only one of its click, which no thread spawns another for.
OneEach ==
  \A s \in Roster!Consoles : Roster!Running(s) =>
    /\ click[procs[s].click].at \notin Before
    /\ \A w \in work : w.click = procs[s].click => w.sid = s
    /\ \A t \in Roster!Consoles : Roster!Running(t) /\ procs[t].click = procs[s].click => t = s

\* Nothing is left of a host that is gone but its detached windows.
HostGone ==
  host \in {"down", "booting"} =>
    /\ work = {} /\ roster = {}
    /\ \A s \in Roster!Sids : ~procs[s].here /\ (s \in Roster!Consoles => ~Roster!Running(s))

ToldSound ==
  \A c \in Clicks, s \in Nat : click[c].at = "told" /\ click[c].sid = s =>
    s \in Roster!Sids /\ (Roster!Running(s) /\ procs[s].here /\ host = "up" => s \in roster)

RosterInv ==
  /\ RosterTypes /\ WorkSound /\ OneEach /\ HostGone /\ ToldSound
  /\ Roster!ConsolesListed /\ Roster!DetachedOutlive

LEMMA RosterInit == ASSUME RosterAssumption, Roster!Init PROVE RosterInv
  <1>1. /\ host = "down" /\ tray = FALSE /\ trouble = 0 /\ work = {} /\ procs = << >> /\ roster = {}
        /\ reused = {} /\ click = [c \in Clicks |-> [at |-> "idle", sid |-> 0]]
    BY DEF Roster!Init
  <1>2. Roster!Sids = {} /\ Roster!Consoles = {} /\ procs \in Seq(Spawned) /\ Len(procs) = 0
    BY <1>1 DEF Roster!Sids, Roster!Consoles
  <1>3. click \in [Clicks -> Requests] /\ \A c \in Clicks : click[c].sid \in 0 .. Len(procs)
    BY <1>1, <1>2 DEF Requests
  <1>4. RosterTypes
    <2>1. trouble \in 0 .. MaxTrouble
      BY <1>1 DEF RosterAssumption
    <2>2. work \subseteq Threads /\ roster \subseteq Roster!Sids /\ reused \subseteq Roster!Sids
      BY <1>1
    <2> QED BY <1>1, <1>2, <1>3, <2>1, <2>2 DEF RosterTypes
  <1> QED BY <1>1, <1>2, <1>4 DEF RosterInv, WorkSound, OneEach, HostGone, ToldSound,
    Roster!ConsolesListed, Roster!DetachedOutlive

LEMMA SidFacts ==
  ASSUME RosterTypes
  PROVE  /\ Len(procs) \in Nat /\ Roster!Sids = 1 .. Len(procs)
         /\ \A s \in Roster!Sids : procs[s] \in Spawned
         /\ Roster!Consoles \subseteq Roster!Sids
  <1>1. procs \in Seq(Spawned)
    BY DEF RosterTypes
  <1>2. Len(procs) \in Nat /\ Roster!Sids = 1 .. Len(procs)
    BY <1>1 DEF Roster!Sids
  <1>3. \A s \in 1 .. Len(procs) : procs[s] \in Spawned
    BY <1>1
  <1> QED BY <1>2, <1>3 DEF Roster!Consoles

LEMMA TroubleBounded ==
  ASSUME RosterAssumption, RosterTypes, Roster!Trouble PROVE trouble' \in 0 .. MaxTrouble
  BY DEF RosterTypes, Roster!Trouble, RosterAssumption

\* A click's request goes on; it does not come back to before it got through.
LEMMA ClickMoves ==
  ASSUME RosterAssumption, RosterInv, NEW c \in Clicks,
         NEW to \in Before \cup {"awaited", "awaited again", "failed", "gave up"},
         Roster!Goes(c, to), to \in Before => click[c].at \in Before,
         tray' \in BOOLEAN, trouble' \in 0 .. MaxTrouble, UNCHANGED <<host, work, procs, roster, reused>>
  PROVE  RosterInv'
  <1>1. RosterTypes /\ WorkSound /\ OneEach /\ HostGone /\ ToldSound
        /\ Roster!ConsolesListed /\ Roster!DetachedOutlive
    BY DEF RosterInv
  <1>2. click' = [click EXCEPT ![c].at = to]
    BY DEF Roster!Goes
  <1>3. click' \in [Clicks -> Requests]
    BY <1>1, <1>2 DEF RosterTypes, Requests, Before
  <1>4. /\ \A d \in Clicks : click'[d].sid = click[d].sid /\ (d # c => click'[d] = click[d])
        /\ click'[c].at = to
    BY <1>1, <1>2 DEF RosterTypes, Requests
  <1>5. \A d \in Clicks : click[d].at \notin Before => click'[d].at \notin Before
    BY <1>4
  <1>6. to # "told"
    BY DEF Before
  <1>7. RosterTypes'
    BY <1>1, <1>3, <1>4 DEF RosterTypes, Roster!Sids
  <1>8. WorkSound'
    BY <1>1, <1>5 DEF WorkSound, RosterTypes, Threads, Roster!Sids
  <1>9. OneEach'
    <2>1. \A s \in Roster!Consoles : procs[s].click \in Clicks
      BY <1>1, SidFacts DEF Spawned
    <2> QED BY <1>1, <1>5, <2>1 DEF OneEach, Roster!Consoles, Roster!Sids, Roster!IsDetached, Roster!Running
  <1>10. ToldSound'
    BY <1>1, <1>4, <1>6 DEF ToldSound, Roster!Sids, Roster!Running
  <1>11. HostGone' /\ Roster!ConsolesListed' /\ Roster!DetachedOutlive'
    BY <1>1 DEF HostGone, Roster!ConsolesListed, Roster!DetachedOutlive, Roster!Consoles, Roster!Sids,
      Roster!IsDetached, Roster!Running
  <1> QED BY <1>7, <1>8, <1>9, <1>10, <1>11 DEF RosterInv

LEMMA RequestSteps ==
  ASSUME RosterAssumption, RosterInv, NEW c \in Clicks,
         Roster!Click(c) \/ Roster!NotReceived(c) \/ Roster!TimesOut(c)
  PROVE  RosterInv'
  <1>1. tray \in BOOLEAN /\ trouble \in 0 .. MaxTrouble
    BY DEF RosterInv, RosterTypes
  <1>2. Roster!Trouble => trouble' \in 0 .. MaxTrouble
    BY <1>1 DEF Roster!Trouble, RosterAssumption
  <1>3. CASE Roster!Click(c)
    BY <1>1, <1>3, ClickMoves DEF Roster!Click, Before
  <1>4. CASE Roster!NotReceived(c)
    <2>1. CASE click[c].at = "sent"
      <3>1. Roster!Dropped(click[c].at) = "sent again"
        BY <2>1 DEF Roster!Dropped
      <3> QED BY <1>1, <1>2, <1>4, <2>1, <3>1, ClickMoves DEF Roster!NotReceived, Before
    <2>2. CASE click[c].at = "sent again"
      <3>1. Roster!Dropped(click[c].at) = "failed"
        BY <2>2 DEF Roster!Dropped
      <3> QED BY <1>1, <1>2, <1>4, <3>1, ClickMoves DEF Roster!NotReceived, Before
    <2> QED BY <1>4, <2>1, <2>2 DEF Roster!NotReceived
  <1>5. CASE Roster!TimesOut(c)
    BY <1>1, <1>2, <1>5, ClickMoves DEF Roster!TimesOut, Roster!OnTimeout, Before
  <1> QED BY <1>3, <1>4, <1>5

LEMMA ReceivedStep ==
  ASSUME RosterAssumption, RosterInv, NEW c \in Clicks, Roster!Received(c)
  PROVE  RosterInv'
  <1> DEFINE to == IF click[c].at = "sent" THEN "awaited" ELSE "awaited again"
             w == [click |-> c, at |-> "spawn", sid |-> 0, try |-> click[c].at]
  <1>1. RosterTypes /\ WorkSound /\ OneEach /\ HostGone /\ ToldSound
        /\ Roster!ConsolesListed /\ Roster!DetachedOutlive
    BY DEF RosterInv
  <1>2. /\ click[c].at \in {"sent", "sent again"} /\ host = "up"
        /\ click' = [click EXCEPT ![c].at = to] /\ work' = work \cup {w}
        /\ UNCHANGED <<host, tray, procs, roster, reused, trouble>>
    BY DEF Roster!Received, Roster!Goes
  <1>3. click' \in [Clicks -> Requests]
    BY <1>1, <1>2 DEF RosterTypes, Requests, Before
  <1>4. /\ \A d \in Clicks : click'[d].sid = click[d].sid /\ (d # c => click'[d] = click[d])
        /\ click'[c].at = to /\ to \notin Before /\ to # "told"
    BY <1>1, <1>2 DEF RosterTypes, Requests, Before
  <1>5. w \in Threads /\ w.click = c /\ w.at = "spawn" /\ w.sid = 0
    BY <1>2 DEF Threads
  <1>6. \A v \in work : v.click # c
    BY <1>1, <1>2 DEF WorkSound, Before
  <1>7. \A s \in Roster!Consoles : Roster!Running(s) => procs[s].click # c
    BY <1>1, <1>2 DEF OneEach, Before
  <1> HIDE DEF to, w
  <1>8. RosterTypes'
    BY <1>1, <1>2, <1>3, <1>4, <1>5 DEF RosterTypes, Roster!Sids
  <1>9. WorkSound'
    <2>1. Roster!Sids' = Roster!Sids
      BY <1>2 DEF Roster!Sids
    <2>2. ASSUME NEW v \in work PROVE v.click \in Clicks /\ v.click # c /\ click'[v.click] = click[v.click]
      BY <1>1, <1>4, <1>6 DEF RosterTypes, Threads
    <2>3. ASSUME NEW v \in work'
          PROVE  /\ IF v.at = "spawn" THEN v.sid = 0
                    ELSE v.sid \in Roster!Sids' /\ procs'[v.sid].click = v.click
                 /\ click'[v.click].at \notin Before
      BY <1>1, <1>2, <1>4, <1>5, <2>1, <2>2 DEF WorkSound
    <2>4. ASSUME NEW u \in work', NEW v \in work', v.click = u.click PROVE u = v
      BY <1>1, <1>2, <1>5, <1>6, <2>4 DEF WorkSound
    <2> QED BY <2>3, <2>4 DEF WorkSound
  <1>10. OneEach'
    <2>1. \A s \in Roster!Consoles : procs[s].click \in Clicks
      BY <1>1, SidFacts DEF Spawned
    <2>2. /\ Roster!Consoles' = Roster!Consoles
          /\ \A s \in Roster!Consoles : Roster!Running(s)' <=> Roster!Running(s)
      BY <1>2 DEF Roster!Consoles, Roster!Sids, Roster!IsDetached, Roster!Running
    <2>3. ASSUME NEW s \in Roster!Consoles, Roster!Running(s)
          PROVE  /\ click'[procs[s].click].at \notin Before
                 /\ \A v \in work' : v.click = procs[s].click => v.sid = s
      <3>1. procs[s].click # c
        BY <1>7, <2>3
      <3> QED BY <1>1, <1>2, <1>4, <1>5, <2>1, <2>3, <3>1 DEF OneEach
    <2> QED BY <1>1, <1>2, <2>2, <2>3 DEF OneEach
  <1>11. ToldSound'
    <2>1. Roster!Sids' = Roster!Sids /\ \A s : Roster!Running(s)' <=> Roster!Running(s)
      BY <1>2 DEF Roster!Sids, Roster!Running
    <2>2. \A d \in Clicks : click'[d].at = "told" => click'[d] = click[d]
      BY <1>4
    <2>3. ASSUME NEW d \in Clicks, NEW s \in Nat, click'[d].at = "told", click'[d].sid = s
          PROVE  /\ s \in Roster!Sids'
                 /\ Roster!Running(s)' /\ procs'[s].here /\ host' = "up" => s \in roster'
      <3>1. click[d].at = "told" /\ click[d].sid = s
        BY <2>2, <2>3
      <3>2. /\ s \in Roster!Sids
            /\ Roster!Running(s) /\ procs[s].here /\ host = "up" => s \in roster
        BY <1>1, <3>1 DEF ToldSound
      <3> QED BY <1>2, <2>1, <3>2
    <2> QED BY <2>3 DEF ToldSound
  <1>12. HostGone' /\ Roster!ConsolesListed' /\ Roster!DetachedOutlive'
    BY <1>1, <1>2 DEF HostGone, Roster!ConsolesListed, Roster!DetachedOutlive, Roster!Consoles, Roster!Sids,
      Roster!IsDetached, Roster!Running
  <1> QED BY <1>8, <1>9, <1>10, <1>11, <1>12 DEF RosterInv

\* A session is spawned for a thread: the others keep their numbers.
LEMMA SpawnedFacts ==
  ASSUME RosterAssumption, RosterInv, NEW w \in work, Roster!Spawned(w)
  PROVE  LET n == Len(procs) + 1 IN
         /\ procs' \in Seq(Spawned) /\ Len(procs') = n /\ n \notin Roster!Sids /\ n # 0
         /\ Roster!Sids' = Roster!Sids \cup {n}
         /\ procs'[n] = [click |-> w.click, ended |-> "no", here |-> TRUE]
         /\ \A s \in Roster!Sids : procs'[s] = procs[s]
         /\ Roster!Consoles' = Roster!Consoles \cup (IF w.click \in Detached THEN {} ELSE {n})
         /\ \A s \in Roster!Sids : Roster!Running(s)' <=> Roster!Running(s)
  <1> DEFINE n == Len(procs) + 1
             new == [click |-> w.click, ended |-> "no", here |-> TRUE]
  <1>1. RosterTypes /\ procs \in Seq(Spawned) /\ w.click \in Clicks
    BY DEF RosterInv, RosterTypes, Threads
  <1>2. procs' = Append(procs, new) /\ new \in Spawned
    BY <1>1 DEF Roster!Spawned, Spawned
  <1>3. Roster!Sids = 1 .. Len(procs) /\ Len(procs) \in Nat
    BY <1>1, SidFacts
  <1> HIDE DEF new
  <1>4. /\ procs' \in Seq(Spawned) /\ Len(procs') = n /\ procs'[n] = new
        /\ DOMAIN procs' = 1 .. n /\ \A s \in Roster!Sids : procs'[s] = procs[s]
    BY <1>1, <1>2, <1>3
  <1>5. n \notin Roster!Sids /\ n # 0 /\ Roster!Sids' = Roster!Sids \cup {n}
    BY <1>3, <1>4 DEF Roster!Sids
  <1>6. Roster!Consoles' = Roster!Consoles \cup (IF w.click \in Detached THEN {} ELSE {n})
    BY <1>4, <1>5 DEF new, Roster!Consoles, Roster!IsDetached
  <1>7. \A s \in Roster!Sids : Roster!Running(s)' <=> Roster!Running(s)
    BY <1>4 DEF Roster!Running
  <1> QED BY <1>4, <1>5, <1>6, <1>7 DEF new

LEMMA SpawnStep ==
  ASSUME RosterAssumption, RosterInv, NEW w \in work, Roster!Spawn(w)
  PROVE  RosterInv'
  <1> DEFINE n == Len(procs) + 1
             next == [w EXCEPT !.at = "register", !.sid = n]
  <1>1. RosterTypes /\ WorkSound /\ OneEach /\ HostGone /\ ToldSound
        /\ Roster!ConsolesListed /\ Roster!DetachedOutlive
    BY DEF RosterInv
  <1>2. /\ w.at = "spawn" /\ Roster!Spawned(w) /\ work' = (work \ {w}) \cup {next}
        /\ UNCHANGED <<host, tray, click, roster, reused, trouble>>
    BY DEF Roster!Spawn
  <1>3. /\ procs' \in Seq(Spawned) /\ Len(procs') = n /\ n \notin Roster!Sids /\ n # 0
        /\ Roster!Sids' = Roster!Sids \cup {n}
        /\ procs'[n] = [click |-> w.click, ended |-> "no", here |-> TRUE]
        /\ \A s \in Roster!Sids : procs'[s] = procs[s]
        /\ Roster!Consoles' = Roster!Consoles \cup (IF w.click \in Detached THEN {} ELSE {n})
        /\ \A s \in Roster!Sids : Roster!Running(s)' <=> Roster!Running(s)
    BY <1>2, SpawnedFacts
  <1>4. /\ Len(procs) \in Nat /\ Roster!Sids = 1 .. Len(procs) /\ Roster!Consoles \subseteq Roster!Sids
        /\ \A s \in Roster!Sids : procs[s] \in Spawned
    BY <1>1, SidFacts
  <1>5. /\ next \in Threads /\ next.click = w.click /\ next.at = "register" /\ next.sid = n
        /\ w \in Threads /\ w.click \in Clicks /\ w.sid = 0
    <2>1. w \in Threads /\ n \in Nat /\ w.sid = 0
      BY <1>1, <1>2, <1>4 DEF RosterTypes, WorkSound
    <2> HIDE DEF n
    <2> QED BY <2>1 DEF Threads
  <1> HIDE DEF next
  <1>6. procs'[n].click = w.click /\ procs'[n].ended = "no"
    BY <1>3
  <1>7. host \notin {"down", "booting"}
    BY <1>1 DEF HostGone
  <1>8. RosterTypes'
    <2>1. \A c \in Clicks : click[c].sid \in 0 .. n
      BY <1>1, <1>4 DEF RosterTypes
    <2> HIDE DEF n
    <2> QED BY <1>1, <1>2, <1>3, <1>5, <2>1 DEF RosterTypes
  <1>9. WorkSound'
    BY <1>1, <1>2, <1>3, <1>5, <1>6 DEF WorkSound
  <1>10. OneEach'
    <2> SUFFICES ASSUME NEW s \in Roster!Consoles', Roster!Running(s)'
                 PROVE  /\ click[procs'[s].click].at \notin Before
                        /\ \A v \in work' : v.click = procs'[s].click => v.sid = s
                        /\ \A t \in Roster!Consoles' : Roster!Running(t)' /\ procs'[t].click = procs'[s].click
                             => t = s
      BY <1>2 DEF OneEach
    <2>1. ASSUME NEW t \in Roster!Consoles, Roster!Running(t) PROVE procs[t].click # w.click
      BY <1>1, <1>4, <1>5, <2>1 DEF OneEach
    <2>2. click[w.click].at \notin Before
      BY <1>1 DEF WorkSound
    <2>3. CASE s = n
      BY <1>1, <1>2, <1>3, <1>4, <1>5, <1>6, <2>1, <2>2, <2>3 DEF WorkSound
    <2>4. CASE s \in Roster!Consoles
      <3>1. Roster!Running(s) /\ procs'[s] = procs[s] /\ procs[s].click # w.click
        BY <1>3, <1>4, <2>1, <2>4
      <3> QED BY <1>1, <1>2, <1>3, <1>4, <1>5, <1>6, <2>4, <3>1 DEF OneEach
    <2> QED BY <1>3, <2>3, <2>4
  <1>11. ToldSound'
    BY <1>1, <1>2, <1>3 DEF ToldSound
  <1>12. HostGone'
    BY <1>2, <1>7 DEF HostGone
  <1>13. Roster!ConsolesListed'
    BY <1>1, <1>2, <1>3, <1>4, <1>5 DEF Roster!ConsolesListed
  <1>14. Roster!DetachedOutlive'
    BY <1>1, <1>3, <1>6 DEF Roster!DetachedOutlive, Roster!IsDetached
  <1> QED BY <1>8, <1>9, <1>10, <1>11, <1>12, <1>13, <1>14 DEF RosterInv

\* What an answer changes: its own click's request, where that still waits for it.
LEMMA AnswerFacts ==
  ASSUME RosterAssumption, RosterTypes, NEW w \in Threads, NEW to \in {"failed", "told"}, NEW sid \in Nat,
         click' = Roster!Answer(w, to, sid)
  PROVE  /\ click' \in [Clicks -> Requests]
         /\ \A c \in Clicks : c # w.click => click'[c] = click[c]
         /\ \/ click'[w.click] = click[w.click]
            \/ click'[w.click].at = to /\ click'[w.click].sid = sid
  <1>1. w.click \in Clicks
    BY DEF Threads
  <1>2. CASE click' = click
    BY <1>1, <1>2 DEF RosterTypes
  <1>3. CASE click' = [click EXCEPT ![w.click] = [at |-> to, sid |-> sid]]
    <2>1. [at |-> to, sid |-> sid] \in Requests
      BY DEF Requests
    <2>2. click \in [Clicks -> Requests]
      BY DEF RosterTypes
    <2> QED BY <1>1, <1>3, <2>1, <2>2
  <1> QED BY <1>2, <1>3 DEF Roster!Answer

LEMMA SpawnFailsStep ==
  ASSUME RosterAssumption, RosterInv, NEW w \in work, Roster!SpawnFails(w)
  PROVE  RosterInv'
  <1> DEFINE n == Len(procs) + 1
  <1>1. RosterTypes /\ WorkSound /\ OneEach /\ HostGone /\ ToldSound
        /\ Roster!ConsolesListed /\ Roster!DetachedOutlive
    BY DEF RosterInv
  <1>2. /\ w.at = "spawn" /\ Roster!Trouble /\ work' = work \ {w}
        /\ click' = Roster!Answer(w, "failed", 0)
        /\ UNCHANGED <<host, tray, roster, reused>>
    BY DEF Roster!SpawnFails
  <1>3. w \in Threads /\ w.click \in Clicks /\ w.sid = 0 /\ trouble' \in 0 .. MaxTrouble
    <2>1. w \in Threads /\ trouble \in 0 .. MaxTrouble
      BY <1>1 DEF RosterTypes
    <2>2. w.sid = 0
      BY <1>1, <1>2 DEF WorkSound
    <2>3. w.click \in Clicks
      BY <2>1 DEF Threads
    <2>4. trouble' \in 0 .. MaxTrouble
      BY <1>2, <2>1 DEF Roster!Trouble, RosterAssumption
    <2> QED BY <2>1, <2>2, <2>3, <2>4
  <1>4. /\ click' \in [Clicks -> Requests]
        /\ \A c \in Clicks : c # w.click => click'[c] = click[c]
        /\ \/ click'[w.click] = click[w.click]
           \/ click'[w.click].at = "failed" /\ click'[w.click].sid = 0
    BY <1>1, <1>2, <1>3, AnswerFacts
  <1>5. \A c \in Clicks : click[c].at \notin Before => click'[c].at \notin Before
    BY <1>4 DEF Before
  <1>6. /\ Len(procs) \in Nat /\ Roster!Sids = 1 .. Len(procs) /\ Roster!Consoles \subseteq Roster!Sids
        /\ \A s \in Roster!Sids : procs[s] \in Spawned
    BY <1>1, SidFacts
  \* What a window that came up after all adds: nothing a console has to do with.
  <1>7. /\ procs' \in Seq(Spawned) /\ Len(procs') \in Nat /\ Len(procs') >= Len(procs)
        /\ Roster!Sids \subseteq Roster!Sids' /\ Roster!Consoles' = Roster!Consoles
        /\ \A s \in Roster!Sids : procs'[s] = procs[s] /\ (Roster!Running(s)' <=> Roster!Running(s))
        /\ \A s \in Roster!Sids' : s \in Roster!Sids \/ procs'[s].ended = "no"
    <2>1. CASE UNCHANGED procs
      BY <1>1, <1>6, <2>1 DEF RosterTypes, Roster!Sids, Roster!Consoles, Roster!IsDetached, Roster!Running
    <2>2. CASE w.click \in Detached /\ Roster!Spawned(w)
      <3>1. /\ procs' \in Seq(Spawned) /\ Len(procs') = n /\ n \notin Roster!Sids
            /\ Roster!Sids' = Roster!Sids \cup {n}
            /\ procs'[n] = [click |-> w.click, ended |-> "no", here |-> TRUE]
            /\ \A s \in Roster!Sids : procs'[s] = procs[s]
            /\ Roster!Consoles' = Roster!Consoles \cup (IF w.click \in Detached THEN {} ELSE {n})
            /\ \A s \in Roster!Sids : Roster!Running(s)' <=> Roster!Running(s)
        BY <2>2, SpawnedFacts
      <3> QED BY <1>6, <2>2, <3>1
    <2> QED BY <2>1, <2>2 DEF Roster!SpawnFails
  <1>8. RosterTypes'
    <2>1. \A c \in Clicks : click'[c].sid \in 0 .. Len(procs')
      BY <1>1, <1>4, <1>6, <1>7 DEF RosterTypes
    <2> QED BY <1>1, <1>2, <1>3, <1>4, <1>7, <2>1 DEF RosterTypes
  <1>9. WorkSound'
    BY <1>1, <1>2, <1>5, <1>7 DEF WorkSound, RosterTypes, Threads
  <1>10. OneEach'
    <2>1. \A s \in Roster!Consoles : procs[s].click \in Clicks
      BY <1>6 DEF Spawned
    <2> QED BY <1>1, <1>2, <1>5, <1>6, <1>7, <2>1 DEF OneEach
  <1>11. ToldSound'
    BY <1>1, <1>2, <1>4, <1>7 DEF ToldSound
  <1>12. HostGone'
    BY <1>1, <1>2 DEF HostGone
  <1>13. Roster!ConsolesListed'
    <2>1. \A s \in Roster!Consoles : s # w.sid
      BY <1>3, <1>6
    <2> QED BY <1>1, <1>2, <1>6, <1>7, <2>1 DEF Roster!ConsolesListed
  <1>14. Roster!DetachedOutlive'
    BY <1>1, <1>7 DEF Roster!DetachedOutlive, Roster!IsDetached
  <1> QED BY <1>8, <1>9, <1>10, <1>11, <1>12, <1>13, <1>14 DEF RosterInv

LEMMA RegisterStep ==
  ASSUME RosterAssumption, RosterInv, NEW w \in work, Roster!Register(w)
  PROVE  RosterInv'
  <1>1. RosterTypes /\ WorkSound /\ OneEach /\ HostGone /\ ToldSound
        /\ Roster!ConsolesListed /\ Roster!DetachedOutlive
    BY DEF RosterInv
  <1>2. /\ w.at = "register" /\ roster' = roster \cup {w.sid} /\ work' = work \ {w}
        /\ click' = Roster!Answer(w, "told", w.sid)
        /\ UNCHANGED <<host, tray, procs, reused, trouble>>
    BY DEF Roster!Register
  <1>3. w \in Threads /\ w.click \in Clicks /\ w.sid \in Roster!Sids /\ w.sid \in Nat
    BY <1>1, <1>2 DEF RosterTypes, Threads, WorkSound
  <1>4. /\ click' \in [Clicks -> Requests]
        /\ \A c \in Clicks : c # w.click => click'[c] = click[c]
        /\ \/ click'[w.click] = click[w.click]
           \/ click'[w.click].at = "told" /\ click'[w.click].sid = w.sid
    BY <1>1, <1>2, <1>3, AnswerFacts
  <1>5. \A c \in Clicks : click[c].at \notin Before => click'[c].at \notin Before
    BY <1>4 DEF Before
  <1>6. /\ Len(procs) \in Nat /\ Roster!Sids = 1 .. Len(procs) /\ Roster!Consoles \subseteq Roster!Sids
        /\ \A s \in Roster!Sids : procs[s] \in Spawned
    BY <1>1, SidFacts
  <1>7. /\ Roster!Sids' = Roster!Sids /\ Roster!Consoles' = Roster!Consoles
        /\ \A s : Roster!Running(s)' <=> Roster!Running(s)
    BY <1>2 DEF Roster!Sids, Roster!Consoles, Roster!IsDetached, Roster!Running
  <1>8. RosterTypes'
    <2>1. \A c \in Clicks : click'[c].sid \in 0 .. Len(procs)
      BY <1>1, <1>3, <1>4, <1>6 DEF RosterTypes
    <2> QED BY <1>1, <1>2, <1>3, <1>4, <1>7, <2>1 DEF RosterTypes
  <1>9. WorkSound'
    BY <1>1, <1>2, <1>5, <1>7 DEF WorkSound, RosterTypes, Threads
  <1>10. OneEach'
    <2>1. \A s \in Roster!Consoles : procs[s].click \in Clicks
      BY <1>6 DEF Spawned
    <2> QED BY <1>1, <1>2, <1>5, <1>7, <2>1 DEF OneEach
  <1>11. ToldSound'
    <2>1. ASSUME NEW c \in Clicks, NEW s \in Nat, click'[c].at = "told", click'[c].sid = s
          PROVE  /\ s \in Roster!Sids'
                 /\ Roster!Running(s)' /\ procs'[s].here /\ host' = "up" => s \in roster'
      <3>1. CASE click'[c] = click[c]
        BY <1>1, <1>2, <1>7, <2>1, <3>1 DEF ToldSound
      <3>2. CASE click'[c] # click[c]
        BY <1>2, <1>3, <1>4, <1>7, <2>1, <3>2
      <3> QED BY <3>1, <3>2
    <2> QED BY <2>1 DEF ToldSound
  <1>12. HostGone'
    BY <1>1, <1>2 DEF HostGone
  <1>13. Roster!ConsolesListed'
    BY <1>1, <1>2, <1>7 DEF Roster!ConsolesListed
  <1>14. Roster!DetachedOutlive'
    BY <1>1, <1>2, <1>7 DEF Roster!DetachedOutlive, Roster!IsDetached
  <1> QED BY <1>8, <1>9, <1>10, <1>11, <1>12, <1>13, <1>14 DEF RosterInv

\* Sessions that end keep their numbers and their clicks.
LEMMA KeptFacts ==
  ASSUME RosterTypes, NEW after, procs' = [s \in Roster!Sids |-> after[s]],
         \A s \in Roster!Sids : after[s] \in Spawned /\ after[s].click = procs[s].click
  PROVE  /\ procs' \in Seq(Spawned) /\ Len(procs') = Len(procs)
         /\ Roster!Sids' = Roster!Sids /\ Roster!Consoles' = Roster!Consoles
         /\ \A s \in Roster!Sids : procs'[s] = after[s]
  <1>1. Len(procs) \in Nat /\ Roster!Sids = 1 .. Len(procs)
    BY SidFacts
  <1>2. procs' = [s \in 1 .. Len(procs) |-> after[s]] /\ \A s \in 1 .. Len(procs) : after[s] \in Spawned
    BY <1>1
  <1>3. procs' \in Seq(Spawned) /\ Len(procs') = Len(procs)
    BY <1>1, <1>2
  <1>4. Roster!Sids' = Roster!Sids /\ \A s \in Roster!Sids : procs'[s] = after[s]
    BY <1>1, <1>2 DEF Roster!Sids
  <1>5. Roster!Consoles' = Roster!Consoles
    BY <1>4 DEF Roster!Consoles, Roster!IsDetached
  <1> QED BY <1>3, <1>4, <1>5

LEMMA EndedShape ==
  ASSUME NEW sids, NEW how, NEW after, after = Roster!Ended(sids, how)
  PROVE  after = [s \in Roster!Sids |-> after[s]]
  BY DEF Roster!Ended

LEMMA EndedFacts ==
  ASSUME RosterTypes, NEW sids, NEW how \in Endings,
         NEW after, after = Roster!Ended(sids, how)
  PROVE  \A s \in Roster!Sids :
           /\ after[s] \in Spawned /\ after[s].click = procs[s].click /\ after[s].here = procs[s].here
           /\ after[s].ended = "no" <=> procs[s].ended = "no" /\ s \notin sids
           /\ after[s].ended = procs[s].ended \/ (after[s].ended = how /\ s \in sids)
  <1>1. after = [s \in Roster!Sids |-> IF s \in sids /\ procs[s].ended = "no"
                                      THEN [procs[s] EXCEPT !.ended = how] ELSE procs[s]]
    BY DEF Roster!Ended, Roster!Running
  <1>2. ASSUME NEW s \in Roster!Sids
        PROVE  /\ after[s] \in Spawned /\ after[s].click = procs[s].click /\ after[s].here = procs[s].here
               /\ after[s].ended = "no" <=> procs[s].ended = "no" /\ s \notin sids
               /\ after[s].ended = procs[s].ended \/ (after[s].ended = how /\ s \in sids)
    <2>1. procs[s] \in Spawned
      BY SidFacts
    <2>2. CASE s \in sids /\ procs[s].ended = "no"
      <3>1. after[s] = [procs[s] EXCEPT !.ended = how]
        BY <1>1, <2>2
      <3> QED BY <2>1, <2>2, <3>1 DEF Spawned, Endings, OwnEndings
    <2>3. CASE ~(s \in sids /\ procs[s].ended = "no")
      <3>1. after[s] = procs[s]
        BY <1>1, <2>3
      <3> QED BY <2>1, <2>3, <3>1 DEF Spawned, Endings, OwnEndings
    <2> QED BY <2>2, <2>3
  <1> QED BY <1>2

\* Sessions end, or the host goes on to serve what is after: no click and no thread moves.
LEMMA FewerSessionsRun ==
  ASSUME RosterInv,
         host' \in {"down", "booting", "up", "closing"}, tray' \in BOOLEAN, trouble' \in 0 .. MaxTrouble,
         UNCHANGED <<click, work>>, roster' \subseteq roster, reused' \subseteq Roster!Sids,
         procs' \in Seq(Spawned), Len(procs') = Len(procs),
         Roster!Sids' = Roster!Sids, Roster!Consoles' = Roster!Consoles,
         \A s \in Roster!Sids :
           /\ procs'[s].click = procs[s].click /\ procs'[s].here = procs[s].here
           /\ procs'[s].ended = "no" => procs[s].ended = "no"
           /\ s \notin Roster!Consoles => procs'[s].ended # "with the host",
         host' \in {"down", "booting"} => host \in {"down", "booting"},
         \A s \in Roster!Sids :
           procs'[s].ended = "no" /\ host' = "up" /\ (procs[s].here \/ s \in Roster!Consoles)
             => host = "up" /\ (s \in roster => s \in roster')
  PROVE  RosterInv'
  <1>1. RosterTypes /\ WorkSound /\ OneEach /\ HostGone /\ ToldSound
        /\ Roster!ConsolesListed /\ Roster!DetachedOutlive
    BY DEF RosterInv
  <1>2. Roster!Consoles \subseteq Roster!Sids
    BY <1>1, SidFacts
  <1>3. RosterTypes'
    BY <1>1 DEF RosterTypes
  <1>4. WorkSound'
    BY <1>1 DEF WorkSound
  <1>5. OneEach'
    <2>1. \A s \in Roster!Consoles : Roster!Running(s)' => Roster!Running(s)
      BY <1>2 DEF Roster!Running
    <2>2. \A s \in Roster!Consoles : procs'[s].click = procs[s].click
      BY <1>2
    <2>3. ASSUME NEW s \in Roster!Consoles, Roster!Running(s)'
          PROVE  /\ click[procs'[s].click].at \notin Before
                 /\ \A w \in work : w.click = procs'[s].click => w.sid = s
                 /\ \A t \in Roster!Consoles : Roster!Running(t)' /\ procs'[t].click = procs'[s].click => t = s
      <3>1. Roster!Running(s) /\ procs'[s].click = procs[s].click
        BY <2>1, <2>2, <2>3
      <3> QED BY <1>1, <2>1, <2>2, <3>1 DEF OneEach
    <2> QED BY <2>3 DEF OneEach
  <1>6. HostGone'
    BY <1>1, <1>2 DEF HostGone, Roster!Running
  <1>7. ToldSound'
    BY <1>1 DEF ToldSound, Roster!Running
  <1>8. Roster!ConsolesListed'
    BY <1>1, <1>2 DEF Roster!ConsolesListed, Roster!Running
  <1>9. Roster!DetachedOutlive'
    <2>1. ASSUME NEW s \in Roster!Sids', Roster!IsDetached(s)' PROVE s \notin Roster!Consoles
      BY <2>1 DEF Roster!Consoles, Roster!IsDetached
    <2> QED BY <2>1 DEF Roster!DetachedOutlive
  <1> QED BY <1>3, <1>4, <1>5, <1>6, <1>7, <1>8, <1>9 DEF RosterInv

LEMMA SessionEnds ==
  ASSUME RosterAssumption, RosterInv, NEW who, NEW end \in OwnEndings,
         procs' = Roster!Ended(who, end), UNCHANGED <<host, tray, click, work, roster>>,
         reused' \subseteq Roster!Sids, trouble' = trouble \/ Roster!Trouble
  PROVE  RosterInv'
  <1>1. RosterTypes /\ Roster!DetachedOutlive
    BY DEF RosterInv
  <1>2. PICK after : after = Roster!Ended(who, end) /\ end \in Endings
    BY DEF Endings
  <1>3. procs' = after /\ after = [s \in Roster!Sids |-> after[s]]
    BY <1>2, EndedShape
  <1>4. \A s \in Roster!Sids :
          /\ after[s] \in Spawned /\ after[s].click = procs[s].click /\ after[s].here = procs[s].here
          /\ after[s].ended = "no" <=> procs[s].ended = "no" /\ s \notin who
          /\ after[s].ended = procs[s].ended \/ (after[s].ended = end /\ s \in who)
    BY <1>1, <1>2, EndedFacts
  <1>5. /\ procs' \in Seq(Spawned) /\ Len(procs') = Len(procs)
        /\ Roster!Sids' = Roster!Sids /\ Roster!Consoles' = Roster!Consoles
        /\ \A t \in Roster!Sids : procs'[t] = after[t]
    <2>1. procs' = [t \in Roster!Sids |-> after[t]]
      BY <1>3
    <2> QED BY <1>1, <1>4, <2>1, KeptFacts
  <1>6. trouble' \in 0 .. MaxTrouble /\ reused' \subseteq Roster!Sids
    <2>1. trouble \in 0 .. MaxTrouble
      BY <1>1 DEF RosterTypes
    <2> QED BY <1>1, <2>1, TroubleBounded
  <1>7. ASSUME NEW t \in Roster!Sids, t \notin Roster!Consoles PROVE procs'[t].ended # "with the host"
    <2>1. procs[t].ended # "with the host"
      BY <1>1, <1>7 DEF Roster!DetachedOutlive, Roster!Consoles
    <2> QED BY <1>4, <1>5, <2>1 DEF OwnEndings
  <1>8. host' \in {"down", "booting", "up", "closing"} /\ tray' \in BOOLEAN
    BY <1>1 DEF RosterTypes
  <1> QED BY <1>4, <1>5, <1>6, <1>7, <1>8, FewerSessionsRun

LEMMA SessionSteps ==
  ASSUME RosterAssumption, RosterInv, NEW s \in Roster!Sids, Roster!Exits(s) \/ Roster!Stop(s)
  PROVE  RosterInv'
  <1>1. reused' \subseteq Roster!Sids
    BY DEF RosterInv, RosterTypes, Roster!Exits, Roster!Stop
  <1>2. CASE Roster!Exits(s)
    BY <1>1, <1>2, SessionEnds DEF Roster!Exits, OwnEndings
  <1>3. CASE Roster!Stop(s)
    BY <1>1, <1>3, SessionEnds DEF Roster!Stop, OwnEndings
  <1> QED BY <1>2, <1>3

LEMMA ReapStep == ASSUME RosterInv, Roster!ReapDead PROVE RosterInv'
  <1>1. RosterTypes /\ Roster!DetachedOutlive
    BY DEF RosterInv
  <1>2. /\ host = "up" /\ roster' = roster \ Roster!Dead
        /\ UNCHANGED <<host, tray, click, work, procs, reused, trouble>>
    BY DEF Roster!ReapDead
  <1>3. /\ procs' \in Seq(Spawned) /\ Len(procs') = Len(procs)
        /\ Roster!Sids' = Roster!Sids /\ Roster!Consoles' = Roster!Consoles
    BY <1>1, <1>2 DEF RosterTypes, Roster!Sids, Roster!Consoles, Roster!IsDetached
  <1>4. ASSUME NEW s \in Roster!Sids, procs'[s].ended = "no", s \in roster PROVE s \in roster'
    BY <1>2, <1>4 DEF Roster!Dead, Roster!LooksAlive, Roster!Running
  <1>5. ASSUME NEW t \in Roster!Sids, t \notin Roster!Consoles PROVE procs'[t].ended # "with the host"
    BY <1>1, <1>2, <1>5 DEF Roster!DetachedOutlive, Roster!Consoles
  <1>6. /\ host' \in {"down", "booting", "up", "closing"} /\ tray' \in BOOLEAN
        /\ trouble' \in 0 .. MaxTrouble /\ reused' \subseteq Roster!Sids
    BY <1>1, <1>2 DEF RosterTypes
  <1>7. roster' \subseteq roster
    BY <1>2
  <1>8. \A s \in Roster!Sids : procs'[s] = procs[s]
    BY <1>2
  <1> QED BY <1>2, <1>3, <1>4, <1>5, <1>6, <1>7, <1>8, FewerSessionsRun

LEMMA ShutdownStep == ASSUME RosterAssumption, RosterInv, Roster!Shutdown PROVE RosterInv'
  <1>1. RosterTypes /\ Roster!DetachedOutlive
    BY DEF RosterInv
  <1>2. /\ host = "up" /\ Roster!Trouble /\ host' = "closing" /\ roster' = {}
        /\ procs' = Roster!Ended(Roster!KilledAtShutdown, "with the host")
        /\ UNCHANGED <<tray, click, work, reused>>
    BY DEF Roster!Shutdown
  <1>3. PICK end, after : /\ end \in Endings /\ end = "with the host" /\ procs' = after
                          /\ after = Roster!Ended(Roster!KilledAtShutdown, end)
    BY <1>2 DEF Endings
  <1>4. end \in Endings /\ procs' = after /\ after = Roster!Ended(Roster!KilledAtShutdown, end)
    BY <1>3
  <1>5. after = [t \in Roster!Sids |-> after[t]]
    BY <1>4, EndedShape
  <1>6. \A t \in Roster!Sids :
          /\ after[t] \in Spawned /\ after[t].click = procs[t].click /\ after[t].here = procs[t].here
          /\ after[t].ended = "no" <=> procs[t].ended = "no" /\ t \notin Roster!KilledAtShutdown
          /\ after[t].ended = procs[t].ended
             \/ (after[t].ended = end /\ t \in Roster!KilledAtShutdown)
    BY <1>1, <1>4, EndedFacts
  <1>7. /\ procs' \in Seq(Spawned) /\ Len(procs') = Len(procs)
        /\ Roster!Sids' = Roster!Sids /\ Roster!Consoles' = Roster!Consoles
        /\ \A t \in Roster!Sids : procs'[t] = after[t]
    <2>1. procs' = [t \in Roster!Sids |-> after[t]]
      BY <1>4, <1>5
    <2> QED BY <1>1, <1>6, <2>1, KeptFacts
  <1>8. trouble' \in 0 .. MaxTrouble /\ tray' \in BOOLEAN /\ reused' \subseteq Roster!Sids
    <2>1. tray \in BOOLEAN /\ trouble \in 0 .. MaxTrouble /\ reused \subseteq Roster!Sids
      BY <1>1 DEF RosterTypes
    <2>2. trouble' \in 0 .. MaxTrouble
      BY <1>1, <1>2, TroubleBounded
    <2> QED BY <1>2, <2>1, <2>2
  <1>9. ASSUME NEW t \in Roster!Sids, t \notin Roster!Consoles PROVE procs'[t].ended # "with the host"
    <2>1. procs[t].ended # "with the host" /\ t \notin Roster!KilledAtShutdown
      BY <1>1, <1>9 DEF Roster!DetachedOutlive, Roster!Consoles, Roster!KilledAtShutdown
    <2> QED BY <1>6, <1>7, <2>1
  <1> QED BY <1>2, <1>6, <1>7, <1>8, <1>9, FewerSessionsRun

\* The process is over: whatever the connections it had open come to.
LEMMA HostEndsStep ==
  ASSUME RosterInv, Roster!HostEnds, tray' \in BOOLEAN, trouble' \in 0 .. MaxTrouble, reused' = reused
  PROVE  RosterInv'
  <1>1. RosterTypes /\ ToldSound /\ Roster!DetachedOutlive
    BY DEF RosterInv
  <1>2. PICK end, closed : /\ end \in Endings /\ end = "with the host"
                           /\ closed = Roster!Ended(Roster!Consoles, "with the host")
                           /\ closed = Roster!Ended(Roster!Consoles, end)
    BY DEF Endings
  <1>3. end \in Endings /\ closed = Roster!Ended(Roster!Consoles, end)
    BY <1>2
  <1> DEFINE after == [s \in Roster!Sids |-> [closed[s] EXCEPT !.here = FALSE]]
  <1>4. /\ host' = "down" /\ work' = {} /\ roster' = {} /\ procs' = after
        /\ click' = [c \in Clicks |-> IF Roster!Waiting(c)
                                      THEN [click[c] EXCEPT !.at = Roster!Dropped(@)] ELSE click[c]]
    BY <1>2 DEF Roster!HostEnds
  <1>5. \A t \in Roster!Sids :
          /\ closed[t] \in Spawned /\ closed[t].click = procs[t].click /\ closed[t].here = procs[t].here
          /\ closed[t].ended = "no" <=> procs[t].ended = "no" /\ t \notin Roster!Consoles
          /\ closed[t].ended = procs[t].ended \/ (closed[t].ended = end /\ t \in Roster!Consoles)
    BY <1>1, <1>3, EndedFacts
  <1>6. \A t \in Roster!Sids : after[t] \in Spawned /\ after[t].click = procs[t].click /\ after[t].here = FALSE
                               /\ after[t].ended = closed[t].ended
    <2> SUFFICES ASSUME NEW t \in Roster!Sids
                 PROVE  after[t] \in Spawned /\ after[t].click = procs[t].click /\ after[t].here = FALSE
                        /\ after[t].ended = closed[t].ended
      OBVIOUS
    <2>1. after[t] = [closed[t] EXCEPT !.here = FALSE] /\ closed[t] \in Spawned
      BY <1>5
    <2> HIDE DEF after
    <2> QED BY <1>5, <2>1 DEF Spawned
  <1>7. after = [t \in Roster!Sids |-> after[t]]
    OBVIOUS
  <1> HIDE DEF after
  <1>8. /\ procs' \in Seq(Spawned) /\ Len(procs') = Len(procs)
        /\ Roster!Sids' = Roster!Sids /\ Roster!Consoles' = Roster!Consoles
        /\ \A t \in Roster!Sids : procs'[t] = after[t]
    <2>1. procs' = [t \in Roster!Sids |-> after[t]]
      BY <1>4, <1>7
    <2> QED BY <1>1, <1>6, <2>1, KeptFacts
  <1>9. ASSUME NEW c \in Clicks
        PROVE  /\ click'[c] \in Requests /\ click'[c].sid = click[c].sid
               /\ click'[c].at = "told" => click[c].at = "told"
    <2>1. click[c] \in Requests
      BY <1>1 DEF RosterTypes
    <2>2. CASE Roster!Waiting(c)
      <3>1. Roster!Dropped(click[c].at) \in {"sent again", "failed"}
        BY <2>2 DEF Roster!Waiting, Roster!Dropped
      <3>2. click'[c] = [click[c] EXCEPT !.at = Roster!Dropped(click[c].at)]
        BY <1>4, <2>2
      <3> QED BY <2>1, <3>1, <3>2 DEF Requests
    <2>3. CASE ~Roster!Waiting(c)
      <3>1. click'[c] = click[c]
        BY <1>4, <2>3
      <3> QED BY <2>1, <3>1 DEF Requests
    <2> QED BY <2>2, <2>3
  <1>10. click' \in [Clicks -> Requests]
    <2>1. click' = [c \in Clicks |-> click'[c]]
      BY <1>4
    <2> QED BY <1>9, <2>1
  <1>11. RosterTypes'
    BY <1>1, <1>4, <1>8, <1>9, <1>10 DEF RosterTypes
  <1>12. WorkSound' /\ Roster!ConsolesListed'
    BY <1>4 DEF WorkSound, Roster!ConsolesListed
  <1>13. \A s \in Roster!Consoles' : ~Roster!Running(s)'
    BY <1>1, <1>5, <1>6, <1>8, SidFacts DEF Roster!Running
  <1>14. OneEach'
    BY <1>13 DEF OneEach
  <1>15. HostGone'
    BY <1>4, <1>6, <1>8, <1>13 DEF HostGone
  <1>16. ToldSound'
    BY <1>1, <1>4, <1>8, <1>9 DEF ToldSound
  <1>17. Roster!DetachedOutlive'
    <2> SUFFICES ASSUME NEW t \in Roster!Sids, Roster!IsDetached(t)' PROVE procs'[t].ended # "with the host"
      BY <1>8 DEF Roster!DetachedOutlive
    <2>1. procs'[t].click = procs[t].click
      BY <1>6, <1>8
    <2>2. Roster!IsDetached(t)
      BY <2>1 DEF Roster!IsDetached
    <2>3. t \notin Roster!Consoles /\ procs[t].ended # "with the host"
      BY <1>1, <2>2 DEF Roster!DetachedOutlive, Roster!Consoles
    <2> QED BY <1>5, <1>6, <1>8, <2>3
  <1> QED BY <1>11, <1>12, <1>14, <1>15, <1>16, <1>17 DEF RosterInv

\* The tray starts or ends and leaves the host as it is, or the host comes up.
LEMMA HostStays ==
  ASSUME RosterInv, UNCHANGED <<click, work, procs, roster, reused>>,
         tray' \in BOOLEAN, trouble' \in 0 .. MaxTrouble,
         \/ host' = host
         \/ host = "down" /\ host' = "booting"
         \/ host = "booting" /\ host' = "up"
  PROVE  RosterInv'
  <1>1. RosterTypes /\ HostGone /\ Roster!DetachedOutlive
    BY DEF RosterInv
  <1>2. Roster!Sids' = Roster!Sids /\ Roster!Consoles' = Roster!Consoles
    BY DEF Roster!Sids, Roster!Consoles, Roster!IsDetached
  <1>3. /\ procs' \in Seq(Spawned) /\ Len(procs') = Len(procs)
        /\ reused' \subseteq Roster!Sids /\ host' \in {"down", "booting", "up", "closing"}
    BY <1>1 DEF RosterTypes
  <1>4. ASSUME NEW t \in Roster!Sids, t \notin Roster!Consoles PROVE procs'[t].ended # "with the host"
    BY <1>1, <1>4 DEF Roster!DetachedOutlive, Roster!Consoles
  <1>5. ASSUME NEW s \in Roster!Sids, procs'[s].ended = "no", host' = "up",
               procs[s].here \/ s \in Roster!Consoles
        PROVE  host = "up"
    BY <1>1, <1>5 DEF HostGone, Roster!Running
  <1>6. \A s \in Roster!Sids : procs'[s] = procs[s]
    OBVIOUS
  <1> QED BY <1>2, <1>3, <1>4, <1>5, <1>6, FewerSessionsRun

LEMMA RosterStep ==
  ASSUME RosterAssumption
  PROVE  RosterInv /\ [Roster!Next]_(Roster!vars) => RosterInv'
  <1> SUFFICES ASSUME RosterInv, [Roster!Next]_(Roster!vars) PROVE RosterInv'
    OBVIOUS
  <1>1. tray \in BOOLEAN /\ trouble \in 0 .. MaxTrouble
    BY DEF RosterInv, RosterTypes
  <1>2. Roster!Trouble => trouble' \in 0 .. MaxTrouble
    BY <1>1 DEF Roster!Trouble, RosterAssumption
  <1>3. ASSUME NEW c \in Clicks,
               Roster!Click(c) \/ Roster!Received(c) \/ Roster!NotReceived(c) \/ Roster!TimesOut(c)
        PROVE  RosterInv'
    BY <1>3, RequestSteps, ReceivedStep
  <1>4. ASSUME NEW w \in work, Roster!Spawn(w) \/ Roster!SpawnFails(w) \/ Roster!Register(w)
        PROVE  RosterInv'
    BY <1>4, SpawnStep, SpawnFailsStep, RegisterStep
  <1>5. ASSUME NEW s \in Roster!Sids, Roster!Exits(s) \/ Roster!Stop(s) PROVE RosterInv'
    BY <1>5, SessionSteps
  <1>6. CASE Roster!ReapDead
    BY <1>6, ReapStep
  <1>7. CASE Roster!HostDies
    BY <1>1, <1>2, <1>7, HostEndsStep DEF Roster!HostDies
  <1>8. CASE Roster!Shutdown
    BY <1>8, ShutdownStep
  <1>9. CASE Roster!Exit
    BY <1>1, <1>9, HostEndsStep DEF Roster!Exit
  <1>10. CASE Roster!TrayStarts
    BY <1>1, <1>10, HostStays DEF Roster!TrayStarts
  <1>11. CASE Roster!Boots
    BY <1>1, <1>11, HostStays DEF Roster!Boots
  <1>12. CASE Roster!TrayEnds
    <2>1. tray' \in BOOLEAN /\ trouble' \in 0 .. MaxTrouble /\ reused' = reused
      BY <1>2, <1>12 DEF Roster!TrayEnds
    <2>2. CASE UNCHANGED <<host, click, work, procs, roster>>
      BY <2>1, <2>2, HostStays
    <2>3. CASE Roster!HostEnds
      BY <2>1, <2>3, HostEndsStep
    <2> QED BY <1>12, <2>2, <2>3 DEF Roster!TrayEnds
  <1>13. CASE UNCHANGED (Roster!vars)
    <2>1. UNCHANGED <<host, tray, click, work, procs, roster, reused, trouble>>
      BY <1>13 DEF Roster!vars
    <2> QED BY <1>1, <2>1, HostStays
  <1> QED BY <1>3, <1>4, <1>5, <1>6, <1>7, <1>8, <1>9, <1>10, <1>11, <1>12, <1>13 DEF Roster!Next

LEMMA RosterMeans == ASSUME RosterInv PROVE Roster!TypeOK /\ Roster!RosterSound
  <1>1. RosterTypes /\ OneEach /\ ToldSound /\ Roster!ConsolesListed /\ Roster!DetachedOutlive
    BY DEF RosterInv
  <1>2. \A s \in Roster!Sids : procs[s] \in Spawned
    BY <1>1, SidFacts
  <1>3. \A c \in Clicks : click[c] \in Requests
    BY <1>1 DEF RosterTypes
  <1>4. Roster!TypeOK
    <2>1. \A c \in Clicks :
            click[c].at \in {"idle", "sent", "awaited", "sent again", "awaited again", "told", "failed", "gave up"}
      BY <1>3 DEF Requests
    <2>2. \A s \in Roster!Sids : procs[s].click \in Clicks /\ procs[s].here \in BOOLEAN
            /\ procs[s].ended \in {"no", "exited", "stopped", "with the host"}
      BY <1>2 DEF Spawned, Endings, OwnEndings
    <2> QED BY <1>1, <2>1, <2>2 DEF RosterTypes, Roster!TypeOK
  <1>5. Roster!ToldIsListed
    <2>1. \A c \in Clicks : click[c].sid \in Nat
      BY <1>3 DEF Requests
    <2> QED BY <1>1, <2>1 DEF ToldSound, Roster!ToldIsListed
  <1>6. ASSUME NEW c \in Clicks \ Detached
        PROVE  Cardinality({s \in Roster!Sids : procs[s].click = c /\ Roster!Running(s)}) <= 1
    <2> DEFINE mine == {s \in Roster!Sids : procs[s].click = c /\ Roster!Running(s)}
    <2>1. \A s, t \in mine : t = s
      <3>1. \A s \in mine : s \in Roster!Consoles
        BY DEF Roster!Consoles, Roster!IsDetached
      <3> QED BY <1>1, <3>1 DEF OneEach
    <2>2. mine = {} \/ \E s : mine = {s}
      BY <2>1
    <2> HIDE DEF mine
    <2>3. Cardinality(mine) <= 1
      <3>1. CASE mine = {}
        BY <3>1, FS_EmptySet
      <3>2. CASE \E s : mine = {s}
        <4>1. PICK s : mine = {s}
          BY <3>2
        <4>2. Cardinality(mine) = 1
          BY <4>1, FS_Singleton
        <4> QED BY <4>2
      <3> QED BY <2>2, <3>1, <3>2
    <2> QED BY <2>3 DEF mine
  <1>7. Roster!OneConsolePerClick
    BY <1>6 DEF Roster!OneConsolePerClick, Roster!Cardinality, Cardinality
  <1> QED BY <1>1, <1>4, <1>5, <1>7 DEF Roster!RosterSound

\* The page finds what it started: while the host serves, a console session that runs is
\* listed or about to be, a session it was told of stays in the list as long as it runs,
\* one click starts one console however often its request is dropped or given up on, and
\* no end of the host ends a detached window (session_client, create_session, reap_dead,
\* shutdown).
THEOREM RosterSoundAlways ==
  ASSUME RosterAssumption
  PROVE  Roster!Spec => [](Roster!TypeOK /\ Roster!RosterSound)
<1>1. Roster!Init => RosterInv
  BY RosterInit
<1>2. RosterInv /\ [Roster!Next]_(Roster!vars) => RosterInv'
  BY RosterStep
<1>3. RosterInv => Roster!TypeOK /\ Roster!RosterSound
  BY RosterMeans
<1> QED BY <1>1, <1>2, <1>3, PTL DEF Roster!Spec

-----------------------------------------------------------------------------
(* What is typed into a terminal. *)

\* A text takes a write at least, and an agent that takes one in is never as silent as the
\* settling takes it to be done.
InputAssumption ==
  Floor \in Nat /\ Quiet \in Nat /\ Quiet > 1 /\ Cap \in Nat /\ Chunks \in Nat /\ Chunks > 0

Typists ==
  [does : {"idle", "write", "settle", "return", "delivered", "refused"}, what : Input!Kinds,
   left : 0 .. Chunks, age : 0 .. Cap, echoed : BOOLEAN]
InputTypes ==
  /\ sender \in [Senders -> Typists] /\ ingesting \in [Senders -> 0 .. Chunks]
  /\ silence \in 0 .. Quiet /\ composer \subseteq Senders /\ submitted \subseteq Senders
  /\ agent \in {"runs", "ended", "seen"} /\ spoiled \in BOOLEAN

\* What a sender's step says of its text.
TextWritten(s) ==
  /\ sender[s].left + ingesting[s] <= Chunks
  /\ sender[s].what = "short" => ingesting[s] = 0
  /\ sender[s].does = "idle" => ingesting[s] = 0 /\ ~sender[s].echoed
  /\ sender[s].does = "settle" => sender[s].what = "bulk"
  /\ sender[s].does = "return" => sender[s].what # "draft"
  /\ sender[s].echoed => sender[s].age > 0
  /\ \/ sender[s].does \in {"settle", "return", "delivered"}
     \/ sender[s].does = "write" /\ sender[s].left = 0
     => s \in composer \cup submitted

\* Somebody whose return is still to come.
Coming(s) == sender[s].what # "draft" /\ sender[s].does \in {"write", "settle", "return"}

\* While nothing went wrong: a sender that has seen its echo, and still has text to be taken
\* in, saw it a moment ago; a return goes out, or went, with its own text taken in; and one that was
\* read as text has another to come after it, which runs what it left.
ReturnsCount(s) ==
  /\ sender[s].does # "refused"
  /\ sender[s].does = "settle" /\ sender[s].echoed /\ ingesting[s] > 0 => silence <= 1
  /\ sender[s].does \in {"return", "delivered"} /\ sender[s].what # "draft" => ingesting[s] = 0
  /\ sender[s].does = "delivered" /\ sender[s].what # "draft" =>
       s \in submitted \/ \E d \in Senders : Coming(d)

InputInv ==
  /\ InputTypes
  /\ \A s \in Senders : TextWritten(s)
  /\ agent = "runs" => \A s \in Senders : sender[s].does # "refused"
  /\ agent = "runs" /\ ~spoiled => \A s \in Senders : ReturnsCount(s)

LEMMA InputInit == ASSUME InputAssumption, Input!Init PROVE InputInv
  <1>1. /\ silence = Quiet /\ sender = [s \in Senders |-> Input!Idle]
        /\ composer = {} /\ ingesting = [s \in Senders |-> 0] /\ submitted = {}
        /\ agent = "runs" /\ spoiled = FALSE
    BY DEF Input!Init
  <1>2. Input!Idle \in Typists
    BY DEF Input!Idle, Typists, Input!Kinds, InputAssumption
  <1>3. InputTypes
    <2>1. sender \in [Senders -> Typists] /\ ingesting \in [Senders -> 0 .. Chunks]
      <3>1. 0 \in 0 .. Chunks
        BY DEF InputAssumption
      <3> QED BY <1>1, <1>2, <3>1
    <2>2. silence \in 0 .. Quiet
      BY <1>1 DEF InputAssumption
    <2> QED BY <1>1, <2>1, <2>2 DEF InputTypes
  <1>4. ASSUME NEW s \in Senders
        PROVE  /\ sender[s].does = "idle" /\ sender[s].left = 0 /\ ~sender[s].echoed /\ ingesting[s] = 0
    BY <1>1 DEF Input!Idle
  <1>5. \A s \in Senders : TextWritten(s)
    BY <1>4 DEF TextWritten, InputAssumption
  <1>6. \A s \in Senders : ReturnsCount(s)
    BY <1>4 DEF ReturnsCount
  <1> QED BY <1>3, <1>4, <1>5, <1>6 DEF InputInv

\* One sender's record after another: what the changes of one mean for the others.
LEMMA OneSender ==
  ASSUME InputAssumption, InputInv, NEW s \in Senders, NEW after \in Typists,
         sender' = [sender EXCEPT ![s] = after], ingesting' \in [Senders -> 0 .. Chunks],
         \A t \in Senders \ {s} : ingesting'[t] = ingesting[t],
         composer' \in SUBSET Senders, submitted' = submitted, composer \subseteq composer',
         silence' = silence, agent' = agent, spoiled' \in BOOLEAN, spoiled => spoiled',
         TextWritten(s)', after.does = "refused" => agent # "runs",
         agent = "runs" /\ ~spoiled' => ReturnsCount(s)',
         agent = "runs" /\ ~spoiled' /\ Coming(s) => \E d \in Senders : Coming(d)'
  PROVE  InputInv'
  <1>1. InputTypes
    BY DEF InputInv
  <1>2. InputTypes'
    BY <1>1 DEF InputTypes
  <1>3. sender'[s] = after /\ \A t \in Senders \ {s} : sender'[t] = sender[t]
    BY <1>1 DEF InputTypes
  <1>4. \A t \in Senders : TextWritten(t)'
    BY <1>3 DEF InputInv, TextWritten
  <1>5. agent' = "runs" => \A t \in Senders : sender'[t].does # "refused"
    BY <1>3 DEF InputInv
  <1>6. ASSUME agent' = "runs", ~spoiled', NEW t \in Senders, t # s PROVE ReturnsCount(t)'
    <2>1. agent = "runs" /\ ~spoiled /\ ReturnsCount(t)
      BY <1>6 DEF InputInv
    <2>2. ASSUME NEW d \in Senders, Coming(d) PROVE \E e \in Senders : Coming(e)'
      <3>1. CASE d = s
        BY <1>6, <2>2, <3>1
      <3>2. CASE d # s
        <4>1. Coming(d)'
          BY <1>3, <2>2, <3>2 DEF Coming
        <4> QED BY <4>1
      <3> QED BY <3>1, <3>2
    <2> QED BY <1>3, <1>6, <2>1, <2>2 DEF ReturnsCount
  <1>7. agent' = "runs" /\ ~spoiled' => \A t \in Senders : ReturnsCount(t)'
    BY <1>6
  <1> QED BY <1>2, <1>4, <1>5, <1>7 DEF InputInv

LEMMA BeginStep ==
  ASSUME InputAssumption, InputInv, NEW s \in Senders, NEW kind \in Input!Kinds, Input!Begin(s, kind)
  PROVE  InputInv'
  <1> DEFINE some == IF kind = "short" THEN 1 ELSE Chunks
             after == [Input!Idle EXCEPT !.does = "write", !.what = kind,
                                         !.left = IF kind = "short" THEN 1 ELSE Chunks]
  <1>1. InputTypes /\ TextWritten(s)
    BY DEF InputInv
  <1>2. /\ sender[s].does = "idle" /\ sender' = [sender EXCEPT ![s] = after]
        /\ UNCHANGED <<composer, ingesting, submitted, silence, agent, spoiled>>
    BY DEF Input!Begin, Input!Does, Input!Unchanged
  <1>3. some \in 1 .. Chunks /\ some \in 0 .. Chunks
    BY DEF InputAssumption
  <1>4. /\ after \in Typists /\ after.does = "write" /\ after.left = some /\ ~after.echoed
    <2>1. /\ Input!Idle \in Typists /\ Input!Idle.echoed = FALSE
      BY DEF Input!Idle, Typists, Input!Kinds, InputAssumption
    <2> DEFINE idle == Input!Idle
    <2>2. /\ idle \in Typists /\ ~idle.echoed
      BY <2>1
    <2> HIDE DEF idle
    <2>3. [idle EXCEPT !.does = "write", !.what = kind, !.left = some] \in Typists
      BY <1>3, <2>2 DEF Typists
    <2>4. \A r : r = [idle EXCEPT !.does = "write", !.what = kind, !.left = some] =>
                  r.does = "write" /\ r.left = some /\ ~r.echoed
      BY <2>2 DEF Typists
    <2>5. after = [idle EXCEPT !.does = "write", !.what = kind, !.left = some]
      BY DEF idle
    <2> HIDE DEF after
    <2> QED BY <2>3, <2>4, <2>5
  <1> HIDE DEF after
  <1>5. ingesting[s] = 0
    BY <1>1, <1>2 DEF TextWritten
  <1>6. /\ sender'[s].does = "write" /\ sender'[s].left = some /\ ~sender'[s].echoed
    BY <1>1, <1>2, <1>4 DEF InputTypes
  <1>7. TextWritten(s)'
    BY <1>2, <1>3, <1>5, <1>6 DEF TextWritten, InputAssumption
  <1>8. ReturnsCount(s)'
    BY <1>6 DEF ReturnsCount
  <1>9. ~Coming(s)
    BY <1>2 DEF Coming
  <1>10. /\ ingesting' \in [Senders -> 0 .. Chunks] /\ composer' \in SUBSET Senders /\ spoiled' \in BOOLEAN
    BY <1>1, <1>2 DEF InputTypes
  <1>11. after.does # "refused"
    BY <1>4
  <1> QED BY <1>2, <1>4, <1>7, <1>8, <1>9, <1>10, <1>11, OneSender

LEMMA RefusedStep ==
  ASSUME InputAssumption, InputInv, NEW s \in Senders, Input!Refused(s)
  PROVE  InputInv'
  <1> DEFINE after == [sender[s] EXCEPT !.does = "refused"]
  <1>1. InputTypes /\ TextWritten(s) /\ sender[s] \in Typists
    BY DEF InputInv, InputTypes
  <1>2. /\ agent = "seen" /\ sender' = [sender EXCEPT ![s] = after]
        /\ UNCHANGED <<composer, ingesting, submitted, silence, agent, spoiled>>
    BY DEF Input!Refused, Input!Goes, Input!Unchanged
  <1>3. after \in Typists /\ sender'[s] = after
    BY <1>1, <1>2 DEF Typists, InputTypes
  <1>4. /\ sender'[s].does = "refused" /\ sender'[s].what = sender[s].what /\ sender'[s].left = sender[s].left
        /\ sender'[s].echoed = sender[s].echoed /\ sender'[s].age = sender[s].age
    BY <1>1, <1>3 DEF Typists
  <1>5. TextWritten(s)'
    BY <1>1, <1>2, <1>4 DEF TextWritten
  <1>6. /\ ingesting' \in [Senders -> 0 .. Chunks] /\ composer' \in SUBSET Senders /\ spoiled' \in BOOLEAN
    BY <1>1, <1>2 DEF InputTypes
  <1> HIDE DEF after
  <1> QED BY <1>2, <1>3, <1>5, <1>6, OneSender

LEMMA WriteStep ==
  ASSUME InputAssumption, InputInv, NEW s \in Senders, Input!WriteChunk(s)
  PROVE  InputInv'
  <1> DEFINE after == [sender[s] EXCEPT !.left = sender[s].left - 1]
             more == IF sender[s].what = "short" THEN 0 ELSE ingesting[s] + 1
  <1>1. InputTypes /\ TextWritten(s) /\ sender[s] \in Typists /\ ingesting[s] \in 0 .. Chunks
    BY DEF InputInv, InputTypes
  <1>2. /\ sender[s].does = "write" /\ sender[s].left > 0
        /\ sender' = [sender EXCEPT ![s] = after] /\ ingesting' = [ingesting EXCEPT ![s] = more]
        /\ composer' = composer \cup {s} /\ UNCHANGED <<submitted, silence, agent, spoiled>>
    BY DEF Input!WriteChunk, Input!Does
  <1>3. sender[s].left \in 1 .. Chunks /\ more \in 0 .. Chunks /\ more + (sender[s].left - 1) <= Chunks
    BY <1>1, <1>2 DEF TextWritten, Typists, InputAssumption
  <1>4. after \in Typists /\ sender'[s] = after
    <2>1. sender[s].left - 1 \in 0 .. Chunks
      BY <1>3 DEF InputAssumption
    <2>2. after \in Typists
      BY <1>1, <2>1 DEF Typists
    <2>3. sender'[s] = after
      BY <1>1, <1>2 DEF InputTypes
    <2> QED BY <2>2, <2>3
  <1>5. /\ sender'[s].does = "write" /\ sender'[s].what = sender[s].what
        /\ sender'[s].left = sender[s].left - 1
        /\ sender'[s].echoed = sender[s].echoed /\ sender'[s].age = sender[s].age
    BY <1>1, <1>2, <1>4 DEF Typists
  <1>6. ingesting' \in [Senders -> 0 .. Chunks] /\ ingesting'[s] = more
        /\ \A t \in Senders \ {s} : ingesting'[t] = ingesting[t]
    BY <1>1, <1>2, <1>3 DEF InputTypes
  <1>7. composer' \in SUBSET Senders /\ spoiled' \in BOOLEAN
    BY <1>1, <1>2 DEF InputTypes
  <1>8. TextWritten(s)'
    <2>1. sender[s].what = "short" => more = 0
      OBVIOUS
    <2> HIDE DEF more
    <2> QED BY <1>1, <1>2, <1>3, <1>5, <1>6, <2>1 DEF TextWritten
  <1>9. ReturnsCount(s)'
    BY <1>5 DEF ReturnsCount
  <1>10. Coming(s) => \E d \in Senders : Coming(d)'
    <2>1. Coming(s) => Coming(s)'
      BY <1>2, <1>5 DEF Coming
    <2> QED BY <2>1
  <1>11. after.does # "refused"
    BY <1>2, <1>4, <1>5
  <1> HIDE DEF after, more
  <1> QED BY <1>2, <1>4, <1>6, <1>7, <1>8, <1>9, <1>10, <1>11, OneSender

LEMMA WrittenStep ==
  ASSUME InputAssumption, InputInv, NEW s \in Senders, Input!Written(s)
  PROVE  InputInv'
  <1>1. InputTypes /\ TextWritten(s) /\ sender[s] \in Typists
    BY DEF InputInv, InputTypes
  <1>2. /\ sender[s].does = "write" /\ sender[s].left = 0
        /\ UNCHANGED <<composer, ingesting, submitted, silence, agent>>
    BY DEF Input!Written, Input!Does
  <1>3. spoiled' = (spoiled \/ (sender[s].what = "bulk" /\ sender[s].age > 0))
    BY DEF Input!Written
  <1>4. PICK to \in {"delivered", "return", "settle"} :
          /\ sender' = [sender EXCEPT ![s] = [sender[s] EXCEPT !.does = to]]
          /\ to = "delivered" <=> sender[s].what = "draft"
          /\ to = "settle" <=> sender[s].what = "bulk"
          /\ to = "return" <=> sender[s].what = "short"
    <2>1. sender[s].what \in {"short", "bulk", "draft"}
      BY <1>1 DEF Typists, Input!Kinds
    <2>2. CASE sender[s].what = "short"
      BY <2>2 DEF Input!Written, Input!Goes
    <2>3. CASE sender[s].what = "bulk"
      BY <2>3 DEF Input!Written, Input!Goes
    <2>4. CASE sender[s].what = "draft"
      BY <2>4 DEF Input!Written, Input!Goes
    <2> QED BY <2>1, <2>2, <2>3, <2>4
  <1> DEFINE after == [sender[s] EXCEPT !.does = to]
  <1>5. after \in Typists /\ sender'[s] = after
    BY <1>1, <1>4 DEF Typists, InputTypes
  <1>6. /\ sender'[s].does = to /\ sender'[s].what = sender[s].what /\ sender'[s].left = sender[s].left
        /\ sender'[s].echoed = sender[s].echoed /\ sender'[s].age = sender[s].age
    BY <1>1, <1>5 DEF Typists
  <1>7. TextWritten(s)'
    BY <1>1, <1>2, <1>4, <1>6 DEF TextWritten
  <1>8. ASSUME ~spoiled' PROVE ReturnsCount(s)'
    <2>1. to = "settle" => ~(sender[s].age > 0) /\ ~sender[s].echoed
      BY <1>1, <1>3, <1>4, <1>8 DEF TextWritten
    <2>2. to = "return" => ingesting[s] = 0
      BY <1>1, <1>4 DEF TextWritten
    <2> QED BY <1>2, <1>4, <1>6, <2>1, <2>2 DEF ReturnsCount
  <1>9. Coming(s) => \E d \in Senders : Coming(d)'
    <2>1. Coming(s) => Coming(s)'
      BY <1>4, <1>6 DEF Coming
    <2> QED BY <2>1
  <1>10. /\ ingesting' \in [Senders -> 0 .. Chunks] /\ composer' \in SUBSET Senders
         /\ spoiled' \in BOOLEAN /\ (spoiled => spoiled')
    BY <1>1, <1>2, <1>3 DEF InputTypes
  <1>11. after.does # "refused" /\ sender' = [sender EXCEPT ![s] = after]
    BY <1>4, <1>5, <1>6
  <1> HIDE DEF after
  <1> QED BY <1>2, <1>5, <1>7, <1>8, <1>9, <1>10, <1>11, OneSender

LEMMA SettleStep ==
  ASSUME InputAssumption, InputInv, NEW s \in Senders, Input!Settle(s)
  PROVE  InputInv'
  <1> DEFINE after == [sender[s] EXCEPT !.does = "return", !.echoed = FALSE]
  <1>1. InputTypes /\ TextWritten(s) /\ sender[s] \in Typists
    BY DEF InputInv, InputTypes
  <1>2. /\ sender[s].does = "settle" /\ sender' = [sender EXCEPT ![s] = after]
        /\ UNCHANGED <<composer, ingesting, submitted, silence, agent>>
    BY <1>1 DEF Input!Settle, Input!Does, InputTypes
  <1>3. /\ Input!Settled(s) \/ Input!Overdue(s) \/ agent = "seen"
        /\ spoiled' = (spoiled \/ (Input!Overdue(s) /\ ~Input!Settled(s)))
    BY DEF Input!Settle
  <1>4. after \in Typists /\ sender'[s] = after
    BY <1>1, <1>2 DEF Typists, InputTypes
  <1>5. /\ sender'[s].does = "return" /\ sender'[s].what = sender[s].what /\ sender'[s].left = sender[s].left
        /\ sender'[s].age = sender[s].age /\ ~sender'[s].echoed /\ sender[s].what = "bulk"
    BY <1>1, <1>2, <1>4 DEF Typists, TextWritten
  <1>6. TextWritten(s)'
    BY <1>1, <1>2, <1>5 DEF TextWritten
  <1>7. ASSUME agent = "runs", ~spoiled' PROVE ReturnsCount(s)'
    <2>1. Input!Settled(s) /\ ReturnsCount(s)
      BY <1>3, <1>7 DEF InputInv
    <2>2. sender[s].echoed /\ ~(silence <= 1)
      BY <2>1 DEF Input!Settled, InputAssumption
    <2>3. ingesting[s] = 0
      <3>1. ingesting[s] \in 0 .. Chunks
        BY <1>1 DEF InputTypes
      <3>2. ~(ingesting[s] > 0)
        BY <1>2, <2>1, <2>2 DEF ReturnsCount
      <3> QED BY <3>1, <3>2 DEF InputAssumption
    <2> QED BY <1>2, <1>5, <2>3 DEF ReturnsCount
  <1>8. Coming(s) => \E d \in Senders : Coming(d)'
    <2>1. Coming(s) => Coming(s)'
      BY <1>5 DEF Coming
    <2> QED BY <2>1
  <1>9. /\ ingesting' \in [Senders -> 0 .. Chunks] /\ composer' \in SUBSET Senders
        /\ spoiled' \in BOOLEAN /\ (spoiled => spoiled')
    BY <1>1, <1>2, <1>3 DEF InputTypes
  <1>10. after.does # "refused"
    BY <1>4, <1>5
  <1> HIDE DEF after
  <1> QED BY <1>2, <1>4, <1>6, <1>7, <1>8, <1>9, <1>10, OneSender

\* What the agent's printing does to the senders, and nothing else.
LEMMA EchoFacts ==
  ASSUME NEW who \in [Senders -> Typists], Input!Echo(who)
  PROVE  /\ silence' = 0 /\ sender' \in [Senders -> Typists]
         /\ \A t \in Senders :
              /\ sender'[t].does = who[t].does /\ sender'[t].what = who[t].what
              /\ sender'[t].left = who[t].left /\ sender'[t].age = who[t].age
              /\ sender'[t].echoed => who[t].age > 0 /\ who[t].does \in {"write", "settle"}
  <1> DEFINE heard(t) == Input!Waits(who[t]) /\ who[t].age > 0
  <1>1. silence' = 0 /\ sender' = [t \in Senders |-> [who[t] EXCEPT !.echoed = heard(t)]]
    BY DEF Input!Echo
  <1>2. ASSUME NEW t \in Senders
        PROVE  /\ heard(t) \in BOOLEAN
               /\ heard(t) => who[t].age > 0 /\ who[t].does \in {"write", "settle"}
    BY DEF Input!Waits
  <1> HIDE DEF heard
  <1>3. ASSUME NEW t \in Senders
        PROVE  /\ sender'[t] \in Typists
               /\ sender'[t].does = who[t].does /\ sender'[t].what = who[t].what
               /\ sender'[t].left = who[t].left /\ sender'[t].age = who[t].age
               /\ sender'[t].echoed => who[t].age > 0 /\ who[t].does \in {"write", "settle"}
    <2>1. PICK h \in BOOLEAN : h = heard(t)
      BY <1>2
    <2>2. who[t] \in Typists
      OBVIOUS
    <2>3. sender'[t] = [who[t] EXCEPT !.echoed = h]
      BY <1>1, <2>1
    <2>4. /\ sender'[t] \in Typists /\ sender'[t].echoed = h
          /\ sender'[t].does = who[t].does /\ sender'[t].what = who[t].what
          /\ sender'[t].left = who[t].left /\ sender'[t].age = who[t].age
      BY <2>2, <2>3 DEF Typists
    <2> QED BY <1>2, <2>1, <2>4
  <1>4. sender' \in [Senders -> Typists]
    <2>1. sender' = [t \in Senders |-> sender'[t]]
      BY <1>1
    <2> QED BY <1>3, <2>1
  <1> QED BY <1>1, <1>3, <1>4

\* The sender whose return is out, and nobody else.
LEMMA DeliveredFacts ==
  ASSUME InputAssumption, InputTypes, NEW s \in Senders
  PROVE  \E after \in Typists :
           /\ Input!Delivered(s) = [sender EXCEPT ![s] = after]
           /\ after.does = "delivered" /\ after.what = sender[s].what
           /\ after.left <= sender[s].left
           /\ after.echoed => sender[s].echoed /\ after.age = sender[s].age
  <1>1. sender[s] \in Typists
    BY DEF InputTypes
  <1>2. CASE ingesting[s] > 0
    <2> DEFINE after == [sender[s] EXCEPT !.does = "delivered"]
    <2>1. Input!Delivered(s) = [sender EXCEPT ![s] = after]
      BY <1>2 DEF Input!Delivered
    <2>2. after \in Typists
      BY <1>1 DEF Typists
    <2>3. /\ after.does = "delivered" /\ after.what = sender[s].what /\ after.left = sender[s].left
          /\ after.echoed = sender[s].echoed /\ after.age = sender[s].age
      BY <1>1 DEF Typists
    <2>4. after.left <= sender[s].left
      BY <1>1, <2>3 DEF Typists, InputAssumption
    <2> HIDE DEF after
    <2> QED BY <2>1, <2>2, <2>3, <2>4
  <1>3. CASE ~(ingesting[s] > 0)
    <2> DEFINE idle == Input!Idle
               after == [idle EXCEPT !.does = "delivered", !.what = sender[s].what]
    <2>1. Input!Delivered(s) = [sender EXCEPT ![s] = after]
      BY <1>3 DEF Input!Delivered
    <2>2. idle \in Typists /\ ~idle.echoed /\ idle.left = 0
      BY DEF Input!Idle, Typists, Input!Kinds, InputAssumption
    <2> HIDE DEF idle
    <2>3. after \in Typists
      BY <1>1, <2>2 DEF Typists
    <2>4. /\ after.does = "delivered" /\ after.what = sender[s].what /\ after.left = 0 /\ ~after.echoed
      BY <2>2 DEF Typists
    <2>5. after.left <= sender[s].left
      BY <1>1, <2>4 DEF Typists, InputAssumption
    <2> HIDE DEF after
    <2> QED BY <2>1, <2>3, <2>4, <2>5
  <1> QED BY <1>2, <1>3

LEMMA ReturnRunsStep ==
  ASSUME InputAssumption, InputInv, NEW s \in Senders, Input!ReturnRuns(s)
  PROVE  InputInv'
  <1>1. InputTypes /\ sender \in [Senders -> Typists]
    BY DEF InputInv, InputTypes
  <1>2. /\ sender[s].does = "return" /\ agent = "runs" /\ ~Input!Busy
        /\ submitted' = submitted \cup composer /\ composer' = {}
        /\ Input!Echo(Input!Delivered(s)) /\ UNCHANGED <<ingesting, agent, spoiled>>
    BY DEF Input!ReturnRuns, Input!Does
  <1>3. PICK after \in Typists :
           /\ Input!Delivered(s) = [sender EXCEPT ![s] = after]
           /\ after.does = "delivered" /\ after.what = sender[s].what
           /\ after.left <= sender[s].left
    BY <1>1, DeliveredFacts
  <1>4. PICK who \in [Senders -> Typists] : who = [sender EXCEPT ![s] = after]
    BY <1>1
  <1>5. who[s] = after /\ \A t \in Senders \ {s} : who[t] = sender[t]
    BY <1>1, <1>4
  <1>6. Input!Echo(who)
    BY <1>2, <1>3, <1>4
  <1>7. /\ silence' = 0 /\ sender' \in [Senders -> Typists]
        /\ \A t \in Senders :
              /\ sender'[t].does = who[t].does /\ sender'[t].what = who[t].what
              /\ sender'[t].left = who[t].left /\ sender'[t].age = who[t].age
              /\ sender'[t].echoed => who[t].age > 0 /\ who[t].does \in {"write", "settle"}
    BY <1>6, EchoFacts
  <1>8. \A t \in Senders : ingesting[t] = 0 /\ ingesting[t] \in 0 .. Chunks
    BY <1>1, <1>2 DEF Input!Busy, InputTypes, InputAssumption
  <1>9. InputTypes'
    BY <1>1, <1>2, <1>7 DEF InputTypes, InputAssumption
  <1>10. ASSUME NEW t \in Senders
         PROVE  /\ sender'[t].what = sender[t].what /\ sender'[t].left <= sender[t].left
                /\ \/ sender'[t].does = sender[t].does
                   \/ sender'[t].does = "delivered" /\ sender[t].does = "return"
    <2>1. sender[t] \in Typists /\ sender[t].left <= sender[t].left
      BY <1>1 DEF Typists, InputAssumption
    <2>2. CASE t = s
      BY <1>2, <1>3, <1>5, <1>7, <2>2
    <2>3. CASE t # s
      BY <1>5, <1>7, <2>1, <2>3
    <2> QED BY <2>2, <2>3
  <1>11. ASSUME NEW t \in Senders PROVE TextWritten(t)'
    <2>1. TextWritten(t) /\ sender[t] \in Typists /\ sender'[t] \in Typists
      BY <1>1, <1>7 DEF InputInv
    <2>2. sender'[t].left + ingesting'[t] <= Chunks /\ ingesting'[t] = 0
      BY <1>2, <1>8, <1>10, <2>1 DEF TextWritten, Typists, InputAssumption
    <2>3. sender'[t].echoed => sender'[t].age > 0 /\ sender'[t].does # "idle"
      BY <1>7
    <2>4. sender'[t].does = "settle" => sender'[t].what = "bulk"
      BY <1>10, <2>1 DEF TextWritten
    <2>5. sender'[t].does = "return" => sender'[t].what # "draft"
      BY <1>10, <2>1 DEF TextWritten
    <2>6. \/ sender'[t].does \in {"settle", "return", "delivered"}
          \/ sender'[t].does = "write" /\ sender'[t].left = 0
          => t \in composer' \cup submitted'
      <3>1. CASE t = s
        BY <1>2, <2>1, <3>1 DEF TextWritten
      <3>2. CASE t # s
        <4>1. sender'[t].does = sender[t].does /\ sender'[t].left = sender[t].left
          BY <1>5, <1>7, <3>2
        <4> QED BY <1>2, <2>1, <4>1 DEF TextWritten
      <3> QED BY <3>1, <3>2
    <2> QED BY <2>2, <2>3, <2>4, <2>5, <2>6 DEF TextWritten
  <1>12. ASSUME NEW t \in Senders PROVE sender'[t].does # "refused"
    BY <1>2, <1>10 DEF InputInv
  <1>13. ASSUME NEW t \in Senders PROVE ReturnsCount(t)'
    BY <1>2, <1>8, <1>11, <1>12 DEF TextWritten, ReturnsCount
  <1> QED BY <1>9, <1>11, <1>12, <1>13 DEF InputInv

LEMMA ReturnIsTextStep ==
  ASSUME InputAssumption, InputInv, NEW s \in Senders, Input!ReturnIsText(s)
  PROVE  InputInv'
  <1>1. InputTypes /\ TextWritten(s) /\ sender[s] \in Typists
    BY DEF InputInv, InputTypes
  <1>2. /\ sender[s].does = "return" /\ (agent = "ended" \/ (agent = "runs" /\ Input!Busy))
        /\ sender' = Input!Delivered(s)
        /\ spoiled' = (spoiled \/ (\E d \in Senders : sender[d].what = "draft" /\ ingesting[d] > 0))
        /\ UNCHANGED <<composer, submitted, silence, ingesting, agent>>
    BY DEF Input!ReturnIsText, Input!Does
  <1>3. PICK after \in Typists :
           /\ Input!Delivered(s) = [sender EXCEPT ![s] = after]
           /\ after.does = "delivered" /\ after.what = sender[s].what
           /\ after.left <= sender[s].left
           /\ after.echoed => sender[s].echoed /\ after.age = sender[s].age
    BY <1>1, DeliveredFacts
  <1>4. sender' = [sender EXCEPT ![s] = after] /\ sender'[s] = after
    BY <1>1, <1>2, <1>3 DEF InputTypes
  <1>5. \A t \in Senders \ {s} : sender'[t] = sender[t]
    BY <1>1, <1>4 DEF InputTypes
  <1>6. TextWritten(s)'
    <2>1. after.left + ingesting[s] <= Chunks
      <3>1. after.left \in Int /\ sender[s].left \in Int /\ ingesting[s] \in Int
        BY <1>1 DEF InputTypes, Typists
      <3> QED BY <1>1, <1>3, <3>1 DEF TextWritten, InputAssumption
    <2>2. s \in composer \cup submitted
      BY <1>1, <1>2 DEF TextWritten
    <2> QED BY <1>1, <1>2, <1>3, <1>4, <2>1, <2>2 DEF TextWritten
  <1>7. ASSUME agent = "runs", ~spoiled'
        PROVE  ReturnsCount(s)' /\ \E d \in Senders : Coming(d)'
    <2>1. PICK d \in Senders : ingesting[d] > 0
      BY <1>2, <1>7 DEF Input!Busy
    <2>2. sender[d] \in Typists /\ sender[d].what # "draft" /\ TextWritten(d) /\ ReturnsCount(d) /\ ReturnsCount(s)
      BY <1>2, <1>7, <2>1 DEF InputInv, InputTypes
    <2>3. ingesting[d] # 0
      BY <2>1
    <2>4. sender[d].does \in {"write", "settle"}
      BY <2>2, <2>3 DEF TextWritten, ReturnsCount, Typists
    <2>5. d # s
      BY <1>2, <2>4
    <2>6. Coming(d)'
      BY <1>5, <2>2, <2>4, <2>5 DEF Coming
    <2>7. sender[s].what # "draft" /\ ingesting[s] = 0
      BY <1>1, <1>2, <2>2 DEF TextWritten, ReturnsCount
    <2>8. ReturnsCount(s)'
      BY <1>2, <1>3, <1>4, <2>6, <2>7 DEF ReturnsCount
    <2> QED BY <2>6, <2>8
  <1>8. /\ ingesting' \in [Senders -> 0 .. Chunks] /\ composer' \in SUBSET Senders
        /\ spoiled' \in BOOLEAN /\ (spoiled => spoiled')
    BY <1>1, <1>2 DEF InputTypes
  <1> QED BY <1>2, <1>3, <1>4, <1>6, <1>7, <1>8, OneSender

\* The agent prints, and may have taken in some of a text.
LEMMA EchoStep ==
  ASSUME InputAssumption, InputInv, agent = "runs", Input!Echo(sender),
         ingesting' \in [Senders -> 0 .. Chunks], \A t \in Senders : ingesting'[t] <= ingesting[t],
         UNCHANGED <<composer, submitted, agent, spoiled>>
  PROVE  InputInv'
  <1>1. InputTypes /\ sender \in [Senders -> Typists]
    BY DEF InputInv, InputTypes
  <1>2. /\ silence' = 0 /\ sender' \in [Senders -> Typists]
        /\ \A t \in Senders :
              /\ sender'[t].does = sender[t].does /\ sender'[t].what = sender[t].what
              /\ sender'[t].left = sender[t].left /\ sender'[t].age = sender[t].age
              /\ sender'[t].echoed => sender[t].age > 0 /\ sender[t].does \in {"write", "settle"}
    BY <1>1, EchoFacts
  <1>3. InputTypes'
    BY <1>1, <1>2 DEF InputTypes, InputAssumption
  <1>4. ASSUME NEW t \in Senders
        PROVE  ingesting[t] \in Nat /\ ingesting'[t] \in Nat /\ (ingesting[t] = 0 => ingesting'[t] = 0)
    <2>1. ingesting[t] \in 0 .. Chunks /\ ingesting'[t] \in 0 .. Chunks /\ ingesting'[t] <= ingesting[t]
      BY <1>1 DEF InputTypes
    <2> QED BY <2>1 DEF InputAssumption
  <1>5. ASSUME NEW t \in Senders PROVE TextWritten(t)'
    <2>1. TextWritten(t) /\ sender[t] \in Typists
      BY <1>1 DEF InputInv
    <2>2. sender'[t].left + ingesting'[t] <= Chunks
      <3>1. sender[t].left \in Int /\ ingesting'[t] <= ingesting[t]
        BY <2>1 DEF Typists
      <3> QED BY <1>2, <1>4, <2>1, <3>1 DEF TextWritten, InputAssumption
    <2> QED BY <1>2, <1>4, <2>1, <2>2 DEF TextWritten
  <1>6. ASSUME NEW t \in Senders PROVE sender'[t].does # "refused"
    BY <1>2 DEF InputInv
  <1>7. ASSUME ~spoiled', NEW t \in Senders PROVE ReturnsCount(t)'
    <2>1. ReturnsCount(t)
      BY <1>7 DEF InputInv
    <2>2. \A d \in Senders : Coming(d) => Coming(d)'
      BY <1>2 DEF Coming
    <2> QED BY <1>2, <1>4, <1>6, <2>1, <2>2 DEF ReturnsCount
  <1> QED BY <1>3, <1>5, <1>6, <1>7 DEF InputInv

LEMMA IngestStep ==
  ASSUME InputAssumption, InputInv, NEW s \in Senders, Input!Ingest(s)
  PROVE  InputInv'
  <1>1. InputTypes
    BY DEF InputInv
  <1>2. /\ agent = "runs" /\ ingesting[s] > 0 /\ Input!Echo(sender)
        /\ ingesting' = [ingesting EXCEPT ![s] = ingesting[s] - 1]
        /\ UNCHANGED <<composer, submitted, agent, spoiled>>
    BY DEF Input!Ingest
  <1>3. /\ ingesting' \in [Senders -> 0 .. Chunks] /\ \A t \in Senders : ingesting'[t] <= ingesting[t]
    <2>1. \A t \in Senders : ingesting[t] \in 0 .. Chunks /\ ingesting[t] <= ingesting[t]
      BY <1>1 DEF InputTypes, InputAssumption
    <2>2. ingesting[s] - 1 \in 0 .. Chunks /\ ingesting[s] - 1 <= ingesting[s]
      BY <1>2, <2>1 DEF InputAssumption
    <2> QED BY <1>1, <1>2, <2>1, <2>2 DEF InputTypes
  <1> QED BY <1>2, <1>3, EchoStep

LEMMA PrintsStep == ASSUME InputAssumption, InputInv, Input!Prints PROVE InputInv'
  <1>1. /\ agent = "runs" /\ Input!Echo(sender) /\ ingesting' = ingesting
        /\ UNCHANGED <<composer, submitted, agent, spoiled>>
    BY DEF Input!Prints
  <1>2. /\ ingesting' \in [Senders -> 0 .. Chunks] /\ \A t \in Senders : ingesting'[t] <= ingesting[t]
    BY <1>1 DEF InputInv, InputTypes, InputAssumption
  <1> QED BY <1>1, <1>2, EchoStep

LEMMA AgentEndsStep == ASSUME InputAssumption, InputInv, Input!AgentEnds PROVE InputInv'
  <1>1. /\ agent' \in {"ended", "seen"}
        /\ UNCHANGED <<sender, composer, ingesting, submitted, silence, spoiled>>
    BY DEF Input!AgentEnds
  <1>2. InputTypes' /\ agent' # "runs"
    BY <1>1 DEF InputInv, InputTypes
  <1>3. \A t \in Senders : TextWritten(t)'
    BY <1>1 DEF InputInv, TextWritten
  <1> QED BY <1>2, <1>3 DEF InputInv

LEMMA TickStep == ASSUME InputAssumption, InputInv, Input!Tick PROVE InputInv'
  <1>1. InputTypes
    BY DEF InputInv
  <1>2. /\ Input!Busy /\ agent = "runs" =>
             silence = 0 \/ (\A t \in Senders : ingesting[t] > 0 => sender[t].age = 0)
        /\ silence' = IF silence < Quiet THEN silence + 1 ELSE Quiet
        /\ UNCHANGED <<composer, ingesting, submitted, agent, spoiled>>
    BY DEF Input!Tick
  <1> DEFINE older(t) == sender[t].age < Cap /\ (Input!Waits(sender[t]) \/ ingesting[t] > 0)
  <1>3. sender' = [t \in Senders |-> IF older(t)
                                       THEN [sender[t] EXCEPT !.age = sender[t].age + 1] ELSE sender[t]]
    BY DEF Input!Tick
  <1>4. \A t \in Senders : older(t) => sender[t].age < Cap
    OBVIOUS
  <1> HIDE DEF older
  <1>5. ASSUME NEW t \in Senders
        PROVE  /\ sender'[t] \in Typists
               /\ sender'[t].does = sender[t].does /\ sender'[t].what = sender[t].what
               /\ sender'[t].left = sender[t].left /\ sender'[t].echoed = sender[t].echoed
               /\ sender[t].age > 0 => sender'[t].age > 0
    <2>1. sender[t] \in Typists /\ sender[t].age \in Nat
      BY <1>1 DEF InputTypes, Typists
    <2>2. CASE older(t)
      <3> DEFINE n == sender[t].age + 1
      <3>1. n \in 0 .. Cap /\ n > 0
        BY <1>4, <2>1, <2>2 DEF Typists, InputAssumption
      <3>2. sender'[t] = [sender[t] EXCEPT !.age = n]
        BY <1>3, <2>2
      <3> HIDE DEF n
      <3> QED BY <2>1, <3>1, <3>2 DEF Typists
    <2>3. CASE ~older(t)
      BY <1>3, <2>1, <2>3
    <2> QED BY <2>2, <2>3
  <1>6. sender' \in [Senders -> Typists]
    <2>1. sender' = [t \in Senders |-> sender'[t]]
      BY <1>3
    <2> QED BY <1>5, <2>1
  <1>7. silence' \in 0 .. Quiet
    BY <1>1, <1>2 DEF InputTypes, InputAssumption
  <1>8. InputTypes'
    BY <1>1, <1>2, <1>6, <1>7 DEF InputTypes
  <1>9. ASSUME NEW t \in Senders PROVE TextWritten(t)'
    <2>1. TextWritten(t)
      BY DEF InputInv
    <2> QED BY <1>2, <1>5, <2>1 DEF TextWritten
  <1>10. agent' = "runs" => \A t \in Senders : sender'[t].does # "refused"
    BY <1>2, <1>5 DEF InputInv
  <1>11. ASSUME agent' = "runs", ~spoiled', NEW t \in Senders PROVE ReturnsCount(t)'
    <2>1. ReturnsCount(t) /\ TextWritten(t)
      BY <1>2, <1>11 DEF InputInv
    <2>2. \A d \in Senders : Coming(d) => Coming(d)'
      BY <1>5 DEF Coming
    <2>3. ASSUME sender'[t].echoed, ingesting'[t] > 0 PROVE silence' <= 1
      <3>1. sender[t].age > 0 /\ ingesting[t] > 0 /\ sender[t].age # 0
        BY <1>2, <1>5, <2>1, <2>3 DEF TextWritten
      <3>2. Input!Busy
        BY <3>1 DEF Input!Busy
      <3>3. silence = 0
        BY <1>2, <1>11, <3>1, <3>2
      <3> QED BY <1>2, <3>3 DEF InputAssumption
    <2> QED BY <1>2, <1>5, <2>1, <2>2, <2>3 DEF ReturnsCount
  <1> QED BY <1>8, <1>9, <1>10, <1>11 DEF InputInv

LEMMA InputStep ==
  ASSUME InputAssumption, InputInv, [Input!Next]_(Input!vars)
  PROVE  InputInv'
  <1>1. CASE UNCHANGED Input!vars
    <2>1. UNCHANGED <<sender, composer, ingesting, submitted, silence, agent, spoiled>>
      BY <1>1 DEF Input!vars
    <2> QED BY <2>1 DEF InputInv, InputTypes, TextWritten, ReturnsCount, Coming
  <1>2. ASSUME NEW s \in Senders,
               \/ \E kind \in Input!Kinds : Input!Begin(s, kind)
               \/ Input!Refused(s) \/ Input!WriteChunk(s) \/ Input!Written(s) \/ Input!Settle(s)
               \/ Input!ReturnRuns(s) \/ Input!ReturnIsText(s) \/ Input!Ingest(s)
        PROVE  InputInv'
    BY <1>2, BeginStep, RefusedStep, WriteStep, WrittenStep, SettleStep, ReturnRunsStep,
       ReturnIsTextStep, IngestStep
  <1> QED BY <1>1, <1>2, PrintsStep, AgentEndsStep, TickStep DEF Input!Next

LEMMA InputMeans ==
  ASSUME InputAssumption, InputInv
  PROVE  Input!TypeOK /\ Input!DeliveredIsRun
  <1>1. Input!TypeOK
    BY DEF InputInv, InputTypes, Typists, Input!TypeOK
  <1>2. ASSUME NEW s \in Senders, sender[s].does = "delivered", sender[s].what # "draft",
               \A t \in Senders : sender[t].does \in {"idle", "delivered", "refused"},
               agent = "runs", ~spoiled
        PROVE  s \in submitted
    <2>1. ReturnsCount(s)
      BY <1>2 DEF InputInv
    <2>2. ~(\E d \in Senders : Coming(d))
      BY <1>2 DEF Coming
    <2> QED BY <1>2, <2>1, <2>2 DEF ReturnsCount
  <1>3. Input!DeliveredIsRun
    BY <1>2 DEF Input!DeliveredIsRun, Input!Does
  <1> QED BY <1>1, <1>3

\* A submit that was answered ok was run by the agent once everybody has finished typing,
\* however many type at once and however long the agent takes to take a text in: unless a
\* write stalled, a return went out at the cap, or one fell into a draft (submit_input).
THEOREM DeliveredIsRunAlways ==
  ASSUME InputAssumption
  PROVE  Input!Spec => [](Input!TypeOK /\ Input!DeliveredIsRun)
<1>1. Input!Init => InputInv
  BY InputInit
<1>2. InputInv /\ [Input!Next]_(Input!vars) => InputInv'
  BY InputStep
<1>3. InputInv => Input!TypeOK /\ Input!DeliveredIsRun
  BY InputMeans
<1> QED BY <1>1, <1>2, <1>3, PTL DEF Input!Spec

-----------------------------------------------------------------------------
(* The last exchange of a session. *)

ExchangeAssumption ==
  /\ RuleGap \in Nat /\ Tails \subseteq Nat /\ MaxRows \in Nat
  /\ Boxes \subseteq Nat /\ 0 \in Boxes

ExchangeRows == [kind : Exchange!Kinds, turn : Nat]

\* A prompt that went from the terminal is in the log, or another after it is.
ExchangeInv ==
  /\ rows \in Seq(ExchangeRows) /\ Len(rows) <= MaxRows
  /\ box \in Boxes /\ prompts \in Seq({"terminal", "board"}) /\ logged \in Nat
  /\ logged <= Len(prompts) + 1 /\ (sending => logged = Len(prompts) + 1)
  /\ \A i \in DOMAIN rows : rows[i].turn <= Len(prompts)
  /\ \A t \in DOMAIN prompts : prompts[t] = "terminal" => t <= logged

LEMMA RowFacts ==
  ASSUME ExchangeInv
  PROVE  /\ Len(rows) \in Nat /\ DOMAIN rows = 1 .. Len(rows)
         /\ \A i \in 1 .. Len(rows) :
              rows[i].kind \in Exchange!Kinds /\ rows[i].turn \in Nat /\ rows[i].turn <= Len(prompts)
  <1>1. rows \in Seq(ExchangeRows)
    BY DEF ExchangeInv
  <1>2. Len(rows) \in Nat /\ DOMAIN rows = 1 .. Len(rows)
    BY <1>1, LenProperties
  <1>3. \A i \in 1 .. Len(rows) : rows[i] \in ExchangeRows
    BY <1>1, ElementOfSeq
  <1>4. \A r \in ExchangeRows : r.kind \in Exchange!Kinds /\ r.turn \in Nat
    BY DEF ExchangeRows
  <1>5. \A i \in DOMAIN rows : rows[i].turn <= Len(prompts)
    BY DEF ExchangeInv
  <1> QED BY <1>2, <1>3, <1>4, <1>5

LEMMA ExchangeInit == ASSUME ExchangeAssumption, Exchange!Init PROVE ExchangeInv
  <1>1. rows = <<>> /\ box = 0 /\ prompts = <<>> /\ logged = 0 /\ sending = FALSE
    BY DEF Exchange!Init
  <1>2. /\ rows \in Seq(ExchangeRows) /\ Len(rows) = 0 /\ DOMAIN rows = {}
        /\ prompts \in Seq({"terminal", "board"}) /\ Len(prompts) = 0 /\ DOMAIN prompts = {}
    BY <1>1
  <1>3. box \in Boxes /\ logged \in Nat /\ logged <= 1 /\ ~sending /\ 0 <= MaxRows
    BY <1>1 DEF ExchangeAssumption
  <1> QED BY <1>2, <1>3 DEF ExchangeInv

\* One more at the end.
LEMMA OneMorePrompt ==
  ASSUME ExchangeInv, NEW how \in {"terminal", "board"}, prompts' = Append(prompts, how), rows' = rows,
         box' = box, logged' = logged, sending' = FALSE,
         logged <= Len(prompts) + 1, how = "terminal" => logged = Len(prompts) + 1
  PROVE  ExchangeInv'
  <1>1. prompts \in Seq({"terminal", "board"}) /\ Len(prompts) \in Nat /\ logged \in Nat
    BY LenProperties DEF ExchangeInv
  <1>2. /\ prompts' \in Seq({"terminal", "board"}) /\ Len(prompts') = Len(prompts) + 1
        /\ prompts'[Len(prompts) + 1] = how /\ DOMAIN prompts' = 1 .. Len(prompts) + 1
        /\ DOMAIN prompts = 1 .. Len(prompts)
        /\ \A t \in 1 .. Len(prompts) : prompts'[t] = prompts[t]
    BY <1>1, AppendProperties, LenProperties
  <1>3. \A t \in DOMAIN prompts' : prompts'[t] = "terminal" => t <= logged'
    BY <1>1, <1>2 DEF ExchangeInv
  <1>4. \A i \in DOMAIN rows : rows[i].turn \in Nat /\ rows[i].turn <= Len(prompts)
    BY RowFacts
  <1>5. \A i \in DOMAIN rows' : rows'[i].turn <= Len(prompts')
    BY <1>1, <1>2, <1>4
  <1>6. /\ rows' \in Seq(ExchangeRows) /\ Len(rows') <= MaxRows /\ box' \in Boxes /\ logged' \in Nat
        /\ logged' <= Len(prompts') + 1 /\ ~sending'
    BY <1>1, <1>2 DEF ExchangeInv
  <1> QED BY <1>2, <1>3, <1>5, <1>6 DEF ExchangeInv

LEMMA ExchangeStep ==
  ASSUME ExchangeAssumption, ExchangeInv, [Exchange!Next]_(Exchange!vars) PROVE ExchangeInv'
  <1>0. /\ rows \in Seq(ExchangeRows) /\ Len(rows) \in Nat
        /\ prompts \in Seq({"terminal", "board"}) /\ Len(prompts) \in Nat /\ DOMAIN prompts = 1 .. Len(prompts)
        /\ DOMAIN rows = 1 .. Len(rows)
    BY LenProperties DEF ExchangeInv
  <1>1. CASE UNCHANGED Exchange!vars
    BY <1>1 DEF ExchangeInv, Exchange!vars
  <1>2. CASE Exchange!LogKeys
    <2>1. /\ UNCHANGED <<rows, box, prompts>> /\ sending' = TRUE /\ logged' = Len(prompts) + 1
      BY <1>2 DEF Exchange!LogKeys
    <2>2. \A t \in DOMAIN prompts : t <= logged'
      BY <1>0, <2>1
    <2> QED BY <1>0, <2>1, <2>2 DEF ExchangeInv
  <1>3. CASE Exchange!Forward
    <2>1. /\ UNCHANGED <<rows, box, logged>> /\ sending' = FALSE /\ logged = Len(prompts) + 1
          /\ prompts' = prompts \/ prompts' = Append(prompts, "terminal")
      BY <1>3 DEF Exchange!Forward, ExchangeInv
    <2>2. CASE prompts' = prompts
      BY <2>1, <2>2 DEF ExchangeInv
    <2>3. CASE prompts' = Append(prompts, "terminal")
      <3>1. logged <= Len(prompts) + 1
        BY <1>0, <2>1
      <3> QED BY <2>1, <2>3, <3>1, OneMorePrompt
    <2> QED BY <2>1, <2>2, <2>3
  <1>4. CASE Exchange!ReplyFromBoard
    <2>1. /\ UNCHANGED <<rows, box, logged>> /\ sending' = FALSE
          /\ prompts' = Append(prompts, "board") /\ logged <= Len(prompts) + 1
      BY <1>4 DEF Exchange!ReplyFromBoard, ExchangeInv
    <2> QED BY <2>1, OneMorePrompt
  <1>5. ASSUME NEW kind \in Exchange!Kinds, Exchange!Prints(kind) PROVE ExchangeInv'
    <2> DEFINE line == [kind |-> kind, turn |-> Len(prompts)]
    <2>1. /\ UNCHANGED <<box, prompts, logged, sending>> /\ rows' = Append(rows, line)
          /\ Len(rows) < MaxRows
      BY <1>5 DEF Exchange!Prints
    <2>2. line \in ExchangeRows /\ line.turn = Len(prompts)
      BY <1>0 DEF ExchangeRows
    <2> HIDE DEF line
    <2>3. /\ rows' \in Seq(ExchangeRows) /\ Len(rows') = Len(rows) + 1
          /\ rows'[Len(rows) + 1] = line /\ DOMAIN rows' = 1 .. Len(rows) + 1
          /\ \A i \in 1 .. Len(rows) : rows'[i] = rows[i]
      BY <1>0, <2>1, <2>2, AppendProperties, LenProperties
    <2>4. \A i \in DOMAIN rows' : rows'[i].turn <= Len(prompts')
      BY <1>0, <2>1, <2>2, <2>3 DEF ExchangeInv
    <2>5. Len(rows') <= MaxRows
      BY <1>0, <2>1, <2>3 DEF ExchangeAssumption
    <2> QED BY <1>0, <2>1, <2>3, <2>4, <2>5 DEF ExchangeInv
  <1>6. ASSUME NEW height \in Boxes, Exchange!Redraw(height) PROVE ExchangeInv'
    BY <1>6 DEF Exchange!Redraw, ExchangeInv
  <1> QED BY <1>1, <1>2, <1>3, <1>4, <1>5, <1>6 DEF Exchange!Next

-----------------------------------------------------------------------------
\* A set of naturals has a least member.
LEMMA LeastOf ==
  ASSUME NEW S, S \subseteq Nat, S # {}
  PROVE  \E x \in S : \A y \in S : x <= y
  <1>1. PICK x \in S : \A y \in S : ~(<<y, x>> \in OpToRel(<, Nat))
    BY NatLessThanWellFounded, WFMin
  <1>2. ASSUME NEW y \in S PROVE x <= y
    <2>1. ~(y < x)
      BY <1>1 DEF OpToRel
    <2> QED BY <2>1
  <1> QED BY <1>2

\* Greatest and least of some lines.
LEMMA MaxOf ==
  ASSUME NEW n \in Nat, NEW S \in SUBSET (1 .. n), S # {}
  PROVE  Exchange!Max(S) \in S /\ \A x \in S : x <= Exchange!Max(S)
  <1> DEFINE D == {n - x : x \in S}
  <1>1. D \subseteq Nat /\ D # {}
    <2>1. ASSUME NEW x \in S PROVE n - x \in Nat
      <3>1. x \in 1 .. n
        OBVIOUS
      <3> QED BY <3>1
    <2> QED BY <2>1
  <1>2. PICK d \in D : \A e \in D : d <= e
    <2> HIDE DEF D
    <2> QED BY <1>1, LeastOf
  <1>3. PICK x \in S : d = n - x
    BY <1>2
  <1>4. ASSUME NEW y \in S PROVE x >= y
    <2>1. n - y \in D /\ x \in Int /\ y \in Int
      OBVIOUS
    <2>2. d <= n - y
      BY <1>2, <2>1
    <2> QED BY <1>3, <2>1, <2>2
  <1>5. Exchange!Max(S) \in S /\ \A y \in S : Exchange!Max(S) >= y
    BY <1>4 DEF Exchange!Max
  <1>6. Exchange!Max(S) \in Int /\ \A y \in S : y \in Int
    <2> HIDE DEF D
    <2>1. \A y \in S : y \in Int
      OBVIOUS
    <2> QED BY <1>5, <2>1
  <1> QED BY <1>5, <1>6

LEMMA MinOf ==
  ASSUME NEW n \in Nat, NEW S \in SUBSET (1 .. n), S # {}
  PROVE  Exchange!Min(S) \in S /\ \A x \in S : Exchange!Min(S) <= x
  <1>1. S \subseteq Nat
    OBVIOUS
  <1>2. PICK x \in S : \A y \in S : x <= y
    BY <1>1, LeastOf
  <1> QED BY <1>2 DEF Exchange!Min

-----------------------------------------------------------------------------
\* The screen, and the first of its lines that is in the tail.
Drawn == [i \in DOMAIN rows |-> rows[i].kind] \o Exchange!Composer
FirstIn(tail) == IF Len(Drawn) > tail THEN Len(Drawn) - tail + 1 ELSE 1

LEMMA DrawnFacts ==
  ASSUME ExchangeAssumption, ExchangeInv
  PROVE  /\ Len(rows) \in Nat /\ box \in Nat /\ Len(Drawn) \in Nat
         /\ Len(Drawn) = IF box = 0 THEN Len(rows) ELSE Len(rows) + box + 2
         /\ DOMAIN Drawn = 1 .. Len(Drawn) /\ DOMAIN rows = 1 .. Len(rows)
         /\ \A i \in 1 .. Len(rows) : Drawn[i] = rows[i].kind /\ rows[i].kind \in Exchange!Kinds
         /\ \A i \in Len(rows) + 1 .. Len(Drawn) :
              Drawn[i] = IF i \in {Len(rows) + 1, Len(Drawn)} THEN "rule" ELSE "more"
  <1> DEFINE n == Len(rows)
             kinds == [i \in DOMAIN rows |-> rows[i].kind]
             extra == IF box = 0 THEN 0 ELSE box + 2
  <1>1. /\ rows \in Seq(ExchangeRows) /\ n \in Nat /\ DOMAIN rows = 1 .. n
        /\ box \in Nat
    BY LenProperties DEF ExchangeInv, ExchangeAssumption
  <1>2. \A i \in 1 .. n : rows[i].kind \in Exchange!Kinds
    BY RowFacts
  <1>3. kinds \in Seq(Exchange!Kinds) /\ Len(kinds) = n
    BY <1>1, <1>2
  <1>4. /\ Exchange!Composer \in Seq(Exchange!Kinds) /\ Len(Exchange!Composer) = extra
        /\ \A i \in 1 .. extra : Exchange!Composer[i] = IF i \in {1, extra} THEN "rule" ELSE "more"
    <2>1. CASE box = 0
      BY <2>1 DEF Exchange!Composer
    <2>2. CASE box # 0
      BY <1>1, <2>2 DEF Exchange!Composer, Exchange!Kinds
    <2> QED BY <2>1, <2>2
  <1>5. extra \in Nat
    BY <1>1
  <1> HIDE DEF n, kinds, extra
  <1>6. /\ Drawn \in Seq(Exchange!Kinds) /\ Len(Drawn) = n + extra
        /\ \A i \in 1 .. n : Drawn[i] = kinds[i]
        /\ \A i \in n + 1 .. n + extra : Drawn[i] = Exchange!Composer[i - n]
    <2>1. Drawn = kinds \o Exchange!Composer
      BY DEF Drawn, kinds
    <2>2. /\ Drawn \in Seq(Exchange!Kinds) /\ Len(Drawn) = Len(kinds) + Len(Exchange!Composer)
          /\ \A i \in 1 .. Len(kinds) + Len(Exchange!Composer) :
               Drawn[i] = IF i <= Len(kinds) THEN kinds[i] ELSE Exchange!Composer[i - Len(kinds)]
      BY <1>3, <1>4, <2>1, ConcatProperties
    <2> QED BY <1>1, <1>3, <1>4, <1>5, <2>2
  <1>7. \A i \in 1 .. n : kinds[i] = rows[i].kind
    BY <1>1 DEF kinds
  <1>8. \A i \in n + 1 .. n + extra : Drawn[i] = IF i \in {n + 1, n + extra} THEN "rule" ELSE "more"
    BY <1>1, <1>4, <1>5, <1>6
  <1>9. n + extra = IF box = 0 THEN n ELSE n + box + 2
    BY <1>1 DEF extra
  <1>10. DOMAIN Drawn = 1 .. Len(Drawn)
    BY <1>6, LenProperties
  <1>11. n + extra \in Nat
    BY <1>1, <1>5
  <1> QED BY <1>1, <1>2, <1>6, <1>7, <1>8, <1>9, <1>10, <1>11 DEF n

-----------------------------------------------------------------------------
\* What is cut, and what is not: the first line left has lost its bullet, no rule has changed.
LEMMA LinesFacts ==
  ASSUME ExchangeAssumption, ExchangeInv, NEW tail \in Tails
  PROVE  /\ FirstIn(tail) \in Nat /\ FirstIn(tail) >= 1
         /\ DOMAIN Exchange!Lines(tail) = 1 .. Len(Drawn)
         /\ \A i \in 1 .. Len(Drawn) :
              /\ Exchange!Lines(tail)[i] = "cut" <=> i < FirstIn(tail)
              /\ Exchange!Lines(tail)[i] = "rule" <=> i >= FirstIn(tail) /\ Drawn[i] = "rule"
              /\ i > FirstIn(tail) \/ (i = 1 /\ FirstIn(tail) = 1) => Exchange!Lines(tail)[i] = Drawn[i]
              /\ Exchange!Lines(tail)[i] \in {"reply", "item"} => i <= Len(rows) /\ Drawn[i] = Exchange!Lines(tail)[i]
  <1> DEFINE first == FirstIn(tail)
             lines == Exchange!Lines(tail)
  <1>1. /\ Len(Drawn) \in Nat /\ DOMAIN Drawn = 1 .. Len(Drawn) /\ tail \in Nat
    BY DrawnFacts DEF ExchangeAssumption
  <1>2. first \in Nat /\ first >= 1
    BY <1>1 DEF FirstIn
  <1>3. lines = [i \in DOMAIN Drawn |->
          IF i < first THEN "cut" ELSE IF i = first /\ i > 1 /\ Drawn[i] # "rule" THEN "more" ELSE Drawn[i]]
    BY DEF Exchange!Lines, FirstIn, Drawn
  <1>4. ASSUME NEW i \in 1 .. Len(Drawn)
        PROVE  Drawn[i] \in Exchange!Kinds /\ (Drawn[i] \in {"reply", "item"} => i <= Len(rows))
    <2>0. Len(rows) \in Nat /\ i \in Int
      <3>1. Len(rows) \in Nat
        BY RowFacts
      <3>2. i \in Int
        OBVIOUS
      <3> QED BY <3>1, <3>2
    <2>1. CASE i <= Len(rows)
      <3>1. i \in 1 .. Len(rows)
        BY <2>0, <2>1
      <3>2. Drawn[i] = rows[i].kind /\ rows[i].kind \in Exchange!Kinds
        BY <3>1, DrawnFacts
      <3> QED BY <2>1, <3>2
    <2>2. CASE i > Len(rows)
      <3>1. i \in Len(rows) + 1 .. Len(Drawn)
        BY <1>1, <2>0, <2>2
      <3>2. Drawn[i] = IF i \in {Len(rows) + 1, Len(Drawn)} THEN "rule" ELSE "more"
        BY <3>1, DrawnFacts
      <3> QED BY <3>2 DEF Exchange!Kinds
    <2> QED BY <2>0, <2>1, <2>2
  <1> HIDE DEF first, lines
  <1>5. DOMAIN lines = 1 .. Len(Drawn)
    BY <1>1, <1>3
  <1>6. ASSUME NEW i \in 1 .. Len(Drawn)
        PROVE  /\ lines[i] = "cut" <=> i < first
               /\ lines[i] = "rule" <=> i >= first /\ Drawn[i] = "rule"
               /\ i > first \/ (i = 1 /\ first = 1) => lines[i] = Drawn[i]
               /\ lines[i] \in {"reply", "item"} => i <= Len(rows) /\ Drawn[i] = lines[i]
    <2>1. lines[i] = IF i < first THEN "cut" ELSE IF i = first /\ i > 1 /\ Drawn[i] # "rule" THEN "more" ELSE Drawn[i]
      BY <1>1, <1>3
    <2>2. Drawn[i] # "cut"
      BY <1>4 DEF Exchange!Kinds
    <2>3. i \in Int /\ (i < first <=> ~(i >= first)) /\ (i > first => i # first /\ ~(i < first)) /\ ~(1 < 1)
      BY <1>2
    <2> QED BY <1>2, <1>4, <2>1, <2>2, <2>3
  <1> QED BY <1>2, <1>5, <1>6 DEF first, lines

-----------------------------------------------------------------------------
\* What is left above the composer.
RulesIn(lines) == {i \in DOMAIN lines : lines[i] = "rule"}
Left(lines) == {i \in DOMAIN lines : lines[i] # "cut"}
ToLast(lines) == {r \in RulesIn(lines) : Exchange!Linked(RulesIn(lines), r, Exchange!Max(RulesIn(lines)))}
Starts(lines) == {i \in Exchange!Body(lines) : lines[i] \in {"reply", "item"}}

LEMMA BodyIs ==
  ASSUME NEW lines
  PROVE  /\ RulesIn(lines) = {} => Exchange!Body(lines) = Left(lines)
         /\ RulesIn(lines) # {} => Exchange!Body(lines) = {i \in Left(lines) : i < Exchange!Min(ToLast(lines))}
         /\ Exchange!Body(lines) \subseteq Left(lines)
  BY DEF Exchange!Body, RulesIn, Left, ToLast

LEMMA ShownIs ==
  ASSUME NEW lines
  PROVE  Exchange!Shown(lines) =
           IF Starts(lines) = {} THEN {}
           ELSE Exchange!Block(lines, Exchange!Body(lines), Exchange!Max(Starts(lines)))
  BY DEF Exchange!Shown, Starts

\* The last rule is linked to itself.
LEMMA LinkedFacts ==
  ASSUME NEW n \in Nat, NEW lines, DOMAIN lines = 1 .. n, RuleGap \in Nat, RulesIn(lines) # {}
  PROVE  /\ Exchange!Max(RulesIn(lines)) \in RulesIn(lines)
         /\ \A r \in RulesIn(lines) : r <= Exchange!Max(RulesIn(lines))
         /\ Exchange!Min(ToLast(lines)) \in ToLast(lines)
         /\ \A r \in ToLast(lines) : Exchange!Min(ToLast(lines)) <= r
  <1>1. RulesIn(lines) \in SUBSET (1 .. n)
    BY DEF RulesIn
  <1> DEFINE last == Exchange!Max(RulesIn(lines))
  <1>2. last \in RulesIn(lines) /\ \A r \in RulesIn(lines) : r <= last
    BY <1>1, MaxOf
  <1> HIDE DEF last
  <1>3. Exchange!Linked(RulesIn(lines), last, last)
    <2> SUFFICES ASSUME NEW i \in last .. last
                 PROVE  \E t \in RulesIn(lines) : t \in i .. last /\ t - i <= RuleGap
      BY DEF Exchange!Linked
    <2>1. last \in Int /\ i = last
      BY <1>1, <1>2
    <2> QED BY <1>2, <2>1
  <1>4. ToLast(lines) \in SUBSET (1 .. n) /\ ToLast(lines) # {}
    BY <1>1, <1>2, <1>3 DEF ToLast, last
  <1>5. Exchange!Min(ToLast(lines)) \in ToLast(lines) /\ \A r \in ToLast(lines) : Exchange!Min(ToLast(lines)) <= r
    BY <1>4, MinOf
  <1> QED BY <1>2, <1>5 DEF last

\* A start is a line of the agent's.
LEMMA StartsFacts ==
  ASSUME ExchangeAssumption, ExchangeInv, NEW tail \in Tails, NEW lines, lines = Exchange!Lines(tail),
         Starts(lines) # {}
  PROVE  /\ Exchange!Max(Starts(lines)) \in Starts(lines)
         /\ \A i \in Starts(lines) : i <= Exchange!Max(Starts(lines))
         /\ Starts(lines) \subseteq 1 .. Len(rows)
         /\ \A i \in Starts(lines) : i >= FirstIn(tail) /\ i <= Len(rows)
  <1>1. Len(Drawn) \in Nat /\ Len(rows) \in Nat
    BY DrawnFacts
  <1>2. ASSUME NEW i \in Starts(lines)
        PROVE  i \in 1 .. Len(rows) /\ i >= FirstIn(tail)
    <2>1. i \in Left(lines) /\ lines[i] \in {"reply", "item"}
      BY BodyIs DEF Starts
    <2>2. i \in 1 .. Len(Drawn) /\ lines[i] # "cut"
      BY <2>1, LinesFacts DEF Left
    <2>3. ~(i < FirstIn(tail)) /\ i <= Len(rows) /\ FirstIn(tail) \in Nat
      BY <2>1, <2>2, LinesFacts
    <2> QED BY <1>1, <2>2, <2>3
  <1>3. Starts(lines) \in SUBSET (1 .. Len(rows))
    BY <1>2
  <1>4. /\ Exchange!Max(Starts(lines)) \in Starts(lines)
        /\ \A i \in Starts(lines) : i <= Exchange!Max(Starts(lines))
    BY <1>1, <1>3, MaxOf
  <1> QED BY <1>2, <1>3, <1>4

-----------------------------------------------------------------------------
\* With a box no taller than the gap the first rule of the composer is linked to the last.
LEMMA AboveComposer ==
  ASSUME ExchangeAssumption, ExchangeInv, NEW tail \in Tails, NEW lines, lines = Exchange!Lines(tail),
         FirstIn(tail) <= Len(rows), box <= RuleGap
  PROVE  \A i \in Exchange!Body(lines) : i >= FirstIn(tail) /\ i <= Len(rows)
  <1> DEFINE n == Len(rows)
             last == Len(Drawn)
             first == FirstIn(tail)
             rules == RulesIn(lines)
  <1>1. /\ n \in Nat /\ last \in Nat /\ box \in Nat /\ RuleGap \in Nat /\ first \in Nat /\ first >= 1
        /\ last = IF box = 0 THEN n ELSE n + box + 2
    BY DrawnFacts, LinesFacts DEF ExchangeAssumption
  <1>2. DOMAIN lines = 1 .. last
    BY LinesFacts
  <1>3. \A i \in Left(lines) : i \in 1 .. last /\ i >= first
    <2> SUFFICES ASSUME NEW i \in Left(lines) PROVE i \in 1 .. last /\ i >= first
      OBVIOUS
    <2>1. i \in 1 .. last /\ lines[i] # "cut"
      BY <1>2 DEF Left
    <2>2. ~(i < first)
      BY <2>1, LinesFacts
    <2> HIDE DEF last, first
    <2> QED BY <1>1, <2>1, <2>2
  <1>4. CASE box = 0
    <2> SUFFICES ASSUME NEW i \in Exchange!Body(lines) PROVE i >= first /\ i <= n
      OBVIOUS
    <2>1. i \in Left(lines)
      BY BodyIs
    <2>2. i \in 1 .. last /\ i >= first
      BY <1>3, <2>1
    <2> HIDE DEF n, last, first
    <2> QED BY <1>1, <1>4, <2>2
  <1>5. CASE box # 0
    <2>1. last = n + box + 2 /\ n + 1 \in 1 .. last /\ last \in 1 .. last /\ first <= n + 1 /\ first <= last
      <3> HIDE DEF last, first, n
      <3>1. first <= n
        BY DEF first, n
      <3> QED BY <1>1, <1>5, <3>1
    <2>2. Drawn[n + 1] = "rule" /\ Drawn[last] = "rule"
      <3>1. n + 1 \in n + 1 .. last /\ last \in n + 1 .. last
        <4> HIDE DEF last, n
        <4> QED BY <1>1, <2>1
      <3> QED BY <3>1, DrawnFacts
    <2>3. n + 1 \in rules /\ last \in rules /\ rules \subseteq 1 .. last
      <3>1. first <= n + 1 /\ first <= last /\ (n + 1 >= first) /\ (last >= first)
        <4> HIDE DEF last, n, first
        <4> QED BY <1>1, <2>1
      <3>2. lines[n + 1] = "rule" /\ lines[last] = "rule"
        BY <2>1, <2>2, <3>1, LinesFacts
      <3> QED BY <1>2, <2>1, <3>2 DEF RulesIn
    <2>4. Exchange!Max(rules) = last
      <3>1. Exchange!Max(rules) \in rules /\ last <= Exchange!Max(rules)
        BY <1>1, <1>2, <2>3, LinkedFacts
      <3> DEFINE greatest == Exchange!Max(rules)
      <3>2. greatest \in 1 .. last /\ last <= greatest
        BY <2>3, <3>1
      <3> HIDE DEF greatest, last, rules
      <3>3. greatest = last
        BY <1>1, <3>2
      <3> QED BY <3>3 DEF greatest
    <2> HIDE DEF n, last, first, rules
    <2>5. Exchange!Linked(rules, n + 1, last)
      <3> SUFFICES ASSUME NEW i \in n + 1 .. last
                   PROVE  \E t \in rules : t \in i .. last /\ t - i <= RuleGap
        BY DEF Exchange!Linked
      <3>1. CASE i = n + 1
        <4>1. n + 1 \in i .. last /\ (n + 1) - i <= RuleGap
          BY <1>1, <2>1, <3>1
        <4> QED BY <2>3, <4>1
      <3>2. CASE i # n + 1
        <4>1. last \in i .. last /\ last - i <= RuleGap
          BY <1>1, <2>1, <3>2
        <4> QED BY <2>3, <4>1
      <3> QED BY <3>1, <3>2
    <2>6. n + 1 \in ToLast(lines)
      BY <2>3, <2>4, <2>5 DEF ToLast, rules
    <2> DEFINE top == Exchange!Min(ToLast(lines))
    <2>7. top \in 1 .. last /\ top <= n + 1
      <3>1. rules # {}
        BY <2>3
      <3>2. top \in ToLast(lines) /\ top <= n + 1
        BY <1>1, <1>2, <2>6, <3>1, LinkedFacts DEF rules, last
      <3>3. top \in rules
        BY <3>2 DEF ToLast, rules
      <3> QED BY <2>3, <3>2, <3>3
    <2>8. Exchange!Body(lines) = {i \in Left(lines) : i < top}
      BY <2>3, BodyIs DEF rules
    <2> HIDE DEF top
    <2>9. ASSUME NEW i \in Exchange!Body(lines) PROVE i >= first /\ i <= n
      <3>1. i \in 1 .. last /\ i >= first /\ i < top
        BY <1>3, <2>8, <2>9 DEF first, last
      <3> QED BY <1>1, <2>7, <3>1
    <2> QED BY <2>9 DEF first, n
  <1> QED BY <1>4, <1>5

\* Without a rule of the agent's near it, nothing above the composer is linked to it.
LEMMA NothingLost ==
  ASSUME ExchangeAssumption, ExchangeInv, NEW tail \in Tails, NEW lines, lines = Exchange!Lines(tail),
         FirstIn(tail) <= Len(rows), ~Exchange!Misread
  PROVE  \A i \in FirstIn(tail) .. Len(rows) : i \in Exchange!Body(lines)
  <1> DEFINE n == Len(rows)
             last == Len(Drawn)
             first == FirstIn(tail)
             rules == RulesIn(lines)
             top == Exchange!Min(ToLast(lines))
  <1>1. /\ n \in Nat /\ last \in Nat /\ box \in Nat /\ RuleGap \in Nat /\ first \in Nat /\ first >= 1
        /\ last = IF box = 0 THEN n ELSE n + box + 2
    BY DrawnFacts, LinesFacts DEF ExchangeAssumption
  <1>2. DOMAIN lines = 1 .. last
    BY LinesFacts
  <1>3. \A i \in first .. n : i \in 1 .. last
    <2> HIDE DEF first, n, last
    <2> QED BY <1>1
  <1>4. \A i \in first .. n : i \in Left(lines)
    <2> SUFFICES ASSUME NEW i \in first .. n PROVE i \in Left(lines)
      OBVIOUS
    <2>1. ~(i < first)
      <3> HIDE DEF first, n
      <3> QED BY <1>1
    <2>2. lines[i] # "cut"
      BY <1>3, <2>1, LinesFacts
    <2> QED BY <1>2, <1>3, <2>2 DEF Left
  <1>5. \A r \in rules : r \in 1 .. last /\ Drawn[r] = "rule"
    BY <1>2, LinesFacts DEF RulesIn
  <1>6. \A r \in rules : r <= n => box # 0 /\ n - r > RuleGap
    <2> SUFFICES ASSUME NEW r \in rules, r <= n PROVE box # 0 /\ n - r > RuleGap
      OBVIOUS
    <2>1. r \in 1 .. n
      <3>1. r \in 1 .. last /\ r <= n
        BY <1>5
      <3> HIDE DEF n, last, rules
      <3> QED BY <1>1, <3>1
    <2>2. rows[r].kind = "rule" /\ r \in DOMAIN rows
      BY <1>5, <2>1, DrawnFacts
    <2>3. ~(box = 0 \/ n - r <= RuleGap)
      BY <2>2 DEF Exchange!Misread
    <2> HIDE DEF n, rules
    <2> QED BY <1>1, <2>1, <2>3
  <1> HIDE DEF n, last, first
  <1>7. ASSUME NEW r \in ToLast(lines) PROVE r > n
    <2>1. r \in rules /\ Exchange!Linked(rules, r, Exchange!Max(rules))
      BY DEF ToLast
    <2> SUFFICES ASSUME ~(r > n) PROVE FALSE
      OBVIOUS
    <2>2. r \in 1 .. last /\ r <= n
      BY <1>1, <1>5, <2>1
    <2> DEFINE above == {t \in rules : t <= n}
               q == Exchange!Max(above)
    <2>3. above \in SUBSET (1 .. n) /\ r \in above
      <3> HIDE DEF rules
      <3>1. ASSUME NEW t \in rules, t <= n PROVE t \in 1 .. n
        BY <1>1, <1>5, <3>1
      <3> QED BY <2>1, <2>2, <3>1
    <2>4. q \in above /\ \A t \in above : t <= q
      <3> HIDE DEF above
      <3> QED BY <1>1, <2>3, MaxOf
    <2>5. q \in 1 .. n /\ r <= q /\ n - q > RuleGap /\ box # 0
      <3> HIDE DEF q, rules
      <3> QED BY <1>6, <2>3, <2>4
    <2>6. Exchange!Max(rules) \in 1 .. last /\ \A t \in rules : t <= Exchange!Max(rules)
      BY <1>1, <1>2, <1>5, <2>1, LinkedFacts DEF last
    <2> DEFINE greatest == Exchange!Max(rules)
    <2>7. last \in rules
      <3>1. last \in n + 1 .. last /\ last \in 1 .. last /\ last >= first
        BY <1>1, <2>5 DEF first, n
      <3>2. Drawn[last] = "rule"
        BY <3>1, DrawnFacts DEF n, last
      <3> QED BY <1>2, <3>1, <3>2, LinesFacts DEF RulesIn, last, first
    <2> HIDE DEF above, q, greatest, rules
    <2>8. greatest = last
      <3>1. greatest \in 1 .. last /\ last <= greatest
        BY <2>6, <2>7 DEF greatest
      <3> QED BY <1>1, <3>1
    <2>9. q + 1 \in r .. greatest
      BY <1>1, <2>2, <2>5, <2>8
    <2>10. PICK t \in rules : t \in q + 1 .. greatest /\ t - (q + 1) <= RuleGap
      BY <2>1, <2>9 DEF Exchange!Linked, greatest
    <2>11. t > n
      <3>1. t <= n => t \in above
        BY <2>10 DEF above
      <3>2. t <= n => t <= q
        BY <2>4, <3>1
      <3> QED BY <1>1, <2>5, <2>8, <2>10, <3>2
    <2> QED BY <1>1, <2>5, <2>8, <2>10, <2>11
  <1>8. CASE rules = {}
    BY <1>4, <1>8, BodyIs DEF first, n
  <1>9. CASE rules # {}
    <2>1. top \in ToLast(lines)
      BY <1>1, <1>2, <1>9, LinkedFacts
    <2>2. top > n /\ top \in rules
      BY <1>7, <2>1 DEF ToLast
    <2>3. Exchange!Body(lines) = {i \in Left(lines) : i < top}
      BY <1>9, BodyIs
    <2> HIDE DEF top, rules
    <2>4. ASSUME NEW i \in first .. n PROVE i < top
      BY <1>1, <1>5, <2>2
    <2>5. \A i \in first .. n : i \in Exchange!Body(lines)
      BY <1>4, <2>3, <2>4
    <2> QED BY <2>5 DEF first, n
  <1> QED BY <1>8, <1>9

-----------------------------------------------------------------------------
\* What the screen shows of the last message.
LEMMA ShownFacts ==
  ASSUME ExchangeAssumption, ExchangeInv, NEW tail \in Tails, NEW lines, lines = Exchange!Lines(tail),
         NEW i \in Exchange!Shown(lines)
  PROVE  /\ Starts(lines) # {} /\ Exchange!Max(Starts(lines)) \in Exchange!Shown(lines)
         /\ i \in Exchange!Body(lines) /\ i \in 1 .. Len(Drawn) /\ i >= Exchange!Max(Starts(lines))
         /\ \A k \in Exchange!Max(Starts(lines)) + 1 .. i : lines[k] \notin Exchange!Ends
  <1>1. Starts(lines) # {}
    BY ShownIs
  <1> DEFINE m == Exchange!Max(Starts(lines))
  <1>2. Exchange!Shown(lines) = Exchange!Block(lines, Exchange!Body(lines), m)
    BY <1>1, ShownIs
  <1>3. m \in Starts(lines) /\ m \in 1 .. Len(rows) /\ m \in Exchange!Body(lines)
    BY <1>1, StartsFacts DEF Starts
  <1> HIDE DEF m
  <1>4. m \in Int /\ m >= m /\ m + 1 .. m = {}
    BY <1>3
  <1>5. m \in Exchange!Shown(lines)
    BY <1>2, <1>3, <1>4 DEF Exchange!Block
  <1>6. i \in Exchange!Body(lines) /\ i >= m /\ \A k \in m + 1 .. i : lines[k] \notin Exchange!Ends
    BY <1>2 DEF Exchange!Block
  <1>7. i \in 1 .. Len(Drawn)
    BY <1>6, BodyIs, LinesFacts DEF Left
  <1> QED BY <1>1, <1>5, <1>6, <1>7 DEF m

LEMMA NeverMixedHolds ==
  ASSUME ExchangeAssumption, ExchangeInv, NEW tail \in Tails, NEW lines, lines = Exchange!Lines(tail)
  PROVE  Exchange!NeverMixed(lines, Exchange!Shown(lines))
  <1> DEFINE m == Exchange!Max(Starts(lines))
             shown == Exchange!Shown(lines)
  <1> SUFFICES ASSUME NEW i \in shown
               PROVE  lines[i] \notin {"tool", "meta"} /\ (lines[i] = "reply" => i = Exchange!Min(shown))
    BY DEF Exchange!NeverMixed
  <1>1. /\ Starts(lines) # {} /\ m \in shown /\ i \in 1 .. Len(Drawn) /\ i >= m
        /\ \A k \in m + 1 .. i : lines[k] \notin Exchange!Ends
    BY ShownFacts
  <1>2. m \in Starts(lines) /\ lines[m] \in {"reply", "item"}
    BY <1>1, StartsFacts DEF Starts
  <1>3. \A j \in shown : j \in 1 .. Len(Drawn) /\ j >= m
    BY ShownFacts
  <1>4. Len(Drawn) \in Nat
    BY DrawnFacts
  <1> HIDE DEF m, shown
  <1>5. CASE i = m
    <2>1. shown \in SUBSET (1 .. Len(Drawn))
      BY <1>3
    <2>2. Exchange!Min(shown) \in shown /\ Exchange!Min(shown) <= m
      BY <1>1, <1>4, <2>1, MinOf
    <2>3. Exchange!Min(shown) \in 1 .. Len(Drawn) /\ Exchange!Min(shown) >= m /\ m \in 1 .. Len(Drawn)
      BY <1>1, <1>3, <2>2
    <2> DEFINE least == Exchange!Min(shown)
    <2> HIDE DEF least
    <2>4. least = m
      <3>1. least \in 1 .. Len(Drawn) /\ least >= m /\ m \in 1 .. Len(Drawn) /\ least <= m
        BY <2>2, <2>3 DEF least
      <3> QED BY <1>4, <3>1
    <2> QED BY <1>2, <1>5, <2>4 DEF least
  <1>6. CASE i # m
    <2>1. m \in 1 .. Len(Drawn)
      BY <1>1, <1>3
    <2>2. i \in m + 1 .. i
      BY <1>1, <1>4, <1>6, <2>1
    <2>3. lines[i] \notin Exchange!Ends
      BY <1>1, <2>2
    <2> QED BY <2>3 DEF Exchange!Ends
  <1> QED BY <1>5, <1>6

LEMMA DraftNotSaidHolds ==
  ASSUME ExchangeAssumption, ExchangeInv, NEW tail \in Tails, NEW lines, lines = Exchange!Lines(tail)
  PROVE  Exchange!DraftNotSaid(Exchange!Shown(lines))
  <1> SUFFICES ASSUME box <= RuleGap, NEW i \in Exchange!Shown(lines) PROVE i \in DOMAIN rows
    BY DEF Exchange!DraftNotSaid
  <1> DEFINE m == Exchange!Max(Starts(lines))
  <1>1. Starts(lines) # {} /\ i \in Exchange!Body(lines) /\ i \in 1 .. Len(Drawn)
    BY ShownFacts
  <1>2. m \in 1 .. Len(rows) /\ m >= FirstIn(tail) /\ m <= Len(rows)
    BY <1>1, StartsFacts
  <1>3. Len(rows) \in Nat /\ DOMAIN rows = 1 .. Len(rows) /\ FirstIn(tail) \in Nat
    BY RowFacts, LinesFacts
  <1> HIDE DEF m
  <1>4. FirstIn(tail) <= Len(rows)
    BY <1>2, <1>3
  <1>5. i <= Len(rows)
    BY <1>1, <1>4, AboveComposer
  <1> QED BY <1>1, <1>3, <1>5

\* The prompt a line answers is logged, or another after it is, unless the board sent it.
LEMMA PromptNotOlderHolds ==
  ASSUME ExchangeAssumption, ExchangeInv, NEW shown
  PROVE  Exchange!PromptNotOlder(shown)
  <1> SUFFICES ASSUME NEW i \in DOMAIN rows, rows[i].turn # 0,
                      "board" \notin {prompts[t] : t \in 1 .. rows[i].turn}
               PROVE  logged >= rows[i].turn
    BY DEF Exchange!PromptNotOlder, Exchange!UserText
  <1>1. rows[i].turn \in Nat /\ rows[i].turn <= Len(prompts)
    BY RowFacts
  <1>2. prompts \in Seq({"terminal", "board"}) /\ Len(prompts) \in Nat /\ DOMAIN prompts = 1 .. Len(prompts)
    BY LenProperties DEF ExchangeInv
  <1> DEFINE turn == rows[i].turn
  <1> HIDE DEF turn
  <1>3. turn \in 1 .. turn /\ turn \in 1 .. Len(prompts)
    BY <1>1, <1>2 DEF turn
  <1>4. prompts[turn] \in {"terminal", "board"} /\ prompts[turn] # "board"
    BY <1>2, <1>3, ElementOfSeq DEF turn
  <1>5. turn <= logged /\ logged \in Nat
    BY <1>2, <1>3, <1>4 DEF ExchangeInv
  <1>6. logged >= turn
    BY <1>3, <1>5
  <1> QED BY <1>6 DEF turn

LEMMA LastMessageShownHolds ==
  ASSUME ExchangeAssumption, ExchangeInv, NEW tail \in Tails, NEW lines, lines = Exchange!Lines(tail)
  PROVE  Exchange!LastMessageShown(lines, Exchange!Shown(lines))
  <1> SUFFICES ASSUME ~(\E i \in DOMAIN rows : rows[i].kind = "item"), ~Exchange!Misread, ~(box > RuleGap),
                      ~(\E i \in Exchange!Said : (i > 1 /\ lines[i - 1] = "cut") \/ lines[i] = "cut")
               PROVE  Exchange!Shown(lines) = Exchange!Said
    BY DEF Exchange!LastMessageShown
  <1> DEFINE n == Len(rows)
             begins == {i \in DOMAIN rows : rows[i].kind = "reply"}
             b == Exchange!Max(begins)
             first == FirstIn(tail)
             last == Len(Drawn)
             m == Exchange!Max(Starts(lines))
  <1>1. n \in Nat /\ DOMAIN rows = 1 .. n /\ begins \in SUBSET (1 .. n)
    BY RowFacts
  <1>2. Exchange!Said = IF begins = {} THEN {}
                        ELSE {j \in b .. n : \A k \in b .. j : rows[k].kind \notin {"tool", "meta"}}
    BY DEF Exchange!Said
  <1>3. \A i \in Starts(lines) : i \in begins
    <2> SUFFICES ASSUME NEW i \in Starts(lines) PROVE i \in begins
      OBVIOUS
    <2>1. i \in 1 .. n /\ i \in Exchange!Body(lines) /\ lines[i] \in {"reply", "item"}
      BY StartsFacts DEF Starts
    <2>2. i \in 1 .. last
      BY <2>1, BodyIs, LinesFacts DEF Left
    <2>3. Drawn[i] \in {"reply", "item"} /\ Drawn[i] = rows[i].kind
      BY <2>1, <2>2, LinesFacts, DrawnFacts
    <2> QED BY <1>1, <2>1, <2>3
  <1>4. CASE begins = {}
    <2>1. Starts(lines) = {}
      BY <1>3, <1>4
    <2> QED BY <1>2, <1>4, <2>1, ShownIs
  <1>5. CASE begins # {}
    <2>1. b \in begins /\ \A i \in begins : i <= b
      <3> HIDE DEF begins
      <3> QED BY <1>1, <1>5, MaxOf
    <2>2. b \in 1 .. n /\ rows[b].kind = "reply"
      BY <1>1, <2>1
    <2> HIDE DEF b, n
    <2>3. b \in Exchange!Said
      <3>1. b \in b .. n /\ \A k \in b .. b : k = b
        BY <1>1, <2>2
      <3> QED BY <1>2, <1>5, <2>2, <3>1
    <2>4. lines[b] # "cut" /\ (b > 1 => lines[b - 1] # "cut")
      BY <2>3
    <2>5. /\ last \in Nat /\ n <= last /\ first \in Nat /\ first >= 1 /\ box \in Nat /\ RuleGap \in Nat
          /\ DOMAIN lines = 1 .. last
      <3>1. /\ last = IF box = 0 THEN n ELSE n + box + 2
            /\ last \in Nat /\ box \in Nat /\ RuleGap \in Nat
        BY DrawnFacts DEF n, ExchangeAssumption
      <3> HIDE DEF last
      <3>2. n <= last
        BY <1>1, <3>1
      <3> QED BY <3>1, <3>2, LinesFacts DEF last
    <2>6. first <= b /\ (b > 1 => first < b)
      <3>1. b \in 1 .. last /\ (b > 1 => b - 1 \in 1 .. last)
        <4> HIDE DEF last
        <4> QED BY <1>1, <2>2, <2>5
      <3>2. ~(b < first) /\ (b > 1 => ~(b - 1 < first))
        BY <2>4, <3>1, LinesFacts
      <3> HIDE DEF first
      <3> QED BY <1>1, <2>2, <2>5, <3>2
    <2>7. \A i \in b .. n : lines[i] = rows[i].kind
      <3> SUFFICES ASSUME NEW i \in b .. n PROVE lines[i] = rows[i].kind
        OBVIOUS
      <3>1. i \in 1 .. n /\ i \in 1 .. last /\ (i > first \/ (i = 1 /\ first = 1))
        <4> HIDE DEF first, last
        <4> QED BY <1>1, <2>2, <2>5, <2>6
      <3>2. lines[i] = Drawn[i]
        BY <3>1, LinesFacts
      <3> QED BY <3>1, <3>2, DrawnFacts DEF n
    <2>8. first <= n /\ box <= RuleGap
      <3> HIDE DEF first
      <3> QED BY <1>1, <2>2, <2>5, <2>6
    <2>9. \A i \in b .. n : i \in Exchange!Body(lines)
      <3>1. \A i \in b .. n : i \in first .. n
        <4> HIDE DEF first
        <4> QED BY <1>1, <2>2, <2>5, <2>6
      <3> QED BY <2>8, <3>1, NothingLost DEF n
    <2>10. \A i \in Exchange!Body(lines) : i \in 1 .. last /\ i <= n
      <3>1. \A i \in Exchange!Body(lines) : i \in 1 .. last
        BY <2>5, BodyIs DEF Left
      <3> QED BY <2>8, <3>1, AboveComposer DEF n
    <2>11. b \in Starts(lines)
      <3>1. b \in b .. n
        BY <1>1, <2>2
      <3> QED BY <2>2, <2>7, <2>9, <3>1 DEF Starts
    <2>12. m = b
      <3>1. m \in Starts(lines) /\ b <= m /\ m \in 1 .. n
        BY <2>11, StartsFacts DEF n
      <3>2. m <= b
        BY <1>3, <2>1, <3>1
      <3> HIDE DEF m
      <3> QED BY <1>1, <2>2, <3>1, <3>2
    <2>13. Exchange!Shown(lines) = {j \in Exchange!Body(lines) : j >= b /\ \A k \in b + 1 .. j : lines[k] \notin Exchange!Ends}
      BY <2>11, <2>12, ShownIs DEF Exchange!Block
    <2>14. Exchange!Said = {j \in b .. n : \A k \in b .. j : rows[k].kind \notin {"tool", "meta"}}
      BY <1>2, <1>5
    <2>15. ASSUME NEW k \in b + 1 .. n
           PROVE  lines[k] \in Exchange!Ends <=> rows[k].kind \in {"tool", "meta"}
      <3>1. k \in b .. n /\ k \in 1 .. n /\ k > b
        BY <1>1, <2>2
      <3>2. rows[k].kind # "reply"
        <4>1. k \in begins => k <= b
          BY <2>1
        <4>2. ~(k <= b)
          BY <1>1, <2>2, <3>1
        <4> QED BY <1>1, <3>1, <4>1, <4>2
      <3>3. rows[k].kind # "item"
        BY <1>1, <3>1
      <3> QED BY <2>7, <3>1, <3>2, <3>3 DEF Exchange!Ends
    <2>16. ASSUME NEW j \in b .. n
           PROVE  (\A k \in b + 1 .. j : lines[k] \notin Exchange!Ends)
                    <=> \A k \in b .. j : rows[k].kind \notin {"tool", "meta"}
      <3>1. \A k \in b + 1 .. j : k \in b + 1 .. n /\ k \in b .. j
        BY <1>1, <2>2
      <3>2. \A k \in b .. j : k = b \/ k \in b + 1 .. j
        BY <1>1, <2>2
      <3> QED BY <2>2, <2>15, <3>1, <3>2
    <2>17. ASSUME NEW j \in Exchange!Body(lines), j >= b PROVE j \in b .. n
      <3>1. j \in 1 .. last /\ j <= n
        BY <2>10
      <3> HIDE DEF last
      <3> QED BY <1>1, <2>2, <2>5, <2>17, <3>1
    <2>18. \A j \in b .. n : j \in Exchange!Body(lines) /\ j >= b
      <3>1. \A j \in b .. n : j >= b
        BY <1>1, <2>2
      <3> QED BY <2>9, <3>1
    <2> HIDE DEF m, first, last, begins
    <2> QED BY <2>13, <2>14, <2>16, <2>17, <2>18
  <1> QED BY <1>4, <1>5

\* The drawer shows the agent's last message, all of it, and nothing of what is in the composer,
\* never two messages mixed, beside a prompt no older than the one the message answers,
\* wherever the tail of the screen begins: but for lists, rules next to the composer, a
\* message begun above the tail, a tall box and prompts from the board (resolve_exchange).
THEOREM ExchangeTrueAlways ==
  ASSUME ExchangeAssumption
  PROVE  Exchange!Spec => [](Exchange!TypeOK /\ Exchange!ExchangeTrue)
<1>1. Exchange!Init => ExchangeInv
  BY ExchangeInit
<1>2. ExchangeInv /\ [Exchange!Next]_(Exchange!vars) => ExchangeInv'
  BY ExchangeStep
<1>3. ExchangeInv => Exchange!TypeOK /\ Exchange!ExchangeTrue
  <2> SUFFICES ASSUME ExchangeInv PROVE Exchange!TypeOK /\ Exchange!ExchangeTrue
    OBVIOUS
  <2>1. Exchange!TypeOK
    BY RowFacts DEF ExchangeInv, Exchange!TypeOK
  <2>2. ASSUME NEW tail \in Tails
        PROVE  /\ Exchange!LastMessageShown(Exchange!Lines(tail), Exchange!Shown(Exchange!Lines(tail)))
               /\ Exchange!NeverMixed(Exchange!Lines(tail), Exchange!Shown(Exchange!Lines(tail)))
               /\ Exchange!DraftNotSaid(Exchange!Shown(Exchange!Lines(tail)))
               /\ Exchange!PromptNotOlder(Exchange!Shown(Exchange!Lines(tail)))
    BY LastMessageShownHolds, NeverMixedHolds, DraftNotSaidHolds, PromptNotOlderHolds
  <2> QED BY <2>1, <2>2 DEF Exchange!ExchangeTrue
<1> QED BY <1>1, <1>2, <1>3, PTL DEF Exchange!Spec

-----------------------------------------------------------------------------
(* The cards of the board. *)

\* A state file as it was read: every stamp is in the past.
CardRows == [author : Agents, updated : Nat, script : {1, 2}]

LEMMA LatestOfIs ==
  ASSUME NEW t \in Nat, NEW file \in Seq(CardRows), \A i \in DOMAIN file : file[i].updated <= t,
         NEW some, some \subseteq DOMAIN file, some # {}
  PROVE  Cards!LatestOf(file, some) \in some
  <1>1. DOMAIN file = 1 .. Len(file) /\ Len(file) \in Nat
    BY LenProperties
  <1>2. \A i \in some : i \in Nat /\ file[i] \in CardRows
    BY <1>1, ElementOfSeq
  <1>3. \A i \in some : file[i].updated \in Nat /\ file[i].updated <= t
    BY <1>2 DEF CardRows
  <1> DEFINE ages == {t - file[i].updated : i \in some}
  <1>4. ages \subseteq Nat /\ ages # {}
    BY <1>3
  <1>5. PICK age \in ages : \A e \in ages : age <= e
    <2> HIDE DEF ages
    <2> QED BY <1>4, LeastOf
  <1> DEFINE latest == {i \in some : t - file[i].updated = age}
  <1>6. latest \subseteq Nat /\ latest # {}
    BY <1>2, <1>5
  <1>7. PICK i \in latest : \A j \in latest : i <= j
    <2> HIDE DEF latest
    <2> QED BY <1>6, LeastOf
  <1>8. ASSUME NEW j \in some
        PROVE  file[j].updated < file[i].updated \/ (file[j].updated = file[i].updated /\ i <= j)
    <2>1. t - file[i].updated <= t - file[j].updated
      BY <1>5
    <2>2. file[i].updated \in Nat /\ file[j].updated \in Nat /\ file[i].updated <= t /\ file[j].updated <= t
      BY <1>3
    <2>3. file[j].updated = file[i].updated => j \in latest
      OBVIOUS
    <2>4. file[j].updated = file[i].updated => i <= j
      BY <1>7, <2>3
    <2> HIDE DEF latest, ages
    <2> QED BY <2>1, <2>2, <2>4
  <1>9. i \in some
    OBVIOUS
  <1> QED BY <1>8, <1>9 DEF Cards!LatestOf

\* What a pair says: the row of the session, or one that tells no id, of a session alone in
\* its directory.
PairTrue(live, file, p) ==
  p.row # 0 =>
    /\ p.row \in DOMAIN file
    /\ file[p.row].author = p.id \/ (~Cards!TellsId(file[p.row]) /\ ~Cards!Ambiguous(p.id, live))

LEMMA MatchIs ==
  ASSUME NEW t \in Nat, NEW file \in Seq(CardRows), \A i \in DOMAIN file : file[i].updated <= t,
         NEW live, NEW s, NEW unclaimed, unclaimed \subseteq DOMAIN file,
         NEW match, match = Cards!MatchStateRow(s, live, file, unclaimed), match # 0
  PROVE  /\ match \in DOMAIN file
         /\ file[match].author = s \/ (~Cards!TellsId(file[match]) /\ ~Cards!Ambiguous(s, live))
  <1> DEFINE exact == {i \in unclaimed : Cards!TellsId(file[i]) /\ file[i].author = s}
             nearby == {i \in unclaimed :
                   /\ ~Cards!TellsId(file[i])
                   /\ Cast[file[i].author].dir \in Below[Cast[s].dir]
                   /\ file[i].updated >= agents[s].started}
  <1>1. match = IF exact # {} THEN Cards!LatestOf(file, exact)
              ELSE IF Cards!Ambiguous(s, live) \/ nearby = {} THEN 0 ELSE Cards!LatestOf(file, nearby)
    BY DEF Cards!MatchStateRow
  <1>2. CASE exact # {}
    <2>1. match \in exact
      BY <1>1, <1>2, LatestOfIs
    <2> QED BY <2>1
  <1>3. CASE exact = {}
    <2>1. ~Cards!Ambiguous(s, live) /\ nearby # {} /\ match = Cards!LatestOf(file, nearby)
      BY <1>1, <1>3
    <2>2. match \in nearby
      BY <2>1, LatestOfIs
    <2> QED BY <2>1, <2>2
  <1> QED BY <1>2, <1>3

-----------------------------------------------------------------------------
\* The walk, as far as its first steps.
WalkTo(live, file, w, m) ==
  w = [k \in 0 .. m |->
         IF k = 0 THEN [unclaimed |-> DOMAIN file, pairs |-> {}]
         ELSE Cards!Claim(live, file, w[k - 1], live[Len(live) - k + 1])]

\* There is one of any length: the shortest without would go on from the one before.
LEMMA WalkGoesOn ==
  ASSUME NEW live, NEW file, NEW m \in Nat
  PROVE  \E w : WalkTo(live, file, w, m)
  <1> DEFINE none == {k \in Nat : ~\E w : WalkTo(live, file, w, k)}
             start == [unclaimed |-> DOMAIN file, pairs |-> {}]
             After(k, done) == Cards!Claim(live, file, done, live[Len(live) - k + 1])
  <1> SUFFICES ASSUME none # {} PROVE FALSE
    OBVIOUS
  <1>1. PICK k \in none : \A j \in none : k <= j
    BY LeastOf
  <1>2. k \in Nat /\ ~\E w : WalkTo(live, file, w, k)
    OBVIOUS
  <1>3. CASE k = 0
    <2> DEFINE w == [i \in 0 .. 0 |-> start]
    <2>1. \A i \in 0 .. 0 : i = 0
      OBVIOUS
    <2>2. w = [i \in 0 .. 0 |-> IF i = 0 THEN start ELSE After(i, w[i - 1])]
      <3> HIDE DEF start, After
      <3> QED BY <2>1
    <2>3. WalkTo(live, file, w, 0)
      BY <2>2 DEF WalkTo
    <2> QED BY <1>2, <1>3, <2>3
  <1>4. CASE k # 0
    <2>1. k - 1 \in Nat /\ ~(k <= k - 1)
      BY <1>2, <1>4
    <2>2. PICK v : WalkTo(live, file, v, k - 1)
      BY <1>1, <2>1
    <2>3. v = [i \in 0 .. k - 1 |-> IF i = 0 THEN start ELSE After(i, v[i - 1])]
      BY <2>2 DEF WalkTo
    <2> DEFINE w == [i \in 0 .. k |-> IF i = k THEN After(k, v[k - 1]) ELSE v[i]]
    <2> HIDE DEF start, After
    <2>4. ASSUME NEW i \in 0 .. k PROVE w[i] = IF i = 0 THEN start ELSE After(i, w[i - 1])
      <3>1. CASE i = k
        <4>1. k - 1 \in 0 .. k /\ k - 1 # k
          BY <1>2, <2>1
        <4>2. w[k - 1] = v[k - 1] /\ w[k] = After(k, v[k - 1])
          BY <1>2, <4>1
        <4> QED BY <1>4, <3>1, <4>2
      <3>2. CASE i # k
        <4>1. i \in 0 .. k - 1 /\ (i # 0 => i - 1 \in 0 .. k /\ i - 1 # k)
          BY <1>2, <3>2
        <4>2. w[i] = v[i] /\ (i # 0 => w[i - 1] = v[i - 1])
          BY <3>2, <4>1
        <4>3. v[i] = IF i = 0 THEN start ELSE After(i, v[i - 1])
          BY <2>3, <4>1
        <4> QED BY <4>2, <4>3
      <3> QED BY <3>1, <3>2
    <2>5. w = [i \in 0 .. k |-> w[i]]
      OBVIOUS
    <2> HIDE DEF w
    <2>6. w = [i \in 0 .. k |-> IF i = 0 THEN start ELSE After(i, w[i - 1])]
      BY <2>4, <2>5
    <2>7. WalkTo(live, file, w, k)
      BY <2>6 DEF WalkTo, start, After
    <2> QED BY <1>2, <2>7
  <1> QED BY <1>3, <1>4

LEMMA ClaimsIs ==
  ASSUME NEW live, NEW file, Len(live) \in Nat
  PROVE  WalkTo(live, file, Cards!Claims(live, file), Len(live))
  <1>1. Cards!Claims(live, file) = CHOOSE w : WalkTo(live, file, w, Len(live))
    BY DEF Cards!Claims, WalkTo
  <1>2. \E w : WalkTo(live, file, w, Len(live))
    BY WalkGoesOn
  <1> QED BY <1>1, <1>2

\* By then every pair is true.
LEMMA PairsTrue ==
  ASSUME NEW t \in Nat, NEW file \in Seq(CardRows), \A i \in DOMAIN file : file[i].updated <= t,
         NEW live, Len(live) \in Nat, NEW walk, walk = Cards!ClaimWalk(live, file)
  PROVE  walk.unclaimed \subseteq DOMAIN file /\ \A p \in walk.pairs : PairTrue(live, file, p)
  <1> DEFINE w == Cards!Claims(live, file)
             start == [unclaimed |-> DOMAIN file, pairs |-> {}]
             Wrong(done) == ~(done.unclaimed \subseteq DOMAIN file /\ \A p \in done.pairs : PairTrue(live, file, p))
             wrong == {k \in 0 .. Len(live) : Wrong(w[k])}
  <1>1. \A k \in 0 .. Len(live) :
          w[k] = IF k = 0 THEN start ELSE Cards!Claim(live, file, w[k - 1], live[Len(live) - k + 1])
    <2> DEFINE After(k, done) == Cards!Claim(live, file, done, live[Len(live) - k + 1])
    <2>1. w = [k \in 0 .. Len(live) |-> IF k = 0 THEN start ELSE After(k, w[k - 1])]
      BY ClaimsIs DEF WalkTo
    <2> HIDE DEF start, After, w
    <2>2. \A k \in 0 .. Len(live) : w[k] = IF k = 0 THEN start ELSE After(k, w[k - 1])
      BY <2>1
    <2> QED BY <2>2 DEF start, After, w
  <1>2. wrong = {}
    <2> SUFFICES ASSUME wrong # {} PROVE FALSE
      OBVIOUS
    <2>1. wrong \subseteq Nat
      OBVIOUS
    <2>2. PICK k \in wrong : \A j \in wrong : k <= j
      <3> HIDE DEF wrong
      <3> QED BY <2>1, LeastOf
    <2>3. k \in 0 .. Len(live) /\ Wrong(w[k])
      OBVIOUS
    <2> HIDE DEF w
    <2>4. CASE k = 0
      <3>1. w[k] = start
        BY <1>1, <2>3, <2>4
      <3>2. start.unclaimed = DOMAIN file /\ start.pairs = {}
        OBVIOUS
      <3> HIDE DEF start
      <3> QED BY <2>3, <3>1, <3>2
    <2>5. CASE k # 0
      <3> DEFINE done == w[k - 1]
                 l == live[Len(live) - k + 1]
                 match == Cards!MatchStateRow(l.id, live, file, done.unclaimed)
                 pair == [id |-> l.id, alive |-> l.alive, row |-> match]
      <3>1. k - 1 \in 0 .. Len(live) /\ ~(k <= k - 1)
        BY <2>3, <2>5
      <3>2. k - 1 \notin wrong
        BY <2>2, <3>1
      <3>3. done.unclaimed \subseteq DOMAIN file /\ \A p \in done.pairs : PairTrue(live, file, p)
        BY <3>1, <3>2
      <3>4. w[k] = Cards!Claim(live, file, done, l)
        BY <1>1, <2>3, <2>5
      <3> HIDE DEF done, l
      <3>5. w[k].unclaimed = done.unclaimed \ {match} /\ w[k].pairs = done.pairs \cup {pair}
        BY <3>4 DEF Cards!Claim
      <3>6. match # 0 => match \in DOMAIN file
                         /\ (file[match].author = l.id \/ (~Cards!TellsId(file[match]) /\ ~Cards!Ambiguous(l.id, live)))
        <4>1. done.unclaimed \subseteq DOMAIN file
          BY <3>3
        <4> DEFINE free == done.unclaimed
        <4> HIDE DEF free
        <4>2. match = Cards!MatchStateRow(l.id, live, file, free)
          BY DEF free
        <4> HIDE DEF match
        <4> QED BY <4>1, <4>2, MatchIs DEF free
      <3>7. pair.row = match /\ pair.id = l.id
        OBVIOUS
      <3> HIDE DEF match, pair
      <3>8. PairTrue(live, file, pair)
        BY <3>6, <3>7 DEF PairTrue
      <3>9. w[k].unclaimed \subseteq DOMAIN file /\ \A p \in w[k].pairs : PairTrue(live, file, p)
        BY <3>3, <3>5, <3>8
      <3> QED BY <2>3, <3>9
    <2> QED BY <2>4, <2>5
  <1>3. ~Wrong(w[Len(live)])
    <2>1. Len(live) \in 0 .. Len(live)
      OBVIOUS
    <2> HIDE DEF w
    <2> QED BY <1>2, <2>1
  <1>4. walk = w[Len(live)]
    BY DEF Cards!ClaimWalk
  <1> HIDE DEF w
  <1> QED BY <1>3, <1>4

-----------------------------------------------------------------------------
CardsAssumption ==
  MaxTime \in Nat /\ MaxRows \in Nat /\ MaxBetween \in Nat /\ Activity \in Nat

\* The rows of a file, as it is or as it was read, are of agents that were started.
WrittenBy(file) ==
  /\ file \in Seq(CardRows)
  /\ \A i \in DOMAIN file : file[i].updated <= now /\ agents[file[i].author].at # "off"

CardsInv ==
  /\ now \in 0 .. MaxTime
  /\ agents \in [Agents -> [at : {"off", "running", "ended"}, started : Nat, ended : Nat]]
  /\ written \in [Agents -> [1 .. 2 -> Int]]
  /\ listed \in Seq(Cards!Launched)
  /\ WrittenBy(rows) /\ Len(rows) <= MaxRows /\ WrittenBy(poll.rows)
  /\ DOMAIN poll = {"first", "live", "rows", "between"} /\ Len(poll.live) \in Nat
  /\ poll.first \in {"none", "list", "rows"} /\ poll.between \in 0 .. MaxBetween
  \* An agent that has ended writes no more.
  /\ \A a \in Agents, s \in 1 .. 2 :
       written[a][s] <= now /\ (agents[a].at = "ended" => written[a][s] <= agents[a].ended)

LEMMA CardsInit == ASSUME CardsAssumption, Cards!Init PROVE CardsInv
  <1>1. /\ now = 0 /\ listed = <<>> /\ rows = <<>>
        /\ agents = [a \in Agents |-> [at |-> "off", started |-> 0, ended |-> 0]]
        /\ written = [a \in Agents |-> <<-1, -1>>]
        /\ DOMAIN poll = {"first", "live", "rows", "between"}
        /\ poll.first = "none" /\ poll.live = <<>> /\ poll.rows = <<>> /\ poll.between = 0
    BY DEF Cards!Init, Cards!Never
  <1>2. now \in 0 .. MaxTime /\ poll.between \in 0 .. MaxBetween /\ 0 <= MaxRows
    BY <1>1 DEF CardsAssumption
  <1>3. agents \in [Agents -> [at : {"off", "running", "ended"}, started : Nat, ended : Nat]]
    BY <1>1
  <1>4. listed \in Seq(Cards!Launched) /\ <<>> \in Seq(CardRows) /\ Len(<<>>) = 0 /\ DOMAIN <<>> = {}
    BY <1>1
  <1>5. WrittenBy(rows) /\ Len(rows) <= MaxRows /\ WrittenBy(poll.rows) /\ Len(poll.live) \in Nat
    BY <1>1, <1>2, <1>4 DEF WrittenBy
  <1>6. <<-1, -1>> \in [1 .. 2 -> Int] /\ \A s \in 1 .. 2 : <<-1, -1>>[s] = -1
    OBVIOUS
  <1>7. written \in [Agents -> [1 .. 2 -> Int]]
    BY <1>1, <1>6
  <1>8. \A a \in Agents, s \in 1 .. 2 :
          written[a][s] <= now /\ (agents[a].at = "ended" => written[a][s] <= agents[a].ended)
    BY <1>1, <1>6
  <1> QED BY <1>1, <1>2, <1>3, <1>4, <1>5, <1>7, <1>8 DEF CardsInv

\* Whatever happens between the reads: a file stays a file of started agents.
LEMMA WrittenStays ==
  ASSUME NEW file, NEW file1, file1 = file, WrittenBy(file), now \in Nat, now' \in Nat, now <= now',
         \A a \in Agents : agents[a].at # "off" => agents'[a].at # "off"
  PROVE  file1 \in Seq(CardRows)
         /\ \A i \in DOMAIN file1 : file1[i].updated <= now' /\ agents'[file1[i].author].at # "off"
  <1>1. file \in Seq(CardRows)
    BY DEF WrittenBy
  <1>2. ASSUME NEW i \in DOMAIN file
        PROVE  file[i].updated <= now' /\ agents'[file[i].author].at # "off"
    <2>1. i \in 1 .. Len(file)
      BY <1>1, LenProperties
    <2>2. file[i] \in CardRows
      BY <1>1, <2>1, ElementOfSeq
    <2>3. file[i].author \in Agents /\ file[i].updated \in Nat
      BY <2>2 DEF CardRows
    <2>4. file[i].updated <= now /\ agents[file[i].author].at # "off"
      BY DEF WrittenBy
    <2> QED BY <2>3, <2>4
  <1> QED BY <1>1, <1>2

\* What a step of the agents leaves to show.
LEMMA AgentsMove ==
  ASSUME CardsAssumption, CardsInv, poll.between < MaxBetween,
         poll' = IF poll.first = "none" THEN poll ELSE [poll EXCEPT !.between = @ + 1],
         now' \in 0 .. MaxTime, now <= now',
         \A a \in Agents : agents[a].at # "off" => agents'[a].at # "off",
         agents' \in [Agents -> [at : {"off", "running", "ended"}, started : Nat, ended : Nat]],
         written' \in [Agents -> [1 .. 2 -> Int]],
         listed' \in Seq(Cards!Launched),
         rows' = rows \/ (WrittenBy(rows)' /\ Len(rows') <= MaxRows),
         \A a \in Agents, s \in 1 .. 2 :
           written'[a][s] <= now' /\ (agents'[a].at = "ended" => written'[a][s] <= agents'[a].ended)
  PROVE  CardsInv'
  <1>1. now \in Nat /\ now' \in Nat
    BY DEF CardsInv, CardsAssumption
  <1>2. DOMAIN poll = {"first", "live", "rows", "between"} /\ poll.between \in 0 .. MaxBetween
    BY DEF CardsInv
  <1>3. /\ poll'.first = poll.first /\ poll'.live = poll.live /\ poll'.rows = poll.rows
        /\ poll'.between \in {poll.between, poll.between + 1} /\ DOMAIN poll' = DOMAIN poll
    BY <1>2
  <1>4. poll'.between \in 0 .. MaxBetween
    BY <1>2, <1>3 DEF CardsAssumption
  <1>5. WrittenBy(rows)' /\ Len(rows') <= MaxRows
    <2>1. CASE rows' = rows
      <3>1. WrittenBy(rows) /\ Len(rows) <= MaxRows
        BY DEF CardsInv
      <3>2. rows' \in Seq(CardRows)
            /\ \A i \in DOMAIN rows' : rows'[i].updated <= now' /\ agents'[rows'[i].author].at # "off"
        BY <1>1, <2>1, <3>1, WrittenStays
      <3> QED BY <2>1, <3>1, <3>2 DEF WrittenBy
    <2> QED BY <2>1
  <1>6. WrittenBy(poll.rows)'
    <2>1. WrittenBy(poll.rows)
      BY DEF CardsInv
    <2>2. poll'.rows \in Seq(CardRows)
          /\ \A i \in DOMAIN poll'.rows :
               poll'.rows[i].updated <= now' /\ agents'[poll'.rows[i].author].at # "off"
      BY <1>1, <1>3, <2>1, WrittenStays
    <2> QED BY <2>2 DEF WrittenBy
  <1>7. Len(poll'.live) \in Nat /\ poll'.first \in {"none", "list", "rows"}
    BY <1>3 DEF CardsInv
  <1> QED BY <1>2, <1>3, <1>4, <1>5, <1>6, <1>7 DEF CardsInv

LEMMA CardsTypes ==
  ASSUME CardsAssumption, CardsInv
  PROVE  /\ now \in 0 .. MaxTime /\ now \in Nat
         /\ agents \in [Agents -> [at : {"off", "running", "ended"}, started : Nat, ended : Nat]]
         /\ written \in [Agents -> [1 .. 2 -> Int]]
         /\ listed \in Seq(Cards!Launched)
         /\ rows \in Seq(CardRows) /\ Len(rows) \in Nat /\ Len(rows) <= MaxRows /\ DOMAIN rows = 1 .. Len(rows)
         /\ \A i \in DOMAIN rows : rows[i].updated <= now /\ agents[rows[i].author].at # "off"
         /\ \A a \in Agents, s \in 1 .. 2 :
              written[a][s] <= now /\ (agents[a].at = "ended" => written[a][s] <= agents[a].ended)
  <1>1. rows \in Seq(CardRows)
    BY DEF CardsInv, WrittenBy
  <1>2. Len(rows) \in Nat /\ DOMAIN rows = 1 .. Len(rows)
    BY <1>1, LenProperties
  <1> QED BY <1>1, <1>2 DEF CardsInv, WrittenBy, CardsAssumption

LEMMA CardStartEnd ==
  ASSUME CardsAssumption, CardsInv, poll.between < MaxBetween,
         poll' = IF poll.first = "none" THEN poll ELSE [poll EXCEPT !.between = @ + 1],
         NEW a \in Agents, Cards!Start(a) \/ Cards!End(a) \/ Cards!Reaped(a)
  PROVE  CardsInv'
  <1>1. CASE Cards!Start(a)
    <2>1. /\ UNCHANGED <<now, rows, written>> /\ agents[a].at = "off"
          /\ agents' = [agents EXCEPT ![a] = [at |-> "running", started |-> now, ended |-> 0]]
          /\ listed' = IF a \in Cards!Launched THEN Append(listed, a) ELSE listed
      BY <1>1 DEF Cards!Start
    <2>2. listed' \in Seq(Cards!Launched)
      BY <2>1, CardsTypes, AppendProperties
    <2>3. agents' \in [Agents -> [at : {"off", "running", "ended"}, started : Nat, ended : Nat]]
      BY <2>1, CardsTypes
    <2>4. ASSUME NEW b \in Agents
          PROVE  /\ agents[b].at # "off" => agents'[b].at # "off"
                 /\ agents'[b].at = "ended" => agents'[b] = agents[b]
      BY <2>1, CardsTypes
    <2>5. now <= now' /\ now' \in 0 .. MaxTime
      BY <2>1, CardsTypes
    <2>6. \A b \in Agents, s \in 1 .. 2 :
            written'[b][s] <= now' /\ (agents'[b].at = "ended" => written'[b][s] <= agents'[b].ended)
      <3> SUFFICES ASSUME NEW b \in Agents, NEW s \in 1 .. 2
                   PROVE  written'[b][s] <= now' /\ (agents'[b].at = "ended" => written'[b][s] <= agents'[b].ended)
        OBVIOUS
      <3>1. written[b][s] <= now /\ (agents[b].at = "ended" => written[b][s] <= agents[b].ended)
        BY CardsTypes
      <3> QED BY <2>1, <2>4, <3>1
    <2>7. \A b \in Agents : agents[b].at # "off" => agents'[b].at # "off"
      BY <2>4
    <2>8. written' \in [Agents -> [1 .. 2 -> Int]] /\ rows' = rows
      BY <2>1, CardsTypes
    <2> QED BY <2>2, <2>3, <2>5, <2>6, <2>7, <2>8, AgentsMove
  <1>2. CASE Cards!End(a)
    <2>1. /\ UNCHANGED <<now, listed, rows, written>> /\ agents[a].at = "running"
          /\ agents' = [agents EXCEPT ![a].at = "ended", ![a].ended = now]
      BY <1>2 DEF Cards!End, Cards!Running
    <2>3. agents' \in [Agents -> [at : {"off", "running", "ended"}, started : Nat, ended : Nat]]
      <3>1. agents[a] \in [at : {"off", "running", "ended"}, started : Nat, ended : Nat] /\ now \in Nat
        BY CardsTypes
      <3> DEFINE over == [agents[a] EXCEPT !.at = "ended", !.ended = now]
      <3>2. over \in [at : {"off", "running", "ended"}, started : Nat, ended : Nat]
        BY <3>1
      <3>3. agents' = [agents EXCEPT ![a] = over]
        BY <2>1, CardsTypes
      <3> HIDE DEF over
      <3> QED BY <3>2, <3>3, CardsTypes
    <2>4. /\ agents'[a].at = "ended" /\ agents'[a].ended = now
          /\ \A b \in Agents : b # a => agents'[b] = agents[b]
      BY <2>1, CardsTypes
    <2>5. now <= now' /\ now' \in 0 .. MaxTime
      BY <2>1, CardsTypes
    <2>6. \A b \in Agents, s \in 1 .. 2 :
            written'[b][s] <= now' /\ (agents'[b].at = "ended" => written'[b][s] <= agents'[b].ended)
      <3> SUFFICES ASSUME NEW b \in Agents, NEW s \in 1 .. 2
                   PROVE  written'[b][s] <= now' /\ (agents'[b].at = "ended" => written'[b][s] <= agents'[b].ended)
        OBVIOUS
      <3>1. written[b][s] <= now /\ (agents[b].at = "ended" => written[b][s] <= agents[b].ended)
        BY CardsTypes
      <3>2. CASE b = a
        BY <2>1, <2>4, <3>1, <3>2
      <3>3. CASE b # a
        BY <2>1, <2>4, <3>1, <3>3
      <3> QED BY <3>2, <3>3
    <2>7. \A b \in Agents : agents[b].at # "off" => agents'[b].at # "off"
      BY <2>1, <2>4
    <2>8. written' \in [Agents -> [1 .. 2 -> Int]] /\ rows' = rows /\ listed' \in Seq(Cards!Launched)
      BY <2>1, CardsTypes
    <2> QED BY <2>3, <2>5, <2>6, <2>7, <2>8, AgentsMove
  <1>3. CASE Cards!Reaped(a)
    <2>1. /\ UNCHANGED <<now, agents, rows, written>>
          /\ \E i \in DOMAIN listed : listed' = Cards!RemoveAt(listed, i)
      BY <1>3 DEF Cards!Reaped
    <2>2. PICK i \in DOMAIN listed : listed' = SubSeq(listed, 1, i - 1) \o SubSeq(listed, i + 1, Len(listed))
      BY <2>1 DEF Cards!RemoveAt
    <2>3. listed \in Seq(Cards!Launched) /\ DOMAIN listed = 1 .. Len(listed) /\ Len(listed) \in Nat
      BY CardsTypes, LenProperties
    <2>4. SubSeq(listed, 1, i - 1) \in Seq(Cards!Launched) /\ SubSeq(listed, i + 1, Len(listed)) \in Seq(Cards!Launched)
      <3>1. /\ i \in 1 .. Len(listed) /\ i - 1 \in 0 .. Len(listed) /\ 1 \in 1 .. Len(listed) + 1
            /\ i + 1 \in 1 .. Len(listed) + 1 /\ Len(listed) \in 0 .. Len(listed)
        BY <2>3
      <3>2. \A m \in 1 .. Len(listed) + 1, k \in 0 .. Len(listed) : SubSeq(listed, m, k) \in Seq(Cards!Launched)
        <4> SUFFICES ASSUME NEW m \in 1 .. Len(listed) + 1, NEW k \in 0 .. Len(listed)
                     PROVE  SubSeq(listed, m, k) \in Seq(Cards!Launched)
          OBVIOUS
        <4>1. m \in 1 .. Len(listed) + 1 /\ (k \in m - 1 .. Len(listed) \/ k < m)
          BY <2>3
        <4> QED BY <2>3, <4>1, SubSeqProperties
      <3> QED BY <3>1, <3>2
    <2>5. listed' \in Seq(Cards!Launched)
      BY <2>2, <2>4, ConcatProperties
    <2>6. now <= now' /\ now' \in 0 .. MaxTime
      BY <2>1, CardsTypes
    <2>7. \A b \in Agents, s \in 1 .. 2 :
            written'[b][s] <= now' /\ (agents'[b].at = "ended" => written'[b][s] <= agents'[b].ended)
      BY <2>1, CardsTypes
    <2>8. /\ written' \in [Agents -> [1 .. 2 -> Int]] /\ rows' = rows
          /\ agents' \in [Agents -> [at : {"off", "running", "ended"}, started : Nat, ended : Nat]]
      BY <2>1, CardsTypes
    <2>9. \A b \in Agents : agents[b].at # "off" => agents'[b].at # "off"
      BY <2>1
    <2> QED BY <2>5, <2>6, <2>7, <2>8, <2>9, AgentsMove
  <1> QED BY <1>1, <1>2, <1>3

LEMMA CardTick ==
  ASSUME CardsAssumption, CardsInv, poll.between < MaxBetween,
         poll' = IF poll.first = "none" THEN poll ELSE [poll EXCEPT !.between = @ + 1], Cards!Tick
  PROVE  CardsInv'
  <1>1. now < MaxTime /\ now' = now + 1 /\ UNCHANGED <<agents, listed, rows, written>>
    BY DEF Cards!Tick
  <1>2. now <= now' /\ now' \in 0 .. MaxTime
    BY <1>1, CardsTypes DEF CardsAssumption
  <1>3. \A b \in Agents, s \in 1 .. 2 :
          written'[b][s] <= now' /\ (agents'[b].at = "ended" => written'[b][s] <= agents'[b].ended)
    <2> SUFFICES ASSUME NEW b \in Agents, NEW s \in 1 .. 2
                 PROVE  written[b][s] <= now' /\ (agents[b].at = "ended" => written[b][s] <= agents[b].ended)
      BY <1>1
    <2>1. written[b][s] <= now /\ (agents[b].at = "ended" => written[b][s] <= agents[b].ended)
      BY CardsTypes
    <2>2. written[b] \in [1 .. 2 -> Int]
      BY CardsTypes
    <2>3. written[b][s] \in Int
      BY <2>2
    <2> QED BY <1>1, <2>1, <2>3, CardsTypes
  <1>4. /\ written' \in [Agents -> [1 .. 2 -> Int]] /\ rows' = rows /\ listed' \in Seq(Cards!Launched)
        /\ agents' \in [Agents -> [at : {"off", "running", "ended"}, started : Nat, ended : Nat]]
    BY <1>1, CardsTypes
  <1>5. \A b \in Agents : agents[b].at # "off" => agents'[b].at # "off"
    BY <1>1
  <1> QED BY <1>2, <1>3, <1>4, <1>5, AgentsMove

\* An agent that runs has written just now.
LEMMA JustWritten ==
  ASSUME CardsAssumption, CardsInv, NEW a \in Agents, agents[a].at = "running", NEW script \in 1 .. 2,
         written' = [written EXCEPT ![a][script] = now], UNCHANGED <<now, agents, listed>>
  PROVE  /\ written' \in [Agents -> [1 .. 2 -> Int]]
         /\ \A b \in Agents, s \in 1 .. 2 :
              written'[b][s] <= now' /\ (agents'[b].at = "ended" => written'[b][s] <= agents'[b].ended)
  <1>1. written[a] \in [1 .. 2 -> Int] /\ now \in Int
    BY CardsTypes
  <1> DEFINE over == [written[a] EXCEPT ![script] = now]
  <1>2. over \in [1 .. 2 -> Int] /\ \A s \in 1 .. 2 : over[s] = IF s = script THEN now ELSE written[a][s]
    BY <1>1
  <1>3. written' = [written EXCEPT ![a] = over]
    BY CardsTypes
  <1> HIDE DEF over
  <1>4. written' \in [Agents -> [1 .. 2 -> Int]]
    BY <1>2, <1>3, CardsTypes
  <1>5. ASSUME NEW b \in Agents, NEW s \in 1 .. 2
        PROVE  written'[b][s] <= now' /\ (agents'[b].at = "ended" => written'[b][s] <= agents'[b].ended)
    <2>1. written[b][s] <= now /\ (agents[b].at = "ended" => written[b][s] <= agents[b].ended)
      BY CardsTypes
    <2>2. CASE b = a
      <3>1. written'[b][s] = IF s = script THEN now ELSE written[b][s]
        BY <1>2, <1>3, <2>2, CardsTypes
      <3> QED BY <1>1, <2>1, <2>2, <3>1
    <2>3. CASE b # a
      <3>1. written'[b] = written[b]
        BY <1>3, <2>3, CardsTypes
      <3> QED BY <2>1, <3>1
    <2> QED BY <2>2, <2>3
  <1> QED BY <1>4, <1>5

LEMMA CardHook ==
  ASSUME CardsAssumption, CardsInv, poll.between < MaxBetween,
         poll' = IF poll.first = "none" THEN poll ELSE [poll EXCEPT !.between = @ + 1],
         NEW a \in Agents, Cards!Hook(a) \/ Cards!Writes(a)
  PROVE  CardsInv'
  <1>0. /\ now <= now /\ now \in 0 .. MaxTime /\ Cards!Newest(a) \in 1 .. 2 /\ 2 \in 1 .. 2
        /\ \A b \in Agents : agents[b].at # "off" => agents[b].at # "off"
    BY CardsTypes DEF Cards!Newest
  <1>1. CASE Cards!Hook(a)
    <2>1. UNCHANGED <<now, agents, listed>> /\ agents[a].at = "running"
      BY <1>1 DEF Cards!Hook, Cards!Running
    <2>2. PICK script \in {Cards!Newest(a), 2} :
            /\ written' = [written EXCEPT ![a][script] = now]
            /\ \/ Len(rows) < MaxRows /\ rows' = Append(rows, Cards!Row(a, script))
               \/ \E i \in DOMAIN rows : rows' = [rows EXCEPT ![i] = Cards!Row(a, script)]
      BY <1>1 DEF Cards!Hook
    <2>3. script \in 1 .. 2 /\ script \in {1, 2}
      BY <1>0
    <2>4. /\ written' \in [Agents -> [1 .. 2 -> Int]]
          /\ \A b \in Agents, s \in 1 .. 2 :
               written'[b][s] <= now' /\ (agents'[b].at = "ended" => written'[b][s] <= agents'[b].ended)
      BY <2>1, <2>2, <2>3, JustWritten
    <2> DEFINE match == Cards!Row(a, script)
    <2>5. match \in CardRows /\ match.updated = now /\ match.author = a
      BY <2>3, CardsTypes DEF Cards!Row, CardRows
    <2> HIDE DEF match
    <2>6. \A i \in DOMAIN rows : rows[i].updated <= now /\ agents[rows[i].author].at # "off"
      BY CardsTypes
    <2>7. WrittenBy(rows)' /\ Len(rows') <= MaxRows
      <3>1. CASE Len(rows) < MaxRows /\ rows' = Append(rows, match)
        <4>1. /\ rows' \in Seq(CardRows) /\ Len(rows') = Len(rows) + 1 /\ DOMAIN rows' = 1 .. Len(rows) + 1
              /\ rows'[Len(rows) + 1] = match /\ \A i \in 1 .. Len(rows) : rows'[i] = rows[i]
          BY <2>5, <3>1, CardsTypes, AppendProperties, LenProperties
        <4>2. \A i \in DOMAIN rows' : rows'[i] = match \/ (i \in DOMAIN rows /\ rows'[i] = rows[i])
          BY <4>1, CardsTypes
        <4>3. \A i \in DOMAIN rows' : rows'[i].updated <= now /\ agents[rows'[i].author].at # "off"
          BY <1>0, <2>1, <2>5, <2>6, <4>2
        <4>4. Len(rows') <= MaxRows
          BY <3>1, <4>1, CardsTypes DEF CardsAssumption
        <4> QED BY <2>1, <4>1, <4>3, <4>4 DEF WrittenBy
      <3>2. ASSUME NEW i \in DOMAIN rows, rows' = [rows EXCEPT ![i] = match]
            PROVE  WrittenBy(rows)' /\ Len(rows') <= MaxRows
        <4>1. rows' \in Seq(CardRows) /\ Len(rows') = Len(rows)
          BY <2>5, <3>2, CardsTypes, ExceptSeq
        <4>2. DOMAIN rows' = DOMAIN rows
          BY <3>2
        <4>3. \A k \in DOMAIN rows : rows'[k] = IF k = i THEN match ELSE rows[k]
          BY <3>2
        <4>4. \A k \in DOMAIN rows' : rows'[k].updated <= now /\ agents[rows'[k].author].at # "off"
          BY <1>0, <2>1, <2>5, <2>6, <4>2, <4>3
        <4> QED BY <2>1, <4>1, <4>4, CardsTypes DEF WrittenBy
      <3> QED BY <2>2, <3>1, <3>2 DEF match
    <2>8. now <= now' /\ now' \in 0 .. MaxTime
      BY <1>0, <2>1
    <2>9. /\ agents' \in [Agents -> [at : {"off", "running", "ended"}, started : Nat, ended : Nat]]
          /\ listed' \in Seq(Cards!Launched)
          /\ \A b \in Agents : agents[b].at # "off" => agents'[b].at # "off"
      BY <2>1, CardsTypes
    <2> QED BY <2>4, <2>7, <2>8, <2>9, AgentsMove
  <1>2. CASE Cards!Writes(a)
    <2>1. /\ UNCHANGED <<now, agents, listed>> /\ rows' = rows /\ agents[a].at = "running"
          /\ written' = [written EXCEPT ![a][Cards!Newest(a)] = now]
      BY <1>2 DEF Cards!Writes, Cards!Running
    <2>2. /\ written' \in [Agents -> [1 .. 2 -> Int]]
          /\ \A b \in Agents, s \in 1 .. 2 :
               written'[b][s] <= now' /\ (agents'[b].at = "ended" => written'[b][s] <= agents'[b].ended)
      BY <1>0, <2>1, JustWritten
    <2>3. now <= now' /\ now' \in 0 .. MaxTime
      BY <1>0, <2>1
    <2>4. /\ agents' \in [Agents -> [at : {"off", "running", "ended"}, started : Nat, ended : Nat]]
          /\ listed' \in Seq(Cards!Launched)
          /\ \A b \in Agents : agents[b].at # "off" => agents'[b].at # "off"
      BY <2>1, CardsTypes
    <2> QED BY <2>1, <2>2, <2>3, <2>4, AgentsMove
  <1> QED BY <1>1, <1>2

LEMMA ListIsSeq ==
  ASSUME CardsAssumption, CardsInv
  PROVE  Len(Cards!List) \in Nat
  <1>1. listed \in Seq(Cards!Launched) /\ DOMAIN listed = 1 .. Len(listed) /\ Len(listed) \in Nat
    BY CardsTypes, LenProperties
  <1> DEFINE entry(i) == [id |-> listed[i], alive |-> Cards!Running(listed[i])]
  <1>2. Cards!List = [i \in 1 .. Len(listed) |-> entry(i)]
    BY <1>1 DEF Cards!List
  <1> HIDE DEF entry
  <1>3. Len(Cards!List) = Len(listed)
    BY <1>1, <1>2
  <1> QED BY <1>1, <1>3

LEMMA CardRead ==
  ASSUME CardsAssumption, CardsInv, Cards!FirstRead
  PROVE  CardsInv'
  <1>1. /\ UNCHANGED <<now, agents, listed, rows, written>>
        /\ \/ poll' = [first |-> "list", live |-> Cards!List, rows |-> <<>>, between |-> 0]
           \/ poll' = [first |-> "rows", live |-> <<>>, rows |-> rows, between |-> 0]
    BY DEF Cards!FirstRead
  <1>2. Len(Cards!List) \in Nat
    BY ListIsSeq
  <1>3. <<>> \in Seq(CardRows) /\ DOMAIN <<>> = {} /\ Len(<<>>) = 0
    OBVIOUS
  <1>4. /\ DOMAIN poll' = {"first", "live", "rows", "between"} /\ Len(poll'.live) \in Nat
        /\ poll'.first \in {"none", "list", "rows"} /\ poll'.between = 0
        /\ poll'.rows = <<>> \/ poll'.rows = rows
    <2> DEFINE L == Cards!List
    <2> HIDE DEF L
    <2>1. Len(L) \in Nat /\ \/ poll' = [first |-> "list", live |-> L, rows |-> <<>>, between |-> 0]
                            \/ poll' = [first |-> "rows", live |-> <<>>, rows |-> rows, between |-> 0]
      BY <1>1, <1>2 DEF L
    <2> QED BY <1>3, <2>1
  <1>5. WrittenBy(rows)
    BY DEF CardsInv
  <1>6. WrittenBy(rows)'
    BY <1>1, <1>5 DEF WrittenBy
  <1>7. WrittenBy(poll.rows)'
    <2>1. CASE poll'.rows = <<>>
      BY <1>3, <2>1 DEF WrittenBy
    <2>2. CASE poll'.rows = rows
      BY <1>1, <1>5, <2>2 DEF WrittenBy
    <2> QED BY <1>4, <2>1, <2>2
  <1>8. poll'.between \in 0 .. MaxBetween
    BY <1>4 DEF CardsAssumption
  <1> QED BY <1>1, <1>4, <1>6, <1>7, <1>8 DEF CardsInv

LEMMA CardsStep ==
  ASSUME CardsAssumption, CardsInv, [Cards!Next]_(Cards!vars)
  PROVE  CardsInv'
  <1>1. CASE UNCHANGED Cards!vars
    BY <1>1 DEF Cards!vars, CardsInv, WrittenBy
  <1>2. CASE Cards!Next
    BY <1>2, CardTick, CardStartEnd, CardHook, CardRead DEF Cards!Next
  <1> QED BY <1>1, <1>2

-----------------------------------------------------------------------------
\* The two things a poll has read, whichever it read first.
LEMMA ReadFacts ==
  ASSUME CardsAssumption, CardsInv
  PROVE  WrittenBy(Cards!File) /\ Len(Cards!Live) \in Nat
  <1>1. Len(Cards!List) \in Nat
    BY ListIsSeq
  <1>2. Len(poll.live) \in Nat /\ WrittenBy(rows) /\ WrittenBy(poll.rows)
    BY DEF CardsInv
  <1> QED BY <1>1, <1>2 DEF Cards!Live, Cards!File

LEMMA WalkFacts ==
  ASSUME CardsAssumption, CardsInv
  PROVE  /\ Cards!Walk.unclaimed \subseteq DOMAIN Cards!File
         /\ \A p \in Cards!Walk.pairs : PairTrue(Cards!Live, Cards!File, p)
  <1>1. now \in Nat /\ Len(Cards!Live) \in Nat
    BY CardsTypes, ReadFacts
  <1>2. Cards!File \in Seq(CardRows) /\ \A i \in DOMAIN Cards!File : Cards!File[i].updated <= now
    BY ReadFacts DEF WrittenBy
  <1>3. Cards!Walk = Cards!ClaimWalk(Cards!Live, Cards!File)
    BY DEF Cards!Walk
  <1> QED BY <1>1, <1>2, <1>3, PairsTrue

LEMMA CardsMean ==
  ASSUME CardsAssumption, CardsInv
  PROVE  Cards!TypeOK /\ Cards!BoardTrue
  <1>1. Cards!TypeOK
    <2>1. \A i \in DOMAIN listed : listed[i] \in Cards!Launched
      BY CardsTypes, ElementOfSeq, LenProperties
    <2>2. \A i \in DOMAIN rows : rows[i].author \in Agents
      <3> SUFFICES ASSUME NEW i \in DOMAIN rows PROVE rows[i].author \in Agents
        OBVIOUS
      <3>1. rows[i] \in CardRows
        BY CardsTypes, ElementOfSeq
      <3> QED BY <3>1 DEF CardRows
    <2>3. \A a \in Agents : agents[a].at \in {"off", "running", "ended"}
      BY CardsTypes
    <2>4. now \in 0 .. MaxTime /\ Len(rows) <= MaxRows
      BY CardsTypes
    <2>5. poll.first \in {"none", "list", "rows"} /\ poll.between \in 0 .. MaxBetween
      BY DEF CardsInv
    <2> QED BY <2>1, <2>2, <2>3, <2>4, <2>5 DEF Cards!TypeOK
  <1>2. Cards!CardsShowTheirOwn
    <2> DEFINE live == Cards!Live
               file == Cards!File
    <2> SUFFICES ASSUME NEW p \in Cards!Walk.pairs, p.row # 0, file[p.row].author # p.id
                 PROVE  /\ ~Cards!TellsId(file[p.row])
                        /\ \/ ~Cast[file[p.row].author].launched
                           \/ \A i \in DOMAIN live : live[i].id # file[p.row].author
                           \/ Cast[file[p.row].author].dir # Cast[p.id].dir
      BY DEF Cards!CardsShowTheirOwn
    <2>1. ~Cards!TellsId(file[p.row]) /\ ~Cards!Ambiguous(p.id, live)
      BY WalkFacts DEF PairTrue
    <2>2. \A i \in DOMAIN live : live[i].id # p.id => Cast[live[i].id].dir # Cast[p.id].dir
      BY <2>1 DEF Cards!Ambiguous
    <2> QED BY <2>1, <2>2
  <1>3. Cards!ExternalsLive
    <2> DEFINE live == Cards!Live
               file == Cards!File
               walk == Cards!Walk
    <2> SUFFICES ASSUME NEW i \in Cards!External(walk, live, file)
                 PROVE  /\ Cards!Running(file[i].author) \/ agents[file[i].author].ended >= now - Activity
                        /\ \A p \in walk.pairs : p.alive /\ p.row # 0 =>
                             Cards!Script(file[p.row]) # Cards!Script(file[i])
      BY DEF Cards!ExternalsLive
    <2>1. /\ i \in walk.unclaimed /\ Cards!ScriptAge(file[i]) <= Activity
          /\ Cards!Script(file[i]) \notin
               {Cards!Script(file[p.row]) : p \in {q \in walk.pairs : q.alive /\ q.row # 0}}
      BY DEF Cards!External
    <2>2. i \in DOMAIN file /\ WrittenBy(file)
      BY <2>1, WalkFacts, ReadFacts
    <2> DEFINE a == file[i].author
               s == file[i].script
    <2>3. a \in Agents /\ s \in 1 .. 2 /\ agents[a].at # "off"
      <3> HIDE DEF file
      <3>1. file \in Seq(CardRows) /\ agents[a].at # "off"
        BY <2>2 DEF WrittenBy
      <3>2. file[i] \in CardRows
        BY <2>2, <3>1, ElementOfSeq, LenProperties
      <3> QED BY <3>1, <3>2 DEF CardRows
    <2>4. now - written[a][s] <= Activity
      BY <2>1 DEF Cards!ScriptAge
    <2> HIDE DEF a, s
    <2>5. Cards!Running(a) \/ agents[a].ended >= now - Activity
      <3>1. agents[a].at \in {"running", "ended"} /\ agents[a].ended \in Nat
        <4>1. agents[a] \in [at : {"off", "running", "ended"}, started : Nat, ended : Nat]
          BY <2>3, CardsTypes
        <4> QED BY <2>3, <4>1
      <3>2. CASE agents[a].at = "ended"
        <4>1. written[a] \in [1 .. 2 -> Int] /\ now \in Int
          BY <2>3, CardsTypes
        <4>2. written[a][s] \in Int /\ written[a][s] <= agents[a].ended
          BY <2>3, <3>2, <4>1, CardsTypes
        <4> DEFINE last == written[a][s]
                   end == agents[a].ended
        <4> HIDE DEF last, end
        <4>3. last \in Int /\ end \in Int /\ last <= end /\ now - last <= Activity
          BY <2>4, <3>1, <4>2 DEF last, end
        <4>4. end >= now - Activity
          BY <4>1, <4>3 DEF CardsAssumption
        <4> QED BY <4>4 DEF end
      <3> QED BY <3>1, <3>2 DEF Cards!Running
    <2>6. \A p \in walk.pairs : p.alive /\ p.row # 0 => Cards!Script(file[p.row]) # Cards!Script(file[i])
      <3> HIDE DEF walk, file
      <3> QED BY <2>1
    <2> QED BY <2>5, <2>6 DEF a
  <1> QED BY <1>1, <1>2, <1>3 DEF Cards!BoardTrue

\* A card shows the row of its own session, or one that does not say whose it is and that no
\* other session listed for the directory can have written; and a card for an agent the launcher
\* does not list is of one that ran a moment ago and has no other card, whichever of the list and
\* the file a poll reads first and whatever happens in between (get_board, merge_sessions).
THEOREM BoardTrueAlways ==
  ASSUME CardsAssumption
  PROVE  Cards!Spec => [](Cards!TypeOK /\ Cards!BoardTrue)
<1>1. Cards!Init => CardsInv
  BY CardsInit
<1>2. CardsInv /\ [Cards!Next]_(Cards!vars) => CardsInv'
  BY CardsStep
<1>3. CardsInv => Cards!TypeOK /\ Cards!BoardTrue
  BY CardsMean
<1> QED BY <1>1, <1>2, <1>3, PTL DEF Cards!Spec

=============================================================================
