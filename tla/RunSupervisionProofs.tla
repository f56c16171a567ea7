------------------------ MODULE RunSupervisionProofs ------------------------
(***************************************************************************)
(* What is proved of one live run, for any bounds and ceilings: the types, *)
(* KilledIsStamped (the watchdog sets its reason before it kills, and the  *)
(* main thread reads it after the child has ended, so no order of the two  *)
(* threads loses it, whether or not their join times out), and             *)
(* ConsoleFaithful (what was shown, what the writer holds, what is queued  *)
(* and what is about to be offered follow one another in the log).         *)
(***************************************************************************)
EXTENDS RunSupervision, TLAPS

MainPcs == {"tee", "offer", "close", "join", "wait", "stop", "judge", "record", "done"}
Reasons == {"none", "no_output", "max_runtime"}

\* The records the argument looks into.
Shaped ==
  /\ main \in [pc : MainPcs, failed : BOOLEAN, status : {"none", "success", "failed"}]
  /\ dog \in [pc : {"off", "poll", "fire", "mark", "kill", "grace", "done"},
              age : Int, quiet : Int, size : Int, reason : Reasons]
  /\ killed \in BOOLEAN /\ logged \in Int

\* The main thread has seen the child end.
Waited == main.pc \in {"stop", "judge", "record", "done"} /\ ~main.failed

\* The reason is set before the kill and never cleared, a killed child stays
\* dead, and whoever waited for a killed child judges it by the reason.
Stamped ==
  /\ dog.pc \in {"kill", "grace"} => dog.reason # "none"
  /\ killed => dog.reason # "none" /\ root # "alive"
  /\ Waited => root # "alive"
  /\ (killed /\ Waited /\ main.pc \in {"record", "done"}) => main.status = "failed"
  /\ (killed /\ Waited /\ main.pc = "done") => record = [status |-> "failed", watchdog |-> TRUE]

StampInv == Shaped /\ Stamped

LEMMA StampInit == ASSUME BoundAssumption, Init PROVE StampInv
  <1>1. main \in [pc : MainPcs, failed : BOOLEAN, status : {"none", "success", "failed"}]
    BY DEF Init, MainPcs
  <1>2. dog \in [pc : {"off", "poll", "fire", "mark", "kill", "grace", "done"},
                 age : Int, quiet : Int, size : Int, reason : Reasons]
    BY DEF Init, Reasons
  <1>3. killed = FALSE /\ root = "alive" /\ main.pc \in {"tee", "wait"} /\ dog.pc \in {"off", "poll"}
    BY DEF Init
  <1>5. killed \in BOOLEAN
    BY Zenon DEF Init
  <1>6. logged \in Int
    BY DEF Init
  <1>4. Stamped
    BY <1>3 DEF Stamped, Waited
  <1> QED BY <1>1, <1>2, <1>4, <1>5, <1>6 DEF StampInv, Shaped

\* Steps that touch neither thread's record.
LEMMA AsideStep ==
  ASSUME StampInv, UNCHANGED <<main, dog, killed, record>>, logged' \in Int,
         root' = root \/ root' # "alive"
  PROVE StampInv'
  BY DEF StampInv, Shaped, Stamped, Waited

\* The main thread moves on, short of its verdict.
LEMMA MainMoves ==
  ASSUME StampInv, UNCHANGED <<root, dog, killed, record>>, logged' \in Int,
         main' \in [pc : MainPcs, failed : BOOLEAN, status : {"none", "success", "failed"}],
         main'.pc \notin {"record", "done"}, Waited' => root # "alive"
  PROVE StampInv'
  BY DEF StampInv, Shaped, Stamped

LEMMA MainStepKeeps ==
  ASSUME StampInv, TeeChunk \/ TeeFails \/ TeeEof \/ Offer \/ CloseConsole \/ JoinWriter
                   \/ WaitChild \/ StopWatchdog
  PROVE StampInv'
  <1>0. main \in [pc : MainPcs, failed : BOOLEAN, status : {"none", "success", "failed"}]
    BY DEF StampInv, Shaped
  <1>1. UNCHANGED <<root, dog, killed, record>> /\ logged' \in Int
    BY DEF TeeChunk, TeeFails, TeeEof, Offer, CloseConsole, JoinWriter, WaitChild, StopWatchdog,
           job, StampInv, Shaped
  <1>2. CASE TeeChunk \/ TeeEof \/ Offer \/ CloseConsole
    <2>1. PICK pc \in {"tee", "offer", "wait", "close", "join"} : main' = [main EXCEPT !.pc = pc]
      BY <1>2 DEF TeeChunk, TeeEof, Offer, CloseConsole, Go, Teed, Closed
    <2>2. /\ main' \in [pc : MainPcs, failed : BOOLEAN, status : {"none", "success", "failed"}]
          /\ main'.pc \notin {"stop", "judge", "record", "done"}
      BY <1>0, <2>1 DEF MainPcs
    <2> QED BY <1>1, <2>2, MainMoves DEF Waited
  <1>3. CASE TeeFails
    <2>1. PICK pc \in {"stop", "close"} : main' = [main EXCEPT !.pc = pc, !.failed = TRUE]
      BY <1>3 DEF TeeFails
    <2>2. /\ main' \in [pc : MainPcs, failed : BOOLEAN, status : {"none", "success", "failed"}]
          /\ main'.pc = pc /\ main'.failed = TRUE
      BY <1>0, <2>1 DEF MainPcs
    <2> QED BY <1>1, <2>1, <2>2, MainMoves DEF Waited
  <1>4. CASE JoinWriter
    <2>1. main' = [main EXCEPT !.pc = IF main.failed THEN "stop" ELSE "wait"]
      BY <1>4 DEF JoinWriter, Go
    <2>2. /\ main' \in [pc : MainPcs, failed : BOOLEAN, status : {"none", "success", "failed"}]
          /\ main'.failed = main.failed
          /\ main'.pc = IF main.failed THEN "stop" ELSE "wait"
      BY <1>0, <2>1 DEF MainPcs
    <2> QED BY <1>1, <2>2, MainMoves DEF Waited
  <1>5. CASE WaitChild \/ StopWatchdog
    <2>1. PICK pc \in {"stop", "judge"} : main' = [main EXCEPT !.pc = pc]
      BY <1>5 DEF WaitChild, StopWatchdog, Go
    <2>2. /\ main' \in [pc : MainPcs, failed : BOOLEAN, status : {"none", "success", "failed"}]
          /\ main'.failed = main.failed /\ main'.pc = pc
      BY <1>0, <2>1 DEF MainPcs
    <2>3. Waited' => root # "alive"
      BY <1>5, <2>2 DEF WaitChild, StopWatchdog, At, Waited, StampInv, Stamped
    <2> QED BY <1>1, <2>2, <2>3, MainMoves
  <1> QED BY <1>2, <1>3, <1>4, <1>5

LEMMA JudgeStep == ASSUME StampInv, Judge PROVE StampInv'
  <1>1. main \in [pc : MainPcs, failed : BOOLEAN, status : {"none", "success", "failed"}]
    BY DEF StampInv, Shaped
  <1>2. main' = [main EXCEPT !.pc = "record",
                   !.status = IF main.failed \/ root = "bad" \/ dog.reason # "none"
                              THEN "failed" ELSE "success"]
    BY DEF Judge
  <1>3. /\ main' \in [pc : MainPcs, failed : BOOLEAN, status : {"none", "success", "failed"}]
        /\ main'.pc = "record" /\ main'.failed = main.failed
        /\ dog.reason # "none" => main'.status = "failed"
    BY <1>1, <1>2 DEF MainPcs
  <1>4. UNCHANGED <<root, dog, killed, record, logged>> /\ main.pc = "judge"
    BY DEF Judge, At, job
  <1> QED BY <1>3, <1>4 DEF StampInv, Shaped, Stamped, Waited

LEMMA RecordStep == ASSUME StampInv, Record PROVE StampInv'
  <1>1. main \in [pc : MainPcs, failed : BOOLEAN, status : {"none", "success", "failed"}]
    BY DEF StampInv, Shaped
  <1>2. /\ main' \in [pc : MainPcs, failed : BOOLEAN, status : {"none", "success", "failed"}]
        /\ main'.pc = "done" /\ main'.failed = main.failed /\ main'.status = main.status
    BY <1>1 DEF Record, Go, MainPcs
  <1>3. UNCHANGED <<root, dog, killed, logged>> /\ main.pc = "record"
    BY DEF Record, At, job
  <1>4. record' = [status |-> main.status, watchdog |-> dog.reason # "none"]
    BY DEF Record
  <1>5. killed /\ Waited' => record' = [status |-> "failed", watchdog |-> TRUE]
    BY <1>2, <1>3, <1>4 DEF StampInv, Stamped, Waited
  <1> QED BY <1>2, <1>3, <1>5 DEF StampInv, Shaped, Stamped, Waited

\* The watchdog moves on without killing.
LEMMA DogMoves ==
  ASSUME StampInv, UNCHANGED <<root, main, killed, record, logged>>,
         dog' \in [pc : {"off", "poll", "fire", "mark", "kill", "grace", "done"},
                   age : Int, quiet : Int, size : Int, reason : Reasons],
         dog.reason # "none" => dog'.reason # "none",
         dog'.pc \in {"kill", "grace"} => dog'.reason # "none"
  PROVE StampInv'
  BY DEF StampInv, Shaped, Stamped, Waited

LEMMA DogStepKeeps ==
  ASSUME StampInv,
         (\E readable \in BOOLEAN : Poll(readable)) \/ PollStopped \/ FireCheck
           \/ FireMark \/ KillGrace
  PROVE StampInv'
  <1> DEFINE Dogs == [pc : {"off", "poll", "fire", "mark", "kill", "grace", "done"},
                      age : Int, quiet : Int, size : Int, reason : Reasons]
  <1>0. dog \in Dogs /\ logged \in Int /\ RunMax \in Int /\ QuietMax \in Int
    BY BoundAssumption DEF StampInv, Shaped
  <1>1. UNCHANGED <<root, main, killed, record, logged>>
    BY DEF Poll, PollStopped, FireCheck, FireMark, KillGrace, job
  <1>2. CASE \E readable \in BOOLEAN : Poll(readable)
    <2>1. PICK age \in Int, quiet \in Int, size \in Int, pc \in {"fire", "poll"} :
            dog' = [dog EXCEPT !.age = age, !.quiet = quiet, !.size = size, !.pc = pc]
      <3>1. PICK readable \in BOOLEAN : Poll(readable)
        BY <1>2
      <3> DEFINE grown == readable /\ logged # dog.size
                 age == Older(dog.age, RunMax)
                 quiet == IF grown THEN 0 ELSE Older(dog.quiet, QuietMax)
                 size == IF grown THEN logged ELSE dog.size
                 overdue == RunMax > 0 /\ age > RunMax
                 silent == QuietMax > 0 /\ readable /\ quiet > QuietMax
                 pc == IF overdue \/ silent THEN "fire" ELSE "poll"
      <3>2. dog.age \in Int /\ dog.quiet \in Int /\ dog.size \in Int
        BY <1>0
      <3>3. age \in Int /\ quiet \in Int /\ size \in Int
        BY <1>0, <3>2 DEF Older
      <3>4. dog' = [dog EXCEPT !.age = age, !.quiet = quiet, !.size = size, !.pc = pc]
        BY <3>1 DEF Poll
      <3>5. pc \in {"fire", "poll"}
        OBVIOUS
      <3> HIDE DEF age, quiet, size, pc
      <3> QED BY <3>3, <3>4, <3>5
    <2>2. dog' \in Dogs /\ dog'.reason = dog.reason /\ dog'.pc \in {"fire", "poll"}
      BY <1>0, <2>1
    <2> QED BY <1>1, <2>2, DogMoves
  <1>3. CASE PollStopped \/ FireCheck \/ KillGrace
    <2>1. PICK pc \in {"mark", "done"} : dog' = [dog EXCEPT !.pc = pc]
      BY <1>3 DEF PollStopped, FireCheck, KillGrace
    <2>2. dog' \in Dogs /\ dog'.reason = dog.reason /\ dog'.pc \in {"mark", "done"}
      BY <1>0, <2>1
    <2> QED BY <1>1, <2>2, DogMoves
  <1>4. CASE FireMark
    <2>1. PICK reason \in {"max_runtime", "no_output"} :
            dog' = [dog EXCEPT !.pc = "kill", !.reason = reason]
      BY <1>4 DEF FireMark
    <2>2. dog' \in Dogs /\ dog'.reason = reason
      BY <1>0, <2>1 DEF Reasons
    <2> QED BY <1>1, <2>1, <2>2, DogMoves
  <1> QED BY <1>2, <1>3, <1>4

LEMMA KillTreeStep == ASSUME StampInv, KillTree PROVE StampInv'
  <1>1. /\ dog' \in [pc : {"off", "poll", "fire", "mark", "kill", "grace", "done"},
                      age : Int, quiet : Int, size : Int, reason : Reasons]
        /\ dog'.reason = dog.reason /\ dog.reason # "none"
    BY DEF KillTree, StampInv, Shaped, Stamped
  <1>2. UNCHANGED <<main, logged, record>>
    BY DEF KillTree
  <1>3. CASE root = "alive"
    <2>1. root' # "alive" /\ killed' = TRUE /\ ~Waited
      BY <1>3 DEF KillTree, StampInv, Stamped
    <2> QED BY <1>1, <1>2, <2>1 DEF StampInv, Shaped, Stamped, Waited
  <1>4. CASE root # "alive"
    <2>1. UNCHANGED <<root, killed>>
      BY <1>4 DEF KillTree
    <2> QED BY <1>1, <1>2, <1>4, <2>1 DEF StampInv, Shaped, Stamped, Waited
  <1> QED BY <1>3, <1>4

LEMMA StampStep == StampInv /\ [Next]_vars => StampInv'
  <1> SUFFICES ASSUME StampInv, [Next]_vars PROVE StampInv'
    OBVIOUS
  <1>1. CASE JobStep
    <2>1. UNCHANGED <<main, dog, killed, record>> /\ logged' \in Int
      BY <1>1 DEF JobStep, JobPrints, StartHelper, HelperExits, RootExits, StampInv, Shaped
    <2>2. root' = root \/ root' # "alive"
      BY <1>1 DEF JobStep, JobPrints, StartHelper, HelperExits, RootExits
    <2> QED BY <2>1, <2>2, AsideStep
  <1>2. CASE ConsoleChanges \/ WriterStep
    <2>1. UNCHANGED <<main, dog, killed, record, root, logged>>
      BY <1>2 DEF ConsoleChanges, WriterStep, WriterGet, WriterFails, WriterWrite, job
    <2> QED BY <2>1, AsideStep DEF StampInv, Shaped
  <1>3. CASE MainStep \/ TeeFails
    BY <1>3, MainStepKeeps, JudgeStep, RecordStep DEF MainStep
  <1>4. CASE DogStep
    BY <1>4, DogStepKeeps, KillTreeStep DEF DogStep
  <1>5. CASE UNCHANGED vars
    <2>1. UNCHANGED <<main, dog, killed, record, root, logged>>
      BY <1>5 DEF vars, job
    <2> QED BY <2>1, AsideStep DEF StampInv, Shaped
  <1> QED BY <1>1, <1>2, <1>3, <1>4, <1>5 DEF Next

\* In every interleaving of the watchdog, the job and the main thread, a run
\* the watchdog killed is recorded as failed, by the watchdog.
THEOREM KilledIsStampedAlways == Spec => []KilledIsStamped
  <1>1. Init => StampInv
    BY StampInit, BoundAssumption
  <1>2. StampInv => KilledIsStamped
    BY DEF StampInv, Stamped, KilledIsStamped, Waited, At
  <1> QED BY <1>1, <1>2, StampStep, PTL DEF Spec

-----------------------------------------------------------------------------
(* Types, and what the console is shown. *)

\* The chunks offered to the console by now; a chunk is logged before it is.
Told == IF At("offer") THEN logged - 1 ELSE logged

\* Chunks are queued in order, but for the sentinel.
Sorted(s) == \A i, j \in DOMAIN s : (i < j /\ s[i] # Sentinel /\ s[j] # Sentinel) => s[i] < s[j]

\* What was shown comes before the chunk in the writer's hand, that before what
\* is queued, and all of it was offered; only a visible job has a console.
InOrder ==
  /\ ~visible => console = "none"
  /\ At("offer") => logged > 0
  /\ writer.chunk # 0 => writer.pc = "write"
  /\ writer.pc = "write" => writer.chunk # 0
  /\ Increasing(shown) /\ Sorted(chunks)
  /\ Elements(shown) \subseteq 1 .. Told /\ writer.chunk <= Told
  /\ \A k \in Elements(chunks) : k <= Told
  /\ \A s \in Elements(shown) :
       /\ writer.chunk # 0 => s < writer.chunk
       /\ \A k \in Elements(chunks) : k # Sentinel => s < k
  /\ \A k \in Elements(chunks) : (k # Sentinel /\ writer.chunk # 0) => writer.chunk < k

ConsoleInv == TypeOK /\ InOrder /\ ConsoleFaithful

\* What is in a sequence after an append, and after its head is taken.
LEMMA ElementsAppend ==
  ASSUME NEW S, NEW s \in Seq(S), NEW x \in S
  PROVE Elements(Append(s, x)) = Elements(s) \cup {x}
  <1> DEFINE t == Append(s, x)
  <1>1. /\ \A i \in DOMAIN s : i \in DOMAIN t /\ t[i] = s[i]
        /\ \A i \in DOMAIN t : i \in DOMAIN s \/ t[i] = x
        /\ Len(s) + 1 \in DOMAIN t /\ t[Len(s) + 1] = x
    OBVIOUS
  <1> HIDE DEF t
  <1> QED BY <1>1 DEF Elements, t

LEMMA ElementsTail ==
  ASSUME NEW S, NEW s \in Seq(S), s # << >>
  PROVE Elements(s) = Elements(Tail(s)) \cup {Head(s)} /\ Head(s) \in S /\ Tail(s) \in Seq(S)
        /\ Len(Tail(s)) = Len(s) - 1
  <1> DEFINE t == Tail(s)  x == Head(s)
  <1>1. /\ x \in S /\ t \in Seq(S) /\ 1 \in DOMAIN s /\ s[1] = x /\ Len(t) = Len(s) - 1
        /\ \A i \in DOMAIN t : i + 1 \in DOMAIN s /\ t[i] = s[i + 1]
        /\ \A i \in DOMAIN s : i = 1 \/ (i - 1 \in DOMAIN t /\ t[i - 1] = s[i])
    OBVIOUS
  <1> HIDE DEF t, x
  <1>2. Elements(s) = Elements(t) \cup {x}
    <2>1. ASSUME NEW i \in DOMAIN s PROVE s[i] \in Elements(t) \cup {x}
      <3>1. CASE i = 1
        BY <1>1, <3>1
      <3>2. CASE i # 1
        BY <1>1, <3>2 DEF Elements
      <3> QED BY <3>1, <3>2
    <2>2. x \in Elements(s) /\ \A i \in DOMAIN t : t[i] \in Elements(s)
      BY <1>1 DEF Elements
    <2> QED BY <2>1, <2>2 DEF Elements
  <1> QED BY <1>1, <1>2 DEF t, x

LEMMA IncreasingAppend ==
  ASSUME NEW s \in Seq(Int), NEW x \in Int, Increasing(s), \A e \in Elements(s) : e < x
  PROVE Increasing(Append(s, x))
  <1> DEFINE t == Append(s, x)
  <1>1. /\ Len(t) = Len(s) + 1 /\ Len(s) \in Nat
        /\ \A i \in 1 .. Len(s) : t[i] = s[i] /\ i \in DOMAIN s
        /\ t[Len(s) + 1] = x
    OBVIOUS
  <1> HIDE DEF t
  <1>2. ASSUME NEW i \in 1 .. Len(t) - 1 PROVE t[i] < t[i + 1]
    <2>1. i \in 1 .. Len(s) /\ t[i] = s[i] /\ s[i] \in Elements(s)
      BY <1>1, <1>2 DEF Elements
    <2>2. CASE i = Len(s)
      BY <1>1, <2>1, <2>2
    <2>3. CASE i # Len(s)
      <3>1. i \in 1 .. Len(s) - 1 /\ i + 1 \in 1 .. Len(s)
        BY <1>1, <2>1, <2>3
      <3> QED BY <1>1, <2>1, <3>1 DEF Increasing
    <2> QED BY <2>2, <2>3
  <1> QED BY <1>2 DEF Increasing, t

LEMMA SortedAppend ==
  ASSUME NEW s \in Seq(Int), NEW x \in Int, Sorted(s),
         x # Sentinel => \A k \in Elements(s) : k # Sentinel => k < x
  PROVE Sorted(Append(s, x))
  <1> DEFINE t == Append(s, x)
  <1>1. /\ \A i \in DOMAIN s : i \in DOMAIN t /\ t[i] = s[i]
        /\ \A i \in DOMAIN t : i \in DOMAIN s \/ (i = Len(s) + 1 /\ t[i] = x)
    OBVIOUS
  <1>2. \A i, j \in DOMAIN t : i < j => i \in DOMAIN s
    <2>1. DOMAIN t = 1 .. Len(s) + 1 /\ DOMAIN s = 1 .. Len(s) /\ Len(s) \in Nat
      OBVIOUS
    <2> QED BY <2>1
  <1> HIDE DEF t
  <1>3. ASSUME NEW i \in DOMAIN t, NEW j \in DOMAIN t, i < j, t[i] # Sentinel, t[j] # Sentinel
        PROVE t[i] < t[j]
    <2>1. i \in DOMAIN s /\ t[i] = s[i] /\ s[i] \in Elements(s)
      BY <1>1, <1>2, <1>3 DEF Elements
    <2>2. CASE j \in DOMAIN s
      BY <1>1, <1>3, <2>1, <2>2 DEF Sorted
    <2>3. CASE j \notin DOMAIN s
      BY <1>1, <1>3, <2>1, <2>3
    <2> QED BY <2>2, <2>3
  <1> QED BY <1>3 DEF Sorted, t

LEMMA SortedTail ==
  ASSUME NEW s \in Seq(Int), s # << >>, Sorted(s)
  PROVE /\ Sorted(Tail(s))
        /\ Head(s) # Sentinel => \A k \in Elements(Tail(s)) : k # Sentinel => Head(s) < k
  <1> DEFINE t == Tail(s)  x == Head(s)
  <1>1. /\ 1 \in DOMAIN s /\ s[1] = x
        /\ \A i \in DOMAIN t : i + 1 \in DOMAIN s /\ t[i] = s[i + 1] /\ 1 < i + 1
        /\ \A i, j \in DOMAIN t : i < j => i + 1 < j + 1
    OBVIOUS
  <1> HIDE DEF t, x
  <1>2. Sorted(t)
    <2> SUFFICES ASSUME NEW i \in DOMAIN t, NEW j \in DOMAIN t, i < j,
                        t[i] # Sentinel, t[j] # Sentinel
                 PROVE t[i] < t[j]
      BY DEF Sorted
    <2> QED BY <1>1 DEF Sorted
  <1>3. ASSUME x # Sentinel, NEW k \in Elements(t), k # Sentinel PROVE x < k
    <2>1. PICK i \in DOMAIN t : t[i] = k
      BY <1>3 DEF Elements
    <2>2. s[i + 1] = k /\ 1 < i + 1 /\ i + 1 \in DOMAIN s
      BY <1>1, <2>1
    <2> QED BY <1>1, <1>3, <2>2 DEF Sorted
  <1> QED BY <1>2, <1>3 DEF t, x

-----------------------------------------------------------------------------
(* Each action and the types. *)

JobTypes ==
  /\ visible \in BOOLEAN /\ stopped \in BOOLEAN /\ killed \in BOOLEAN
  /\ root \in {"alive", "ok", "bad"} /\ helper \in {"none", "alive", "gone"}
  /\ printed \in 0 .. MaxChunks /\ logged \in 0 .. printed
  /\ record \in [status : {"none", "success", "failed"}, watchdog : BOOLEAN]
MainTypes == main \in [pc : MainPcs, failed : BOOLEAN, status : {"none", "success", "failed"}]
DisplayTypes ==
  /\ console \in {"none", "ok", "wedged", "broken"}
  /\ chunks \in Seq(Sentinel .. MaxChunks) /\ Len(chunks) <= QueueMax
  /\ writer \in [pc : {"none", "get", "write", "end"}, chunk : 0 .. MaxChunks, broken : BOOLEAN]
  /\ shown \in Seq(1 .. MaxChunks) /\ dropped \subseteq 1 .. MaxChunks
DogTypes ==
  dog \in [pc : {"off", "poll", "fire", "mark", "kill", "grace", "done"},
           age : 0 .. RunMax + 1, quiet : 0 .. QuietMax + 1, size : 0 .. MaxChunks,
           reason : Reasons]

LEMMA TypeParts == TypeOK <=> JobTypes /\ MainTypes /\ DisplayTypes /\ DogTypes
  BY DEF TypeOK, JobTypes, MainTypes, DisplayTypes, DogTypes, MainPcs, Reasons

LEMMA TypesInit == ASSUME BoundAssumption, Init PROVE TypeOK
  <1>1. visible \in BOOLEAN /\ stopped \in BOOLEAN /\ killed \in BOOLEAN
    BY Zenon DEF Init
  <1>2. JobTypes
    BY <1>1 DEF Init, JobTypes, BoundAssumption
  <1>3. MainTypes
    BY DEF Init, MainTypes, MainPcs
  <1>4. DisplayTypes
    <2>1. << >> \in Seq(Sentinel .. MaxChunks) /\ << >> \in Seq(1 .. MaxChunks) /\ Len(<< >>) = 0
      OBVIOUS
    <2>2. writer \in [pc : {"none", "get", "write", "end"}, chunk : 0 .. MaxChunks, broken : BOOLEAN]
      BY DEF Init, BoundAssumption
    <2>3. console \in {"none", "ok"}
      BY DEF Init
    <2> QED BY <2>1, <2>2, <2>3 DEF Init, DisplayTypes, BoundAssumption
  <1>5. DogTypes
    BY DEF Init, DogTypes, Reasons, BoundAssumption
  <1> QED BY <1>2, <1>3, <1>4, <1>5, TypeParts

LEMMA JobTypesStep == ASSUME TypeOK, [Next]_vars PROVE JobTypes'
  <1>0. JobTypes /\ MaxChunks \in Nat /\ MainTypes
    BY TypeParts, BoundAssumption DEF BoundAssumption
  <1>1. CASE JobPrints
    BY <1>0, <1>1 DEF JobPrints, JobTypes
  <1>2. CASE StartHelper \/ HelperExits \/ RootExits
    BY <1>0, <1>2 DEF StartHelper, HelperExits, RootExits, JobTypes
  <1>3. CASE ConsoleChanges \/ WriterStep \/ UNCHANGED vars
    BY <1>0, <1>3 DEF ConsoleChanges, WriterStep, WriterGet, WriterFails, WriterWrite, vars, job,
                      JobTypes
  <1>4. CASE TeeChunk
    BY <1>0, <1>4 DEF TeeChunk, job, JobTypes
  <1>5. CASE TeeFails \/ TeeEof \/ Offer \/ CloseConsole \/ JoinWriter \/ WaitChild \/ Judge
    BY <1>0, <1>5 DEF TeeFails, TeeEof, Offer, CloseConsole, JoinWriter, WaitChild, Judge, job,
                      JobTypes
  <1>6. CASE StopWatchdog
    BY <1>0, <1>6 DEF StopWatchdog, job, JobTypes
  <1>7. CASE Record
    <2>1. record' \in [status : {"none", "success", "failed"}, watchdog : BOOLEAN]
      BY <1>0, <1>7 DEF Record, MainTypes
    <2> QED BY <1>0, <1>7, <2>1 DEF Record, job, JobTypes
  <1>8. CASE (\E readable \in BOOLEAN : Poll(readable)) \/ PollStopped \/ FireCheck \/ FireMark
             \/ KillGrace
    BY <1>0, <1>8 DEF Poll, PollStopped, FireCheck, FireMark, KillGrace, job, JobTypes
  <1>9. CASE KillTree
    BY <1>0, <1>9 DEF KillTree, JobTypes
  <1> QED BY <1>1, <1>2, <1>3, <1>4, <1>5, <1>6, <1>7, <1>8, <1>9
          DEF Next, JobStep, MainStep, DogStep

LEMMA MainTypesStep == ASSUME TypeOK, [Next]_vars PROVE MainTypes'
  <1>0. MainTypes
    BY TypeParts
  <1>1. CASE JobStep \/ ConsoleChanges \/ WriterStep \/ DogStep \/ UNCHANGED vars
    BY <1>0, <1>1 DEF JobStep, JobPrints, StartHelper, HelperExits, RootExits, ConsoleChanges,
       WriterStep, WriterGet, WriterFails, WriterWrite, DogStep, Poll, PollStopped, FireCheck,
       FireMark, KillTree, KillGrace, vars, MainTypes
  <1>2. CASE TeeChunk \/ TeeEof \/ Offer \/ CloseConsole \/ JoinWriter \/ WaitChild
             \/ StopWatchdog \/ Record
    <2>1. PICK pc \in MainPcs : main' = [main EXCEPT !.pc = pc]
      BY <1>2 DEF TeeChunk, TeeEof, Offer, CloseConsole, JoinWriter, WaitChild, StopWatchdog,
                  Record, Go, Teed, Closed, MainPcs
    <2> QED BY <1>0, <2>1 DEF MainTypes
  <1>3. CASE TeeFails
    <2>1. PICK pc \in MainPcs : main' = [main EXCEPT !.pc = pc, !.failed = TRUE]
      BY <1>3 DEF TeeFails, MainPcs
    <2> QED BY <1>0, <2>1 DEF MainTypes
  <1>4. CASE Judge
    <2>1. PICK status \in {"success", "failed"} :
            main' = [main EXCEPT !.pc = "record", !.status = status]
      BY <1>4 DEF Judge
    <2> QED BY <1>0, <2>1 DEF MainTypes, MainPcs
  <1> QED BY <1>1, <1>2, <1>3, <1>4 DEF Next, MainStep

\* A poll's counters stop one past their ceilings.
LEMMA DogTypesStep == ASSUME TypeOK, [Next]_vars PROVE DogTypes'
  <1>0. /\ DogTypes /\ RunMax \in Nat /\ QuietMax \in Nat /\ logged \in 0 .. MaxChunks
        /\ MaxChunks \in Nat
    BY TypeParts, BoundAssumption DEF BoundAssumption, JobTypes
  <1>1. CASE JobStep \/ ConsoleChanges \/ MainStep \/ TeeFails \/ WriterStep \/ UNCHANGED vars
    BY <1>0, <1>1 DEF JobStep, JobPrints, StartHelper, HelperExits, RootExits, ConsoleChanges,
       WriterStep, WriterGet, WriterFails, WriterWrite, MainStep, TeeChunk, TeeFails, TeeEof,
       Offer, CloseConsole, JoinWriter, WaitChild, StopWatchdog, Judge, Record, vars, DogTypes
  <1>2. CASE PollStopped \/ FireCheck \/ KillGrace \/ KillTree
    <2>1. PICK pc \in {"mark", "done", "grace"} : dog' = [dog EXCEPT !.pc = pc]
      BY <1>2 DEF PollStopped, FireCheck, KillGrace, KillTree
    <2> QED BY <1>0, <2>1 DEF DogTypes
  <1>3. CASE FireMark
    <2>1. PICK reason \in Reasons : dog' = [dog EXCEPT !.pc = "kill", !.reason = reason]
      BY <1>3 DEF FireMark, Reasons
    <2> QED BY <1>0, <2>1 DEF DogTypes
  <1>4. ASSUME NEW readable \in BOOLEAN, Poll(readable) PROVE DogTypes'
    <2> DEFINE grown == readable /\ logged # dog.size
               age == Older(dog.age, RunMax)
               quiet == IF grown THEN 0 ELSE Older(dog.quiet, QuietMax)
               size == IF grown THEN logged ELSE dog.size
               overdue == RunMax > 0 /\ age > RunMax
               silent == QuietMax > 0 /\ readable /\ quiet > QuietMax
               pc == IF overdue \/ silent THEN "fire" ELSE "poll"
    <2>1. dog.age \in 0 .. RunMax + 1 /\ dog.quiet \in 0 .. QuietMax + 1 /\ dog.size \in 0 .. MaxChunks
      BY <1>0 DEF DogTypes
    <2>2. age \in 0 .. RunMax + 1
      BY <1>0, <2>1 DEF Older
    <2>3. quiet \in 0 .. QuietMax + 1
      BY <1>0, <2>1 DEF Older
    <2>4. size \in 0 .. MaxChunks
      BY <1>0, <2>1
    <2>5. pc \in {"fire", "poll"}
      OBVIOUS
    <2>6. dog' = [dog EXCEPT !.age = age, !.quiet = quiet, !.size = size, !.pc = pc]
      BY <1>4 DEF Poll
    <2> HIDE DEF age, quiet, size, pc
    <2> QED BY <1>0, <2>2, <2>3, <2>4, <2>5, <2>6 DEF DogTypes
  <1> QED BY <1>1, <1>2, <1>3, <1>4 DEF Next, DogStep

\* What the display is made of, as plain facts.
LEMMA DisplayFacts ==
  ASSUME ConsoleInv
  PROVE /\ DisplayTypes /\ MaxChunks \in Nat /\ QueueMax \in Nat \ {0}
        /\ printed \in 0 .. MaxChunks /\ logged \in 0 .. MaxChunks
        /\ chunks \in Seq(Int) /\ shown \in Seq(Int) /\ Told \in Int /\ Told <= logged
        /\ Elements(chunks) \subseteq Sentinel .. MaxChunks
        /\ Elements(shown) \subseteq 1 .. MaxChunks
        /\ writer.chunk \in 0 .. MaxChunks
        /\ InOrder /\ ConsoleFaithful
  <1>1. DisplayTypes /\ JobTypes /\ MaxChunks \in Nat /\ QueueMax \in Nat \ {0}
    BY TypeParts, BoundAssumption DEF BoundAssumption, ConsoleInv
  <1>2. printed \in 0 .. MaxChunks /\ logged \in 0 .. MaxChunks
    BY <1>1 DEF JobTypes
  <1>3. Told \in Int /\ Told <= logged
    BY <1>2 DEF Told
  <1>4. /\ Elements(chunks) \subseteq Sentinel .. MaxChunks
        /\ Elements(shown) \subseteq 1 .. MaxChunks
    <2>1. ASSUME NEW S, NEW s \in Seq(S) PROVE Elements(s) \subseteq S
      BY DEF Elements
    <2>2. chunks \in Seq(Sentinel .. MaxChunks) /\ shown \in Seq(1 .. MaxChunks)
      BY <1>1 DEF DisplayTypes
    <2> QED BY <2>1, <2>2
  <1>5. chunks \in Seq(Int) /\ shown \in Seq(Int)
    <2>1. chunks \in Seq(Sentinel .. MaxChunks) /\ shown \in Seq(1 .. MaxChunks)
      BY <1>1 DEF DisplayTypes
    <2>2. ASSUME NEW S \in SUBSET Int, NEW s \in Seq(S) PROVE s \in Seq(Int)
      <3>1. Len(s) \in Nat /\ DOMAIN s = 1 .. Len(s) /\ s = [i \in 1 .. Len(s) |-> s[i]]
        OBVIOUS
      <3>2. \A i \in 1 .. Len(s) : s[i] \in S
        OBVIOUS
      <3>3. s \in [1 .. Len(s) -> Int]
        BY <3>1, <3>2
      <3> QED BY <3>1, <3>3
    <2>3. Sentinel .. MaxChunks \in SUBSET Int /\ 1 .. MaxChunks \in SUBSET Int
      OBVIOUS
    <2> QED BY <2>1, <2>2, <2>3
  <1>6. writer.chunk \in 0 .. MaxChunks
    BY <1>1 DEF DisplayTypes
  <1> QED BY <1>1, <1>2, <1>3, <1>4, <1>5, <1>6 DEF ConsoleInv

-----------------------------------------------------------------------------
(* Each action and the console. *)

ConsoleSound == DisplayTypes /\ InOrder /\ ConsoleFaithful

\* Steps that leave the display, the log and the offer as they are.
LEMMA AsideOfConsole ==
  ASSUME ConsoleInv, UNCHANGED <<visible, console, logged, chunks, writer, shown, dropped>>,
         main'.pc = "offer" <=> main.pc = "offer"
  PROVE ConsoleSound'
  <1>1. At("offer")' <=> At("offer")
    BY DEF At
  <1>2. Told' = Told
    BY <1>1 DEF Told
  <1>3. ConsoleSound
    BY DisplayFacts DEF ConsoleSound
  <1>4. InOrder'
    BY <1>1, <1>2, <1>3 DEF ConsoleSound, InOrder, Sorted, Increasing, Elements
  <1>5. ConsoleFaithful'
    BY <1>1, <1>3 DEF ConsoleSound, ConsoleFaithful, Increasing, Elements
  <1> QED BY <1>3, <1>4, <1>5 DEF ConsoleSound, DisplayTypes

\* A console that was there stays there, in one state or another.
LEMMA ConsoleChangesStep == ASSUME ConsoleInv, ConsoleChanges PROVE ConsoleSound'
  <1>1. /\ UNCHANGED <<visible, logged, main, chunks, writer, shown, dropped>>
        /\ console # "none" /\ console' \in {"ok", "wedged", "broken"}
    BY DEF ConsoleChanges, job
  <1>2. ConsoleSound
    BY DisplayFacts DEF ConsoleSound
  <1>3. Told' = Told /\ (At("offer")' <=> At("offer"))
    BY <1>1 DEF Told, At
  <1>4. InOrder'
    BY <1>1, <1>2, <1>3 DEF ConsoleSound, InOrder, Sorted, Increasing, Elements
  <1>5. ConsoleFaithful'
    BY <1>1, <1>2, <1>3 DEF ConsoleSound, ConsoleFaithful, Increasing, Elements
  <1> QED BY <1>1, <1>2, <1>4, <1>5 DEF ConsoleSound, DisplayTypes

\* More was offered, or the log grew where nobody displays it: what is in the
\* display stays in order.
LEMMA OrderGrows ==
  ASSUME ConsoleInv, UNCHANGED <<chunks, writer, shown>>, Told' \in Int, Told <= Told',
         ~visible' => console' = "none", At("offer")' => logged' > 0
  PROVE InOrder'
  <1>1. InOrder /\ Told \in Int /\ writer.chunk \in Int /\ Elements(chunks) \subseteq Int
    BY DisplayFacts
  <1>2. Elements(shown) \subseteq 1 .. Told'
    BY <1>1 DEF InOrder
  <1>3. writer.chunk <= Told' /\ \A k \in Elements(chunks) : k <= Told'
    BY <1>1 DEF InOrder
  <1>4. Elements(shown)' = Elements(shown) /\ Elements(chunks)' = Elements(chunks)
        /\ (Sorted(chunks)' <=> Sorted(chunks)) /\ (Increasing(shown)' <=> Increasing(shown))
    BY DEF Elements, Sorted, Increasing
  <1> QED BY <1>1, <1>2, <1>3, <1>4 DEF InOrder

LEMMA JobPrintsStep == ASSUME ConsoleInv, JobPrints PROVE ConsoleSound'
  <1>1. /\ UNCHANGED <<visible, main, console, chunks, writer, shown, dropped>>
        /\ logged' = IF visible THEN logged ELSE logged + 1
    BY DEF JobPrints, display
  <1>2. ConsoleSound /\ logged \in Nat /\ (~visible => console = "none")
    BY DisplayFacts DEF ConsoleSound, InOrder
  <1>3. CASE visible
    BY <1>1, <1>3, AsideOfConsole
  <1>4. CASE ~visible
    <2>1. console = "none" /\ logged' = logged + 1 /\ (At("offer")' <=> At("offer"))
      BY <1>1, <1>2, <1>4 DEF At
    <2>2. Told' = Told + 1 /\ Told \in Int
      BY <1>2, <2>1 DEF Told
    <2>3. InOrder'
      BY <1>1, <1>2, <2>1, <2>2, OrderGrows
    <2>4. Elements(shown) \subseteq 1 .. logged'
      BY <1>2, <2>1 DEF ConsoleSound, ConsoleFaithful
    <2>5. ConsoleFaithful'
      <3>1. Elements(shown)' = Elements(shown) /\ (Increasing(shown)' <=> Increasing(shown))
        BY <1>1 DEF Elements, Increasing
      <3> QED BY <1>1, <1>2, <2>1, <2>4, <3>1 DEF ConsoleSound, ConsoleFaithful
    <2> QED BY <1>1, <1>2, <2>3, <2>5 DEF ConsoleSound, DisplayTypes
  <1> QED BY <1>3, <1>4

\* A chunk is in the log before it is offered.
LEMMA TeeChunkStep == ASSUME ConsoleInv, TeeChunk PROVE ConsoleSound'
  <1>1. UNCHANGED <<visible, console, chunks, writer, shown, dropped>> /\ logged' = logged + 1
        /\ main.pc = "tee" /\ main' = [main EXCEPT !.pc = Teed]
    BY DEF TeeChunk, display, job, At, Go
  <1>2. main'.pc = Teed
    BY <1>1, TypeParts DEF ConsoleInv, MainTypes
  <1>3. ConsoleSound /\ logged \in Nat
    BY DisplayFacts DEF ConsoleSound
  <1>4. ~At("offer") /\ Told = logged
    BY <1>1 DEF At, Told
  <1>5. Told' \in Int /\ Told <= Told' /\ logged' > 0
    BY <1>1, <1>3, <1>4 DEF Told
  <1>6. InOrder'
    BY <1>1, <1>3, <1>5, OrderGrows DEF ConsoleSound, InOrder
  <1>7. /\ Elements(shown)' = Elements(shown) /\ (Increasing(shown)' <=> Increasing(shown))
        /\ Elements(chunks)' = Elements(chunks)
    BY <1>1 DEF Elements, Increasing
  <1>8. Increasing(shown) /\ Elements(shown) \subseteq 1 .. logged'
    BY <1>1, <1>3 DEF ConsoleSound, ConsoleFaithful
  <1>9. ASSUME console # "none", ~writer.broken, NEW n \in 1 .. logged'
        PROVE \/ n \in Elements(shown) \cup Elements(chunks) \cup dropped
              \/ writer.chunk = n
              \/ At("offer")' /\ n = logged'
    <2>1. At("offer")'
      BY <1>2, <1>9 DEF At, Teed
    <2>2. CASE n = logged'
      BY <2>1, <2>2
    <2>3. CASE n # logged'
      <3>1. n \in 1 .. logged
        BY <1>1, <1>3, <1>9, <2>3
      <3> QED BY <1>3, <1>4, <1>9, <3>1 DEF ConsoleSound, ConsoleFaithful
    <2> QED BY <2>2, <2>3
  <1>10. ConsoleFaithful'
    BY <1>1, <1>7, <1>8, <1>9 DEF ConsoleFaithful
  <1> QED BY <1>1, <1>3, <1>6, <1>10 DEF ConsoleSound, DisplayTypes

\* A chunk is offered after all that were told before it, so it goes last.
LEMMA OfferStep == ASSUME ConsoleInv, Offer PROVE ConsoleSound'
  <1>1. /\ UNCHANGED <<visible, console, writer, shown, logged>>
        /\ main.pc = "offer" /\ main' = [main EXCEPT !.pc = "tee"]
    BY DEF Offer, job, At, Go
  <1>2. main'.pc = "tee"
    BY <1>1, TypeParts DEF ConsoleInv, MainTypes
  <1>3. /\ ConsoleSound /\ logged \in 0 .. MaxChunks /\ MaxChunks \in Nat /\ chunks \in Seq(Int)
        /\ writer.chunk \in Int /\ Elements(chunks) \subseteq Int
        /\ Elements(shown) \subseteq Int /\ QueueMax \in Nat
    BY DisplayFacts DEF ConsoleSound
  <1>4. At("offer") /\ ~At("offer")' /\ Told = logged - 1 /\ Told' = logged /\ logged > 0
    BY <1>1, <1>2, <1>3 DEF At, Told, ConsoleSound, InOrder
  <1>5. /\ Elements(shown)' = Elements(shown) /\ (Increasing(shown)' <=> Increasing(shown))
    BY <1>1 DEF Elements, Increasing
  <1>6. /\ Elements(shown) \subseteq 1 .. Told' /\ writer.chunk < logged
        /\ \A k \in Elements(chunks) : k < logged
        /\ \A s \in Elements(shown) : s < logged
    BY <1>3, <1>4 DEF ConsoleSound, InOrder
  <1>7. CASE Len(chunks) < QueueMax /\ chunks' = Append(chunks, logged) /\ UNCHANGED dropped
    <2> DEFINE t == Append(chunks, logged)
    <2>1. Elements(t) = Elements(chunks) \cup {logged}
      BY <1>3, ElementsAppend
    <2>2. Sorted(t)
      BY <1>3, <1>6, SortedAppend DEF ConsoleSound, InOrder
    <2>3. t \in Seq(Sentinel .. MaxChunks) /\ Len(t) <= QueueMax
      <3>1. chunks \in Seq(Sentinel .. MaxChunks) /\ logged \in Sentinel .. MaxChunks
        BY <1>3 DEF ConsoleSound, DisplayTypes, Sentinel
      <3>2. Len(t) = Len(chunks) + 1 /\ Len(chunks) \in Nat
        BY <3>1
      <3> QED BY <1>3, <1>7, <3>1, <3>2
    <2>4. chunks' = t
      BY <1>7
    <2> HIDE DEF t
    <2>5. Elements(chunks)' = Elements(chunks) \cup {logged} /\ Sorted(chunks)'
      BY <2>1, <2>2, <2>4 DEF Elements, Sorted
    <2>6. DisplayTypes'
      BY <1>1, <1>3, <1>7, <2>3, <2>4 DEF ConsoleSound, DisplayTypes
    <2>7. InOrder'
      BY <1>1, <1>3, <1>4, <1>5, <1>6, <2>5 DEF ConsoleSound, InOrder
    <2>8. ConsoleFaithful'
      BY <1>1, <1>3, <1>4, <1>5, <1>7, <2>5 DEF ConsoleSound, ConsoleFaithful
    <2> QED BY <2>6, <2>7, <2>8 DEF ConsoleSound
  <1>8. CASE dropped' = dropped \cup {logged} /\ UNCHANGED chunks
    <2>1. DisplayTypes'
      BY <1>1, <1>3, <1>4, <1>8 DEF ConsoleSound, DisplayTypes
    <2>2. InOrder'
      BY <1>1, <1>3, <1>4, <1>8, OrderGrows DEF ConsoleSound, InOrder
    <2>3. Elements(chunks)' = Elements(chunks)
      BY <1>8 DEF Elements
    <2>4. ConsoleFaithful'
      BY <1>1, <1>3, <1>4, <1>5, <1>8, <2>3 DEF ConsoleSound, ConsoleFaithful
    <2> QED BY <2>1, <2>2, <2>4 DEF ConsoleSound
  <1> QED BY <1>7, <1>8 DEF Offer

\* The sentinel goes last if there is room, and is skipped if there is not.
LEMMA CloseConsoleStep == ASSUME ConsoleInv, CloseConsole PROVE ConsoleSound'
  <1>1. /\ UNCHANGED <<visible, console, writer, shown, logged, dropped>>
        /\ main.pc = "close" /\ main' = [main EXCEPT !.pc = "join"]
        /\ chunks' = IF Len(chunks) < QueueMax THEN Append(chunks, Sentinel) ELSE chunks
    BY DEF CloseConsole, job, At, Go
  <1>2. main'.pc = "join"
    BY <1>1, TypeParts DEF ConsoleInv, MainTypes
  <1>3. /\ ConsoleSound /\ logged \in Nat /\ MaxChunks \in Nat /\ chunks \in Seq(Int)
        /\ QueueMax \in Nat /\ Told \in Int
    BY DisplayFacts DEF ConsoleSound
  <1>4. ~At("offer") /\ ~At("offer")' /\ Told = logged /\ Told' = logged
    BY <1>1, <1>2 DEF At, Told
  <1>5. CASE Len(chunks) < QueueMax
    <2> DEFINE t == Append(chunks, Sentinel)
    <2>1. Elements(t) = Elements(chunks) \cup {Sentinel}
      BY <1>3, ElementsAppend DEF Sentinel
    <2>2. Sorted(t)
      BY <1>3, SortedAppend DEF ConsoleSound, InOrder, Sentinel
    <2>3. t \in Seq(Sentinel .. MaxChunks) /\ Len(t) <= QueueMax
      <3>1. chunks \in Seq(Sentinel .. MaxChunks) /\ Sentinel \in Sentinel .. MaxChunks
        BY <1>3 DEF ConsoleSound, DisplayTypes, Sentinel
      <3>2. Len(t) = Len(chunks) + 1 /\ Len(chunks) \in Nat
        BY <3>1
      <3> QED BY <1>3, <1>5, <3>1, <3>2
    <2>4. chunks' = t
      BY <1>1, <1>5
    <2> HIDE DEF t
    <2>5. Elements(chunks)' = Elements(chunks) \cup {Sentinel} /\ Sorted(chunks)'
          /\ Elements(shown)' = Elements(shown) /\ (Increasing(shown)' <=> Increasing(shown))
      BY <1>1, <2>1, <2>2, <2>4 DEF Elements, Sorted, Increasing
    <2>6. DisplayTypes'
      BY <1>1, <1>3, <2>3, <2>4 DEF ConsoleSound, DisplayTypes
    <2>7. InOrder'
      BY <1>1, <1>3, <1>4, <2>5 DEF ConsoleSound, InOrder, Sentinel
    <2>8. ConsoleFaithful'
      BY <1>1, <1>3, <1>4, <2>5 DEF ConsoleSound, ConsoleFaithful
    <2> QED BY <2>6, <2>7, <2>8 DEF ConsoleSound
  <1>6. CASE ~(Len(chunks) < QueueMax)
    BY <1>1, <1>2, <1>6, AsideOfConsole
  <1> QED BY <1>5, <1>6

\* The head of the queue goes to the writer's hand: it comes after all that was
\* shown and before all that is left.
LEMMA WriterGetStep == ASSUME ConsoleInv, WriterGet PROVE ConsoleSound'
  <1> DEFINE t == Tail(chunks)  x == Head(chunks)
             chunk == IF writer.broken THEN 0 ELSE x
             pc == IF x = Sentinel THEN "end" ELSE IF writer.broken THEN "get" ELSE "write"
  <1>1. /\ UNCHANGED <<visible, console, main, shown, logged, dropped>>
        /\ writer.pc = "get" /\ chunks # << >> /\ chunks' = t
        /\ writer' = [writer EXCEPT !.chunk = chunk, !.pc = pc]
    BY DEF WriterGet, job
  <1>2. /\ ConsoleSound /\ logged \in Nat /\ MaxChunks \in Nat /\ chunks \in Seq(Int)
        /\ Told \in Int /\ chunks \in Seq(Sentinel .. MaxChunks)
        /\ writer \in [pc : {"none", "get", "write", "end"}, chunk : 0 .. MaxChunks, broken : BOOLEAN]
    BY DisplayFacts DEF ConsoleSound, DisplayTypes
  <1>3. /\ Elements(chunks) = Elements(t) \cup {x} /\ x \in Sentinel .. MaxChunks
        /\ t \in Seq(Sentinel .. MaxChunks) /\ Len(t) = Len(chunks) - 1
    BY <1>1, <1>2, ElementsTail
  <1>4. /\ Sorted(t)
        /\ x # Sentinel => \A k \in Elements(t) : k # Sentinel => x < k
    BY <1>1, <1>2, SortedTail DEF ConsoleSound, InOrder
  <1>5. pc \in {"end", "get", "write"} /\ (pc = "write" => x # Sentinel /\ ~writer.broken)
        /\ (pc # "write" => writer.broken \/ x = Sentinel)
        /\ (chunk = x \/ (writer.broken /\ chunk = 0))
        /\ (writer.broken => chunk = 0)
    OBVIOUS
  <1>6. Len(chunks) \in Nat
    BY <1>2
  <1> HIDE DEF t, x, chunk, pc
  <1>7. /\ writer' \in [pc : {"none", "get", "write", "end"}, chunk : 0 .. MaxChunks, broken : BOOLEAN]
        /\ writer'.chunk = chunk /\ writer'.pc = pc /\ writer'.broken = writer.broken
    <2>1. writer \in [pc : {"none", "get", "write", "end"}, chunk : 0 .. MaxChunks, broken : BOOLEAN]
      BY <1>2
    <2>2. writer' = [writer EXCEPT !.chunk = chunk, !.pc = pc]
      BY <1>1
    <2>3. chunk \in 0 .. MaxChunks /\ pc \in {"none", "get", "write", "end"}
      BY <1>2, <1>3, <1>5 DEF Sentinel
    <2> QED BY ONLY <2>1, <2>2, <2>3
  <1>8. /\ Elements(chunks)' = Elements(t) /\ (Sorted(chunks)' <=> Sorted(t)) /\ Told' = Told
        /\ Elements(shown)' = Elements(shown) /\ (Increasing(shown)' <=> Increasing(shown))
        /\ (At("offer")' <=> At("offer"))
    BY <1>1 DEF Elements, Sorted, Told, Increasing, At
  <1>9. DisplayTypes'
    <2>1. Len(t) <= QueueMax
      BY <1>2, <1>3, <1>6, DisplayFacts DEF ConsoleSound, DisplayTypes
    <2> QED BY <1>1, <1>2, <1>3, <1>7, <2>1 DEF ConsoleSound, DisplayTypes
  <1>10. (chunk # 0 => pc = "write") /\ (pc = "write" => chunk # 0 /\ chunk = x)
    BY <1>5 DEF Sentinel
  <1>11. InOrder'
    <2>1. InOrder /\ Elements(t) \subseteq Elements(chunks) /\ x \in Elements(chunks)
      BY <1>2, <1>3 DEF ConsoleSound
    <2>2. chunk <= Told
      <3>1. 0 <= Told
        BY <1>2, <2>1 DEF Told, At, InOrder
      <3>2. x <= Told
        BY <2>1 DEF InOrder
      <3> QED BY <1>5, <3>1, <3>2
    <2>3. chunk # 0 => (chunk = x /\ x # Sentinel)
      BY <1>5 DEF Sentinel
    <2>4. \A s \in Elements(shown) :
            /\ chunk # 0 => s < chunk
            /\ \A k \in Elements(t) : k # Sentinel => s < k
      BY <2>1, <2>3 DEF InOrder
    <2>5. \A k \in Elements(t) : (k # Sentinel /\ chunk # 0) => chunk < k
      BY <1>4, <2>3
    <2>6. \A k \in Elements(t) : k <= Told
      BY <2>1 DEF InOrder
    <2> QED BY <1>1, <1>4, <1>7, <1>8, <1>10, <2>1, <2>2, <2>4, <2>5, <2>6 DEF InOrder
  <1>12. ConsoleFaithful'
    <2>1. ASSUME console # "none", ~writer.broken, NEW n \in 1 .. logged
          PROVE \/ n \in Elements(shown) \cup Elements(t) \cup dropped
                \/ chunk = n
                \/ At("offer") /\ n = logged
      <3>1. n # 0 /\ chunk = x /\ writer.chunk = 0
        BY <1>1, <1>2, <1>5, <2>1 DEF ConsoleSound, InOrder
      <3> QED BY <1>2, <1>3, <2>1, <3>1 DEF ConsoleSound, ConsoleFaithful
    <2> QED BY <1>1, <1>2, <1>7, <1>8, <2>1 DEF ConsoleSound, ConsoleFaithful
  <1> QED BY <1>9, <1>11, <1>12 DEF ConsoleSound

\* A broken console promises nothing any more.
LEMMA WriterFailsStep == ASSUME ConsoleInv, WriterFails PROVE ConsoleSound'
  <1>1. /\ UNCHANGED <<visible, console, main, shown, logged, dropped, chunks>>
        /\ writer' = [pc |-> "get", chunk |-> 0, broken |-> TRUE]
    BY DEF WriterFails, job
  <1>2. ConsoleSound /\ MaxChunks \in Nat /\ logged \in Nat
    BY DisplayFacts DEF ConsoleSound
  <1>3. writer'.pc = "get" /\ writer'.chunk = 0 /\ writer'.broken = TRUE
    BY <1>1
  <1>4. /\ Elements(chunks)' = Elements(chunks) /\ (Sorted(chunks)' <=> Sorted(chunks))
        /\ Elements(shown)' = Elements(shown) /\ (Increasing(shown)' <=> Increasing(shown))
        /\ Told' = Told /\ (At("offer")' <=> At("offer"))
    BY <1>1 DEF Elements, Sorted, Increasing, Told, At
  <1>5. 0 <= Told
    BY <1>2 DEF Told, ConsoleSound, InOrder
  <1>6. DisplayTypes'
    BY <1>1, <1>2 DEF ConsoleSound, DisplayTypes
  <1>7. InOrder'
    BY <1>1, <1>2, <1>3, <1>4, <1>5 DEF ConsoleSound, InOrder
  <1>8. ConsoleFaithful'
    BY <1>1, <1>2, <1>3, <1>4 DEF ConsoleSound, ConsoleFaithful
  <1> QED BY <1>6, <1>7, <1>8 DEF ConsoleSound

LEMMA WriterWriteStep == ASSUME ConsoleInv, WriterWrite PROVE ConsoleSound'
  <1> DEFINE x == writer.chunk  t == Append(shown, x)
  <1>1. /\ UNCHANGED <<visible, console, main, chunks, logged, dropped>>
        /\ writer.pc = "write" /\ shown' = t
        /\ writer' = [writer EXCEPT !.pc = "get", !.chunk = 0]
    BY DEF WriterWrite, job
  <1>2. /\ ConsoleSound /\ logged \in Nat /\ MaxChunks \in Nat /\ shown \in Seq(Int)
        /\ Told \in Int /\ Told <= logged /\ shown \in Seq(1 .. MaxChunks)
        /\ writer \in [pc : {"none", "get", "write", "end"}, chunk : 0 .. MaxChunks, broken : BOOLEAN]
    BY DisplayFacts DEF ConsoleSound, DisplayTypes
  <1>3. /\ writer' \in [pc : {"none", "get", "write", "end"}, chunk : 0 .. MaxChunks, broken : BOOLEAN]
        /\ writer'.chunk = 0 /\ writer'.pc = "get" /\ writer'.broken = writer.broken
    <2>1. writer \in [pc : {"none", "get", "write", "end"}, chunk : 0 .. MaxChunks, broken : BOOLEAN]
      BY <1>2
    <2>2. writer' = [writer EXCEPT !.pc = "get", !.chunk = 0]
      BY <1>1
    <2>3. 0 \in 0 .. MaxChunks /\ "get" \in {"none", "get", "write", "end"}
      BY <1>2
    <2> QED BY ONLY <2>1, <2>2, <2>3
  <1>4. x \in 1 .. MaxChunks /\ x <= Told /\ x # 0 /\ \A s \in Elements(shown) : s < x
    BY <1>1, <1>2 DEF ConsoleSound, InOrder
  <1>5. Elements(t) = Elements(shown) \cup {x}
    BY <1>2, <1>4, ElementsAppend
  <1>6. Increasing(t)
    BY <1>2, <1>4, IncreasingAppend DEF ConsoleSound, InOrder
  <1>7. t \in Seq(1 .. MaxChunks)
    BY <1>2, <1>4
  <1>8. \A k \in Elements(chunks) : k # Sentinel => x < k
    BY <1>2, <1>4 DEF ConsoleSound, InOrder
  <1> HIDE DEF t
  <1>9. /\ Elements(chunks)' = Elements(chunks) /\ (Sorted(chunks)' <=> Sorted(chunks))
        /\ Elements(shown)' = Elements(shown) \cup {x} /\ Increasing(shown)'
        /\ Told' = Told /\ (At("offer")' <=> At("offer"))
    BY <1>1, <1>5, <1>6 DEF Elements, Sorted, Increasing, Told, At
  <1>10. DisplayTypes'
    BY <1>1, <1>2, <1>3, <1>7 DEF ConsoleSound, DisplayTypes
  <1>11. InOrder'
    <2>1. 0 <= Told /\ Elements(shown) \cup {x} \subseteq 1 .. Told
      BY <1>2, <1>4 DEF ConsoleSound, InOrder
    <2> QED BY <1>1, <1>2, <1>3, <1>8, <1>9, <2>1 DEF ConsoleSound, InOrder
  <1>12. ConsoleFaithful'
    <2>1. Elements(shown) \cup {x} \subseteq 1 .. logged
      BY <1>2, <1>4 DEF ConsoleSound, InOrder
    <2> QED BY <1>1, <1>2, <1>3, <1>9, <2>1 DEF ConsoleSound, ConsoleFaithful
  <1> QED BY <1>10, <1>11, <1>12 DEF ConsoleSound

LEMMA ConsoleInit == ASSUME BoundAssumption, Init PROVE ConsoleInv
  <1>1. TypeOK
    BY TypesInit
  <1>2. /\ chunks = << >> /\ shown = << >> /\ logged = 0 /\ main.pc \in {"tee", "wait"}
        /\ writer.chunk = 0 /\ writer.pc \in {"none", "get"} /\ (~visible => console = "none")
    BY DEF Init
  <1>3. Elements(<< >>) = {} /\ Sorted(<< >>) /\ Increasing(<< >>)
    BY DEF Elements, Sorted, Increasing
  <1>4. Told = 0 /\ ~At("offer")
    BY <1>2 DEF Told, At
  <1>5. InOrder
    BY <1>2, <1>3, <1>4 DEF InOrder
  <1>6. ConsoleFaithful
    BY <1>2, <1>3 DEF ConsoleFaithful
  <1> QED BY <1>1, <1>5, <1>6 DEF ConsoleInv

LEMMA ConsoleStep == ConsoleInv /\ [Next]_vars => ConsoleInv'
  <1> SUFFICES ASSUME ConsoleInv, [Next]_vars PROVE ConsoleInv'
    OBVIOUS
  <1>0. MainTypes
    BY TypeParts DEF ConsoleInv
  <1>1. ConsoleSound'
    <2>1. CASE JobPrints
      BY <2>1, JobPrintsStep
    <2>2. CASE StartHelper \/ HelperExits \/ RootExits \/ DogStep \/ UNCHANGED vars
      <3>1. UNCHANGED <<visible, console, logged, chunks, writer, shown, dropped, main>>
        BY <2>2 DEF StartHelper, HelperExits, RootExits, DogStep, Poll, PollStopped, FireCheck,
           FireMark, KillTree, KillGrace, vars, job, display
      <3> QED BY <3>1, AsideOfConsole
    <2>3. CASE ConsoleChanges
      BY <2>3, ConsoleChangesStep
    <2>4. CASE TeeChunk \/ Offer \/ CloseConsole
      BY <2>4, TeeChunkStep, OfferStep, CloseConsoleStep
    <2>5. CASE TeeFails \/ TeeEof \/ JoinWriter \/ WaitChild \/ StopWatchdog \/ Judge \/ Record
      <3>1. UNCHANGED <<visible, console, logged, chunks, writer, shown, dropped>>
            /\ main.pc # "offer"
        BY <2>5 DEF TeeFails, TeeEof, JoinWriter, WaitChild, StopWatchdog, Judge, Record, job,
                    display, At
      <3>2. CASE TeeFails
        <4>1. PICK pc \in {"stop", "close"} : main' = [main EXCEPT !.pc = pc, !.failed = TRUE]
          BY <3>2 DEF TeeFails
        <4>2. main'.pc # "offer"
          BY <1>0, <4>1 DEF MainTypes
        <4> QED BY <3>1, <4>2, AsideOfConsole
      <3>3. CASE Judge
        <4>1. PICK status \in {"success", "failed"} :
                main' = [main EXCEPT !.pc = "record", !.status = status]
          BY <3>3 DEF Judge
        <4>2. main'.pc # "offer"
          BY <1>0, <4>1 DEF MainTypes
        <4> QED BY <3>1, <4>2, AsideOfConsole
      <3>4. CASE TeeEof \/ JoinWriter \/ WaitChild \/ StopWatchdog \/ Record
        <4>1. PICK pc \in {"wait", "close", "stop", "judge", "done"} : main' = [main EXCEPT !.pc = pc]
          BY <3>4 DEF TeeEof, JoinWriter, WaitChild, StopWatchdog, Record, Go, Closed
        <4>2. main'.pc # "offer"
          BY <1>0, <4>1 DEF MainTypes
        <4> QED BY <3>1, <4>2, AsideOfConsole
      <3> QED BY <2>5, <3>2, <3>3, <3>4
    <2>6. CASE WriterStep
      BY <2>6, WriterGetStep, WriterFailsStep, WriterWriteStep DEF WriterStep
    <2> QED BY <2>1, <2>2, <2>3, <2>4, <2>5, <2>6 DEF Next, JobStep, MainStep
  <1>2. TypeOK'
    <2>1. JobTypes' /\ MainTypes' /\ DogTypes'
      BY JobTypesStep, MainTypesStep, DogTypesStep DEF ConsoleInv
    <2> QED BY <1>1, <2>1 DEF ConsoleSound, TypeOK, JobTypes, MainTypes, DisplayTypes, DogTypes,
                              MainPcs, Reasons
  <1> QED BY <1>1, <1>2 DEF ConsoleSound, ConsoleInv

\* The type invariant, for any pipe, queue and ceilings: the log never runs
\* ahead of the job, and the console queue keeps to its maximum.
THEOREM SupervisionTypes == Spec => []TypeOK
  <1>1. Init => ConsoleInv
    BY ConsoleInit, BoundAssumption
  <1>2. ConsoleInv => TypeOK
    BY DEF ConsoleInv
  <1> QED BY <1>1, <1>2, ConsoleStep, PTL DEF Spec

\* However the console wedges, breaks and comes back, it shows chunks of the log
\* in the order they were logged, and while its writer is not broken every
\* logged chunk is shown, on its way, or dropped by the full queue.
THEOREM ConsoleFaithfulAlways == Spec => []ConsoleFaithful
  <1>1. Init => ConsoleInv
    BY ConsoleInit, BoundAssumption
  <1>2. ConsoleInv => ConsoleFaithful
    BY DEF ConsoleInv
  <1> QED BY <1>1, <1>2, ConsoleStep, PTL DEF Spec

=============================================================================
