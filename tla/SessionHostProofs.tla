-------------------------- MODULE SessionHostProofs --------------------------
(***************************************************************************)
(* For any number of connections, chunks and ring size: no connection is   *)
(* left open for ever for want of an EOF, ring and queues hold what they   *)
(* should, and each connection sees its output once, in order and without  *)
(* a gap.                                                                  *)
(***************************************************************************)
EXTENDS SessionHost, TLAPS

\* Types of what the argument moves around.
Typed ==
  /\ exited \in BOOLEAN
  /\ reader \in Thread({"read", "append", "post", "list", "done"})
  /\ subs \subseteq Conns
  /\ calls \in Seq(Conns \X Items)
  /\ queue \in [Conns -> Seq(Items)]
  /\ conn \in [Conns -> ConnPcs]
  /\ taken \in 0 .. MaxChunks
  /\ stopper \in Thread({"idle", "grace", "list", "post", "done"})

\* The reader is past its loop.
Ending == reader.pc \in {"post", "done"} /\ reader.item = Eof

\* EOF is posted only by a session marked as exited, a chunk is appended only
\* after one was read, and the subscribers are the connections between
\* subscribing and closing.
Marked == /\ (reader.pc = "list" \/ Ending) => exited
          /\ reader.pc = "append" => taken > 0
Joined == \A c \in subs : conn[c] \in {"check", "replay", "pump"}

EofInv == Typed /\ Marked /\ Joined /\ EofOnItsWay

\* What a connection's queue keeps of EOF when something is appended, and what
\* is still scheduled.
Coming(c) == \/ c \in reader.left
             \/ \E i \in DOMAIN calls : calls[i] = <<c, Eof>>
             \/ \E i \in DOMAIN queue[c] : queue[c][i] = Eof

\* An appended item keeps what was in the sequence, and is in it.
LEMMA AppendKeeps ==
  ASSUME NEW S, NEW s \in Seq(S), NEW x \in S
  PROVE /\ Append(s, x) \in Seq(S)
        /\ \A i \in DOMAIN s : i \in DOMAIN Append(s, x) /\ Append(s, x)[i] = s[i]
        /\ Len(s) + 1 \in DOMAIN Append(s, x) /\ Append(s, x)[Len(s) + 1] = x
  OBVIOUS

\* Taking the head off loses only the head.
LEMMA TailKeeps ==
  ASSUME NEW S, NEW s \in Seq(S), s # << >>, NEW i \in DOMAIN s
  PROVE /\ Tail(s) \in Seq(S) /\ s[1] \in S
        /\ s[i] = s[1] \/ (i - 1 \in DOMAIN Tail(s) /\ Tail(s)[i - 1] = s[i])
  <1>1. i = 1 \/ i - 1 \in 1 .. Len(Tail(s))  OBVIOUS
  <1> QED BY <1>1

\* A thread that posts item i is a thread.
LEMMA PostingTyped ==
  ASSUME NEW i \in Items, NEW left \in SUBSET Conns
  PROVE /\ i > 0 => Posting(i, left) \in Thread({"read", "append", "post", "list", "done"})
        /\ i = Eof => Posting(i, left) \in Thread({"read", "append", "post", "list", "done"})
        /\ i = Shutdown => Posting(i, left) \in Thread({"idle", "grace", "list", "post", "done"})
        /\ Posting(i, left).left = left /\ Posting(i, left).item = i
        /\ i > 0 => Posting(i, left).pc \in {"post", "read"}
  BY DEF Posting, Thread, Shutdown, Eof, Items

LEMMA EofInit == Init => EofInv
  <1> SUFFICES ASSUME Init PROVE EofInv
    OBVIOUS
  <1>1. Typed
    <2>1. reader \in Thread({"read", "append", "post", "list", "done"})
      BY SizeAssumption DEF Init, Thread, Items, Eof
    <2>2. stopper \in Thread({"idle", "grace", "list", "post", "done"})
      BY SizeAssumption DEF Init, Thread, Items, Shutdown
    <2>3. taken \in 0 .. MaxChunks
      BY SizeAssumption DEF Init
    <2>7. exited \in BOOLEAN
      BY Zenon DEF Init
    <2>6. subs \subseteq Conns /\ calls \in Seq(Conns \X Items)
      <3>1. << >> \in Seq(Conns \X Items)
        OBVIOUS
      <3> QED BY <3>1 DEF Init
    <2>4. conn \in [Conns -> ConnPcs]
      BY DEF Init, ConnPcs
    <2>5. queue \in [Conns -> Seq(Items)]
      <3>1. << >> \in Seq(Items)
        OBVIOUS
      <3> QED BY <3>1 DEF Init
    <2> QED BY <2>1, <2>2, <2>3, <2>4, <2>5, <2>6, <2>7 DEF Typed
  <1>2. Marked /\ Joined /\ EofOnItsWay
    BY DEF Init, Marked, Joined, EofOnItsWay, Ending
  <1> QED BY <1>1, <1>2 DEF EofInv

\* A step that leaves the reader, the schedule and the connections alone.
LEMMA Aside ==
  ASSUME EofInv, UNCHANGED <<taken, exited, reader, calls, subs, queue, conn>>,
         stopper' \in Thread({"idle", "grace", "list", "post", "done"})
  PROVE EofInv'
  BY DEF EofInv, Typed, Marked, Joined, EofOnItsWay, Ending

\* The reader before it posts EOF: nothing is owed yet.
LEMMA ReaderBefore ==
  ASSUME EofInv, UNCHANGED <<calls, subs, queue, conn, stopper>>,
         reader' \in Thread({"read", "append", "post", "list", "done"}),
         taken' \in 0 .. MaxChunks, exited' \in BOOLEAN, ~Ending',
         reader'.pc = "list" => exited', reader'.pc = "append" => taken' > 0
  PROVE EofInv'
  BY DEF EofInv, Typed, Marked, Joined, EofOnItsWay, Ending

LEMMA ReaderTakeStep == ASSUME EofInv, ReaderTake PROVE EofInv'
  <1>1. taken' \in 0 .. MaxChunks /\ exited' \in BOOLEAN
    BY SizeAssumption DEF ReaderTake, EofInv, Typed
  <1>2. reader' \in Thread({"read", "append", "post", "list", "done"}) /\ reader'.pc = "append"
    BY DEF ReaderTake, EofInv, Typed, Thread
  <1>3. taken' > 0
    BY SizeAssumption DEF ReaderTake, EofInv, Typed
  <1> QED BY <1>1, <1>2, <1>3, ReaderBefore DEF ReaderTake, client, Ending

LEMMA ReaderEndStep == ASSUME EofInv, ReaderEof \/ ReaderFails PROVE EofInv'
  <1>1. exited' = TRUE /\ taken' = taken
    BY DEF ReaderEof, ReaderFails
  <1>2. reader' \in Thread({"read", "append", "post", "list", "done"}) /\ reader'.pc = "list"
    BY DEF ReaderEof, ReaderFails, EofInv, Typed, Thread
  <1>3. taken \in 0 .. MaxChunks
    BY DEF EofInv, Typed
  <1> QED BY <1>1, <1>2, <1>3, ReaderBefore DEF ReaderEof, ReaderFails, client, Ending

LEMMA ReaderAppendStep == ASSUME EofInv, ReaderAppend PROVE EofInv'
  <1>5. taken > 0
    BY DEF EofInv, Marked, ReaderAppend
  <1>1. taken \in Items /\ subs \in SUBSET Conns /\ exited \in BOOLEAN
    BY SizeAssumption DEF EofInv, Typed, Items
  <1>2. /\ reader' \in Thread({"read", "append", "post", "list", "done"})
        /\ reader'.pc \in {"post", "read"} /\ reader'.item = taken
    BY <1>1, <1>5, PostingTyped DEF ReaderAppend
  <1>3. ~Ending' /\ reader'.pc # "list"
    BY <1>2, <1>5 DEF Ending, Eof
  <1>4. taken \in 0 .. MaxChunks
    BY DEF EofInv, Typed
  <1> QED BY <1>1, <1>2, <1>3, <1>4, ReaderBefore DEF ReaderAppend, client

\* The schedule and the connections change, the reader's place does not.
LEMMA LoopSide ==
  ASSUME EofInv, UNCHANGED <<taken, exited>>,
         reader' \in Thread({"read", "append", "post", "list", "done"}),
         Ending' => Ending, reader'.pc = "list" => reader.pc = "list",
         reader'.pc = "append" => reader.pc = "append",
         stopper' \in Thread({"idle", "grace", "list", "post", "done"}),
         subs' \subseteq Conns, calls' \in Seq(Conns \X Items),
         queue' \in [Conns -> Seq(Items)], conn' \in [Conns -> ConnPcs],
         Joined',
         \A c \in subs' : Ending' /\ conn'[c] # "check" => Coming(c)'
  PROVE EofInv'
  BY DEF EofInv, Typed, Marked, EofOnItsWay, Ending, Coming

LEMMA ReaderListStep == ASSUME EofInv, ReaderList PROVE EofInv'
  <1>1. exited = TRUE /\ subs \in SUBSET Conns /\ Eof \in Items
    BY SizeAssumption DEF ReaderList, EofInv, Typed, Marked, Items, Eof
  <1>2. /\ reader' \in Thread({"read", "append", "post", "list", "done"})
        /\ reader'.left = subs
    BY <1>1, PostingTyped DEF ReaderList
  <1>3. reader'.pc \in {"post", "read", "done"}
    BY DEF ReaderList, Posting
  <1>4. \A c \in subs : c \in reader'.left
    BY <1>2
  <1> QED BY <1>1, <1>2, <1>3, <1>4
          DEF ReaderList, client, EofInv, Typed, Marked, Joined, EofOnItsWay, Ending

\* A callback is scheduled, and the thread that scheduled it has one less to do.
LEMMA Scheduled ==
  ASSUME EofInv, NEW d \in Conns, NEW i \in Items,
         calls' = Append(calls, <<d, i>>), UNCHANGED queue,
         reader'.left = reader.left \/ (reader'.left = reader.left \ {d} /\ i = reader.item),
         Ending
  PROVE /\ calls' \in Seq(Conns \X Items)
        /\ \A c \in Conns : Coming(c) => Coming(c)'
  <1>1. calls \in Seq(Conns \X Items) /\ <<d, i>> \in Conns \X Items
    BY DEF EofInv, Typed
  <1>2. /\ calls' \in Seq(Conns \X Items)
        /\ \A k \in DOMAIN calls : k \in DOMAIN calls' /\ calls'[k] = calls[k]
        /\ Len(calls) + 1 \in DOMAIN calls' /\ calls'[Len(calls) + 1] = <<d, i>>
    BY <1>1, AppendKeeps
  <1>3. ASSUME NEW c \in Conns, Coming(c) PROVE Coming(c)'
    <2>1. CASE c \in reader.left /\ c # d
      BY <2>1 DEF Coming
    <2>2. CASE c \in reader.left /\ c = d
      <3>1. CASE reader'.left = reader.left
        BY <2>2, <3>1 DEF Coming
      <3>2. CASE reader'.left = reader.left \ {d} /\ i = reader.item
        <4>1. i = Eof
          BY <3>2 DEF Ending
        <4> QED BY <1>2, <2>2, <4>1 DEF Coming
      <3> QED BY <3>1, <3>2
    <2>3. CASE \E k \in DOMAIN calls : calls[k] = <<c, Eof>>
      BY <1>2, <2>3 DEF Coming
    <2>4. CASE \E k \in DOMAIN queue[c] : queue[c][k] = Eof
      BY <2>4 DEF Coming
    <2> QED BY <1>3, <2>1, <2>2, <2>3, <2>4 DEF Coming
  <1> QED BY <1>2, <1>3

LEMMA ReaderPostStep == ASSUME EofInv, NEW d \in Conns, ReaderPost(d) PROVE EofInv'
  <1>1. /\ reader.pc = "post" /\ d \in reader.left
        /\ reader' = Posting(reader.item, reader.left \ {d})
        /\ calls' = Append(calls, <<d, reader.item>>)
        /\ UNCHANGED <<taken, exited, stopper, subs, queue, conn>>
    BY DEF ReaderPost, Posted, client
  <1>2. reader.item \in Items /\ reader.left \ {d} \in SUBSET Conns
    BY DEF EofInv, Typed, Thread
  <1>3. /\ reader'.item = reader.item /\ reader'.left = reader.left \ {d}
        /\ reader'.pc \in {"post", "read", "done"}
        /\ reader' \in Thread({"read", "append", "post", "list", "done"})
    BY <1>1, <1>2 DEF Posting, Thread
  <1>4. Ending' => Ending
    BY <1>1, <1>3 DEF Ending
  <1>5. calls' \in Seq(Conns \X Items)
    BY <1>1, <1>2, AppendKeeps DEF EofInv, Typed
  <1>6. \A c \in subs' : Ending' /\ conn'[c] # "check" => Coming(c)'
    BY <1>1, <1>2, <1>3, <1>4, Scheduled DEF EofInv, Typed, EofOnItsWay, Ending, Coming
  <1>7. Joined'
    BY <1>1 DEF EofInv, Joined
  <1> QED BY <1>1, <1>3, <1>4, <1>5, <1>6, <1>7, LoopSide DEF EofInv, Typed

\* A step of connection d alone: the other connections keep what is coming.
LEMMA OtherConnections ==
  ASSUME EofInv, NEW d \in Conns, UNCHANGED <<taken, exited, reader, stopper, calls>>,
         NEW pc \in ConnPcs, conn' = [conn EXCEPT ![d] = pc],
         NEW q \in Seq(Items), queue' = [queue EXCEPT ![d] = q],
         subs' \subseteq subs \cup {d},
         d \in subs' => pc \in {"check", "replay", "pump"},
         d \in subs' /\ Ending /\ pc # "check" => Coming(d)'
  PROVE EofInv'
  <1>1. /\ conn' \in [Conns -> ConnPcs] /\ queue' \in [Conns -> Seq(Items)]
        /\ subs' \subseteq Conns
        /\ \A c \in Conns \ {d} : conn'[c] = conn[c] /\ queue'[c] = queue[c]
        /\ conn'[d] = pc
    BY DEF EofInv, Typed
  <1>2. Joined'
    <2>1. ASSUME NEW c \in subs' PROVE conn'[c] \in {"check", "replay", "pump"}
      <3>1. CASE c = d
        BY <1>1, <2>1, <3>1
      <3>2. CASE c # d
        BY <1>1, <2>1, <3>2 DEF EofInv, Joined, Typed
      <3> QED BY <3>1, <3>2
    <2> QED BY <2>1 DEF Joined
  <1>3. ASSUME NEW c \in subs', Ending', conn'[c] # "check" PROVE Coming(c)'
    <2>0. Ending
      BY <1>3 DEF Ending
    <2>1. CASE c = d
      BY <1>1, <1>3, <2>0, <2>1
    <2>2. CASE c # d
      <3>1. c \in subs /\ c \in Conns /\ conn[c] # "check"
        BY <1>1, <1>3, <2>2
      <3>2. Coming(c)
        BY <2>0, <3>1 DEF EofInv, EofOnItsWay, Ending, Coming
      <3> QED BY <1>1, <2>2, <3>1, <3>2 DEF Coming
    <2> QED BY <2>1, <2>2
  <1>4. Ending' => Ending
    BY DEF Ending
  <1> QED BY <1>1, <1>2, <1>3, <1>4, LoopSide DEF EofInv, Typed

\* What is coming to a subscribed connection, and which connections subscribe.
LEMMA Owing ==
  ASSUME EofInv, NEW c \in subs
  PROVE /\ conn[c] \in {"check", "replay", "pump"}
        /\ Ending /\ conn[c] # "check" => Coming(c)
  BY DEF EofInv, Joined, EofOnItsWay, Ending, Coming

LEMMA OpenStep == ASSUME EofInv, NEW d \in Conns, Open(d) PROVE EofInv'
  <1>1. PICK pc \in {"accepting", "refused"} : conn' = [conn EXCEPT ![d] = pc]
    BY DEF Open
  <1>2. queue[d] \in Seq(Items) /\ queue' = [queue EXCEPT ![d] = queue[d]] /\ pc \in ConnPcs
    BY DEF Open, EofInv, Typed, ConnPcs
  <1>3. d \notin subs /\ subs' = subs
    BY Owing DEF Open
  <1> QED BY <1>1, <1>2, <1>3, OtherConnections DEF Open

LEMMA SubscribeStep == ASSUME EofInv, NEW d \in Conns, Subscribe(d) PROVE EofInv'
  <1>1. queue[d] \in Seq(Items) /\ queue' = [queue EXCEPT ![d] = queue[d]]
    BY DEF Subscribe, EofInv, Typed
  <1>2. conn' = [conn EXCEPT ![d] = "check"] /\ subs' = subs \cup {d} /\ "check" \in ConnPcs
    BY DEF Subscribe, ConnPcs
  <1> QED BY <1>1, <1>2, OtherConnections DEF Subscribe, agent

LEMMA SubscribeCheckStep == ASSUME EofInv, NEW d \in Conns, SubscribeCheck(d) PROVE EofInv'
  <1> DEFINE q == IF exited THEN Append(queue[d], Eof) ELSE queue[d]
  <1>0. queue[d] \in Seq(Items) /\ Eof \in Items
    BY SizeAssumption DEF EofInv, Typed, Items, Eof
  <1>1. q \in Seq(Items)
    BY <1>0
  <1>2. queue' = [queue EXCEPT ![d] = q]
    BY DEF SubscribeCheck
  <1>3. conn' = [conn EXCEPT ![d] = "replay"] /\ subs' = subs /\ "replay" \in ConnPcs
    BY DEF SubscribeCheck, ConnPcs
  <1>4. ASSUME Ending PROVE Coming(d)'
    <2>1. q = Append(queue[d], Eof)
      BY <1>4 DEF EofInv, Marked
    <2>2. \E k \in DOMAIN q : q[k] = Eof
      BY <1>0, <2>1
    <2>3. queue'[d] = q
      BY <1>2 DEF EofInv, Typed
    <2> QED BY <2>2, <2>3 DEF Coming
  <1> HIDE DEF q
  <1> QED BY <1>1, <1>2, <1>3, <1>4, OtherConnections DEF SubscribeCheck

LEMMA ReplayStep == ASSUME EofInv, NEW d \in Conns, Replay(d) PROVE EofInv'
  <1>1. queue[d] \in Seq(Items) /\ queue' = [queue EXCEPT ![d] = queue[d]] /\ queue' = queue
    BY DEF Replay, EofInv, Typed
  <1>2. conn' = [conn EXCEPT ![d] = "pump"] /\ subs' = subs /\ "pump" \in ConnPcs
    BY DEF Replay, ConnPcs
  <1>3. d \in subs /\ Ending => Coming(d)'
    BY <1>1, Owing DEF Replay, Coming
  <1> QED BY <1>1, <1>2, <1>3, OtherConnections DEF Replay

LEMMA PumpStep == ASSUME EofInv, NEW d \in Conns, Pump(d) PROVE EofInv'
  <1>1. queue[d] \in Seq(Items) /\ queue[d] # << >> /\ << >> \in Seq(Items)
    BY DEF Pump, EofInv, Typed
  <1>2. CASE Head(queue[d]) = Eof
    <2>1. /\ queue' = [queue EXCEPT ![d] = << >>] /\ subs' = subs \ {d}
          /\ conn' = [conn EXCEPT ![d] = "ended"] /\ "ended" \in ConnPcs
      BY <1>2 DEF Pump, ConnPcs
    <2> QED BY <1>1, <2>1, OtherConnections DEF Pump
  <1>3. CASE Head(queue[d]) # Eof
    <2>1. /\ queue' = [queue EXCEPT ![d] = Tail(queue[d])] /\ subs' = subs
          /\ conn' = [conn EXCEPT ![d] = "pump"] /\ "pump" \in ConnPcs
      BY <1>3 DEF Pump, ConnPcs, EofInv, Typed
    <2>2. Tail(queue[d]) \in Seq(Items) /\ queue'[d] = Tail(queue[d])
      BY <1>1, <2>1 DEF EofInv, Typed
    <2>3. ASSUME NEW k \in DOMAIN queue[d], queue[d][k] = Eof
          PROVE \E j \in DOMAIN queue'[d] : queue'[d][j] = Eof
      <3>1. queue[d][1] # Eof
        BY <1>1, <1>3
      <3>2. k - 1 \in DOMAIN Tail(queue[d]) /\ Tail(queue[d])[k - 1] = queue[d][k]
        BY <1>1, <2>3, <3>1, TailKeeps
      <3> QED BY <2>2, <2>3, <3>2
    <2>4. d \in subs /\ Ending => Coming(d)'
      BY <2>3, Owing DEF Pump, Coming
    <2> QED BY <2>1, <2>2, <2>4, OtherConnections DEF Pump
  <1> QED BY <1>2, <1>3

LEMMA DropStep == ASSUME EofInv, NEW d \in Conns, Drop(d) PROVE EofInv'
  <1>1. << >> \in Seq(Items) /\ "dropped" \in ConnPcs
    BY DEF ConnPcs
  <1> QED BY <1>1, OtherConnections DEF Drop

\* The loop runs a callback: what leaves the schedule is in the queue.
LEMMA LoopCallStep == ASSUME EofInv, LoopCall PROVE EofInv'
  <1> DEFINE d == calls[1][1]  i == calls[1][2]
             q == IF conn[d] \in Over THEN queue[d] ELSE Append(queue[d], i)
  <1>1. /\ calls \in Seq(Conns \X Items) /\ calls # << >> /\ calls[1] \in Conns \X Items
        /\ calls' = Tail(calls) /\ calls' \in Seq(Conns \X Items)
    BY DEF LoopCall, EofInv, Typed
  <1>2. d \in Conns /\ i \in Items /\ calls[1] = <<d, i>>
    BY <1>1
  <1>3. queue' = [queue EXCEPT ![d] = q]
    BY DEF LoopCall
  <1>4. queue[d] \in Seq(Items)
    BY <1>2 DEF EofInv, Typed
  <1>5. q \in Seq(Items)
    BY <1>2, <1>4
  <1>6. /\ \A c \in Conns \ {d} : queue'[c] = queue[c]
        /\ queue'[d] = q /\ queue' \in [Conns -> Seq(Items)]
    BY <1>2, <1>3, <1>5 DEF EofInv, Typed
  <1>7. ASSUME NEW c \in subs, Coming(c) PROVE Coming(c)'
    <2>0. c \in Conns /\ conn[c] \notin Over
      BY Owing DEF Over, EofInv, Typed
    <2>1. CASE c \in reader.left
      BY <2>1 DEF Coming, LoopCall
    <2>2. ASSUME NEW k \in DOMAIN queue[c], queue[c][k] = Eof PROVE Coming(c)'
      <3>1. CASE c = d
        <4>1. q = Append(queue[d], i)
          BY <2>0, <3>1
        <4>2. k \in DOMAIN q /\ q[k] = Eof
          BY <1>2, <1>4, <2>2, <3>1, <4>1, AppendKeeps
        <4> QED BY <1>6, <3>1, <4>2 DEF Coming
      <3>2. CASE c # d
        BY <1>6, <2>0, <2>2, <3>2 DEF Coming
      <3> QED BY <3>1, <3>2
    <2>3. ASSUME NEW k \in DOMAIN calls, calls[k] = <<c, Eof>> PROVE Coming(c)'
      <3>1. CASE calls[1] = <<c, Eof>>
        <4>1. c = d /\ i = Eof
          BY <1>2, <3>1
        <4>2. q = Append(queue[d], Eof)
          BY <2>0, <4>1
        <4>3. \E j \in DOMAIN q : q[j] = Eof
          BY <1>2, <1>4, <4>1, <4>2, AppendKeeps
        <4> QED BY <1>6, <4>1, <4>3 DEF Coming
      <3>2. CASE calls[1] # <<c, Eof>>
        <4>1. k - 1 \in DOMAIN Tail(calls) /\ Tail(calls)[k - 1] = <<c, Eof>>
          BY <1>1, <2>3, <3>2, TailKeeps
        <4> QED BY <1>1, <4>1 DEF Coming
      <3> QED BY <3>1, <3>2
    <2> QED BY <1>7, <2>1, <2>2, <2>3 DEF Coming
  <1>8. ASSUME NEW c \in subs', Ending', conn'[c] # "check" PROVE Coming(c)'
    BY <1>7, <1>8, Owing DEF LoopCall, Ending
  <1>9. Joined' /\ (Ending' => Ending)
    BY DEF LoopCall, EofInv, Joined, Ending
  <1> QED BY <1>1, <1>6, <1>8, <1>9, LoopSide DEF LoopCall, EofInv, Typed

\* The agent, a stop and the reaper do not touch what the argument is about.
LEMMA StopStepKeeps ==
  ASSUME EofInv, AgentExits \/ Reap \/ StopKill \/ StopQuit \/ StopGrace \/ StopList
  PROVE EofInv'
  <1>1. subs \in SUBSET Conns /\ stopper \in Thread({"idle", "grace", "list", "post", "done"})
    BY DEF EofInv, Typed
  <1>2. Shutdown \in Items
    BY SizeAssumption DEF Items, Shutdown
  <1>3. stopper' \in Thread({"idle", "grace", "list", "post", "done"})
    <2>1. CASE AgentExits \/ Reap
      BY <1>1, <2>1 DEF AgentExits, Reap
    <2>2. CASE StopKill \/ StopQuit \/ StopGrace
      BY <1>1, <2>2 DEF StopKill, StopQuit, StopGrace, Thread
    <2>3. CASE StopList
      BY <1>1, <1>2, <2>3, PostingTyped DEF StopList
    <2> QED BY <2>1, <2>2, <2>3
  <1>4. UNCHANGED <<taken, exited, reader, calls, subs, queue, conn>>
    BY DEF AgentExits, Reap, StopKill, StopQuit, StopGrace, StopList, agent, client
  <1> QED BY <1>3, <1>4, Aside

LEMMA StopPostStep == ASSUME EofInv, NEW d \in Conns, StopPost(d) PROVE EofInv'
  <1>1. /\ stopper' = Posting(Shutdown, stopper.left \ {d})
        /\ calls' = Append(calls, <<d, stopper.item>>)
        /\ UNCHANGED <<taken, exited, reader, subs, queue, conn>>
    BY DEF StopPost, Posted, agent, client
  <1>2. stopper.item \in Items /\ stopper.left \ {d} \in SUBSET Conns /\ Shutdown \in Items
    BY SizeAssumption DEF EofInv, Typed, Thread, Items, Shutdown
  <1>3. stopper' \in Thread({"idle", "grace", "list", "post", "done"})
    BY <1>1, <1>2, PostingTyped
  <1>4. calls' \in Seq(Conns \X Items)
    BY <1>1, <1>2, AppendKeeps DEF EofInv, Typed
  <1>5. \A c \in subs' : Ending' /\ conn'[c] # "check" => Coming(c)'
    BY <1>1, <1>2, Scheduled, Owing DEF EofInv, Typed, Ending
  <1>6. Joined' /\ (Ending' => Ending)
    BY <1>1 DEF EofInv, Joined, Ending
  <1> QED BY <1>1, <1>3, <1>4, <1>5, <1>6, LoopSide DEF EofInv, Typed

\* One step, action by action.
LEMMA EofStep == EofInv /\ [Next]_vars => EofInv'
  <1> SUFFICES ASSUME EofInv, [Next]_vars PROVE EofInv'
    OBVIOUS
  <1>1. CASE AgentExits \/ Reap \/ StopKill \/ StopQuit \/ StopGrace \/ StopList
    BY <1>1, StopStepKeeps
  <1>2. CASE ReaderTake
    BY <1>2, ReaderTakeStep
  <1>3. CASE ReaderEof \/ ReaderFails
    BY <1>3, ReaderEndStep
  <1>4. CASE ReaderAppend
    BY <1>4, ReaderAppendStep
  <1>5. CASE ReaderList
    BY <1>5, ReaderListStep
  <1>6. CASE LoopCall
    BY <1>6, LoopCallStep
  <1>7. CASE \E c \in Conns : ReaderPost(c)
    BY <1>7, ReaderPostStep
  <1>8. CASE \E c \in Conns : StopPost(c)
    BY <1>8, StopPostStep
  <1>9. CASE \E c \in Conns : Open(c)
    BY <1>9, OpenStep
  <1>10. CASE \E c \in Conns : Subscribe(c)
    BY <1>10, SubscribeStep
  <1>11. CASE \E c \in Conns : SubscribeCheck(c)
    BY <1>11, SubscribeCheckStep
  <1>12. CASE \E c \in Conns : Replay(c)
    BY <1>12, ReplayStep
  <1>13. CASE \E c \in Conns : Pump(c)
    BY <1>13, PumpStep
  <1>14. CASE \E c \in Conns : Drop(c)
    BY <1>14, DropStep
  <1>15. CASE UNCHANGED vars
    BY <1>15, Aside DEF vars, EofInv, Typed
  <1> QED BY <1>1, <1>2, <1>3, <1>4, <1>5, <1>6, <1>7, <1>8, <1>9, <1>10, <1>11, <1>12,
             <1>13, <1>14, <1>15 DEF Next, ReaderStep, StopStep, ConnStep

\* Whatever the order in which connections subscribe, callbacks run and the
\* agent ends, every subscriber of an ended session has EOF coming.
THEOREM EofAlways == Spec => []EofOnItsWay
  <1>1. EofInv => EofOnItsWay
    BY DEF EofInv
  <1> QED BY <1>1, EofInit, EofStep, PTL DEF Spec

-----------------------------------------------------------------------------
(* Types, and what the threads hold. *)

\* What the steps of the argument above leave open.
Boxes ==
  /\ full \in BOOLEAN /\ known \in BOOLEAN /\ pty \in BOOLEAN
  /\ ring \in Seq(1 .. MaxChunks) /\ Len(ring) <= RingMax
  /\ snap \in [Conns -> Seq(1 .. MaxChunks)]
  /\ shown \in [Conns -> Seq(Items)]

LEMMA TypeParts == Typed /\ Boxes <=> TypeOK
  BY DEF Typed, Boxes, TypeOK

LEMMA Numbers ==
  /\ 0 .. MaxChunks \subseteq Items /\ 1 .. MaxChunks \subseteq Items
  /\ Eof \in Items /\ Shutdown \in Items /\ \A i \in Items : i \in Int
  /\ \A i \in Items : i > 0 <=> i \in 1 .. MaxChunks
  BY SizeAssumption DEF Items, Eof, Shutdown

LEMMA WiderSeq == ASSUME NEW S, NEW T, S \subseteq T, NEW s \in Seq(S) PROVE s \in Seq(T)
  <1>1. Len(s) \in Nat /\ DOMAIN s = 1 .. Len(s) /\ s = [i \in 1 .. Len(s) |-> s[i]]
    OBVIOUS
  <1>2. \A i \in 1 .. Len(s) : s[i] \in S
    OBVIOUS
  <1>3. s \in [1 .. Len(s) -> T]
    BY <1>1, <1>2
  <1> QED BY <1>1, <1>3

LEMMA ReplayBoxes == ASSUME TypeOK, NEW c \in Conns, Replay(c) PROVE Boxes'
  <1> DEFINE s == IF full THEN <<taken>> ELSE snap[c]
  <1>1. s \in Seq(Items)
    <2>1. taken \in Items /\ snap[c] \in Seq(1 .. MaxChunks)
      BY Numbers DEF TypeOK
    <2>2. <<taken>> \in Seq(Items)
      BY <2>1
    <2> QED BY <2>1, <2>2, Numbers, WiderSeq
  <1>2. shown' = [shown EXCEPT ![c] = s]
    BY DEF Replay
  <1> HIDE DEF s
  <1>3. << >> \in Seq(1 .. MaxChunks)
    OBVIOUS
  <1> QED BY <1>1, <1>2, <1>3 DEF Replay, agent, TypeOK, Boxes

LEMMA PumpBoxes == ASSUME TypeOK, NEW c \in Conns, Pump(c) PROVE Boxes'
  <1>1. queue[c] \in Seq(Items) /\ queue[c] # << >> /\ shown[c] \in Seq(Items)
    BY DEF TypeOK, Pump
  <1>2. Append(shown[c], Head(queue[c])) \in Seq(Items)
    BY <1>1
  <1>3. shown' \in [Conns -> Seq(Items)]
    BY <1>1, <1>2 DEF Pump, TypeOK
  <1> QED BY <1>3 DEF Pump, agent, TypeOK, Boxes

LEMMA AppendBoxes == ASSUME TypeOK, Marked, ReaderAppend PROVE Boxes'
  <1> DEFINE grown == Append(ring, taken)
  <1>1. taken \in 1 .. MaxChunks
    BY SizeAssumption DEF ReaderAppend, Marked, TypeOK
  <1>2. ring \in Seq(1 .. MaxChunks) /\ Len(ring) \in Nat /\ Len(ring) <= RingMax
        /\ RingMax \in Nat
    BY SizeAssumption DEF TypeOK
  <1>3. grown \in Seq(1 .. MaxChunks) /\ Len(grown) = Len(ring) + 1
    BY <1>1, <1>2
  <1>4. ring' = IF Len(grown) > RingMax THEN Tail(grown) ELSE grown
    BY DEF ReaderAppend
  <1> HIDE DEF grown
  <1>5. ASSUME Len(grown) > RingMax
        PROVE  ring' \in Seq(1 .. MaxChunks) /\ Len(ring') <= RingMax
    <2>1. grown # << >>
      BY <1>2, <1>3
    <2>2. Tail(grown) \in Seq(1 .. MaxChunks) /\ Len(Tail(grown)) = Len(grown) - 1
      BY <1>3, <2>1
    <2>3. ring' = Tail(grown)
      BY <1>4, <1>5
    <2>4. ring' \in Seq(1 .. MaxChunks) /\ Len(ring') = Len(ring)
      BY <1>2, <1>3, <2>2, <2>3
    <2> QED BY <1>2, <2>4
  <1>6. ASSUME ~(Len(grown) > RingMax)
        PROVE  ring' \in Seq(1 .. MaxChunks) /\ Len(ring') <= RingMax
    <2>1. ring' = grown
      BY <1>4, <1>6
    <2> QED BY <1>2, <1>3, <1>6, <2>1
  <1>7. ring' \in Seq(1 .. MaxChunks) /\ Len(ring') <= RingMax
    BY <1>5, <1>6
  <1> QED BY <1>7 DEF ReaderAppend, agent, client, TypeOK, Boxes

LEMMA BoxesStep == ASSUME EofInv, TypeOK, [Next]_vars PROVE Boxes'
  <1>1. CASE AgentExits \/ Reap \/ StopKill \/ StopQuit \/ StopGrace \/ StopList
    BY <1>1 DEF AgentExits, Reap, StopKill, StopQuit, StopGrace, StopList, agent, client, TypeOK,
            Boxes
  <1>2. CASE ReaderTake \/ ReaderEof \/ ReaderFails \/ ReaderList \/ LoopCall
    BY <1>2 DEF ReaderTake, ReaderEof, ReaderFails, ReaderList, LoopCall, agent, client, TypeOK,
            Boxes
  <1>3. CASE \E c \in Conns : ReaderPost(c) \/ StopPost(c) \/ Open(c) \/ SubscribeCheck(c)
    BY <1>3 DEF ReaderPost, StopPost, Open, SubscribeCheck, agent, client, TypeOK, Boxes
  <1>4. CASE \E c \in Conns : Subscribe(c)
    BY <1>4 DEF Subscribe, agent, TypeOK, Boxes
  <1>5. CASE \E c \in Conns : Drop(c)
    <2>1. << >> \in Seq(1 .. MaxChunks) /\ << >> \in Seq(Items)
      OBVIOUS
    <2> QED BY <1>5, <2>1 DEF Drop, agent, TypeOK, Boxes
  <1>6. CASE UNCHANGED vars
    BY <1>6 DEF vars, TypeOK, Boxes
  <1> QED BY <1>1, <1>2, <1>3, <1>4, <1>5, <1>6, ReplayBoxes, PumpBoxes, AppendBoxes
          DEF Next, ReaderStep, StopStep, ConnStep, EofInv

LEMMA TypesInit == Init => TypeOK
  <1> SUFFICES ASSUME Init PROVE TypeOK
    OBVIOUS
  <1>1. Typed
    BY EofInit DEF EofInv
  <1>2. << >> \in Seq(1 .. MaxChunks) /\ << >> \in Seq(Items) /\ Len(<< >>) = 0
    OBVIOUS
  <1>3. Boxes
    BY <1>2, SizeAssumption DEF Init, Boxes
  <1> QED BY <1>1, <1>3, TypeParts

\* Ring, queues, schedule and threads hold what they should.
THEOREM SessionTypes == Spec => []TypeOK
  <1>1. EofInv /\ TypeOK /\ [Next]_vars => EofInv' /\ TypeOK'
    <2> SUFFICES ASSUME EofInv, TypeOK, [Next]_vars PROVE EofInv' /\ TypeOK'
      OBVIOUS
    <2>1. EofInv' /\ Boxes'
      BY EofStep, BoxesStep
    <2> QED BY <2>1 DEF EofInv, Typed, Boxes, TypeOK
  <1> QED BY <1>1, EofInit, TypesInit, PTL DEF Spec

-----------------------------------------------------------------------------
(* The stream of a connection: what sequences of items hold. *)

LEMMA ChunksAppend ==
  ASSUME NEW s \in Seq(Items), NEW x \in Items
  PROVE /\ x \notin 1 .. MaxChunks => Chunks(Append(s, x)) = Chunks(s)
        /\ x \in 1 .. MaxChunks => Chunks(Append(s, x)) = Chunks(s) \cup {x}
        /\ (Rising(s) /\ \A k \in Chunks(s) : k < x) => Rising(Append(s, x))
        /\ (Rising(s) /\ x \notin 1 .. MaxChunks) => Rising(Append(s, x))
  <1> DEFINE t == Append(s, x)
  <1>1. /\ \A i \in DOMAIN s : i \in DOMAIN t /\ t[i] = s[i]
        /\ \A i \in DOMAIN t : i \in DOMAIN s \/ (i = Len(s) + 1 /\ t[i] = x)
        /\ Len(s) + 1 \in DOMAIN t /\ t[Len(s) + 1] = x
        /\ \A i \in DOMAIN s : i < Len(s) + 1
        /\ \A i \in DOMAIN s : s[i] \in Items
    OBVIOUS
  <1>2. \A i, j \in DOMAIN t : i < j => i \in DOMAIN s
    <2>1. DOMAIN t = 1 .. Len(s) + 1 /\ DOMAIN s = 1 .. Len(s) /\ Len(s) \in Nat
      OBVIOUS
    <2> QED BY <2>1
  <1> HIDE DEF t
  <1>3. x \notin 1 .. MaxChunks => Chunks(t) = Chunks(s)
    BY <1>1 DEF Chunks
  <1>4. x \in 1 .. MaxChunks => Chunks(t) = Chunks(s) \cup {x}
    BY <1>1 DEF Chunks
  <1>5. ASSUME Rising(s), (\A k \in Chunks(s) : k < x) \/ x \notin 1 .. MaxChunks PROVE Rising(t)
    <2> SUFFICES ASSUME NEW i \in DOMAIN t, NEW j \in DOMAIN t, i < j, t[i] > 0, t[j] > 0
                 PROVE  t[i] < t[j]
      BY DEF Rising
    <2>1. i \in DOMAIN s /\ t[i] = s[i] /\ s[i] \in Items
      BY <1>1, <1>2
    <2>2. CASE j \in DOMAIN s
      BY <1>1, <1>5, <2>1, <2>2 DEF Rising
    <2>3. CASE j \notin DOMAIN s
      <3>1. t[j] = x /\ x \in 1 .. MaxChunks
        BY <1>1, <2>3, Numbers
      <3>2. s[i] \in Chunks(s)
        BY <2>1, Numbers DEF Chunks
      <3> QED BY <1>5, <2>1, <3>1, <3>2
    <2> QED BY <2>2, <2>3
  <1> QED BY <1>3, <1>4, <1>5 DEF t

LEMMA ChunksTail ==
  ASSUME NEW s \in Seq(Items), s # << >>
  PROVE /\ Head(s) \in Items /\ Tail(s) \in Seq(Items)
        /\ Head(s) \notin 1 .. MaxChunks => Chunks(s) = Chunks(Tail(s))
        /\ Head(s) \in 1 .. MaxChunks => Chunks(s) = Chunks(Tail(s)) \cup {Head(s)}
        /\ Rising(s) => Rising(Tail(s))
        /\ Rising(s) /\ Head(s) \in 1 .. MaxChunks => \A k \in Chunks(Tail(s)) : Head(s) < k
  <1> DEFINE t == Tail(s)
             x == Head(s)
  <1>1. /\ x \in Items /\ t \in Seq(Items) /\ 1 \in DOMAIN s /\ x = s[1]
        /\ \A i \in DOMAIN t : i + 1 \in DOMAIN s /\ t[i] = s[i + 1] /\ 1 < i + 1
        /\ \A i \in DOMAIN s : i = 1 \/ (i - 1 \in DOMAIN t /\ t[i - 1] = s[i])
        /\ \A i, j \in DOMAIN t : i < j => i + 1 < j + 1
    OBVIOUS
  <1> HIDE DEF t, x
  <1>2. x \notin 1 .. MaxChunks => Chunks(s) = Chunks(t)
    BY <1>1 DEF Chunks
  <1>3. x \in 1 .. MaxChunks => Chunks(s) = Chunks(t) \cup {x}
    BY <1>1 DEF Chunks
  <1>4. ASSUME Rising(s) PROVE Rising(t)
    <2> SUFFICES ASSUME NEW i \in DOMAIN t, NEW j \in DOMAIN t, i < j, t[i] > 0, t[j] > 0
                 PROVE  t[i] < t[j]
      BY DEF Rising
    <2> QED BY <1>1, <1>4 DEF Rising
  <1>5. ASSUME Rising(s), x \in 1 .. MaxChunks, NEW k \in Chunks(t) PROVE x < k
    <2>1. PICK i \in DOMAIN t : t[i] = k
      BY <1>5 DEF Chunks
    <2>2. s[i + 1] = k /\ 1 < i + 1 /\ i + 1 \in DOMAIN s /\ s[1] = x /\ 1 \in DOMAIN s
      BY <1>1, <2>1
    <2>3. k > 0 /\ x > 0
      BY <1>5 DEF Chunks
    <2> QED BY <1>5, <2>2, <2>3 DEF Rising
  <1> QED BY <1>1, <1>2, <1>3, <1>4, <1>5 DEF t, x

LEMMA DueAppend ==
  ASSUME NEW s \in Seq(Conns \X Items), NEW d \in Conns, NEW x \in Items, NEW c
  PROVE LET t == Append(s, <<d, x>>)
        IN /\ d # c => Due(t, c) = Due(s, c)
           /\ x \notin 1 .. MaxChunks => Due(t, c) = Due(s, c)
           /\ d = c /\ x \in 1 .. MaxChunks => Due(t, c) = Due(s, c) \cup {x}
           /\ RisingTo(s, c) /\ (d # c \/ x \notin 1 .. MaxChunks) => RisingTo(t, c)
           /\ RisingTo(s, c) /\ (\A k \in Due(s, c) : k < x) => RisingTo(t, c)
  <1> DEFINE t == Append(s, <<d, x>>)
  <1>1. /\ \A i \in DOMAIN s : i \in DOMAIN t /\ t[i] = s[i]
        /\ \A i \in DOMAIN t : i \in DOMAIN s \/ (i = Len(s) + 1 /\ t[i] = <<d, x>>)
        /\ Len(s) + 1 \in DOMAIN t /\ t[Len(s) + 1] = <<d, x>>
        /\ \A i \in DOMAIN s : s[i] \in Conns \X Items
    OBVIOUS
  <1>2. \A i, j \in DOMAIN t : i < j => i \in DOMAIN s
    <2>1. DOMAIN t = 1 .. Len(s) + 1 /\ DOMAIN s = 1 .. Len(s) /\ Len(s) \in Nat
      OBVIOUS
    <2> QED BY <2>1
  <1> HIDE DEF t
  <1>3. d # c \/ x \notin 1 .. MaxChunks => Due(t, c) = Due(s, c)
    BY <1>1 DEF Due
  <1>4. d = c /\ x \in 1 .. MaxChunks => Due(t, c) = Due(s, c) \cup {x}
    BY <1>1 DEF Due
  <1>5. ASSUME RisingTo(s, c), \/ d # c \/ x \notin 1 .. MaxChunks
                               \/ \A k \in Due(s, c) : k < x
        PROVE  RisingTo(t, c)
    <2> SUFFICES ASSUME NEW i \in DOMAIN t, NEW j \in DOMAIN t, i < j, t[i][1] = c, t[j][1] = c,
                        t[i][2] > 0, t[j][2] > 0
                 PROVE  t[i][2] < t[j][2]
      BY DEF RisingTo
    <2>1. i \in DOMAIN s /\ t[i] = s[i] /\ s[i] \in Conns \X Items
      BY <1>1, <1>2
    <2>2. CASE j \in DOMAIN s
      BY <1>1, <1>5, <2>1, <2>2 DEF RisingTo
    <2>3. CASE j \notin DOMAIN s
      <3>1. t[j] = <<d, x>>
        BY <1>1, <2>3
      <3>2. d = c /\ x > 0 /\ x \in 1 .. MaxChunks
        BY <3>1, Numbers
      <3>3. s[i] = <<c, s[i][2]>> /\ s[i][2] \in Items /\ s[i][2] > 0
        BY <2>1
      <3>4. s[i][2] \in Due(s, c)
        BY <2>1, <3>3, Numbers DEF Due
      <3> QED BY <1>5, <2>1, <3>1, <3>2, <3>4
    <2> QED BY <2>2, <2>3
  <1> QED BY <1>3, <1>4, <1>5 DEF t

LEMMA DueTail ==
  ASSUME NEW s \in Seq(Conns \X Items), s # << >>, NEW c
  PROVE LET d == s[1][1]
            x == s[1][2]
        IN /\ d \in Conns /\ x \in Items
           /\ d # c \/ x \notin 1 .. MaxChunks => Due(Tail(s), c) = Due(s, c)
           /\ d = c /\ x \in 1 .. MaxChunks => Due(s, c) = Due(Tail(s), c) \cup {x}
           /\ RisingTo(s, c) => RisingTo(Tail(s), c)
           /\ RisingTo(s, c) /\ d = c /\ x \in 1 .. MaxChunks => \A k \in Due(Tail(s), c) : x < k
  <1> DEFINE t == Tail(s)
             d == s[1][1]
             x == s[1][2]
  <1>1. /\ s[1] \in Conns \X Items /\ 1 \in DOMAIN s
        /\ \A i \in DOMAIN t : i + 1 \in DOMAIN s /\ t[i] = s[i + 1] /\ 1 < i + 1
        /\ \A i \in DOMAIN s : i = 1 \/ (i - 1 \in DOMAIN t /\ t[i - 1] = s[i])
        /\ \A i, j \in DOMAIN t : i < j => i + 1 < j + 1
    OBVIOUS
  <1>2. s[1] = <<d, x>> /\ d \in Conns /\ x \in Items
    BY <1>1
  <1> HIDE DEF t, d, x
  <1>0. ASSUME NEW k \in 1 .. MaxChunks PROVE k \in Due(s, c) <=> (k \in Due(t, c) \/ (d = c /\ x = k))
    <2>1. ASSUME NEW i \in DOMAIN t, t[i] = <<c, k>> PROVE k \in Due(s, c)
      BY <1>1, <2>1 DEF Due
    <2>2. d = c /\ x = k => k \in Due(s, c)
      BY <1>1, <1>2 DEF Due
    <2>3. ASSUME NEW i \in DOMAIN s, s[i] = <<c, k>> PROVE k \in Due(t, c) \/ (d = c /\ x = k)
      <3>1. CASE i = 1
        BY <1>2, <2>3, <3>1
      <3>2. CASE i # 1
        BY <1>1, <2>3, <3>2 DEF Due
      <3> QED BY <3>1, <3>2
    <2> QED BY <2>1, <2>2, <2>3 DEF Due
  <1>3. d # c \/ x \notin 1 .. MaxChunks => Due(t, c) = Due(s, c)
    BY <1>0 DEF Due
  <1>4. d = c /\ x \in 1 .. MaxChunks => Due(s, c) = Due(t, c) \cup {x}
    BY <1>0 DEF Due
  <1>5. ASSUME RisingTo(s, c) PROVE RisingTo(t, c)
    <2> SUFFICES ASSUME NEW i \in DOMAIN t, NEW j \in DOMAIN t, i < j, t[i][1] = c, t[j][1] = c,
                        t[i][2] > 0, t[j][2] > 0
                 PROVE  t[i][2] < t[j][2]
      BY DEF RisingTo
    <2> QED BY <1>1, <1>5 DEF RisingTo
  <1>6. ASSUME RisingTo(s, c), d = c, x \in 1 .. MaxChunks, NEW k \in Due(t, c) PROVE x < k
    <2>1. PICK i \in DOMAIN t : t[i] = <<c, k>>
      BY <1>6 DEF Due
    <2>2. s[i + 1] = <<c, k>> /\ 1 < i + 1 /\ i + 1 \in DOMAIN s
      BY <1>1, <2>1
    <2>3. k > 0 /\ x > 0
      BY <1>6 DEF Due
    <2> QED BY <1>1, <1>2, <1>6, <2>2, <2>3 DEF RisingTo
  <1> QED BY <1>2, <1>3, <1>4, <1>5, <1>6 DEF t, d, x

-----------------------------------------------------------------------------
(* The invariant behind StreamExact and FrameCovers. *)

\* How many chunks the ring has had, which are its newest ones; what the
\* reader posts, and when; a stop posts no output.
Appended == IF reader.pc = "append" THEN taken - 1 ELSE taken
RingOK == /\ ring = << >> <=> Appended = 0
          /\ \A i \in DOMAIN ring : ring[i] = Appended - Len(ring) + i
ThreadsOK == /\ reader.left # {} => reader.pc = "post"
             /\ reader.left # {} /\ reader.item > 0 => reader.item = taken
             /\ stopper.item = Shutdown

\* A connection that has not subscribed yet has had nothing.
FreshOK == \A c \in Conns : conn[c] \in {"new", "accepting"} =>
             /\ c \notin reader.left
             /\ Chunks(queue[c]) = {} /\ Due(calls, c) = {}

\* What connection c has seen so far, behind its frame if it has one, and its
\* share of the two properties, from the moment it subscribed.
Seen(c) == IF full THEN IF conn[c] = "pump" THEN Tail(shown[c]) ELSE << >>
           ELSE IF conn[c] = "pump" THEN shown[c] ELSE snap[c]
Strand(c) ==
  /\ Gapless(c, Seen(c))
  /\ full /\ conn[c] = "pump" =>
       /\ shown[c] # << >>
       /\ (shown[c][1] + 1) .. Owed(c) \subseteq Stream(c, Seen(c))
  /\ ~full => (Stream(c, Seen(c)) = {} => Owed(c) = 0)
Streams == \A c \in subs : Strand(c)

StreamInv == EofInv /\ TypeOK /\ RingOK /\ ThreadsOK /\ FreshOK /\ Streams

\* A strand does not change when nothing is seen, queued, scheduled or owed.
LEMMA StrandSame ==
  ASSUME NEW c \in Conns, Strand(c), UNCHANGED full, Seen(c)' = Seen(c),
         conn'[c] = "pump" => (~full \/ (conn[c] = "pump" /\ shown'[c] = shown[c])),
         Chunks(queue'[c]) = Chunks(queue[c]), Rising(queue'[c]),
         Due(calls', c) = Due(calls, c), RisingTo(calls', c), Owed(c)' = Owed(c)
  PROVE Strand(c)'
  <1>1. Stream(c, Seen(c))' = Stream(c, Seen(c))
    BY DEF Stream
  <1>2. Gapless(c, Seen(c))'
    BY <1>1 DEF Strand, Gapless
  <1> QED BY <1>1, <1>2 DEF Strand

LEMMA OwedSame ==
  ASSUME UNCHANGED ring, NEW c, UNCHANGED (c \in reader.left /\ reader.item > 0)
  PROVE Owed(c)' = Owed(c)
  BY DEF Owed, Newest

LEMMA OwedIs ==
  ASSUME TypeOK, RingOK, NEW c
  PROVE /\ Owed(c) = IF c \in reader.left /\ reader.item > 0 THEN Appended - 1 ELSE Appended
        /\ Appended \in Int /\ Owed(c) \in Int
        /\ ring # << >> => Newest(ring) = Appended
  <1>1. ring \in Seq(1 .. MaxChunks) /\ taken \in Int
    BY DEF TypeOK
  <1>2. ring # << >> => ring[Len(ring)] = Appended
    <2>1. ring # << >> => Len(ring) \in DOMAIN ring
      BY <1>1
    <2>2. Appended \in Int
      BY <1>1 DEF Appended
    <2> QED BY <1>1, <2>1, <2>2 DEF RingOK
  <1> QED BY <1>1, <1>2 DEF Owed, Newest, RingOK, Appended

\* Chunks move along a strand: from the schedule to the queue, from there to
\* the browser, and new ones come at the end.
Linked(S, Q, D, o) == /\ Before(S, Q \cup D) /\ Before(Q, D)
                      /\ \A k \in S \cup Q \cup D : k <= o /\ k .. o \subseteq S \cup Q \cup D

LEMMA GaplessLinks ==
  ASSUME NEW c, NEW s
  PROVE Gapless(c, s) <=> /\ Rising(s) /\ Rising(queue[c]) /\ RisingTo(calls, c)
                          /\ Linked(Chunks(s), Chunks(queue[c]), Due(calls, c), Owed(c))
  BY DEF Gapless, Linked, Stream

LEMMA LinkedPost ==
  ASSUME NEW S \in SUBSET Int, NEW Q \in SUBSET Int, NEW D \in SUBSET Int, NEW o \in Int,
         Linked(S, Q, D, o)
  PROVE Linked(S, Q, D \cup {o + 1}, o + 1) /\ \A k \in S \cup Q \cup D : k < o + 1
  <1>1. \A k \in S \cup Q \cup D : k \in Int /\ k <= o /\ k < o + 1
    BY DEF Linked
  <1>2. Before(S, Q \cup D \cup {o + 1}) /\ Before(Q, D \cup {o + 1})
    BY <1>1 DEF Linked, Before
  <1>3. ASSUME NEW k \in S \cup Q \cup D \cup {o + 1}
        PROVE k <= o + 1 /\ k .. (o + 1) \subseteq S \cup Q \cup D \cup {o + 1}
    <2>1. \A m \in k .. (o + 1) : m = o + 1 \/ (k <= o /\ m \in k .. o)
      BY <1>1
    <2>2. k <= o + 1 /\ (k = o + 1 \/ k \in S \cup Q \cup D)
      BY <1>1
    <2>3. k = o + 1 => k .. (o + 1) = {o + 1}
      OBVIOUS
    <2> QED BY <2>1, <2>2, <2>3 DEF Linked
  <1> QED BY <1>1, <1>2, <1>3 DEF Linked

LEMMA LinkedCall ==
  ASSUME NEW S, NEW Q, NEW D, NEW o, NEW x, Linked(S, Q, D \cup {x}, o), \A k \in D : x < k
  PROVE Linked(S, Q \cup {x}, D, o)
  BY DEF Linked, Before

LEMMA LinkedPump ==
  ASSUME NEW S, NEW Q, NEW D, NEW o, NEW x, Linked(S, Q \cup {x}, D, o), \A k \in Q : x < k
  PROVE Linked(S \cup {x}, Q, D, o) /\ \A k \in S : k < x
  BY DEF Linked, Before

\* What the invariant says of one subscribed connection.
LEMMA StrandFacts ==
  ASSUME StreamInv, NEW c \in subs
  PROVE /\ c \in Conns /\ conn[c] \in {"check", "replay", "pump"} /\ Strand(c)
        /\ Rising(queue[c]) /\ RisingTo(calls, c) /\ queue[c] \in Seq(Items)
        /\ calls \in Seq(Conns \X Items) /\ shown[c] \in Seq(Items)
        /\ snap[c] \in Seq(1 .. MaxChunks)
  BY DEF StreamInv, EofInv, Joined, Streams, Strand, Gapless, TypeOK

\* A step that neither queues, schedules nor shows anything.
LEMMA QuietStep ==
  ASSUME StreamInv, UNCHANGED <<full, ring, calls, queue, conn, snap, shown>>,
         subs' \subseteq subs,
         \A c \in Conns : UNCHANGED (c \in reader.left /\ reader.item > 0)
  PROVE Streams'
  <1> SUFFICES ASSUME NEW c \in subs' PROVE Strand(c)'
    BY DEF Streams
  <1>1. c \in subs /\ c \in Conns
    BY StrandFacts
  <1>2. Owed(c)' = Owed(c) /\ Seen(c)' = Seen(c)
    BY <1>1, OwedSame DEF Seen
  <1> QED BY <1>1, <1>2, StrandFacts, StrandSame

\* Who holds what after a thread lists its connections.
LEMMA PostingFields ==
  ASSUME NEW i, NEW left
  PROVE /\ Posting(i, left).left = left /\ Posting(i, left).item = i
        /\ Posting(i, left).pc = IF left # {} THEN "post" ELSE IF i > 0 THEN "read" ELSE "done"
  BY DEF Posting

LEMMA ThreadFacts ==
  ASSUME StreamInv
  PROVE /\ reader.item \in Items /\ stopper.item = Shutdown /\ subs \subseteq Conns
        /\ reader.pc # "post" => reader.left = {}
        /\ taken \in 0 .. MaxChunks /\ Appended \in Int
  BY OwedIs DEF StreamInv, TypeOK, ThreadsOK, Thread

LEMMA QuietStreams ==
  ASSUME StreamInv,
         \/ AgentExits \/ Reap \/ StopKill \/ StopQuit \/ StopGrace \/ StopList
         \/ ReaderTake \/ ReaderEof \/ ReaderFails \/ ReaderList \/ UNCHANGED vars
  PROVE RingOK' /\ ThreadsOK' /\ FreshOK' /\ Streams'
  <1>1. UNCHANGED <<full, ring, calls, subs, queue, conn, snap, shown>>
    BY DEF AgentExits, Reap, StopKill, StopQuit, StopGrace, StopList, ReaderTake, ReaderEof,
           ReaderFails, ReaderList, agent, client, vars
  <1>2. CASE ReaderTake
    <2>1. /\ reader.pc = "read" /\ reader'.pc = "append" /\ reader'.left = reader.left
          /\ reader'.item = reader.item /\ taken' = taken + 1 /\ stopper' = stopper
      BY <1>2 DEF ReaderTake, StreamInv, TypeOK, Thread
    <2>2. Appended' = Appended /\ reader.left = {}
      BY <2>1, ThreadFacts DEF Appended
    <2>3. RingOK' /\ ThreadsOK' /\ FreshOK'
      BY <1>1, <2>1, <2>2 DEF StreamInv, RingOK, ThreadsOK, FreshOK
    <2> QED BY <1>1, <2>1, <2>3, QuietStep
  <1>3. CASE ReaderEof \/ ReaderFails
    <2>1. /\ reader.pc = "read" /\ reader'.pc = "list" /\ reader'.left = reader.left
          /\ reader'.item = reader.item /\ taken' = taken /\ stopper' = stopper
      BY <1>3 DEF ReaderEof, ReaderFails, StreamInv, TypeOK, Thread
    <2>2. Appended' = Appended /\ reader.left = {}
      BY <2>1, ThreadFacts DEF Appended
    <2>3. RingOK' /\ ThreadsOK' /\ FreshOK'
      BY <1>1, <2>1, <2>2 DEF StreamInv, RingOK, ThreadsOK, FreshOK
    <2> QED BY <1>1, <2>1, <2>3, QuietStep
  <1>4. CASE ReaderList
    <2>1. /\ reader.pc = "list" /\ reader'.left = subs /\ reader'.item = Eof
          /\ reader'.pc \in {"post", "done"} /\ (subs # {} => reader'.pc = "post")
          /\ taken' = taken /\ stopper' = stopper
      BY <1>4, PostingFields DEF ReaderList, Eof
    <2>2. Appended' = Appended /\ reader.left = {}
      BY <2>1, ThreadFacts DEF Appended
    <2>3. RingOK' /\ ThreadsOK'
      BY <1>1, <2>1, <2>2 DEF StreamInv, RingOK, ThreadsOK, Eof
    <2>4. FreshOK'
      BY <1>1, <2>1, StrandFacts DEF StreamInv, FreshOK
    <2> QED BY <1>1, <2>1, <2>2, <2>3, <2>4, QuietStep DEF Eof
  <1>5. CASE AgentExits \/ Reap \/ StopKill \/ StopQuit \/ StopGrace \/ StopList \/ UNCHANGED vars
    <2>1. UNCHANGED <<taken, reader>>
      BY <1>5 DEF AgentExits, Reap, StopKill, StopQuit, StopGrace, StopList, agent, client, vars
    <2>2. stopper'.item = Shutdown
      <3>1. CASE StopKill \/ StopQuit \/ StopGrace
        <4>1. PICK pc : stopper' = [stopper EXCEPT !.pc = pc]
          BY <3>1 DEF StopKill, StopQuit, StopGrace
        <4>2. stopper \in Thread({"idle", "grace", "list", "post", "done"})
          BY DEF StreamInv, TypeOK
        <4>3. stopper'.item = stopper.item
          BY <4>1, <4>2 DEF Thread
        <4> QED BY <4>3, ThreadFacts
      <3>2. CASE AgentExits \/ Reap \/ StopList \/ UNCHANGED vars
        BY <3>2, ThreadFacts, PostingFields DEF AgentExits, Reap, StopList, vars
      <3> QED BY <1>5, <3>1, <3>2
    <2>3. RingOK' /\ ThreadsOK' /\ FreshOK'
      BY <1>1, <2>1, <2>2 DEF StreamInv, RingOK, ThreadsOK, FreshOK, Appended
    <2> QED BY <1>1, <2>1, <2>3, QuietStep
  <1> QED BY <1>2, <1>3, <1>4, <1>5

LEMMA AppendStreams ==
  ASSUME StreamInv, ReaderAppend
  PROVE RingOK' /\ ThreadsOK' /\ FreshOK' /\ Streams'
  <1>1. /\ UNCHANGED <<full, taken, calls, subs, queue, conn, snap, shown, stopper>>
        /\ reader.pc = "append" /\ reader.left = {} /\ taken \in 1 .. MaxChunks
        /\ reader'.left = subs /\ reader'.item = taken /\ reader'.pc # "append"
        /\ subs # {} => reader'.pc = "post"
    <2>1. taken \in 1 .. MaxChunks /\ reader.left = {}
      BY SizeAssumption, ThreadFacts DEF ReaderAppend, StreamInv, EofInv, Marked, TypeOK
    <2> QED BY <2>1, PostingFields DEF ReaderAppend, agent, client
  <1>2. Appended = taken - 1 /\ Appended' = taken
    BY <1>1 DEF Appended
  <1> DEFINE g == Append(ring, taken)
  <1>3. /\ ring \in Seq(1 .. MaxChunks) /\ Len(ring) \in Nat /\ RingMax \in Nat \ {0}
        /\ Len(g) = Len(ring) + 1 /\ g \in Seq(1 .. MaxChunks)
        /\ ring' \in {g, Tail(g)} /\ (ring' # g => Len(g) > RingMax)
    <2>1. ring \in Seq(1 .. MaxChunks) /\ RingMax \in Nat \ {0}
      BY SizeAssumption DEF StreamInv, TypeOK
    <2>2. ring' = IF Len(g) > RingMax THEN Tail(g) ELSE g
      BY DEF ReaderAppend
    <2>3. g \in Seq(1 .. MaxChunks) /\ Len(g) = Len(ring) + 1
      BY <1>1, <2>1, AppendKeeps
    <2> QED BY <2>1, <2>2, <2>3
  <1>4. \A i \in DOMAIN g : g[i] = taken - Len(g) + i
    <2>1. \A i \in DOMAIN ring : ring[i] = (taken - 1) - Len(ring) + i
      BY <1>2 DEF StreamInv, RingOK
    <2>2. DOMAIN g = 1 .. Len(ring) + 1 /\ DOMAIN ring = 1 .. Len(ring)
      BY <1>3
    <2>3. (\A i \in DOMAIN ring : g[i] = ring[i]) /\ g[Len(ring) + 1] = taken
      BY <1>1, <1>3, AppendKeeps
    <2>4. taken \in Int
      BY <1>1
    <2> HIDE DEF g
    <2>5. ASSUME NEW i \in DOMAIN g PROVE g[i] = taken - Len(g) + i
      <3>1. CASE i = Len(ring) + 1
        BY <1>3, <2>3, <2>4, <3>1
      <3>2. CASE i # Len(ring) + 1
        BY <1>3, <2>1, <2>2, <2>3, <2>4, <2>5, <3>2
      <3> QED BY <3>1, <3>2
    <2> QED BY <2>5
  <1>5. g # << >> /\ \A i \in DOMAIN Tail(g) : i + 1 \in DOMAIN g /\ Tail(g)[i] = g[i + 1]
    BY <1>3
  <1>6. Len(Tail(g)) = Len(g) - 1
    BY <1>3, <1>5
  <1> HIDE DEF g
  <1>7. ring' # << >> /\ \A i \in DOMAIN ring' : ring'[i] = taken - Len(ring') + i
    <2>1. CASE ring' = g
      BY <1>4, <1>5, <2>1
    <2>2. CASE ring' = Tail(g) /\ ring' # g
      <3>1. Len(g) > 1 /\ Len(g) \in Nat /\ Tail(g) # << >>
        BY <1>3, <1>5, <1>6, <2>2
      <3>2. \A i \in DOMAIN Tail(g) : Tail(g)[i] = taken - Len(g) + (i + 1)
        BY <1>4, <1>5
      <3>3. \A i \in DOMAIN Tail(g) : i \in Int
        BY <1>3, <1>5
      <3> QED BY <1>1, <1>6, <2>2, <3>1, <3>2, <3>3
    <2> QED BY <1>3, <2>1, <2>2
  <1>8. RingOK'
    BY <1>1, <1>2, <1>7 DEF RingOK
  <1>9. ThreadsOK'
    BY <1>1 DEF StreamInv, ThreadsOK
  <1>10. FreshOK'
    BY <1>1, StrandFacts DEF StreamInv, FreshOK
  <1>11. ASSUME NEW c \in subs' PROVE Strand(c)'
    <2>1. c \in subs /\ c \in Conns
      BY <1>1, <1>11, StrandFacts
    <2>2. Owed(c) = taken - 1
      BY <1>1, <1>2, OwedIs DEF StreamInv
    <2>3. Owed(c)' = taken - 1
      <3>1. ring' \in Seq(1 .. MaxChunks)
        BY <1>3, <1>5
      <3>2. Len(ring') \in DOMAIN ring' /\ ring'[Len(ring')] = taken
        <4>1. Len(ring') \in Nat /\ Len(ring') \in DOMAIN ring'
          BY <1>7, <3>1
        <4> QED BY <1>1, <1>7, <4>1
      <3> QED BY <1>1, <1>7, <2>1, <3>2 DEF Owed, Newest
    <2>4. Seen(c)' = Seen(c)
      BY <1>1 DEF Seen
    <2> QED BY <1>1, <2>1, <2>2, <2>3, <2>4, StrandFacts, StrandSame
  <1> QED BY <1>8, <1>9, <1>10, <1>11 DEF Streams

\* What is due after an item was scheduled: to anyone but its connection, or
\* to all if it is no output, what was due before.
LEMMA DueOthers ==
  ASSUME NEW s \in Seq(Conns \X Items), NEW d \in Conns, NEW x \in Items, NEW c,
         d # c \/ x \notin 1 .. MaxChunks, NEW t, t = Append(s, <<d, x>>)
  PROVE Due(t, c) = Due(s, c) /\ (RisingTo(s, c) => RisingTo(t, c))
  BY DueAppend

LEMMA DueGrows ==
  ASSUME NEW s \in Seq(Conns \X Items), NEW d \in Conns, NEW x \in Items, x \in 1 .. MaxChunks,
         \A k \in Due(s, d) : k < x
  PROVE /\ Due(Append(s, <<d, x>>), d) = Due(s, d) \cup {x}
        /\ RisingTo(s, d) => RisingTo(Append(s, <<d, x>>), d)
  <1>1. Due(Append(s, <<d, x>>), d) = Due(s, d) \cup {x}
    BY DueAppend
  <1>2. RisingTo(s, d) => RisingTo(Append(s, <<d, x>>), d)
    BY DueAppend
  <1> QED BY <1>1, <1>2

\* A step that schedules an item that is no output.
LEMMA PostQuiet ==
  ASSUME StreamInv, NEW d \in Conns, NEW x \in Items, x \notin 1 .. MaxChunks,
         calls' = Append(calls, <<d, x>>),
         UNCHANGED <<full, ring, subs, queue, conn, snap, shown>>,
         reader'.left \subseteq reader.left, reader'.item = reader.item,
         UNCHANGED reader.left \/ reader.item <= 0
  PROVE FreshOK' /\ Streams'
  <1>0. calls \in Seq(Conns \X Items)
    BY DEF StreamInv, TypeOK
  <1>1. ASSUME NEW c
        PROVE  Due(calls', c) = Due(calls, c) /\ (RisingTo(calls, c) => RisingTo(calls', c))
    <2> DEFINE t == Append(calls, <<d, x>>)
    <2>1. Due(t, c) = Due(calls, c) /\ (RisingTo(calls, c) => RisingTo(t, c))
      BY ONLY <1>0, DueOthers, d \in Conns, x \in Items, x \notin 1 .. MaxChunks
    <2>2. calls' = t
      OBVIOUS
    <2> HIDE DEF t
    <2> QED BY <2>1, <2>2
  <1>2. FreshOK'
    BY <1>1 DEF StreamInv, FreshOK
  <1>3. ASSUME NEW c \in subs' PROVE Strand(c)'
    <2>1. c \in subs /\ c \in Conns
      BY <1>3, StrandFacts
    <2>2. reader.item \in Int
      BY ThreadFacts, Numbers
    <2>3. Owed(c)' = Owed(c)
      <3>1. (c \in reader.left /\ reader.item > 0)' <=> c \in reader.left /\ reader.item > 0
        BY <2>2
      <3> QED BY <3>1, OwedSame
    <2>4. Seen(c)' = Seen(c)
      BY DEF Seen
    <2> QED BY <1>1, <2>1, <2>3, <2>4, StrandFacts, StrandSame
  <1> QED BY <1>2, <1>3 DEF Streams

LEMMA StopPostStreams ==
  ASSUME StreamInv, NEW d \in Conns, StopPost(d)
  PROVE RingOK' /\ ThreadsOK' /\ FreshOK' /\ Streams'
  <1>1. /\ UNCHANGED <<full, taken, ring, reader, subs, queue, conn, snap, shown>>
        /\ calls' = Append(calls, <<d, Shutdown>>) /\ stopper'.item = Shutdown
    BY ThreadFacts, PostingFields DEF StopPost, Posted, agent, client
  <1>2. Shutdown \in Items /\ Shutdown \notin 1 .. MaxChunks
    BY Numbers DEF Shutdown
  <1>3. FreshOK' /\ Streams'
    BY <1>1, <1>2, PostQuiet
  <1> QED BY <1>1, <1>3 DEF StreamInv, RingOK, ThreadsOK, Appended

\* The newest chunk is scheduled for a connection it was owed to.
LEMMA StrandPost ==
  ASSUME StreamInv, NEW c \in subs, UNCHANGED <<full, subs, queue, conn, snap, shown>>,
         Owed(c)' = Owed(c) + 1, Owed(c)' \in 1 .. MaxChunks,
         calls' = Append(calls, <<c, Owed(c)'>>)
  PROVE Strand(c)'
  <1> DEFINE S == Chunks(Seen(c))  Q == Chunks(queue[c])  D == Due(calls, c)  o == Owed(c)
  <1>1. /\ c \in Conns /\ Strand(c) /\ calls \in Seq(Conns \X Items)
        /\ Rising(queue[c]) /\ RisingTo(calls, c) /\ shown[c] \in Seq(Items)
    BY StrandFacts
  <1>2. o \in Int
    BY OwedIs DEF StreamInv
  <1>3. o + 1 \in Items /\ o + 1 \in 1 .. MaxChunks
    BY Numbers
  <1>4. S \in SUBSET Int /\ Q \in SUBSET Int /\ D \in SUBSET Int
    BY DEF Chunks, Due
  <1>5. Linked(S, Q, D, o) /\ Rising(Seen(c))
    BY <1>1, GaplessLinks DEF Strand
  <1>6. Linked(S, Q, D \cup {o + 1}, o + 1) /\ \A k \in S \cup Q \cup D : k < o + 1
    BY <1>2, <1>4, <1>5, LinkedPost
  <1>7. Due(calls', c) = D \cup {o + 1} /\ RisingTo(calls', c)
    <2> DEFINE x == o + 1
               t == Append(calls, <<c, x>>)
    <2>1. x \in Items /\ x \in 1 .. MaxChunks /\ \A k \in Due(calls, c) : k < x
      BY <1>3, <1>6
    <2> HIDE DEF x
    <2>2. Due(t, c) = D \cup {x} /\ RisingTo(t, c)
      BY ONLY <1>1, <2>1, DueGrows
    <2>3. calls' = t
      BY DEF x
    <2> HIDE DEF t
    <2> QED BY <2>2, <2>3 DEF x
  <1>8. Seen(c)' = Seen(c)
    BY DEF Seen
  <1>9. Gapless(c, Seen(c))'
    <2>1. Linked(Chunks(Seen(c)'), Chunks(queue'[c]), Due(calls', c), Owed(c)')
      BY <1>6, <1>7, <1>8
    <2> QED BY <1>1, <1>5, <1>7, <1>8, <2>1 DEF Gapless, Linked, Stream
  <1>10. Stream(c, Seen(c))' = Stream(c, Seen(c)) \cup {o + 1}
    BY <1>7, <1>8 DEF Stream
  <1>11. ASSUME full, conn[c] = "pump"
         PROVE  shown[c] # << >> /\ (shown[c][1] + 1) .. (o + 1) \subseteq Stream(c, Seen(c))'
    <2>1. shown[c] # << >> /\ (shown[c][1] + 1) .. o \subseteq Stream(c, Seen(c))
      BY <1>1, <1>11 DEF Strand
    <2>2. shown[c][1] \in Int
      BY <1>1, <2>1, Numbers
    <2>3. \A m \in (shown[c][1] + 1) .. (o + 1) : m = o + 1 \/ m \in (shown[c][1] + 1) .. o
      BY <1>2, <2>2
    <2> QED BY <1>10, <2>1, <2>3
  <1> QED BY <1>9, <1>10, <1>11 DEF Strand

LEMMA ReaderPostStreams ==
  ASSUME StreamInv, NEW d \in Conns, ReaderPost(d)
  PROVE RingOK' /\ ThreadsOK' /\ FreshOK' /\ Streams'
  <1>1. /\ UNCHANGED <<full, taken, ring, stopper, subs, queue, conn, snap, shown>>
        /\ calls' = Append(calls, <<d, reader.item>>) /\ reader'.item = reader.item
        /\ reader'.left = reader.left \ {d} /\ d \in reader.left /\ reader.pc = "post"
        /\ reader'.left # {} => reader'.pc = "post"
        /\ reader'.pc # "append"
    <2>1. /\ UNCHANGED <<full, taken, ring, stopper, subs, queue, conn, snap, shown>>
          /\ calls' = Append(calls, <<d, reader.item>>) /\ d \in reader.left
          /\ reader' = Posting(reader.item, reader.left \ {d}) /\ reader.pc = "post"
      BY DEF ReaderPost, Posted, agent, client
    <2> DEFINE i == reader.item  left == reader.left \ {d}
    <2>2. /\ reader'.left = left /\ reader'.item = i
          /\ reader'.pc = IF left # {} THEN "post" ELSE IF i > 0 THEN "read" ELSE "done"
      BY <2>1 DEF Posting
    <2> QED BY <2>1, <2>2
  <1>2. Appended = taken /\ Appended' = taken
    BY <1>1 DEF Appended
  <1>3. RingOK' /\ ThreadsOK'
    BY <1>1, <1>2 DEF StreamInv, RingOK, ThreadsOK
  <1>4. reader.item \in Items /\ reader.item \in Int
    BY ThreadFacts, Numbers
  <1>5. CASE reader.item \notin 1 .. MaxChunks
    <2>1. ~(reader.item > 0)
      BY <1>4, <1>5, Numbers
    <2>2. FreshOK' /\ Streams'
      BY <1>1, <1>4, <1>5, <2>1, PostQuiet
    <2> QED BY <1>3, <2>2
  <1>6. CASE reader.item \in 1 .. MaxChunks
    <2>1. reader.item = taken /\ reader.item > 0 /\ taken \in Int
      BY <1>1, <1>4, <1>6 DEF StreamInv, ThreadsOK
    <2>2. ASSUME NEW c, c # d
          PROVE  Due(calls', c) = Due(calls, c) /\ (RisingTo(calls, c) => RisingTo(calls', c))
      <3> DEFINE x == reader.item
                 t == Append(calls, <<d, x>>)
      <3>1. calls \in Seq(Conns \X Items) /\ x \in Items
        BY <1>4 DEF StreamInv, TypeOK
      <3> HIDE DEF x
      <3>2. Due(t, c) = Due(calls, c) /\ (RisingTo(calls, c) => RisingTo(t, c))
        BY ONLY <2>2, <3>1, DueOthers, d \in Conns
      <3>3. calls' = t
        BY <1>1 DEF x
      <3> HIDE DEF t
      <3> QED BY <3>2, <3>3
    <2>3. FreshOK'
      BY <1>1, <2>2 DEF StreamInv, FreshOK
    <2>4. ASSUME NEW c \in subs' PROVE Strand(c)'
      <3>1. c \in subs /\ c \in Conns
        BY <1>1, <2>4, StrandFacts
      <3>2. CASE c # d
        <4>1. Owed(c)' = Owed(c) /\ Seen(c)' = Seen(c)
          BY <1>1, <3>2, OwedSame DEF Seen
        <4> QED BY <1>1, <2>2, <3>1, <3>2, <4>1, StrandFacts, StrandSame
      <3>3. CASE c = d
        <4>1. ring # << >> => Newest(ring) = taken
          BY <1>2, OwedIs DEF StreamInv
        <4>2. Owed(c) = taken - 1
          BY <1>1, <1>2, <2>1, <3>3, OwedIs DEF StreamInv
        <4>3. ring # << >>
          BY <1>2, <2>1 DEF StreamInv, RingOK
        <4>4. Owed(c) = Newest(ring) - 1
          BY <1>1, <2>1, <3>3, <4>3 DEF Owed
        <4>5. Owed(c)' = Newest(ring)
          BY <1>1, <3>3, <4>3 DEF Owed, Newest
        <4>6. Newest(ring) = taken
          BY <4>1, <4>3
        <4> QED BY <1>1, <1>6, <2>1, <3>1, <3>3, <4>2, <4>5, <4>6, StrandPost
      <3> QED BY <3>2, <3>3
    <2> QED BY <1>3, <2>3, <2>4 DEF Streams
  <1> QED BY <1>5, <1>6

\* A strand of which something moved on: the same chunks, the same owed.
LEMMA StrandMoved ==
  ASSUME NEW c, Strand(c), UNCHANGED full, conn'[c] = conn[c],
         full /\ conn[c] = "pump" => shown'[c] # << >> /\ shown'[c][1] = shown[c][1],
         Gapless(c, Seen(c))', Stream(c, Seen(c))' = Stream(c, Seen(c)), Owed(c)' = Owed(c)
  PROVE Strand(c)'
  BY DEF Strand

\* The callback that runs is for connection c: its item goes to c's queue.
LEMMA StrandCall ==
  ASSUME StreamInv, NEW c \in subs, UNCHANGED <<full, conn, snap, shown, ring, reader>>,
         calls # << >>, calls' = Tail(calls), calls[1][1] = c,
         queue'[c] = Append(queue[c], calls[1][2])
  PROVE Strand(c)'
  <1> DEFINE S == Chunks(Seen(c))  Q == Chunks(queue[c])  t == Tail(calls)
             D == Due(t, c)  o == Owed(c)  x == calls[1][2]  q == Append(queue[c], x)
  <1>1. /\ c \in Conns /\ Strand(c) /\ calls \in Seq(Conns \X Items)
        /\ Rising(queue[c]) /\ RisingTo(calls, c) /\ queue[c] \in Seq(Items)
    BY StrandFacts
  <1>2. x \in Items /\ calls[1][1] = c
    BY <1>1, DueTail
  <1>3. /\ x \notin 1 .. MaxChunks => D = Due(calls, c)
        /\ x \in 1 .. MaxChunks => Due(calls, c) = D \cup {x} /\ \A k \in D : x < k
        /\ RisingTo(t, c)
    BY <1>1, <1>2, DueTail
  <1>4. Linked(S, Q, Due(calls, c), o) /\ Rising(Seen(c))
    BY <1>1, GaplessLinks DEF Strand
  <1>5. Owed(c)' = o /\ Seen(c)' = Seen(c)
    BY OwedSame DEF Seen
  <1> HIDE DEF x
  <1>6. ASSUME x \in 1 .. MaxChunks
        PROVE  Chunks(q) = Q \cup {x} /\ Rising(q) /\ Linked(S, Q \cup {x}, D, o)
    <2>1. \A k \in Q : k < x
      BY <1>3, <1>4, <1>6 DEF Linked, Before
    <2>2. Linked(S, Q, D \cup {x}, o) /\ \A k \in D : x < k
      BY <1>3, <1>4, <1>6
    <2>3. Linked(S, Q \cup {x}, D, o)
      BY ONLY <2>2, LinkedCall
    <2> QED BY <1>1, <1>2, <1>6, <2>1, <2>3, ChunksAppend
  <1>7. ASSUME x \notin 1 .. MaxChunks
        PROVE  Chunks(q) = Q /\ Rising(q) /\ Linked(S, Q, D, o)
    BY <1>1, <1>2, <1>3, <1>4, <1>7, ChunksAppend
  <1>8. queue'[c] = q /\ calls' = t
    BY DEF x
  <1> HIDE DEF q, t
  <1>9. Linked(S, Chunks(q), D, o) /\ Rising(q)
    BY <1>6, <1>7
  <1>10. Gapless(c, Seen(c))'
    <2>1. Linked(Chunks(Seen(c)'), Chunks(queue'[c]), Due(calls', c), Owed(c)')
      BY <1>5, <1>8, <1>9
    <2> QED BY <1>3, <1>4, <1>5, <1>8, <1>9, <2>1 DEF Gapless, Linked, Stream
  <1>11. Chunks(q) \cup D = Q \cup Due(calls, c)
    BY <1>3, <1>6, <1>7
  <1>12. Stream(c, Seen(c))' = Stream(c, Seen(c))
    BY <1>5, <1>8, <1>11 DEF Stream
  <1>13. full /\ conn[c] = "pump" => shown[c] # << >>
    BY <1>1 DEF Strand
  <1> QED BY <1>1, <1>5, <1>10, <1>12, <1>13, StrandMoved

LEMMA LoopCallStreams ==
  ASSUME StreamInv, LoopCall
  PROVE RingOK' /\ ThreadsOK' /\ FreshOK' /\ Streams'
  <1> DEFINE d == calls[1][1]  x == calls[1][2]
             q == IF conn[d] \in Over THEN queue[d] ELSE Append(queue[d], x)
  <1>1. /\ UNCHANGED <<full, taken, ring, reader, stopper, subs, conn, snap, shown>>
        /\ calls' = Tail(calls) /\ calls # << >> /\ queue' = [queue EXCEPT ![d] = q]
    BY DEF LoopCall, agent
  <1>2. calls \in Seq(Conns \X Items) /\ queue \in [Conns -> Seq(Items)]
    BY DEF StreamInv, TypeOK
  <1>3. d \in Conns /\ x \in Items /\ queue[d] \in Seq(Items)
    BY <1>1, <1>2, DueTail
  <1>4. queue'[d] = q /\ \A c \in Conns : c # d => queue'[c] = queue[c]
    BY <1>1, <1>2, <1>3
  <1>5. ASSUME NEW c, c # d
        PROVE  Due(calls', c) = Due(calls, c) /\ (RisingTo(calls, c) => RisingTo(calls', c))
    BY <1>1, <1>2, <1>5, DueTail
  <1>6. RingOK' /\ ThreadsOK'
    BY <1>1 DEF StreamInv, RingOK, ThreadsOK, Appended
  <1>7. FreshOK'
    <2> SUFFICES ASSUME NEW c \in Conns, conn[c] \in {"new", "accepting"}
                 PROVE c \notin reader.left /\ Chunks(queue'[c]) = {} /\ Due(calls', c) = {}
      BY <1>1 DEF FreshOK
    <2>1. c \notin reader.left /\ Chunks(queue[c]) = {} /\ Due(calls, c) = {}
      BY DEF StreamInv, FreshOK
    <2>2. CASE c # d
      BY <1>4, <1>5, <2>1, <2>2
    <2>3. CASE c = d
      <3>1. x \notin 1 .. MaxChunks
        <4> SUFFICES ASSUME x \in 1 .. MaxChunks PROVE FALSE
          OBVIOUS
        <4>1. Due(calls, c) = Due(Tail(calls), c) \cup {x}
          BY <1>1, <1>2, <2>3, DueTail
        <4> QED BY <2>1, <4>1
      <3>2. Due(calls', c) = {}
        BY <1>1, <1>2, <2>1, <2>3, <3>1, DueTail
      <3>3. Chunks(q) = {}
        BY <1>3, <2>1, <2>3, <3>1, ChunksAppend
      <3> QED BY <1>4, <2>1, <2>3, <3>2, <3>3
    <2> QED BY <2>2, <2>3
  <1>8. ASSUME NEW c \in subs' PROVE Strand(c)'
    <2>1. c \in subs /\ c \in Conns /\ conn[c] \notin Over
      BY <1>1, <1>8, StrandFacts DEF Over
    <2>2. CASE c # d
      <3>1. Owed(c)' = Owed(c) /\ Seen(c)' = Seen(c) /\ queue'[c] = queue[c]
        BY <1>1, <1>4, <2>1, <2>2, OwedSame DEF Seen
      <3> QED BY <1>1, <1>5, <2>1, <2>2, <3>1, StrandFacts, StrandSame
    <2>3. CASE c = d
      <3>1. queue'[c] = Append(queue[c], calls[1][2])
        BY <1>4, <2>1, <2>3
      <3> QED BY <1>1, <2>1, <2>3, <3>1, StrandCall
    <2> QED BY <2>2, <2>3
  <1> QED BY <1>6, <1>7, <1>8 DEF Streams

\* Another connection's step leaves a strand as it is.
LEMMA StrandsApart ==
  ASSUME StreamInv, NEW d \in Conns, UNCHANGED <<full, taken, ring, reader, stopper, calls>>,
         \A c \in Conns \ {d} : UNCHANGED <<queue[c], conn[c], snap[c], shown[c]>>,
         subs' \subseteq subs \cup {d}, d \in subs' => Strand(d)',
         conn'[d] \in {"new", "accepting"} =>
           conn[d] \in {"new", "accepting"} /\ queue'[d] = queue[d]
  PROVE RingOK' /\ ThreadsOK' /\ FreshOK' /\ Streams'
  <1>1. RingOK' /\ ThreadsOK'
    BY DEF StreamInv, RingOK, ThreadsOK, Appended
  <1>2. FreshOK'
    BY DEF StreamInv, FreshOK
  <1>3. ASSUME NEW c \in subs' PROVE Strand(c)'
    <2>1. CASE c = d
      BY <1>3, <2>1
    <2>2. CASE c # d
      <3>1. c \in subs /\ c \in Conns
        BY <1>3, <2>2, StrandFacts
      <3>2. Owed(c)' = Owed(c) /\ Seen(c)' = Seen(c)
        BY <2>2, <3>1, OwedSame DEF Seen
      <3> QED BY <2>2, <3>1, <3>2, StrandFacts, StrandSame
    <2> QED BY <2>1, <2>2
  <1> QED BY <1>1, <1>2, <1>3 DEF Streams

LEMMA OpenStreams ==
  ASSUME StreamInv, NEW d \in Conns, Open(d)
  PROVE RingOK' /\ ThreadsOK' /\ FreshOK' /\ Streams'
  <1>1. /\ UNCHANGED <<full, taken, ring, reader, stopper, subs, calls, queue, snap, shown>>
        /\ conn[d] = "new" /\ \E pc : conn' = [conn EXCEPT ![d] = pc]
    BY DEF Open, agent
  <1>2. \A c \in Conns \ {d} : conn'[c] = conn[c]
    BY <1>1 DEF StreamInv, TypeOK
  <1>3. d \notin subs
    BY <1>1, StrandFacts
  <1> QED BY <1>1, <1>2, <1>3, StrandsApart

LEMMA DropStreams ==
  ASSUME StreamInv, NEW d \in Conns, Drop(d)
  PROVE RingOK' /\ ThreadsOK' /\ FreshOK' /\ Streams'
  <1>1. /\ UNCHANGED <<full, taken, ring, reader, stopper, calls>>
        /\ conn' = [conn EXCEPT ![d] = "dropped"] /\ subs' = subs \ {d}
        /\ queue' = [queue EXCEPT ![d] = << >>] /\ snap' = [snap EXCEPT ![d] = << >>]
        /\ shown' = [shown EXCEPT ![d] = << >>]
    BY DEF Drop, agent
  <1>2. /\ \A c \in Conns \ {d} : UNCHANGED <<queue[c], conn[c], snap[c], shown[c]>>
        /\ conn'[d] = "dropped"
    BY <1>1 DEF StreamInv, TypeOK
  <1> QED BY <1>1, <1>2, StrandsApart

\* A session that has ended puts EOF, which is no output.
LEMMA SubscribeCheckStreams ==
  ASSUME StreamInv, NEW d \in Conns, SubscribeCheck(d)
  PROVE RingOK' /\ ThreadsOK' /\ FreshOK' /\ Streams'
  <1> DEFINE q == IF exited THEN Append(queue[d], Eof) ELSE queue[d]
  <1>1. /\ UNCHANGED <<full, taken, ring, reader, stopper, subs, calls, snap, shown>>
        /\ conn[d] = "check" /\ conn' = [conn EXCEPT ![d] = "replay"]
        /\ queue' = [queue EXCEPT ![d] = q]
    BY DEF SubscribeCheck, agent
  <1>2. /\ \A c \in Conns \ {d} : UNCHANGED <<queue[c], conn[c], snap[c], shown[c]>>
        /\ conn'[d] = "replay" /\ queue'[d] = q
    BY <1>1 DEF StreamInv, TypeOK
  <1>3. ASSUME d \in subs PROVE Strand(d)'
    <2>1. Chunks(q) = Chunks(queue[d]) /\ Rising(q)
      BY <1>3, StrandFacts, ChunksAppend, Numbers DEF Eof
    <2>2. Owed(d)' = Owed(d) /\ Seen(d)' = Seen(d)
      BY <1>1, <1>2, OwedSame DEF Seen
    <2> HIDE DEF q
    <2> QED BY <1>1, <1>2, <1>3, <2>1, <2>2, StrandFacts, StrandSame
  <1> QED BY <1>1, <1>2, <1>3, StrandsApart

\* The ring holds the newest chunks there are, in order.
LEMMA RingFacts ==
  ASSUME StreamInv
  PROVE /\ Rising(ring) /\ (Chunks(ring) = {} => Appended = 0)
        /\ \A k \in Chunks(ring) : k <= Appended /\ k .. Appended \subseteq Chunks(ring)
  <1>1. /\ ring \in Seq(1 .. MaxChunks) /\ Len(ring) \in Nat /\ DOMAIN ring = 1 .. Len(ring)
        /\ Appended \in Int /\ Appended <= MaxChunks
        /\ \A i \in DOMAIN ring : ring[i] \in 1 .. MaxChunks
    BY SizeAssumption DEF StreamInv, TypeOK, Appended
  <1>2. /\ ring = << >> <=> Appended = 0
        /\ \A i \in DOMAIN ring : ring[i] = Appended - Len(ring) + i
    BY DEF StreamInv, RingOK
  <1>3. Rising(ring)
    BY <1>1, <1>2 DEF Rising
  <1>4. ASSUME ring # << >> PROVE Appended \in Chunks(ring)
    <2>1. Len(ring) \in DOMAIN ring
      BY <1>1, <1>4
    <2>2. ring[Len(ring)] = Appended
      BY <1>1, <1>2, <2>1
    <2> QED BY <1>1, <2>1, <2>2 DEF Chunks
  <1>5. ASSUME NEW k \in Chunks(ring) PROVE k <= Appended /\ k .. Appended \subseteq Chunks(ring)
    <2>1. PICK i \in DOMAIN ring : ring[i] = k
      BY <1>5 DEF Chunks
    <2>2. k = Appended - Len(ring) + i /\ i \in 1 .. Len(ring) /\ k \in 1 .. MaxChunks
      BY <1>1, <1>2, <2>1
    <2>3. ASSUME NEW m \in k .. Appended PROVE m \in Chunks(ring)
      <3>1. m - Appended + Len(ring) \in DOMAIN ring
        BY <1>1, <2>2, <2>3
      <3>2. ring[m - Appended + Len(ring)] = m
        BY <1>1, <1>2, <3>1
      <3> QED BY <1>1, <3>1, <3>2 DEF Chunks
    <2> QED BY <1>1, <2>2, <2>3
  <1> QED BY <1>2, <1>3, <1>4, <1>5

\* subscribe takes the ring: the newest chunks, and nothing else is coming yet.
LEMMA SubscribeStreams ==
  ASSUME StreamInv, NEW d \in Conns, Subscribe(d)
  PROVE RingOK' /\ ThreadsOK' /\ FreshOK' /\ Streams'
  <1>1. /\ UNCHANGED <<full, taken, ring, reader, stopper, calls, queue, shown>>
        /\ conn[d] = "accepting" /\ conn' = [conn EXCEPT ![d] = "check"]
        /\ snap' = [snap EXCEPT ![d] = ring] /\ subs' = subs \cup {d}
    BY DEF Subscribe, agent
  <1>2. /\ \A c \in Conns \ {d} : UNCHANGED <<queue[c], conn[c], snap[c], shown[c]>>
        /\ conn'[d] = "check" /\ snap'[d] = ring
    BY <1>1 DEF StreamInv, TypeOK
  <1>3. d \notin reader.left /\ Chunks(queue[d]) = {} /\ Due(calls, d) = {}
    BY <1>1 DEF StreamInv, FreshOK
  <1>4. Rising(queue[d]) /\ RisingTo(calls, d)
    <2>1. queue[d] \in Seq(Items) /\ calls \in Seq(Conns \X Items)
      BY DEF StreamInv, TypeOK
    <2>2. \A i \in DOMAIN queue[d] : ~(queue[d][i] > 0)
      BY <1>3, <2>1, Numbers DEF Chunks
    <2>3. ASSUME NEW i \in DOMAIN calls, calls[i][1] = d, calls[i][2] > 0 PROVE FALSE
      <3>1. calls[i] \in Conns \X Items
        BY <2>1
      <3>2. calls[i] = <<d, calls[i][2]>> /\ calls[i][2] \in 1 .. MaxChunks
        BY <2>3, <3>1, Numbers
      <3> QED BY <1>3, <3>2 DEF Due
    <2> QED BY <2>2, <2>3 DEF Rising, RisingTo
  <1>5. Owed(d)' = Appended
    <2>1. Owed(d)' = Owed(d)
      BY <1>1, OwedSame
    <2> QED BY <1>3, <2>1, OwedIs DEF StreamInv
  <1> DEFINE s == IF full THEN << >> ELSE ring
  <1>6. Seen(d)' = s
    BY <1>1, <1>2 DEF Seen
  <1>7. /\ Rising(s) /\ (~full /\ Chunks(s) = {} => Appended = 0)
        /\ \A k \in Chunks(s) : k <= Appended /\ k .. Appended \subseteq Chunks(s)
    <2>1. CASE full
      BY <2>1 DEF Rising, Chunks
    <2>2. CASE ~full
      BY <2>2, RingFacts
    <2> QED BY <2>1, <2>2
  <1> HIDE DEF s
  <1>8. Stream(d, Seen(d))' = Chunks(s)
    BY <1>1, <1>3, <1>6 DEF Stream
  <1>9. Gapless(d, Seen(d))'
    <2>1. /\ Chunks(queue'[d]) = {} /\ Due(calls', d) = {}
          /\ Rising(queue'[d]) /\ RisingTo(calls', d)
      BY <1>1, <1>3, <1>4
    <2> QED BY <1>5, <1>6, <1>7, <1>8, <2>1 DEF Gapless, Before
  <1>10. Strand(d)'
    BY <1>1, <1>2, <1>5, <1>7, <1>8, <1>9 DEF Strand
  <1> QED BY <1>1, <1>2, <1>10, StrandsApart

\* The replay shows the snapshot, or the frame of all that was read, whatever
\* was appended or posted since.
LEMMA ReplayStreams ==
  ASSUME StreamInv, NEW d \in Conns, Replay(d)
  PROVE RingOK' /\ ThreadsOK' /\ FreshOK' /\ Streams'
  <1>1. /\ UNCHANGED <<full, taken, ring, reader, stopper, subs, calls, queue>>
        /\ conn[d] = "replay" /\ conn' = [conn EXCEPT ![d] = "pump"]
        /\ shown' = [shown EXCEPT ![d] = IF full THEN <<taken>> ELSE snap[d]]
        /\ snap' = [snap EXCEPT ![d] = << >>]
    BY DEF Replay, agent
  <1>2. /\ \A c \in Conns \ {d} : UNCHANGED <<queue[c], conn[c], snap[c], shown[c]>>
        /\ conn'[d] = "pump" /\ shown'[d] = IF full THEN <<taken>> ELSE snap[d]
    BY <1>1 DEF StreamInv, TypeOK
  <1>3. ASSUME d \in subs PROVE Strand(d)'
    <2>1. Owed(d)' = Owed(d) /\ Strand(d)
      BY <1>1, <1>3, OwedSame, StrandFacts
    <2>2. CASE ~full
      <3>1. Seen(d)' = Seen(d)
        BY <1>1, <1>2, <2>2 DEF Seen
      <3> QED BY <1>1, <1>2, <1>3, <2>1, <2>2, <3>1, StrandFacts, StrandSame
    <2>3. CASE full
      <3>1. shown'[d] = <<taken>> /\ shown'[d] # << >> /\ shown'[d][1] = taken
            /\ Tail(shown'[d]) = << >>
        BY <1>2, <2>3
      <3>2. Seen(d)' = << >> /\ Seen(d) = << >>
        BY <1>1, <1>2, <2>3, <3>1 DEF Seen
      <3>3. taken \in Int /\ Owed(d) <= taken /\ Owed(d) \in Int
        BY OwedIs, ThreadFacts DEF StreamInv, Appended
      <3>4. (taken + 1) .. Owed(d) = {}
        BY <3>3
      <3>5. Stream(d, Seen(d))' = Stream(d, Seen(d))
        BY <1>1, <3>2 DEF Stream
      <3>6. Gapless(d, Seen(d))'
        BY <1>1, <2>1, <3>2, <3>5 DEF Gapless, Strand
      <3> QED BY <1>1, <2>1, <2>3, <3>1, <3>4, <3>6 DEF Strand
    <2> QED BY <2>2, <2>3
  <1> QED BY <1>1, <1>2, <1>3, StrandsApart

\* What the pump sends goes from the queue to the end of what was seen.
LEMMA StrandPump ==
  ASSUME StreamInv, NEW c \in subs, conn[c] = "pump", queue[c] # << >>,
         UNCHANGED <<full, ring, reader, calls>>, conn'[c] = conn[c],
         queue'[c] = Tail(queue[c]), shown'[c] = Append(shown[c], Head(queue[c]))
  PROVE Strand(c)'
  <1> DEFINE x == Head(queue[c])  t == Tail(queue[c])  s == Seen(c)
             S == Chunks(s)  Q == Chunks(t)  D == Due(calls, c)  o == Owed(c)  a == Append(s, x)
  <1>1. /\ c \in Conns /\ Strand(c) /\ queue[c] \in Seq(Items)
        /\ Rising(queue[c]) /\ RisingTo(calls, c) /\ shown[c] \in Seq(Items)
        /\ full => shown[c] # << >>
    BY StrandFacts DEF Strand
  <1>2. /\ x \in Items /\ Rising(t)
        /\ x \notin 1 .. MaxChunks => Chunks(queue[c]) = Q
        /\ x \in 1 .. MaxChunks => Chunks(queue[c]) = Q \cup {x} /\ \A k \in Q : x < k
    BY <1>1, ChunksTail
  <1>3. s \in Seq(Items) /\ Rising(s) /\ Linked(S, Chunks(queue[c]), D, o)
    <2>1. s \in Seq(Items)
      BY <1>1 DEF Seen
    <2> QED BY <1>1, <2>1, GaplessLinks DEF Strand
  <1>4. Seen(c)' = a
    <2>1. CASE full
      BY <1>1, <1>2, <2>1 DEF Seen
    <2>2. CASE ~full
      BY <2>2 DEF Seen
    <2> QED BY <2>1, <2>2
  <1>5. full => shown'[c] # << >> /\ shown'[c][1] = shown[c][1]
    <2>1. shown'[c] = Append(shown[c], x)
      OBVIOUS
    <2>2. shown[c] # << >> => 1 \in DOMAIN shown[c]
      BY <1>1
    <2> HIDE DEF x
    <2>3. /\ Len(shown[c]) + 1 \in DOMAIN Append(shown[c], x)
          /\ \A i \in DOMAIN shown[c] : Append(shown[c], x)[i] = shown[c][i]
      BY <1>1, <1>2, AppendKeeps
    <2>4. Append(shown[c], x) # << >>
      BY <2>3
    <2> QED BY <1>1, <2>1, <2>2, <2>3, <2>4
  <1>6. Owed(c)' = o
    BY OwedSame
  <1> HIDE DEF x, s, t
  <1>7. ASSUME x \in 1 .. MaxChunks
        PROVE  Chunks(a) = S \cup {x} /\ Rising(a) /\ Linked(S \cup {x}, Q, D, o)
    <2>1. Linked(S, Q \cup {x}, D, o) /\ \A k \in Q : x < k
      BY <1>2, <1>3, <1>7
    <2>2. Linked(S \cup {x}, Q, D, o) /\ \A k \in S : k < x
      BY ONLY <2>1, LinkedPump
    <2> QED BY <1>2, <1>3, <1>7, <2>2, ChunksAppend
  <1>8. ASSUME x \notin 1 .. MaxChunks
        PROVE  Chunks(a) = S /\ Rising(a) /\ Linked(S, Q, D, o)
    BY <1>2, <1>3, <1>8, ChunksAppend
  <1>9. queue'[c] = t
    BY DEF t
  <1> HIDE DEF a
  <1>10. Linked(Chunks(a), Q, D, o) /\ Rising(a) /\ Chunks(a) \cup Q = S \cup Chunks(queue[c])
    BY <1>2, <1>7, <1>8
  <1>11. Gapless(c, Seen(c))'
    <2>1. Linked(Chunks(Seen(c)'), Chunks(queue'[c]), Due(calls', c), Owed(c)')
      BY <1>4, <1>6, <1>9, <1>10
    <2> QED BY <1>1, <1>2, <1>4, <1>9, <1>10, <2>1 DEF Gapless, Linked, Stream
  <1>12. Stream(c, Seen(c))' = Stream(c, Seen(c))
    BY <1>4, <1>9, <1>10 DEF Stream, s
  <1> QED BY <1>1, <1>5, <1>6, <1>11, <1>12, StrandMoved

LEMMA PumpStreams ==
  ASSUME StreamInv, NEW d \in Conns, Pump(d)
  PROVE RingOK' /\ ThreadsOK' /\ FreshOK' /\ Streams'
  <1>1. /\ UNCHANGED <<full, taken, ring, reader, stopper, calls, snap>>
        /\ conn[d] = "pump" /\ queue[d] # << >>
    BY DEF Pump, agent
  <1>2. CASE Head(queue[d]) = Eof
    <2>1. /\ queue' = [queue EXCEPT ![d] = << >>] /\ conn' = [conn EXCEPT ![d] = "ended"]
          /\ subs' = subs \ {d} /\ UNCHANGED shown
      BY <1>2 DEF Pump
    <2>2. /\ \A c \in Conns \ {d} : UNCHANGED <<queue[c], conn[c], snap[c], shown[c]>>
          /\ conn'[d] = "ended"
      BY <1>1, <2>1 DEF StreamInv, TypeOK
    <2> QED BY <1>1, <2>1, <2>2, StrandsApart
  <1>3. CASE Head(queue[d]) # Eof
    <2>1. /\ queue' = [queue EXCEPT ![d] = Tail(queue[d])] /\ UNCHANGED <<conn, subs>>
          /\ shown' = [shown EXCEPT ![d] = Append(shown[d], Head(queue[d]))]
      BY <1>3 DEF Pump, StreamInv, TypeOK
    <2>2. /\ \A c \in Conns \ {d} : UNCHANGED <<queue[c], conn[c], snap[c], shown[c]>>
          /\ conn'[d] = "pump" /\ queue'[d] = Tail(queue[d])
          /\ shown'[d] = Append(shown[d], Head(queue[d]))
      BY <1>1, <2>1 DEF StreamInv, TypeOK
    <2>3. d \in subs => Strand(d)'
      BY <1>1, <2>1, <2>2, StrandPump
    <2> QED BY <1>1, <2>1, <2>2, <2>3, StrandsApart
  <1> QED BY <1>2, <1>3

LEMMA StreamInit == Init => StreamInv
  <1> SUFFICES ASSUME Init PROVE StreamInv
    OBVIOUS
  <1>1. EofInv /\ TypeOK
    BY EofInit, TypesInit DEF EofInv, Typed, Boxes, TypeOK
  <1>2. RingOK /\ ThreadsOK /\ Streams
    BY DEF Init, RingOK, ThreadsOK, Streams, Appended, Shutdown
  <1>3. FreshOK
    BY DEF Init, FreshOK, Chunks, Due
  <1> QED BY <1>1, <1>2, <1>3 DEF StreamInv

LEMMA StreamStep == StreamInv /\ [Next]_vars => StreamInv'
  <1> SUFFICES ASSUME StreamInv, [Next]_vars PROVE StreamInv'
    OBVIOUS
  <1>1. EofInv' /\ TypeOK'
    <2>1. EofInv' /\ Boxes'
      BY EofStep, BoxesStep DEF StreamInv, EofInv
    <2> QED BY <2>1 DEF EofInv, Typed, Boxes, TypeOK
  <1> SUFFICES RingOK' /\ ThreadsOK' /\ FreshOK' /\ Streams'
    BY <1>1 DEF StreamInv
  <1>2. CASE \/ AgentExits \/ Reap \/ StopKill \/ StopQuit \/ StopGrace \/ StopList
             \/ ReaderTake \/ ReaderEof \/ ReaderFails \/ ReaderList \/ UNCHANGED vars
    BY <1>2, QuietStreams
  <1>3. CASE ReaderAppend
    BY <1>3, AppendStreams
  <1>4. CASE LoopCall
    BY <1>4, LoopCallStreams
  <1>5. CASE \E c \in Conns : ReaderPost(c)
    BY <1>5, ReaderPostStreams
  <1>6. CASE \E c \in Conns : StopPost(c)
    BY <1>6, StopPostStreams
  <1>7. CASE \E c \in Conns : Open(c)
    BY <1>7, OpenStreams
  <1>8. CASE \E c \in Conns : Subscribe(c)
    BY <1>8, SubscribeStreams
  <1>9. CASE \E c \in Conns : SubscribeCheck(c)
    BY <1>9, SubscribeCheckStreams
  <1>10. CASE \E c \in Conns : Replay(c)
    BY <1>10, ReplayStreams
  <1>11. CASE \E c \in Conns : Pump(c)
    BY <1>11, PumpStreams
  <1>12. CASE \E c \in Conns : Drop(c)
    BY <1>12, DropStreams
  <1> QED BY <1>2, <1>3, <1>4, <1>5, <1>6, <1>7, <1>8, <1>9, <1>10, <1>11, <1>12
          DEF Next, ReaderStep, StopStep, ConnStep

\* A connection to an ordinary agent is sent the scrollback it subscribed to
\* and every chunk after it, once, in order and without a gap: subscribe takes
\* the ring and registers under the lock the reader appends and lists under.
THEOREM StreamsExact == Spec => []StreamExact
  <1>1. StreamInv => StreamExact
    BY DEF StreamInv, Streams, Strand, Seen, StreamExact
  <1> QED BY <1>1, StreamInit, StreamStep, PTL DEF Spec

\* A connection to a full-screen agent misses no chunk newer than its frame:
\* the reader feeds the screen before it appends and posts.
THEOREM FramesCover == Spec => []FrameCovers
  <1>1. StreamInv => FrameCovers
    BY DEF StreamInv, Streams, Strand, Seen, FrameCovers
  <1> QED BY <1>1, StreamInit, StreamStep, PTL DEF Spec

=============================================================================
