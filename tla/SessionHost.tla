----------------------------- MODULE SessionHost -----------------------------
(***************************************************************************)
(* One PTY session of the session host and the WebSocket connections that  *)
(* stream it.  Two threads and one event loop share the session:           *)
(*   - the reader thread pumps the PTY into the scrollback ring, the       *)
(*     headless screen and, through call_soon_threadsafe, the queues of    *)
(*     the subscribed connections;                                         *)
(*   - the event loop runs the connections' coroutines and the scheduled   *)
(*     callbacks, one at a time;                                           *)
(*   - a stop request runs in a worker thread.                             *)
(* Output is numbered by chunk; a chunk's text is left out.                *)
(***************************************************************************)
EXTENDS Integers, Sequences

CONSTANTS
  Conns,      \* connections ever opened, each used once
  MaxChunks,  \* bound: chunks the agent prints
  RingMax     \* _RING_MAX_CHARS, in chunks

ASSUME SizeAssumption == MaxChunks \in Nat /\ RingMax \in Nat \ {0}

\* The two queue items that are not output: _EOF and the shutdown message.
Eof == 0
Shutdown == -1
Items == -1 .. MaxChunks

VARIABLES
  full,     \* the agent is full-screen: connections get a rendered frame
  known,    \* the manager still lists the session
  pty,      \* the agent's process is alive
  taken,    \* chunks the reader has read and fed to the headless screen
  ring,     \* scrollback: chunk numbers, newest last
  exited,   \* _exited
  reader,   \* the reader thread: pc, the item it posts, who is still to get it
  stopper,  \* the worker thread of a stop request, likewise
  subs,     \* _subscribers
  calls,    \* callbacks scheduled on the event loop: <<connection, item>>
  queue,    \* connection -> its asyncio.Queue
  conn,     \* connection -> where its coroutine is
  snap,     \* connection -> the snapshot subscribe returned
  shown     \* connection -> what its browser was sent

agent == <<full, known, pty>>
client == <<subs, queue, conn, snap, shown>>
vars == <<full, known, pty, taken, ring, exited, reader, stopper,
          subs, calls, queue, conn, snap, shown>>

ConnPcs == {"new", "accepting", "check", "replay", "pump",
            "refused", "ended", "dropped"}
Attached == {"accepting", "check", "replay", "pump"}
Over == {"refused", "ended", "dropped"}

Thread(pcs) == [pc : pcs, item : Items, left : SUBSET Conns]

TypeOK ==
  /\ full \in BOOLEAN /\ known \in BOOLEAN /\ pty \in BOOLEAN /\ exited \in BOOLEAN
  /\ taken \in 0 .. MaxChunks
  /\ ring \in Seq(1 .. MaxChunks) /\ Len(ring) <= RingMax
  /\ reader \in Thread({"read", "append", "post", "list", "done"})
  /\ stopper \in Thread({"idle", "grace", "list", "post", "done"})
  /\ subs \subseteq Conns
  /\ calls \in Seq(Conns \X Items)
  /\ queue \in [Conns -> Seq(Items)]
  /\ conn \in [Conns -> ConnPcs]
  /\ snap \in [Conns -> Seq(1 .. MaxChunks)]
  /\ shown \in [Conns -> Seq(Items)]

Init ==
  /\ full \in BOOLEAN /\ known = TRUE /\ pty = TRUE
  /\ taken = 0 /\ ring = << >> /\ exited = FALSE
  /\ reader = [pc |-> "read", item |-> Eof, left |-> {}]
  /\ stopper = [pc |-> "idle", item |-> Shutdown, left |-> {}]
  /\ subs = {} /\ calls = << >>
  /\ queue = [c \in Conns |-> << >>]
  /\ conn = [c \in Conns |-> "new"]
  /\ snap = [c \in Conns |-> << >>]
  /\ shown = [c \in Conns |-> << >>]

\* alive, as the manager and a stop see it.
Alive == ~exited /\ pty

-----------------------------------------------------------------------------
(* The agent's process. *)

AgentExits ==
  /\ pty
  /\ pty' = FALSE
  /\ UNCHANGED <<full, known, taken, ring, exited, reader, stopper, calls, client>>

-----------------------------------------------------------------------------
(* The reader thread: PtySession._read_loop. *)

\* A thread with item i left to post to the connections in left; then the
\* reader reads on, until EOF is out, and a stop is done.
Posting(i, left) ==
  [pc |-> IF left # {} THEN "post" ELSE IF i > 0 THEN "read" ELSE "done",
   item |-> i, left |-> left]

\* Read a chunk, strip and scan it, feed the headless screen.  A PTY whose
\* agent is dead may still hold output.
ReaderTake ==
  /\ reader.pc = "read" /\ taken < MaxChunks
  /\ taken' = taken + 1
  /\ reader' = [reader EXCEPT !.pc = "append"]
  /\ UNCHANGED <<agent, ring, exited, stopper, calls, client>>

\* Mutant of ReaderAppend: the ring is not trimmed.
ReaderAppendOnly ==
  /\ reader.pc = "append"
  /\ ring' = Append(ring, taken)
  /\ reader' = Posting(taken, subs)
  /\ UNCHANGED <<agent, taken, exited, stopper, calls, client>>

\* Under the ring lock: append, trim, and list who is to get the chunk.
ReaderAppend ==
  /\ reader.pc = "append"
  /\ LET grown == Append(ring, taken)
     IN ring' = IF Len(grown) > RingMax THEN Tail(grown) ELSE grown
  /\ reader' = Posting(taken, subs)
  /\ UNCHANGED <<agent, taken, exited, stopper, calls, client>>

\* Mutant of Posted: the list is read again while posting, outside the lock.
PostedLate(thread, c) ==
  /\ c \in subs
  /\ calls' = Append(calls, <<c, thread.item>>)

\* One call_soon_threadsafe to a connection that was listed.
Posted(thread, c) ==
  /\ c \in thread.left
  /\ calls' = Append(calls, <<c, thread.item>>)

ReaderPost(c) ==
  /\ reader.pc = "post"
  /\ Posted(reader, c)
  /\ reader' = Posting(reader.item, reader.left \ {c})
  /\ UNCHANGED <<agent, taken, ring, exited, stopper, client>>

\* The PTY raises EOFError, or is dead and returns nothing.
ReaderEof ==
  /\ reader.pc = "read" /\ ~pty
  /\ exited' = TRUE
  /\ reader' = [reader EXCEPT !.pc = "list"]
  /\ UNCHANGED <<agent, taken, ring, stopper, calls, client>>

\* Any other failure of the read, whatever the agent does.
ReaderFails ==
  /\ reader.pc = "read"
  /\ exited' = TRUE
  /\ reader' = [reader EXCEPT !.pc = "list"]
  /\ UNCHANGED <<agent, taken, ring, stopper, calls, client>>

ReaderList ==
  /\ reader.pc = "list"
  /\ reader' = Posting(Eof, subs)
  /\ UNCHANGED <<agent, taken, ring, exited, stopper, calls, client>>

-----------------------------------------------------------------------------
(* The event loop.  A connection between subscribing and looking at _exited *)
(* does not await, so nothing else runs on the loop meanwhile.              *)

LoopFree == \A c \in Conns : conn[c] # "check"

\* A scheduled queue.put_nowait; the queue of a connection that is over is
\* garbage.
LoopCall ==
  /\ LoopFree /\ calls # << >>
  /\ queue' = [queue EXCEPT ![calls[1][1]] =
                  IF conn[calls[1][1]] \in Over THEN @ ELSE Append(@, calls[1][2])]
  /\ calls' = Tail(calls)
  /\ UNCHANGED <<agent, taken, ring, exited, reader, stopper, subs, conn, snap, shown>>

\* session_ws: an unknown session is refused, otherwise accept is awaited.
Open(c) ==
  /\ LoopFree /\ conn[c] = "new"
  /\ conn' = [conn EXCEPT ![c] = IF known THEN "accepting" ELSE "refused"]
  /\ UNCHANGED <<agent, taken, ring, exited, reader, stopper, subs, calls, queue, snap, shown>>

\* subscribe, under the ring lock.
Subscribe(c) ==
  /\ LoopFree /\ conn[c] = "accepting"
  /\ snap' = [snap EXCEPT ![c] = ring]
  /\ subs' = subs \cup {c}
  /\ conn' = [conn EXCEPT ![c] = "check"]
  /\ UNCHANGED <<agent, taken, ring, exited, reader, stopper, calls, queue, shown>>

\* Mutant of SubscribeCheck: _exited is not looked at.
SubscribeBlind(c) ==
  /\ conn[c] = "check"
  /\ conn' = [conn EXCEPT ![c] = "replay"]
  /\ UNCHANGED <<agent, taken, ring, exited, reader, stopper, subs, calls, queue, snap, shown>>

\* The rest of subscribe, after the lock: a session that has ended puts EOF.
SubscribeCheck(c) ==
  /\ conn[c] = "check"
  /\ queue' = [queue EXCEPT ![c] = IF exited THEN Append(@, Eof) ELSE @]
  /\ conn' = [conn EXCEPT ![c] = "replay"]
  /\ UNCHANGED <<agent, taken, ring, exited, reader, stopper, subs, calls, snap, shown>>

\* Mutant of Replay: the screen is fed after a chunk has been posted.
ReplayUnfed(c) ==
  /\ LoopFree /\ conn[c] = "replay"
  /\ shown' = [shown EXCEPT ![c] =
       IF ~full THEN snap[c]
       ELSE IF reader.pc \in {"append", "post"} /\ taken > 0 THEN <<taken - 1>> ELSE <<taken>>]
  /\ snap' = [snap EXCEPT ![c] = << >>]
  /\ conn' = [conn EXCEPT ![c] = "pump"]
  /\ UNCHANGED <<agent, taken, ring, exited, reader, stopper, subs, calls, queue>>

\* The ring snapshot, or the frame the headless screen shows by now.
Replay(c) ==
  /\ LoopFree /\ conn[c] = "replay"
  /\ shown' = [shown EXCEPT ![c] = IF full THEN <<taken>> ELSE snap[c]]
  /\ snap' = [snap EXCEPT ![c] = << >>]
  /\ conn' = [conn EXCEPT ![c] = "pump"]
  /\ UNCHANGED <<agent, taken, ring, exited, reader, stopper, subs, calls, queue>>

\* _pump_to_client: one queue item; EOF closes the connection.
Pump(c) ==
  /\ LoopFree /\ conn[c] = "pump" /\ queue[c] # << >>
  /\ queue' = [queue EXCEPT ![c] = IF Head(@) = Eof THEN << >> ELSE Tail(@)]
  /\ IF Head(queue[c]) = Eof
     THEN /\ conn' = [conn EXCEPT ![c] = "ended"]
          /\ subs' = subs \ {c}
          /\ UNCHANGED shown
     ELSE /\ shown' = [shown EXCEPT ![c] = Append(@, Head(queue[c]))]
          /\ UNCHANGED <<conn, subs>>
  /\ UNCHANGED <<agent, taken, ring, exited, reader, stopper, calls, snap>>

\* The browser goes away: the handler ends and unsubscribes, and its queue
\* and screen are nobody's.
Drop(c) ==
  /\ LoopFree /\ conn[c] \in {"replay", "pump"}
  /\ conn' = [conn EXCEPT ![c] = "dropped"]
  /\ subs' = subs \ {c}
  /\ queue' = [queue EXCEPT ![c] = << >>]
  /\ snap' = [snap EXCEPT ![c] = << >>]
  /\ shown' = [shown EXCEPT ![c] = << >>]
  /\ UNCHANGED <<agent, taken, ring, exited, reader, stopper, calls>>

\* reap_dead, every 30 s.
Reap ==
  /\ LoopFree /\ known /\ ~Alive
  /\ known' = FALSE
  /\ UNCHANGED <<full, pty, taken, ring, exited, reader, stopper, calls, client>>

-----------------------------------------------------------------------------
(* A stop request: PtySession.stop.  An interrupt changes nothing here.     *)

StopKill ==
  /\ stopper.pc = "idle" /\ known
  /\ pty' = FALSE
  /\ stopper' = [stopper EXCEPT !.pc = "list"]
  /\ UNCHANGED <<full, known, taken, ring, exited, reader, calls, client>>

\* The agent's own quit command is typed; it may exit within the grace time.
StopQuit ==
  /\ stopper.pc = "idle" /\ known
  /\ stopper' = [stopper EXCEPT !.pc = "grace"]
  /\ UNCHANGED <<agent, taken, ring, exited, reader, calls, client>>

\* Mutant of StopGrace: no force-terminate when the grace time is over.
StopGraceGentle ==
  /\ stopper.pc = "grace"
  /\ stopper' = [stopper EXCEPT !.pc = "list"]
  /\ UNCHANGED <<agent, taken, ring, exited, reader, calls, client>>

\* The session ended by itself, or the deadline passed and the PTY is
\* terminated.
StopGrace ==
  /\ stopper.pc = "grace"
  /\ pty' = IF Alive THEN FALSE ELSE pty
  /\ stopper' = [stopper EXCEPT !.pc = "list"]
  /\ UNCHANGED <<full, known, taken, ring, exited, reader, calls, client>>

\* _signal_shutdown_to_subscribers
StopList ==
  /\ stopper.pc = "list"
  /\ stopper' = Posting(Shutdown, subs)
  /\ UNCHANGED <<agent, taken, ring, exited, reader, calls, client>>

StopPost(c) ==
  /\ stopper.pc = "post"
  /\ Posted(stopper, c)
  /\ stopper' = Posting(Shutdown, stopper.left \ {c})
  /\ UNCHANGED <<agent, taken, ring, exited, reader, client>>

-----------------------------------------------------------------------------
ReaderStep == \/ ReaderAppend \/ ReaderEof \/ ReaderList
              \/ \E c \in Conns : ReaderPost(c)
ConnStep(c) == Subscribe(c) \/ SubscribeCheck(c) \/ Replay(c) \/ Pump(c)
StopStep == StopGrace \/ StopList \/ \E c \in Conns : StopPost(c)

Next ==
  \/ AgentExits
  \/ ReaderTake \/ ReaderFails \/ ReaderStep
  \/ LoopCall \/ Reap
  \/ \E c \in Conns : Open(c) \/ ConnStep(c) \/ Drop(c)
  \/ StopKill \/ StopQuit \/ StopStep

Spec == Init /\ [][Next]_vars

\* Threads run (but no output is owed, and no failure) and the event loop
\* serves every ready callback and coroutine.
Fairness == /\ WF_vars(ReaderStep) /\ WF_vars(LoopCall) /\ WF_vars(StopStep)
            /\ \A c \in Conns : WF_vars(ConnStep(c))

FairSpec == Spec /\ Fairness

-----------------------------------------------------------------------------
(* Properties. *)

\* The chunks in a sequence of items, the chunks scheduled for connection c,
\* and their order: each chunk once, after the older ones.
Chunks(s) == {k \in 1 .. MaxChunks : \E i \in DOMAIN s : s[i] = k}
Due(s, c) == {k \in 1 .. MaxChunks : \E i \in DOMAIN s : s[i] = <<c, k>>}
Rising(s) ==
  \A i, j \in DOMAIN s : (i < j /\ s[i] > 0 /\ s[j] > 0) => s[i] < s[j]
RisingTo(s, c) ==
  \A i, j \in DOMAIN s : (i < j /\ s[i][1] = c /\ s[j][1] = c /\ s[i][2] > 0 /\ s[j][2] > 0)
                           => s[i][2] < s[j][2]
Before(A, B) == \A a \in A, b \in B : a < b

\* The newest chunk c must know of: the one in the ring, or the one before it
\* while c is still to be posted the newest.
Newest(s) == s[Len(s)]
Owed(c) == LET newest == IF ring = << >> THEN 0 ELSE Newest(ring)
           IN IF c \in reader.left /\ reader.item > 0 THEN newest - 1 ELSE newest

\* The chunks connection c has seen, has queued or is about to get, and that
\* they come in order, without a gap, up to the newest.
Stream(c, seen) == Chunks(seen) \cup Chunks(queue[c]) \cup Due(calls, c)
Gapless(c, seen) ==
  /\ Rising(seen) /\ Rising(queue[c]) /\ RisingTo(calls, c)
  /\ Before(Chunks(seen), Chunks(queue[c]) \cup Due(calls, c))
  /\ Before(Chunks(queue[c]), Due(calls, c))
  /\ \A k \in Stream(c, seen) : k <= Owed(c) /\ k .. Owed(c) \subseteq Stream(c, seen)

\* A connection to an ordinary agent gets the scrollback it subscribed to and
\* every chunk after it, once and in order (subscribe: "no output chunk is lost
\* or double-delivered across the handover").
StreamExact ==
  \A c \in subs : ~full =>
    LET seen == IF conn[c] = "pump" THEN shown[c] ELSE snap[c]
    IN Gapless(c, seen) /\ (Stream(c, seen) = {} => Owed(c) = 0)

\* A connection to a full-screen agent gets a frame, and every chunk that is
\* newer than the frame after it, though what follows may begin with chunks the
\* frame shows.
FrameCovers ==
  \A c \in subs : (full /\ conn[c] = "pump") =>
    LET after == Tail(shown[c])
    IN Gapless(c, after) /\ (shown[c][1] + 1) .. Owed(c) \subseteq Stream(c, after)

\* No connection is forgotten when the session ends: once the reader posts EOF,
\* whoever has subscribed is still to be posted it, or has it coming.
EofOnItsWay ==
  \A c \in subs :
    (reader.pc \in {"post", "done"} /\ reader.item = Eof /\ conn[c] # "check")
      => \/ c \in reader.left
         \/ \E i \in DOMAIN calls : calls[i] = <<c, Eof>>
         \/ \E i \in DOMAIN queue[c] : queue[c][i] = Eof

\* When the agent has ended, every open connection is closed, whenever it
\* subscribed: the reader lists the subscribers after setting _exited, and
\* subscribe looks at _exited after registering.
EveryConnectionEnds ==
  \A c \in Conns : (~Alive /\ conn[c] \in Attached) ~> (conn[c] \in Over)

\* A terminating stop ends the session (issue #253).
StopEndsSession == (stopper.pc = "grace") ~> ~Alive

\* session_host.py:317 "no output chunk is lost or double-delivered across the
\* handover": a connection closed by EOF has been shown all output there was.
EndsComplete ==
  \A c \in Conns : (conn[c] = "ended" /\ ~full) =>
    taken = 0 \/ taken \in Chunks(shown[c])

\* Connections are interchangeable.
Swaps == {f \in [Conns -> Conns] : \A c, d \in Conns : f[c] = f[d] => c = d}
ConnSymmetry == {[c \in Conns |-> f[c]] : f \in Swaps}
=============================================================================
