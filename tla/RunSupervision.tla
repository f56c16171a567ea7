--------------------------- MODULE RunSupervision ---------------------------
(***************************************************************************)
(* One live job run under its executor (src/run_supervision.py and         *)
(* _spawn_and_wait): what happens between JobRuns' ExecWritePid and        *)
(* ExecFinish.  Four actors share it:                                      *)
(*   - the job's own process, and a helper it may start that inherits its  *)
(*     output and may outlive it;                                          *)
(*   - the main thread, which copies a visible job's pipe to output.log    *)
(*     and offers each chunk to the console;                               *)
(*   - the console writer thread, stuck for as long as the console is;     *)
(*   - the watchdog thread.                                                *)
(* Output is numbered by chunk, and time is counted in watchdog polls.     *)
(***************************************************************************)
EXTENDS Integers, Sequences

CONSTANTS
  MaxChunks,   \* bound: chunks the job prints
  PipeMax,     \* chunks the pipe holds
  QueueMax,    \* CONSOLE_QUEUE_MAX_CHUNKS
  RunMax,      \* max_runtime_seconds, in polls; 0 is off
  QuietMax     \* no_output_seconds, in polls; 0 is off

ASSUME BoundAssumption ==
  /\ MaxChunks \in Nat /\ RunMax \in Nat /\ QuietMax \in Nat
  /\ PipeMax \in Nat \ {0} /\ QueueMax \in Nat \ {0}

Sentinel == 0

VARIABLES
  visible,   \* the job's output goes through a pipe
  root,      \* the child: "alive", or how it ended
  helper,    \* a process the child started, holding the same output
  printed,   \* chunks printed
  logged,    \* chunks in output.log
  main,      \* the main thread: pc, whether a log write failed, the status
  console,   \* none, ok, wedged or broken
  chunks,    \* the console queue
  writer,    \* the console writer: pc, chunk in hand, its broken flag
  shown,     \* chunks on the console
  dropped,   \* chunks the full queue turned away
  dog,       \* the watchdog: pc, polls, polls since growth, last size, reason
  stopped,   \* the watchdog's stop event
  killed,    \* the watchdog ended the child
  record     \* what run.json says at the end

job == <<visible, root, helper, printed>>
display == <<console, chunks, writer, shown, dropped>>
vars == <<job, logged, main, display, dog, stopped, killed, record>>

Watching == RunMax > 0 \/ QuietMax > 0

TypeOK ==
  /\ visible \in BOOLEAN /\ stopped \in BOOLEAN /\ killed \in BOOLEAN
  /\ root \in {"alive", "ok", "bad"} /\ helper \in {"none", "alive", "gone"}
  /\ printed \in 0 .. MaxChunks /\ logged \in 0 .. printed
  /\ main \in [pc : {"tee", "offer", "close", "join", "wait", "stop", "judge", "record", "done"},
               failed : BOOLEAN, status : {"none", "success", "failed"}]
  /\ console \in {"none", "ok", "wedged", "broken"}
  /\ chunks \in Seq(Sentinel .. MaxChunks) /\ Len(chunks) <= QueueMax
  /\ writer \in [pc : {"none", "get", "write", "end"}, chunk : 0 .. MaxChunks, broken : BOOLEAN]
  /\ shown \in Seq(1 .. MaxChunks) /\ dropped \subseteq 1 .. MaxChunks
  /\ dog \in [pc : {"off", "poll", "fire", "mark", "kill", "grace", "done"},
              age : 0 .. RunMax + 1, quiet : 0 .. QuietMax + 1, size : 0 .. MaxChunks,
              reason : {"none", "no_output", "max_runtime"}]
  /\ record \in [status : {"none", "success", "failed"}, watchdog : BOOLEAN]

Init ==
  /\ visible \in BOOLEAN /\ root = "alive" /\ helper = "none"
  /\ printed = 0 /\ logged = 0
  /\ main = [pc |-> IF visible THEN "tee" ELSE "wait", failed |-> FALSE, status |-> "none"]
  /\ console \in (IF visible THEN {"none", "ok"} ELSE {"none"})
  /\ chunks = << >> /\ shown = << >> /\ dropped = {}
  /\ writer = [pc |-> IF console = "none" THEN "none" ELSE "get", chunk |-> 0, broken |-> FALSE]
  /\ dog = [pc |-> IF Watching THEN "poll" ELSE "off", age |-> 0, quiet |-> 0, size |-> 0,
            reason |-> "none"]
  /\ stopped = FALSE /\ killed = FALSE
  /\ record = [status |-> "none", watchdog |-> FALSE]

\* Somebody still holds the writing end of the pipe.
Held == root = "alive" \/ helper = "alive"

-----------------------------------------------------------------------------
(* The job. *)

\* A full pipe blocks; an invisible job writes to output.log itself.
JobPrints ==
  /\ Held /\ printed < MaxChunks
  /\ visible => printed - logged < PipeMax
  /\ printed' = printed + 1
  /\ logged' = IF visible THEN logged ELSE logged + 1
  /\ UNCHANGED <<visible, root, helper, main, display, dog, stopped, killed, record>>

StartHelper ==
  /\ root = "alive" /\ helper = "none"
  /\ helper' = "alive"
  /\ UNCHANGED <<visible, root, printed, logged, main, display, dog, stopped, killed, record>>

HelperExits ==
  /\ helper = "alive"
  /\ helper' = "gone"
  /\ UNCHANGED <<visible, root, printed, logged, main, display, dog, stopped, killed, record>>

RootExits ==
  /\ root = "alive"
  /\ root' \in {"ok", "bad"}
  /\ UNCHANGED <<visible, helper, printed, logged, main, display, dog, stopped, killed, record>>

-----------------------------------------------------------------------------
(* The console: a click in it stops it draining, another lets it go on.     *)

ConsoleChanges ==
  /\ \/ console = "ok" /\ console' \in {"wedged", "broken"}
     \/ console = "wedged" /\ console' \in {"ok", "broken"}
  /\ UNCHANGED <<job, logged, main, chunks, writer, shown, dropped, dog, stopped, killed, record>>

-----------------------------------------------------------------------------
(* The main thread: tee_pipe_to_file_and_console, then _spawn_and_wait and  *)
(* the fields _finalize_run stamps.                                         *)

At(pc) == main.pc = pc
Go(pc) == main' = [main EXCEPT !.pc = pc]

Teed == IF console = "none" THEN "tee" ELSE "offer"
Closed == IF console = "none" THEN "wait" ELSE "close"

\* Read a chunk, write and flush it to output.log.
TeeChunk ==
  /\ At("tee") /\ printed > logged
  /\ logged' = logged + 1
  /\ Go(Teed)
  /\ UNCHANGED <<job, display, dog, stopped, killed, record>>

\* The write fails: the queue is closed all the same, and the OSError leaves
\* _spawn_and_wait without waiting for the child.
TeeFails ==
  /\ At("tee") /\ printed > logged
  /\ main' = [main EXCEPT !.pc = IF console = "none" THEN "stop" ELSE "close", !.failed = TRUE]
  /\ UNCHANGED <<job, logged, display, dog, stopped, killed, record>>

TeeEof ==
  /\ At("tee") /\ printed = logged /\ ~Held
  /\ Go(Closed)
  /\ UNCHANGED <<job, logged, display, dog, stopped, killed, record>>

\* Mutant of Offer: the queue has no limit.
OfferUnbounded ==
  /\ At("offer") /\ Go("tee")
  /\ chunks' = Append(chunks, logged)
  /\ UNCHANGED <<job, logged, console, writer, shown, dropped, dog, stopped, killed, record>>

\* Mutant of Offer: put instead of put_nowait.
OfferBlocks ==
  /\ At("offer") /\ Go("tee")
  /\ Len(chunks) < QueueMax
  /\ chunks' = Append(chunks, logged)
  /\ UNCHANGED <<job, logged, console, writer, shown, dropped, dog, stopped, killed, record>>

\* Offer the chunk to the console; a full queue drops it.
Offer ==
  /\ At("offer") /\ Go("tee")
  /\ \/ /\ Len(chunks) < QueueMax
        /\ chunks' = Append(chunks, logged) /\ UNCHANGED dropped
     \/ /\ Len(chunks) = QueueMax
        /\ dropped' = dropped \cup {logged} /\ UNCHANGED chunks
  /\ UNCHANGED <<job, logged, console, writer, shown, dog, stopped, killed, record>>

CloseConsole ==
  /\ At("close") /\ Go("join")
  /\ chunks' = IF Len(chunks) < QueueMax THEN Append(chunks, Sentinel) ELSE chunks
  /\ UNCHANGED <<job, logged, console, writer, shown, dropped, dog, stopped, killed, record>>

\* Mutant of JoinWriter: no timeout.
JoinWriterForever ==
  /\ At("join") /\ writer.pc = "end"
  /\ Go(IF main.failed THEN "stop" ELSE "wait")
  /\ UNCHANGED <<job, logged, display, dog, stopped, killed, record>>

\* The writer has ended, or CONSOLE_DRAIN_TIMEOUT_SECONDS are over.
JoinWriter ==
  /\ At("join")
  /\ Go(IF main.failed THEN "stop" ELSE "wait")
  /\ UNCHANGED <<job, logged, display, dog, stopped, killed, record>>

WaitChild ==
  /\ At("wait") /\ root # "alive"
  /\ Go("stop")
  /\ UNCHANGED <<job, logged, display, dog, stopped, killed, record>>

StopWatchdog ==
  /\ At("stop") /\ Go("judge")
  /\ stopped' = TRUE
  /\ UNCHANGED <<job, logged, display, dog, killed, record>>

\* Mutant of Judge: the exit code alone decides.
JudgeByExit ==
  /\ At("judge")
  /\ main' = [main EXCEPT !.pc = "record",
                !.status = IF main.failed \/ root = "bad" THEN "failed" ELSE "success"]
  /\ UNCHANGED <<job, logged, display, dog, stopped, killed, record>>

\* The watchdog's thread has ended or the join timed out; a watchdog that
\* fired makes the run failed whatever its exit code.
Judge ==
  /\ At("judge")
  /\ main' = [main EXCEPT !.pc = "record",
                !.status = IF main.failed \/ root = "bad" \/ dog.reason # "none"
                           THEN "failed" ELSE "success"]
  /\ UNCHANGED <<job, logged, display, dog, stopped, killed, record>>

Record ==
  /\ At("record") /\ Go("done")
  /\ record' = [status |-> main.status, watchdog |-> dog.reason # "none"]
  /\ UNCHANGED <<job, logged, display, dog, stopped, killed>>

-----------------------------------------------------------------------------
(* The console writer: _console_writer_loop. *)

WriterGet ==
  /\ writer.pc = "get" /\ chunks # << >>
  /\ writer' = [writer EXCEPT
       !.chunk = IF writer.broken THEN 0 ELSE Head(chunks),
       !.pc = IF Head(chunks) = Sentinel THEN "end"
              ELSE IF writer.broken THEN "get" ELSE "write"]
  /\ chunks' = Tail(chunks)
  /\ UNCHANGED <<job, logged, main, console, shown, dropped, dog, stopped, killed, record>>

\* Mutant of WriterFails: the failure is forgotten.
WriterFailsOnce ==
  /\ writer.pc = "write" /\ console = "broken"
  /\ writer' = [writer EXCEPT !.pc = "get", !.chunk = 0]
  /\ UNCHANGED <<job, logged, main, console, chunks, shown, dropped, dog, stopped, killed, record>>

\* The console is gone: from now on the queue is emptied and thrown away.
WriterFails ==
  /\ writer.pc = "write" /\ console = "broken"
  /\ writer' = [pc |-> "get", chunk |-> 0, broken |-> TRUE]
  /\ UNCHANGED <<job, logged, main, console, chunks, shown, dropped, dog, stopped, killed, record>>

\* A wedged console does not return from the write.
WriterWrite ==
  /\ writer.pc = "write" /\ console = "ok"
  /\ shown' = Append(shown, writer.chunk)
  /\ writer' = [writer EXCEPT !.pc = "get", !.chunk = 0]
  /\ UNCHANGED <<job, logged, main, console, chunks, dropped, dog, stopped, killed, record>>

-----------------------------------------------------------------------------
(* The watchdog: RunWatchdog. *)

Older(n, max) == IF n > max THEN n ELSE n + 1

\* Mutant of Poll: the OSError of an output.log that cannot be read is not
\* caught, and ends the watchdog's thread.
PollUncaught(readable) ==
  /\ dog.pc = "poll" /\ ~stopped
  /\ LET grown == readable /\ logged # dog.size
         age == Older(dog.age, RunMax)
         quiet == IF grown THEN 0 ELSE Older(dog.quiet, QuietMax)
         overdue == RunMax > 0 /\ age > RunMax
         silent == QuietMax > 0 /\ readable /\ quiet > QuietMax
     IN dog' = [dog EXCEPT !.age = age, !.quiet = quiet,
                  !.size = IF grown THEN logged ELSE @,
                  !.pc = IF overdue \/ silent THEN "fire"
                         ELSE IF readable THEN "poll" ELSE "done"]
  /\ UNCHANGED <<job, logged, main, display, stopped, killed, record>>

\* One poll, unless the executor has stopped the watchdog.  An output.log
\* whose size cannot be read is neither quiet nor growing, but time goes on.
Poll(readable) ==
  /\ dog.pc = "poll" /\ ~stopped
  /\ LET grown == readable /\ logged # dog.size
         age == Older(dog.age, RunMax)
         quiet == IF grown THEN 0 ELSE Older(dog.quiet, QuietMax)
         overdue == RunMax > 0 /\ age > RunMax
         silent == QuietMax > 0 /\ readable /\ quiet > QuietMax
     IN dog' = [dog EXCEPT !.age = age, !.quiet = quiet,
                  !.size = IF grown THEN logged ELSE @,
                  !.pc = IF overdue \/ silent THEN "fire" ELSE "poll"]
  /\ UNCHANGED <<job, logged, main, display, stopped, killed, record>>

PollStopped ==
  /\ dog.pc = "poll" /\ stopped
  /\ dog' = [dog EXCEPT !.pc = "done"]
  /\ UNCHANGED <<job, logged, main, display, stopped, killed, record>>

\* _fire: a child that has exited by now is left alone, and so is the run.
FireCheck ==
  /\ dog.pc = "fire"
  /\ dog' = [dog EXCEPT !.pc = IF root = "alive" THEN "mark" ELSE "done"]
  /\ UNCHANGED <<job, logged, main, display, stopped, killed, record>>

FireMark ==
  /\ dog.pc = "mark"
  /\ dog' = [dog EXCEPT !.pc = "kill",
               !.reason = IF RunMax > 0 /\ dog.age > RunMax THEN "max_runtime" ELSE "no_output"]
  /\ UNCHANGED <<job, logged, main, display, stopped, killed, record>>

\* kill_process_tree: the helper is found through the child, so a child that
\* is gone leaves the helper where it is.
KillTree ==
  /\ dog.pc = "kill"
  /\ dog' = [dog EXCEPT !.pc = "grace"]
  /\ \/ /\ root = "alive"
        /\ root' \in {"ok", "bad"} /\ killed' = TRUE
        /\ helper' = IF helper = "alive" THEN "gone" ELSE helper
     \/ root # "alive" /\ UNCHANGED <<root, helper, killed>>
  /\ UNCHANGED <<visible, printed, logged, main, display, stopped, record>>

KillGrace ==
  /\ dog.pc = "grace"
  /\ dog' = [dog EXCEPT !.pc = "done"]
  /\ UNCHANGED <<job, logged, main, display, stopped, killed, record>>

-----------------------------------------------------------------------------
MainStep == TeeChunk \/ TeeEof \/ Offer \/ CloseConsole \/ JoinWriter \/ WaitChild
            \/ StopWatchdog \/ Judge \/ Record
WriterStep == WriterGet \/ WriterFails \/ WriterWrite
DogStep == (\E readable \in BOOLEAN : Poll(readable)) \/ PollStopped
           \/ FireCheck \/ FireMark \/ KillTree \/ KillGrace
JobStep == JobPrints \/ StartHelper \/ HelperExits \/ RootExits

Next == JobStep \/ ConsoleChanges \/ MainStep \/ TeeFails \/ WriterStep \/ DogStep

Spec == Init /\ [][Next]_vars

\* The executor's threads run.  Nothing is asked of the job, of the console
\* or of the writer, who may be stuck in it.
FairSpec == Spec /\ WF_vars(MainStep) /\ WF_vars(DogStep)

-----------------------------------------------------------------------------
(* Properties. *)

Increasing(s) == \A i \in 1 .. Len(s) - 1 : s[i] < s[i + 1]
Elements(s) == {s[i] : i \in DOMAIN s}

\* The console shows chunks of the log in order, and one is missing only if
\* the full queue dropped it or the console broke (tee: "the console is lossy
\* live display, fh is the record").
ConsoleFaithful ==
  /\ Increasing(shown) /\ Elements(shown) \subseteq 1 .. logged
  /\ (console # "none" /\ ~writer.broken) =>
       \A n \in 1 .. logged :
         \/ n \in Elements(shown) \cup Elements(chunks) \cup dropped
         \/ writer.chunk = n
         \/ At("offer") /\ n = logged

\* A run the watchdog killed is on record as failed by the watchdog, although
\* the two threads only meet in a join that may time out: the reason is set
\* before the kill, and read after wait().
KilledIsStamped ==
  (killed /\ At("done") /\ ~main.failed) => record = [status |-> "failed", watchdog |-> TRUE]

\* Whatever the console does, a chunk in the pipe is read into output.log, and
\* the job that waits for room in the pipe goes on (issue #694), unless writing
\* the log fails.
PipeDrains == (printed > logged) ~> (printed = logged \/ main.failed)

\* Once nobody holds the output any more, the run is finalised, whatever state
\* the console and the watchdog are in.
RunEnds == (~Held) ~> At("done")

\* A child with a runtime ceiling ends, readable log or not, as long as the
\* executor is there to watch it.
ChildEnds == (RunMax > 0 /\ root = "alive") ~> (root # "alive" \/ main.failed)

\* run_supervision.py:312 a breach "unwedges the main thread for free: the
\* child's pipe closes, the tee loop hits EOF, proc.wait() returns, and the
\* executor's normal finalisation runs".
BreachUnwedges == (dog.pc = "fire") ~> At("done")
=============================================================================
