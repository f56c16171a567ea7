------------------------------ MODULE RunStream ------------------------------
(***************************************************************************)
(* The live output of a run: while the job writes output.log, a route      *)
(* follows the file for a page, with the run's record to tell it when to   *)
(* stop.  Output is known by its place in the file, in bytes.              *)
(***************************************************************************)
EXTENDS Naturals, Sequences, FiniteSets, FiniteSetsExt

CONSTANTS
  MaxBytes,    \* bound: size of the output
  LineEnds,    \* the bytes that end a line
  TailBytes    \* max_bytes of read_output_tail

VARIABLES
  size,        \* of output.log, 0 when it is not there
  running,     \* the job's process is there
  status,      \* of the record: "running", "done", or "gone"
  byOthers,    \* history: the record was finalised while the process ran
  pc,          \* stream_job_run: "record", "stat", "read", "end", "closed", "broken"
  heard,       \* the status it read
  found,       \* the size it read
  offset, first,
  page         \* the pieces of the file sent, each from a byte and up to another

vars == <<size, running, status, byOthers, pc, heard, found, offset, first, page>>
file == <<size, running, status, byOthers>>

Init ==
  /\ size = 0 /\ running = TRUE /\ status = "running" /\ byOthers = FALSE
  /\ pc = "record" /\ heard = "unread" /\ found = 0 /\ offset = 0 /\ first = TRUE /\ page = <<>>

Write ==
  /\ running /\ status # "gone" /\ size < MaxBytes /\ size' \in (size + 1) .. MaxBytes
  /\ UNCHANGED <<running, status, byOthers, pc, heard, found, offset, first, page>>

\* The executor writes the final record once the process has ended and the file is whole.
Finish ==
  /\ running /\ status # "gone" /\ running' = FALSE /\ status' = "done"
  /\ UNCHANGED <<size, byOthers, pc, heard, found, offset, first, page>>

\* A kill or a reap finalises the record over a process that still writes.
FinaliseEarly ==
  /\ running /\ status = "running" /\ status' = "done" /\ byOthers' = TRUE
  /\ UNCHANGED <<size, running, pc, heard, found, offset, first, page>>

\* prune_runs removes the directory of a finished run.
Prune ==
  /\ ~running /\ status = "done" /\ status' = "gone" /\ size' = 0
  /\ UNCHANGED <<running, byOthers, pc, heard, found, offset, first, page>>

-----------------------------------------------------------------------------
\* One round of stream_job_run: the record first, ...
ReadRecord ==
  /\ pc = "record" /\ pc' = "stat"
  /\ heard' = IF status = "gone" THEN "running" ELSE status
  /\ UNCHANGED <<file, found, offset, first, page>>

\* ... then the size, ...
Stat ==
  /\ pc = "stat" /\ pc' = "read" /\ found' = size
  /\ UNCHANGED <<file, heard, offset, first, page>>

\* read_output_tail: to the end of the file as it is now, from the start or, past
\* TailBytes, from the first line that begins after that.
TailFrom ==
  IF size <= TailBytes THEN 0
  ELSE LET ends == {i \in LineEnds : i > size - TailBytes /\ i <= size} IN
       IF ends = {} THEN size ELSE Min(ends)

\* ... then what is new: at first, or when the file has shrunk, its tail, and after that
\* what lies between the sizes read.  A file that is gone by then ends the stream.
Read ==
  /\ pc = "read"
  /\ IF first \/ found < offset
     THEN /\ page' = <<<<TailFrom, size>>>> /\ offset' = found /\ first' = FALSE /\ pc' = "end"
     ELSE IF found = offset THEN pc' = "end" /\ UNCHANGED <<page, offset, first>>
     ELSE IF size = 0 THEN pc' = "broken" /\ UNCHANGED <<page, offset, first>>
     ELSE /\ page' = Append(page, <<offset, found>>) /\ offset' = found /\ pc' = "end"
          /\ UNCHANGED first
  /\ UNCHANGED <<file, heard, found>>

\* Mutant of End: whether the run is over is looked up again after the output.
EndNow ==
  /\ pc = "end" /\ pc' = IF status = "done" THEN "closed" ELSE "record"
  /\ UNCHANGED <<file, heard, found, offset, first, page>>

\* ... and the final status, if it was final before the output was read.
End ==
  /\ pc = "end" /\ pc' = IF heard = "done" THEN "closed" ELSE "record"
  /\ UNCHANGED <<file, heard, found, offset, first, page>>

Next ==
  \/ Write \/ Finish \/ FinaliseEarly \/ Prune
  \/ ReadRecord \/ Stat \/ Read \/ End

Spec == Init /\ [][Next]_vars

-----------------------------------------------------------------------------

TypeOK ==
  /\ size \in 0 .. MaxBytes /\ status \in {"running", "done", "gone"} /\ offset <= MaxBytes
  /\ \A i \in DOMAIN page : page[i][1] <= page[i][2]

\* Nothing is skipped: each piece begins no later than the one before it ended, and only
\* the piece after the tail may repeat some of it, what was written while it was read.
NoGap ==
  \A i \in 2 .. Len(page) : IF i = 2 THEN page[i][1] <= page[1][2] ELSE page[i][1] = page[i - 1][2]

\* A page told that the run is over has its output to the last byte, unless the record
\* was finalised over a process that went on writing, or the run was pruned meanwhile.
WholeAtEnd == pc = "closed" /\ ~byOthers /\ status # "gone" => page # <<>> /\ page[Len(page)][2] = size

\* A page whose stream broke off was following a run that has been pruned.
BrokenForCause == pc = "broken" => status = "gone"

StreamTrue == NoGap /\ WholeAtEnd /\ BrokenForCause
=============================================================================
