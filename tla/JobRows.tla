------------------------------- MODULE JobRows -------------------------------
(***************************************************************************)
(* A job's row from the dialog to the launch: what create and edit accept, *)
(* the pre-flight in front of them, the row as jobs.json keeps it, what a  *)
(* load makes of it, and what the kind of the job can start from it.  An   *)
(* edit names some fields; its shape is judged on the row it would leave.  *)
(* Scripts come and go on disk between the two.                            *)
(***************************************************************************)
EXTENDS Integers, FiniteSets

CONSTANTS
  Jobs,      \* job ids
  Stored,    \* jobs.json as found: job -> row or NoRow
  Drafts,    \* rows the dialog may send for a new job
  Patches,   \* what an edit may send: functions from some of a row's fields
  Suffix,    \* script path -> ".py", ".bat" or another suffix
  MaxEdits   \* bound: accepted edits, and changes of the disk

VARIABLES
  file,      \* jobs.json
  disk,      \* scripts that exist
  wsl,       \* wsl.exe is on PATH
  meant,     \* history: the job as the last accepted save of it left it
  edits

vars == <<file, disk, wsl, meant, edits>>

NoRow == [nothing |-> TRUE]
Nothing == ""   \* a blank name, no script, a kind to be inferred
Unset == -1
FileKinds == {"python", "batch", "powershell", "shell-wsl"}
Bodies == {".bat body", ".sh body"}
Urls == {"url", "url without scheme", "url with a word for timeout"}

Stripped(name) == IF name = "spaces" THEN Nothing ELSE name

\* validate_kind_shape, on a row's kind, script and settings together.
ShapeHolds(row) ==
  CASE row.kind = Nothing -> row.script # Nothing /\ Suffix[row.script] \in {".py", ".bat"}
    [] row.kind = "inline-shell" -> row.script = Nothing /\ row.config \in Bodies
    [] row.kind = "http-check" -> row.script = Nothing /\ row.config \in Urls
    [] OTHER -> row.kind \in FileKinds /\ row.script # Nothing

\* _validate_cooldown takes zero for no cooldown, _validate_watchdog_seconds for
\* a watchdog that is off: neither takes less.
Numbers(row) == row.cooldown \in {Unset} \cup Nat /\ row.silence \in {Unset} \cup Nat
Cooldown(seconds) == IF seconds = 0 THEN Unset ELSE seconds

\* job_from_dict, on the row as the file or the dialog has it.
Loads(row) == row # NoRow /\ ShapeHolds(row) /\ Numbers(row) /\ Stripped(row.name) # Nothing
Job(row) == [row EXCEPT !.name = Stripped(@), !.cooldown = Cooldown(@)]

\* load_jobs: a row that does not load is left out.
Loaded == [j \in Jobs |-> IF Loads(file[j]) THEN Job(file[j]) ELSE NoRow]
Known(cfg) == {j \in Jobs : cfg[j] # NoRow}

\* Mutant of ToDict: a watchdog set to zero is taken for unset.
ToDictTruthy(job) == IF job = NoRow THEN NoRow ELSE [job EXCEPT !.silence = Cooldown(@)]

\* Job.to_dict: an unset field is left out, a watchdog that is off is not.
ToDict(job) == job
Save(cfg) == file' = [j \in Jobs |-> ToDict(cfg[j])]

\* resolve_kind.
KindOf(row) ==
  IF row.kind # Nothing THEN row.kind ELSE IF Suffix[row.script] = ".py" THEN "python" ELSE "batch"

\* preflight and the validate of each kind.
Errors(row) ==
  \/ KindOf(row) \in FileKinds /\ row.script \notin disk
  \/ KindOf(row) = "http-check" /\ row.config = "url without scheme"
Warnings(row) ==
  ~wsl /\ (KindOf(row) = "shell-wsl" \/ (KindOf(row) = "inline-shell" /\ row.config = ".sh body"))
\* _preflight_gate: a warning waits for "save anyway".
Gate(row, acknowledged) == ~Errors(row) /\ (Warnings(row) => acknowledged)

\* build_argv of each kind, and the characters cmd.exe would act on.
ThroughCmd(row) == KindOf(row) = "batch" \/ (KindOf(row) = "inline-shell" /\ row.config = ".bat body")
Starts(row) ==
  /\ KindOf(row) \in FileKinds => row.script \in disk
  /\ ThroughCmd(row) => row.args # "cmd characters"
  /\ KindOf(row) = "http-check" => row.config # "url with a word for timeout"

\* _check_chain_references; a cycle of two is as good as any.
ChainsHold(cfg) ==
  \A j \in Known(cfg) :
    /\ cfg[j].chain \subseteq Known(cfg) \ {j}
    /\ \A k \in cfg[j].chain : j \notin cfg[k].chain

-----------------------------------------------------------------------------

Init ==
  /\ file = Stored /\ disk = DOMAIN Suffix /\ wsl \in BOOLEAN
  /\ meant = [j \in Jobs |-> NoRow] /\ edits = 0

Accept(cfg, j) ==
  /\ edits < MaxEdits /\ edits' = edits + 1
  /\ Save(cfg)
  /\ meant' = [meant EXCEPT ![j] = cfg[j]]
  /\ UNCHANGED <<disk, wsl>>

CreateJob(j, draft, acknowledged) ==
  LET cfg == [Loaded EXCEPT ![j] = Job(draft)] IN
  /\ Loads(draft) /\ Gate(Job(draft), acknowledged)
  /\ Loaded[j] = NoRow /\ ChainsHold(cfg)
  /\ Accept(cfg, j)

\* update_job skips an empty name before it strips it.
Field(job, patch, field) ==
  IF field \notin DOMAIN patch \/ (field = "name" /\ patch[field] = Nothing) THEN job[field]
  ELSE IF field = "name" THEN Stripped(patch[field])
  ELSE IF field = "cooldown" THEN Cooldown(patch[field]) ELSE patch[field]

Patched(job, patch) == [field \in DOMAIN job |-> Field(job, patch, field)]

EditJob(j, patch, acknowledged) ==
  LET job == Patched(Loaded[j], patch)
      cfg == [Loaded EXCEPT ![j] = job]
  IN /\ Loaded[j] # NoRow
     /\ ShapeHolds(job) /\ Numbers(job) /\ Gate(job, acknowledged)
     /\ "chain" \in DOMAIN patch => ChainsHold(cfg)
     /\ Accept(cfg, j)

\* remove_by_id takes the job out of every chain too.
DeleteJob(j) ==
  LET Without(job) == IF job = NoRow THEN job ELSE [job EXCEPT !.chain = @ \ {j}] IN
  /\ Loaded[j] # NoRow
  /\ edits < MaxEdits /\ edits' = edits + 1
  /\ Save([k \in Jobs |-> IF k = j THEN NoRow ELSE Without(Loaded[k])])
  /\ meant' = [k \in Jobs |-> IF k = j THEN NoRow ELSE Without(meant[k])]
  /\ UNCHANGED <<disk, wsl>>

\* A script is deleted, moved or put back.
DiskChanges(script) ==
  /\ edits < MaxEdits /\ edits' = edits + 1
  /\ disk' = IF script \in disk THEN disk \ {script} ELSE disk \cup {script}
  /\ UNCHANGED <<file, wsl, meant>>

Next ==
  \/ \E j \in Jobs, draft \in Drafts, acknowledged \in BOOLEAN : CreateJob(j, draft, acknowledged)
  \/ \E j \in Jobs, patch \in Patches, acknowledged \in BOOLEAN : EditJob(j, patch, acknowledged)
  \/ \E j \in Jobs : DeleteJob(j)
  \/ \E script \in DOMAIN Suffix : DiskChanges(script)

Spec == Init /\ [][Next]_vars

-----------------------------------------------------------------------------

Rows ==
  [name : {Nothing} \cup STRING, kind : STRING, script : {Nothing} \cup DOMAIN Suffix, config : STRING,
   args : STRING, cooldown : Int, silence : Int, chain : SUBSET Jobs]

TypeOK ==
  /\ file \in [Jobs -> Rows \cup {NoRow}] /\ meant \in [Jobs -> Rows \cup {NoRow}]
  /\ disk \subseteq DOMAIN Suffix /\ wsl \in BOOLEAN /\ edits \in 0 .. MaxEdits

\* A job renamed to nothing but spaces: accepted, saved, and not there any more.
Blanked(j) == meant[j] # NoRow /\ meant[j].name = Nothing

\* What an accepted save said is what every later load gives, whatever was saved
\* of other jobs since: no accepted row is one the loader drops, no zero turns
\* into a default.  The one exception is a job renamed to spaces.
AcceptedIsLoaded ==
  \A j \in Jobs : meant[j] # NoRow => Loaded[j] = IF Blanked(j) THEN NoRow ELSE meant[j]

\* A job that got past the pre-flight can be started as long as its script is
\* where it was, unless its arguments or a number of its check are at fault,
\* which the pre-flight does not look at.
AcceptedStarts ==
  \A j \in Jobs : meant[j] # NoRow /\ ~Starts(meant[j]) =>
    \/ meant[j].script # Nothing /\ meant[j].script \notin disk
    \/ meant[j].args = "cmd characters"
    \/ meant[j].config = "url with a word for timeout"

\* Every chain leads to jobs that load, but for one to a job renamed to spaces;
\* while that one stays, no new job and no chain is accepted.
ChainsLead ==
  \A j \in Known(Loaded) : \A k \in Loaded[j].chain : k \in Known(Loaded) \/ Blanked(k)

RowsKept == AcceptedIsLoaded /\ AcceptedStarts /\ ChainsLead
=============================================================================
