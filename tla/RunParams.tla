------------------------------ MODULE RunParams ------------------------------
(***************************************************************************)
(* The parameters of a run from the fire that names them to the child that *)
(* gets them: checked against the job's row, kept in run.json and, behind  *)
(* a holder of the group, in the queue, handed on as a token, and composed *)
(* again by the executor against the row as it is by then.  A webhook maps *)
(* them from its payload; the job's environment may refer to a secret.     *)
(***************************************************************************)
EXTENDS Naturals, Sequences

CONSTANTS
  Drafts,    \* what an edit may declare: sequences of parameters, valid or not
  Given,     \* values a client may send: functions from names to raw values
  Payloads,  \* what a webhook may carry: functions from names to raw values
  Secrets,   \* values of the secret, NoSecret when its key is gone
  MaxRuns,   \* bound: fires
  MaxEdits   \* bound: edits of the row, of the secret and restarts

VARIABLES
  row,         \* Job.params in jobs.json
  fileSecret,  \* secrets of webapp_config.json
  appSecret,   \* the same as the webapp loaded it
  busy,        \* another job of the group is running
  runs,        \* run.json of each run, with what was asked for as history
  queue,       \* entries of the group's queue
  spawned,     \* executors started, not yet past their first reads
  edits

vars == <<row, fileSecret, appSecret, busy, runs, queue, spawned, edits>>

None == "none"
NoSecret == "no secret"
NoValues == [name \in {} |-> None]

\* param_from_dict: a switch needs a flag or a variable to go to, nothing goes to
\* both, and a default is of the parameter's own type.
Typed(kind) == CASE kind = "string" -> {"text"} [] kind = "int" -> {"number"} [] kind = "bool" -> {"true"}
Declarable(param) ==
  /\ param.to # "flag and env" /\ (param.kind = "bool" => param.to # "place")
  /\ param.default \in Typed(param.kind) \cup {None}
\* params_from_dict: one row for a name.
Rows == {draft \in Drafts : \A i, j \in DOMAIN draft :
           Declarable(draft[i]) /\ (draft[i].name = draft[j].name => i = j)}

\* _coerce and _stringify: what a raw value renders as, or "bad".
Rendered(kind, raw) ==
  CASE kind = "string" /\ raw \in {"text", "digits", "True"} -> raw
    [] kind = "int" /\ raw \in {"number", "digits"} -> "digits"
    [] kind = "bool" /\ raw \in {"true", "True"} -> "true"
    [] OTHER -> "bad"

\* _resolve_value: the value given, else the default, else nothing.
Value(param, values) ==
  IF param.name \in DOMAIN values THEN Rendered(param.kind, values[param.name])
  ELSE IF param.default = None THEN None ELSE Rendered(param.kind, param.default)

\* compose_argv raises on a value nobody declared, a bad one or a missing one.
Composable(declared, values) ==
  /\ DOMAIN values \subseteq {declared[i].name : i \in DOMAIN declared}
  /\ \A i \in DOMAIN declared :
       /\ Value(declared[i], values) # "bad"
       /\ declared[i].required => Value(declared[i], values) # None

\* The words of the command line, in the order the row declares them.
Argv(declared, values) ==
  LET InArgv(param) == param.to # "env" /\ Value(param, values) # None
      shown == SelectSeq(declared, InArgv)
  IN [i \in DOMAIN shown |-> <<shown[i].name, Value(shown[i], values)>>]

\* _build_child_env: a parameter mapped to the job's variable wins over it.
ChildEnv(declared, values, secret) ==
  LET mapped == {i \in DOMAIN declared : declared[i].to = "env" /\ Value(declared[i], values) # None}
  IN IF mapped = {} THEN secret ELSE Value(declared[CHOOSE i \in mapped : TRUE], values)

\* resolve_mapping: a path that leads nowhere is left out, the rest become strings.
Text(raw) == CASE raw = "number" -> "digits" [] raw = "true" -> "True" [] OTHER -> raw
Mapped(payload) ==
  [name \in {n \in DOMAIN payload : payload[n] # None} |-> Text(payload[name])]

Init ==
  /\ row \in Rows /\ fileSecret \in Secrets \ {NoSecret} /\ appSecret = fileSecret
  /\ busy \in BOOLEAN /\ runs = << >> /\ queue = << >> /\ spawned = {} /\ edits = 0

Token(run, values) == [run |-> run, params |-> values]

\* _admit_and_spawn / dispatch_chain_run: a directory, its record, then the
\* queue behind a holder or an executor.
Admit(trigger, values, payload) ==
  LET run == Len(runs) + 1 IN
  /\ Len(runs) < MaxRuns
  /\ runs' = Append(runs, [trigger |-> trigger, params |-> values, payload |-> payload,
                           status |-> IF busy THEN "queued" ELSE "pending",
                           argv |-> << >>, env |-> None, admitted |-> row, started |-> row])
  /\ queue' = IF busy THEN Append(queue, Token(run, values)) ELSE queue
  /\ spawned' = IF busy THEN spawned ELSE spawned \cup {Token(run, values)}
  /\ UNCHANGED <<row, fileSecret, appSecret, busy, edits>>

RunJob(values) == Composable(row, values) /\ Admit("manual", values, NoValues)

\* resolve_secret and verify_webhook: a delivery counts when it is signed with
\* the secret the webapp knows.
Verified(signed) == appSecret # NoSecret /\ signed = appSecret

RunJobWebhook(payload, signed) ==
  /\ Verified(signed)
  /\ Composable(row, Mapped(payload))
  /\ Admit("webhook", Mapped(payload), payload)

\* The follow-up of another job names no values and checks none.
ChainFire == Admit("chain", NoValues, NoValues)

\* Mutant of Drain: the queue remembers which run, not its values.
DrainBare ==
  /\ queue # << >> /\ ~busy
  /\ queue' = Tail(queue) /\ spawned' = spawned \cup {Token(Head(queue).run, NoValues)}
  /\ UNCHANGED <<row, fileSecret, appSecret, busy, runs, edits>>

\* drain_mutex_queue, by whoever held the group.
Drain ==
  /\ queue # << >> /\ ~busy
  /\ queue' = Tail(queue) /\ spawned' = spawned \cup {Head(queue)}
  /\ UNCHANGED <<row, fileSecret, appSecret, busy, runs, edits>>

Holder == busy' \in BOOLEAN /\ UNCHANGED <<row, fileSecret, appSecret, runs, queue, spawned, edits>>

\* build_invocation and the environment, from the row and the secret of now: a
\* failure is recorded on the run, which is otherwise on its way to a child.
Execute(token) ==
  LET sound == Composable(row, token.params) /\ fileSecret # NoSecret IN
  /\ spawned' = spawned \ {token}
  /\ runs' = [runs EXCEPT ![token.run] =
       IF sound
       THEN [@ EXCEPT !.status = "running", !.started = row, !.argv = Argv(row, token.params),
                      !.env = ChildEnv(row, token.params, fileSecret)]
       ELSE [@ EXCEPT !.status = "failed", !.started = row, !.env = fileSecret]]
  /\ UNCHANGED <<row, fileSecret, appSecret, busy, queue, edits>>

Edit ==
  /\ edits < MaxEdits /\ edits' = edits + 1
  /\ \/ row' \in Rows /\ UNCHANGED <<fileSecret, appSecret>>
     \/ fileSecret' \in Secrets /\ UNCHANGED <<row, appSecret>>
     \/ appSecret' = fileSecret /\ UNCHANGED <<row, fileSecret>>
  /\ UNCHANGED <<busy, runs, queue, spawned>>

Next ==
  \/ \E values \in Given : RunJob(values)
  \/ \E payload \in Payloads, signed \in Secrets : RunJobWebhook(payload, signed)
  \/ ChainFire \/ Drain \/ Holder \/ Edit
  \/ \E token \in spawned : Execute(token)

Spec == Init /\ [][Next]_vars

-----------------------------------------------------------------------------
TypeOK ==
  /\ row \in Rows /\ {fileSecret, appSecret} \subseteq Secrets /\ busy \in BOOLEAN
  /\ \A i \in DOMAIN runs : runs[i].status \in {"queued", "pending", "running", "failed"}
  /\ \A token \in spawned : token.run \in DOMAIN runs

Wished(run) == IF run.trigger = "webhook" THEN Mapped(run.payload) ELSE run.params

(* A child starts with the values its fire named, queued or not, in the     *)
(* order of the row it starts from; the values of the fire are its record's *)
(* and, for a webhook, its payload's.                                       *)
ChildGetsItsValues ==
  \A i \in DOMAIN runs :
    LET run == runs[i] IN
    /\ Wished(run) = run.params
    /\ run.status = "running" => run.argv = Argv(run.started, run.params)

(* A fire that was checked fails over its values only when the row has been *)
(* edited since, whatever it waited for; one that was not, when a required  *)
(* parameter has no default to serve.                                       *)
CheckedOnce ==
  \A i \in DOMAIN runs :
    runs[i].status = "failed" =>
      \/ /\ runs[i].trigger = "chain"
         /\ \E j \in DOMAIN runs[i].started : runs[i].started[j].required /\ runs[i].started[j].default = None
      \/ runs[i].started # runs[i].admitted
      \/ runs[i].env = NoSecret

ParamsHonest == ChildGetsItsValues /\ CheckedOnce
=============================================================================
