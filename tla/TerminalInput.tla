---------------------------- MODULE TerminalInput ----------------------------
(***************************************************************************)
(* Prompts sent into one agent's terminal: each sender is a thread of the  *)
(* session host in submit_input or write, a long text goes out in chunks,  *)
(* and the carriage return of a bulk submit waits for the agent's echo to  *)
(* settle.  Senders are not serialised.  The agent takes a while to take   *)
(* in a bulk text, echoing as it does, and reads a carriage return that    *)
(* comes meanwhile as a line of the text.                                  *)
(***************************************************************************)
EXTENDS Naturals, FiniteSets

CONSTANTS
  Senders,
  Floor, Quiet, Cap,   \* _BULK_FLOOR_MS, _BULK_QUIET_MS, _BULK_CAP_MS
  Chunks               \* writes a bulk text takes

VARIABLES
  sender,        \* [does, what, left, age, echoed]: age is the time since sent_at, up to
                 \* Cap, and echoed says that _last_output_at has passed it
  composer,      \* the texts in the agent's composer
  ingesting,     \* sender -> chunks the agent has still to take in
  submitted,     \* the texts the agent was told to run
  silence,       \* the time since _last_output_at, up to Quiet
  agent,         \* "runs", "ended", or "seen" once _exited is set
  spoiled        \* history: a bulk write stalled, or a return was sent that nothing vouches for

vars == <<sender, composer, ingesting, submitted, silence, agent, spoiled>>

Kinds == {"short", "bulk", "draft"}   \* a draft is a bulk text without a submit
Busy == \E s \in Senders : ingesting[s] > 0
Does(s, what) == sender[s].does = what
Idle == [does |-> "idle", what |-> "short", left |-> 0, age |-> 0, echoed |-> FALSE]
Goes(s, to) == sender' = [sender EXCEPT ![s].does = to]
Waits(x) == x.what = "bulk" /\ x.does \in {"write", "settle"}
\* The agent prints: whoever waits for an echo has one.
Echo(senders) ==
  /\ silence' = 0
  /\ sender' = [s \in Senders |-> [senders[s] EXCEPT !.echoed = Waits(senders[s]) /\ senders[s].age > 0]]
Unchanged(s) == UNCHANGED <<composer, ingesting, submitted, silence, agent, spoiled>>

Init ==
  /\ silence = Quiet
  /\ sender = [s \in Senders |-> Idle]
  /\ composer = {} /\ ingesting = [s \in Senders |-> 0] /\ submitted = {}
  /\ agent = "runs" /\ spoiled = FALSE

Begin(s, kind) ==
  /\ Does(s, "idle")
  /\ sender' = [sender EXCEPT ![s] = [Idle EXCEPT !.does = "write", !.what = kind,
                                            !.left = IF kind = "short" THEN 1 ELSE Chunks]]
  /\ Unchanged(s)

\* write: refused once the reader has seen the end; what goes into the pipe of
\* an agent that has ended is lost without an error.
Refused(s) ==
  /\ sender[s].does \in {"write", "return"} /\ agent = "seen"
  /\ Goes(s, "refused") /\ Unchanged(s)
WriteChunk(s) ==
  /\ Does(s, "write") /\ agent # "seen" /\ sender[s].left > 0
  /\ sender' = [sender EXCEPT ![s].left = @ - 1]
  /\ composer' = composer \cup {s}
  /\ ingesting' = [ingesting EXCEPT ![s] = IF sender[s].what = "short" THEN 0 ELSE @ + 1]
  /\ UNCHANGED <<submitted, silence, agent, spoiled>>
Written(s) ==
  /\ Does(s, "write") /\ sender[s].left = 0
  /\ Goes(s, CASE sender[s].what = "draft" -> "delivered"
               [] sender[s].what = "short" -> "return"
               [] sender[s].what = "bulk" -> "settle")
  /\ spoiled' = (spoiled \/ (sender[s].what = "bulk" /\ sender[s].age > 0))
  /\ UNCHANGED <<composer, ingesting, submitted, silence, agent>>

\* Mutant of Settled: any echo after the text will do.
SettledAtOnce(s) ==
  /\ sender[s].age >= Floor
  /\ sender[s].echoed

\* The echo has come and gone quiet.
Settled(s) ==
  /\ sender[s].age >= Floor
  /\ sender[s].echoed
  /\ silence = Quiet
Overdue(s) == sender[s].age = Cap
Settle(s) ==
  /\ Does(s, "settle") /\ (Settled(s) \/ Overdue(s) \/ agent = "seen")
  /\ sender' = [sender EXCEPT ![s].does = "return", ![s].echoed = FALSE]
  /\ spoiled' = (spoiled \/ (Overdue(s) /\ ~Settled(s)))
  /\ UNCHANGED <<composer, ingesting, submitted, silence, agent>>

\* The return is a write of its own.
Delivered(s) ==
  [sender EXCEPT ![s] = IF ingesting[s] > 0 THEN [@ EXCEPT !.does = "delivered"]
                        ELSE [Idle EXCEPT !.does = "delivered", !.what = sender[s].what]]
ReturnRuns(s) ==
  /\ Does(s, "return") /\ agent = "runs" /\ ~Busy
  /\ submitted' = submitted \cup composer /\ composer' = {}
  /\ Echo(Delivered(s))
  /\ UNCHANGED <<ingesting, agent, spoiled>>
ReturnIsText(s) ==
  /\ Does(s, "return") /\ (agent = "ended" \/ (agent = "runs" /\ Busy))
  /\ sender' = Delivered(s)
  /\ spoiled' = (spoiled \/ (\E d \in Senders : sender[d].what = "draft" /\ ingesting[d] > 0))
  /\ UNCHANGED <<composer, submitted, silence, ingesting, agent>>

-----------------------------------------------------------------------------
\* The agent

Ingest(s) ==
  /\ agent = "runs" /\ ingesting[s] > 0
  /\ ingesting' = [ingesting EXCEPT ![s] = @ - 1] /\ Echo(sender)
  /\ UNCHANGED <<composer, submitted, agent, spoiled>>
\* It prints for other reasons too.
Prints ==
  /\ agent = "runs" /\ Echo(sender)
  /\ UNCHANGED <<composer, ingesting, submitted, agent, spoiled>>
AgentEnds ==
  /\ agent # "seen" /\ agent' = IF agent = "runs" THEN "ended" ELSE "seen"
  /\ UNCHANGED <<sender, composer, ingesting, submitted, silence, spoiled>>

\* An agent that takes in a text goes on echoing, from the moment it came.
Tick ==
  /\ Busy /\ agent = "runs" =>
       silence = 0 \/ (\A s \in Senders : ingesting[s] > 0 => sender[s].age = 0)
  /\ silence' = IF silence < Quiet THEN silence + 1 ELSE Quiet
  /\ sender' = [s \in Senders |-> IF sender[s].age < Cap
                                      /\ (Waits(sender[s]) \/ ingesting[s] > 0)
                                   THEN [sender[s] EXCEPT !.age = @ + 1] ELSE sender[s]]
  /\ UNCHANGED <<composer, ingesting, submitted, agent, spoiled>>

Next ==
  \/ \E s \in Senders :
       \/ \E kind \in Kinds : Begin(s, kind)
       \/ Refused(s) \/ WriteChunk(s) \/ Written(s) \/ Settle(s)
       \/ ReturnRuns(s) \/ ReturnIsText(s) \/ Ingest(s)
  \/ Prints \/ AgentEnds \/ Tick

Spec == Init /\ [][Next]_vars

-----------------------------------------------------------------------------

TypeOK ==
  /\ silence \in 0..Quiet
  /\ sender \in [Senders -> [does : {"idle", "write", "settle", "return", "delivered", "refused"},
                             what : Kinds, left : 0..Chunks, age : 0..Cap, echoed : BOOLEAN]]
  /\ composer \subseteq Senders /\ submitted \subseteq Senders
  /\ ingesting \in [Senders -> 0..Chunks]
  /\ agent \in {"runs", "ended", "seen"} /\ spoiled \in BOOLEAN

\* Once every sender is done, a submit that was answered ok was run by the
\* agent, whatever else was typed meanwhile, while the agent lives: unless a
\* write stalled (the settling is timed from before it), a return was sent at
\* the cap with the echo unsettled, or one fell into a draft.
DeliveredIsRun ==
  \A s \in Senders :
    /\ Does(s, "delivered") /\ sender[s].what # "draft"
    /\ \A t \in Senders : sender[t].does \in {"idle", "delivered", "refused"}
    /\ agent = "runs" /\ ~spoiled
    => s \in submitted
=============================================================================
