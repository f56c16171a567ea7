---------------------------- MODULE BoardExchange ----------------------------
(***************************************************************************)
(* The last exchange of a session, as the Board drawer shows it: the reply *)
(* is found in the tail of the terminal capture by the bullets that lead   *)
(* an agent's messages and by the rules of the composer box below them,    *)
(* the prompt in the log of what was typed.                                *)
(***************************************************************************)
EXTENDS Naturals, Sequences, FiniteSets, FiniteSetsExt

CONSTANTS
  RuleGap,     \* _COMPOSER_MAX_RULE_GAP_ROWS
  Boxes,       \* heights of a composer between its rules; 0: none on screen
  Tails,       \* what _CAPTURE_TAIL_BYTES may keep, in rows
  MaxRows,     \* bound: rows the agent prints
  MaxPrompts   \* bound: prompts submitted

VARIABLES
  rows,        \* what the agent printed above the composer: kind, and prompt it answers
  box,         \* height of the composer
  prompts,     \* how each prompt was submitted
  logged,      \* the last prompt whose text is in the session's log
  sending      \* a prompt is in the log and not yet with the agent

vars == <<rows, box, prompts, logged, sending>>

\* A message starts with a bullet, "reply"; an "item" is a bulleted line inside one.
\* "more" has no bullet, "meta" is a timing, spinner, recap or tip line.
Kinds == {"reply", "item", "tool", "more", "meta", "rule"}

Init ==
  /\ rows = <<>> /\ box = 0 /\ prompts = <<>> /\ logged = 0 /\ sending = FALSE

Prints(kind) ==
  /\ Len(rows) < MaxRows
  /\ kind = "item" => \E i \in DOMAIN rows : rows[i].kind = "reply"
  /\ rows' = Append(rows, [kind |-> kind, turn |-> Len(prompts)])
  /\ UNCHANGED <<box, prompts, logged, sending>>

Redraw(height) == box # height /\ box' = height /\ UNCHANGED <<rows, prompts, logged, sending>>

\* proxy_session_ws: a frame of keys is logged, and only then passed on ...
LogKeys ==
  /\ ~sending /\ Len(prompts) < MaxPrompts
  /\ sending' = TRUE /\ logged' = Len(prompts) + 1
  /\ UNCHANGED <<rows, box, prompts>>

\* ... unless the link is gone by then.
Forward ==
  /\ sending /\ sending' = FALSE
  /\ prompts' \in {prompts, Append(prompts, "terminal")}
  /\ UNCHANGED <<rows, box, logged>>

\* session_input, the drawer's own reply: the log is told its size, not its text.
ReplyFromBoard ==
  /\ ~sending /\ Len(prompts) < MaxPrompts /\ prompts' = Append(prompts, "board")
  /\ UNCHANGED <<rows, box, logged, sending>>

Next ==
  \/ LogKeys \/ Forward \/ ReplyFromBoard
  \/ \E kind \in Kinds : Prints(kind)
  \/ \E height \in Boxes : Redraw(height)

Spec == Init /\ [][Next]_vars

-----------------------------------------------------------------------------
\* resolve_exchange, as of now.  A line is known by its place on the screen; what
\* _read_tail cut off is a line of kind "cut".

Composer == IF box = 0 THEN <<>> ELSE [i \in 1 .. box + 2 |-> IF i \in {1, box + 2} THEN "rule" ELSE "more"]

\* The first line of a tail has lost its bullet.
Lines(tail) ==
  LET screen == [i \in DOMAIN rows |-> rows[i].kind] \o Composer
      first == IF Len(screen) > tail THEN Len(screen) - tail + 1 ELSE 1
  IN [i \in DOMAIN screen |->
        IF i < first THEN "cut" ELSE IF i = first /\ i > 1 /\ screen[i] # "rule" THEN "more" ELSE screen[i]]

\* Mutant of Linked: one line too many between two rules.
LinkedFurther(rules, r, s) == \A i \in r .. s : \E t \in rules : t \in i .. s /\ t - i <= RuleGap + 1

\* Going up from rule s to rule r, no more than RuleGap lines without a rule in a row.
Linked(rules, r, s) == \A i \in r .. s : \E t \in rules : t \in i .. s /\ t - i <= RuleGap

\* _drop_trailing_composer: the last rule goes, and those above it that are linked to it.
Body(lines) ==
  LET rules == {i \in DOMAIN lines : lines[i] = "rule"}
      all == {i \in DOMAIN lines : lines[i] # "cut"}
  IN IF rules = {} THEN all
     ELSE LET top == Min({r \in rules : Linked(rules, r, Max(rules))}) IN {i \in all : i < top}

\* _row_marker, and _reply_blocks with _flush_block: from an assistant bullet to the
\* next bullet of any kind, but for what follows a meta line.
Ends == {"reply", "item", "tool", "meta"}
Block(lines, body, i) == {j \in body : j >= i /\ \A k \in (i + 1) .. j : lines[k] \notin Ends}

Shown(lines) ==
  LET body == Body(lines)
      starts == {i \in body : lines[i] \in {"reply", "item"}}
  IN IF starts = {} THEN {} ELSE Block(lines, body, Max(starts))

\* _last_submitted_input: the newest line of the log that ends in a return.
UserText == logged

-----------------------------------------------------------------------------

TypeOK ==
  /\ box \in Boxes /\ Len(rows) <= MaxRows /\ logged <= Len(prompts) + 1
  /\ \A i \in DOMAIN rows : rows[i].kind \in Kinds

\* What the agent last said: from where its last message began to the next tool call
\* or meta line.
Said ==
  LET begins == {i \in DOMAIN rows : rows[i].kind = "reply"} IN
  IF begins = {} THEN {}
  ELSE {j \in Max(begins) .. Len(rows) :
          \A k \in Max(begins) .. j : rows[k].kind \notin {"tool", "meta"}}

\* A rule the agent printed that is taken for one of the composer's.
Misread ==
  \E i \in DOMAIN rows : rows[i].kind = "rule" /\ (box = 0 \/ Len(rows) - i <= RuleGap)

\* The drawer shows the agent's last message, all of it, with nothing of the composer.
\* Not so for a message with bulleted items, of which it shows the last one; one with a
\* rule near the composer; one begun above the tail; a composer taller than the gap.
LastMessageShown(lines, shown) ==
  \/ shown = Said
  \/ \E i \in DOMAIN rows : rows[i].kind = "item"
  \/ Misread \/ box > RuleGap
  \/ \E i \in Said : (i > 1 /\ lines[i - 1] = "cut") \/ lines[i] = "cut"

\* Whatever it shows, no tool call, no meta line, and no lines of two messages.
NeverMixed(lines, shown) ==
  \A i \in shown : lines[i] \notin {"tool", "meta"} /\ (lines[i] = "reply" => i = Min(shown))

\* What is typed into the composer is not shown as said, unless the box is too tall.
DraftNotSaid(shown) == box <= RuleGap => shown \subseteq DOMAIN rows

\* The prompt shown beside a reply is never older than the one the reply answers,
\* unless that one came from the drawer itself.
PromptNotOlder(shown) ==
  \A i \in shown \cap DOMAIN rows :
    rows[i].turn = 0 \/ UserText >= rows[i].turn \/ "board" \in {prompts[t] : t \in 1 .. rows[i].turn}

ExchangeTrue ==
  \A tail \in Tails :
    LET lines == Lines(tail)
        shown == Shown(lines)
    IN LastMessageShown(lines, shown) /\ NeverMixed(lines, shown) /\ DraftNotSaid(shown) /\ PromptNotOlder(shown)
=============================================================================
