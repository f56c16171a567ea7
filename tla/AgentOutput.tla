----------------------------- MODULE AgentOutput -----------------------------
(***************************************************************************)
(* What the session host reads out of an agent's output as it passes, in   *)
(* reads that may cut it anywhere: colour queries and replies, which it    *)
(* takes out, the bracketed paste mode and the window's title.             *)
(***************************************************************************)
EXTENDS Naturals, Sequences, SequencesExt, FiniteSetsExt

CONSTANTS
  Vocabularies, \* sets of tokens an agent may print
  MaxTokens,    \* bound: tokens printed
  CarryMax      \* _OSC_CARRY_MAX

\* Tokens: "esc"; after it "]colour" (OSC 10, 11 or 12), "]title" (OSC 0 or 2) and
\* "[paste" (CSI ? 2004); "?" asks for a colour and "rgb" is some of a reply; "bel" or esc
\* "st" end a sequence; "on" and "off" end a mode; "text" is anything else.

VARIABLES
  vocabulary,
  printed,     \* everything the agent printed
  unread,      \* of it, what is still in the PTY
  carry,       \* _color_osc_carry
  passed,      \* what went on to the ring and the pages
  mode,        \* _bracketed_paste_mode
  modeCarry,   \* _decset_carry
  titleBuffer, \* _osc_buffer
  title        \* live_title

vars == <<vocabulary, printed, unread, carry, passed, mode, modeCarry, titleBuffer, title>>

Init ==
  /\ vocabulary \in Vocabularies /\ printed = <<>> /\ unread = <<>> /\ carry = <<>> /\ passed = <<>>
  /\ mode = FALSE /\ modeCarry = <<>> /\ titleBuffer = <<>> /\ title = <<>>

Prints(token) ==
  /\ Len(printed) < MaxTokens /\ printed' = Append(printed, token) /\ unread' = Append(unread, token)
  /\ UNCHANGED <<vocabulary, carry, passed, mode, modeCarry, titleBuffer, title>>

-----------------------------------------------------------------------------
At(s, i, t) == i + Len(t) - 1 <= Len(s) /\ SubSeq(s, i, i + Len(t) - 1) = t
Terminator(s, i) == IF At(s, i, <<"bel">>) THEN 1 ELSE IF At(s, i, <<"esc", "st">>) THEN 2 ELSE 0

\* _OSC_COLOR_RE at i: how long the match is, 0 for none.  A query may go unterminated,
\* a reply may not.
Colour(s, i) ==
  IF ~At(s, i, <<"esc", "]colour">>) THEN 0
  ELSE IF At(s, i + 2, <<"?">>) THEN 3 + Terminator(s, i + 3)
  ELSE LET rest == {j \in (i + 2) .. Len(s) : s[j] # "rgb"} IN
       IF rest = {} \/ Min(rest) = i + 2 \/ Terminator(s, Min(rest)) = 0 THEN 0
       ELSE Min(rest) - i + Terminator(s, Min(rest))

\* _OSC_COLOR_RE.sub
Stripped(s) ==
  LET from[i \in 1 .. Len(s) + 2] ==
        IF i > Len(s) THEN <<>>
        ELSE IF Colour(s, i) > 0 THEN from[i + Colour(s, i)] ELSE <<s[i]>> \o from[i + 1]
  IN from[1]

\* Mutant of Held: a query without its terminator is not held back.
HeldButQueries(s) ==
  {i \in 1 .. Len(s) :
     LET t == SubSeq(s, i, Len(s)) IN
     \/ t \in {<<"esc">>, <<"esc", "]colour">>}
     \/ \E n \in 1 .. Len(t) : t = <<"esc", "]colour">> \o [j \in 1 .. n |-> "rgb"]}

\* _OSC_COLOR_PARTIAL_RE: where the output's end may be the start of one, or a query
\* whose terminator is still to come.
Held(s) ==
  {i \in 1 .. Len(s) :
     LET t == SubSeq(s, i, Len(s))
         open == IF Len(t) > 3 /\ Last(t) = "esc" THEN Front(t) ELSE t
     IN \/ t \in {<<"esc">>, <<"esc", "]colour">>}
        \/ open = <<"esc", "]colour", "?">>
        \/ \E n \in 1 .. Len(t) : open = <<"esc", "]colour">> \o [j \in 1 .. n |-> "rgb"]}

\* strip_color_osc: where the data is cut, and held back from.
Cut(data) ==
  IF Held(data) # {} /\ Len(data) - Min(Held(data)) + 1 <= CarryMax THEN Min(Held(data)) ELSE Len(data) + 1

\* scan_bracketed_paste_mode
ModeAfter(data, before) ==
  LET said == {i \in DOMAIN data : At(data, i, <<"esc", "[paste", "on">>) \/ At(data, i, <<"esc", "[paste", "off">>)}
  IN IF said = {} THEN before ELSE data[Max(said) + 2] = "on"
ModeHeld(data) ==
  IF At(data, Len(data), <<"esc">>) THEN <<"esc">>
  ELSE IF Len(data) > 1 /\ At(data, Len(data) - 1, <<"esc", "[paste">>) THEN <<"esc", "[paste">> ELSE <<>>

\* parse_osc_title's loop: the leftmost sequence is taken out, up to the first terminator
\* after it, as often as there is one; what is left is kept, text between sequences too.
TakeTitle(parsed) ==
  LET left == parsed.left
      starts == {i \in DOMAIN left : \E kind \in {"]title", "]colour"} : At(left, i, <<"esc", kind>>)}
      ends == {j \in Min(starts) .. Len(left) : Terminator(left, j) > 0}
      says == SelectSeq(SubSeq(left, Min(starts) + 2, Min(ends) - 1), LAMBDA token : token # "esc")
  IN IF starts = {} \/ ends = {} THEN parsed
     ELSE [left |-> SubSeq(left, 1, Min(starts) - 1)
                      \o SubSeq(left, Min(ends) + Terminator(left, Min(ends)), Len(left)),
           title |-> IF left[Min(starts) + 1] = "]title" /\ says # <<>> THEN says ELSE parsed.title]
Titled(buffer, before) ==
  LET after[n \in 0 .. Len(buffer)] ==
        IF n = 0 THEN [left |-> buffer, title |-> before] ELSE TakeTitle(after[n - 1])
  IN after[Len(buffer)]

ReadChunk ==
  /\ unread # <<>> /\ unread' = <<>>
  /\ LET data == carry \o unread
         chunk == Stripped(SubSeq(data, 1, Cut(data) - 1))
         modeData == modeCarry \o chunk
         parsed == Titled(titleBuffer \o chunk, title)
     IN /\ carry' = SubSeq(data, Cut(data), Len(data))
        /\ passed' = passed \o chunk
        /\ IF chunk = <<>> THEN UNCHANGED <<mode, modeCarry, titleBuffer, title>>
           ELSE /\ mode' = ModeAfter(modeData, mode) /\ modeCarry' = ModeHeld(modeData)
                /\ titleBuffer' = parsed.left /\ title' = parsed.title
  /\ UNCHANGED <<vocabulary, printed>>

Next == ReadChunk \/ \E token \in vocabulary : Prints(token)

Spec == Init /\ [][Next]_vars

-----------------------------------------------------------------------------
TypeOK ==
  /\ vocabulary \in Vocabularies /\ mode \in BOOLEAN
  /\ \A some \in {printed, unread, carry, passed, modeCarry, titleBuffer, title} : Range(some) \subseteq vocabulary
  /\ Len(carry) <= CarryMax /\ Len(modeCarry) <= 2

Taken == SubSeq(printed, 1, Len(printed) - Len(unread))

\* No beginning of a colour sequence ever outgrew what the host holds back.
NoneOutgrew ==
  \A n \in 1 .. Len(Taken) :
    LET open == Held(SubSeq(Taken, 1, n)) IN open = {} \/ n - Min(open) < CarryMax

\* session_host_text.py strip_color_osc: however the reads cut the output, what goes on and
\* what is held back are the whole output without its colour sequences; a beginning that
\* outgrows the limit is let go, and even then no text is lost.
StrippedWhole ==
  /\ NoneOutgrew => passed \o Stripped(carry) = Stripped(Taken)
  /\ SelectSeq(passed \o carry, LAMBDA token : token = "text")
       = SelectSeq(Taken, LAMBDA token : token = "text")

\* The paste mode a submit will use and the title the page shows are those a terminal that
\* got the same output in one piece would have.
ModeCurrent == mode = ModeAfter(passed, FALSE)
TitleCurrent == title = Titled(passed, <<>>).title

OutputTrue == StrippedWhole /\ ModeCurrent /\ TitleCurrent
=============================================================================
