----------------------------- MODULE ScreenMirror -----------------------------
(***************************************************************************)
(* How a page that opens the terminal of a full-screen agent catches up    *)
(* without the agent repainting: the session host keeps a mirror of the    *)
(* screen, fed with the agent's output, and renders it for the page as     *)
(* scrolling text for what has left the screen, a blank screenful, and the *)
(* rows of the screen, each at its place.                                  *)
(***************************************************************************)
EXTENDS Naturals, Sequences, SequencesExt, FiniteSetsExt

CONSTANTS
  Heights,     \* sizes a terminal may have, in rows
  Lines,       \* terminal_history_lines
  MaxPrinted,  \* bound: rows the agent prints
  MaxChunk,    \* bound: steps in one chunk of output
  MaxResizes   \* bound: changes of size

VARIABLES
  mirror,      \* VtSnapshot: rows on the screen, and above it
  page,        \* the page's terminal, likewise; an empty screen while it is closed
  phase,       \* "closed", "subscribed", "shown"
  parsed,      \* output the reader has fed the mirror and not yet published
  queue,       \* output the page has not been sent
  twice,       \* output that is in the frame and in the queue
  apart,       \* since the frame: the mirror failed on output, or changed size
  printed, resizes

vars == <<mirror, page, phase, parsed, queue, twice, apart, printed, resizes>>

Blank(height) == [y \in 1 .. height |-> 0]
Terminal(height) == [screen |-> Blank(height), past |-> <<>>]
Height(t) == Len(t.screen)

Init ==
  /\ \E height \in Heights : mirror = Terminal(height)
  /\ page = Terminal(0) /\ phase = "closed" /\ parsed = <<>> /\ queue = <<>>
  /\ twice = FALSE /\ apart = FALSE /\ printed = 0 /\ resizes = 0

\* A terminal takes a step of output at row y: write a row, or feed a line, which
\* scrolls at the bottom and only there.  A row below the bottom is the bottom.
Paint(row, y) == [feeds |-> FALSE, row |-> row, y |-> y]
LineFeed(y) == [feeds |-> TRUE, row |-> 0, y |-> y]

Take(t, step) ==
  LET y == Min({step.y, Height(t)}) IN
  IF ~step.feeds THEN [t EXCEPT !.screen[y] = step.row]
  ELSE IF y < Height(t) THEN t
  ELSE [screen |-> Append(Tail(t.screen), 0), past |-> Append(t.past, Head(t.screen))]

TakeAll(t, steps) == FoldLeft(Take, t, steps)

\* pyte.HistoryScreen: of what leaves the screen the newest Lines rows are kept.
Keep(t) ==
  [t EXCEPT !.past = SubSeq(t.past, IF Len(t.past) > Lines THEN Len(t.past) - Lines + 1 ELSE 1, Len(t.past))]

\* The reader thread feeds a chunk of output to the mirror, which parses it up to a
\* sequence it cannot handle.
Feed(chunk, good) ==
  /\ parsed = <<>> /\ parsed' = chunk
  /\ mirror' = Keep(TakeAll(mirror, SubSeq(chunk, 1, good)))
  /\ apart' = (apart \/ (phase = "shown" /\ good < Len(chunk)))
  /\ UNCHANGED <<page, phase, queue, twice, resizes>>

\* A full-screen agent places its rows, and feeds lines at the bottom of its window.
Output ==
  \E n \in 1 .. MaxChunk : \E places \in [1 .. n -> 0 .. Height(mirror)] :
    LET chunk == [i \in 1 .. n |->
                    IF places[i] = 0 THEN LineFeed(Height(mirror)) ELSE Paint(printed + i, places[i])]
    IN /\ printed + n <= MaxPrinted /\ printed' = printed + n
       /\ \E good \in 0 .. n : Feed(chunk, good)

\* ... and then publishes all of it to whoever is subscribed by now.
Publish ==
  /\ parsed # <<>> /\ parsed' = <<>>
  /\ queue' = IF phase = "closed" THEN <<>> ELSE queue \o parsed
  /\ twice' = (twice \/ phase = "subscribed")
  /\ UNCHANGED <<mirror, page, phase, apart, printed, resizes>>

\* VtSnapshot.resize: pyte drops rows from the top, and not into the history.
Fitted(t, height) ==
  LET over == IF height < Height(t) THEN Height(t) - height ELSE 0 IN
  [t EXCEPT !.screen = [y \in 1 .. height |-> IF y + over <= Height(t) THEN t.screen[y + over] ELSE 0]]

Resize(height) ==
  /\ resizes < MaxResizes /\ height # Height(mirror) /\ resizes' = resizes + 1
  /\ mirror' = Fitted(mirror, height) /\ apart' = (phase # "closed")
  /\ UNCHANGED <<page, phase, parsed, queue, twice, printed>>

-----------------------------------------------------------------------------
\* The page's terminal reads text without positions from wherever its cursor is.
Newline(c) ==
  IF c.y < Height(c.t) THEN [c EXCEPT !.y = c.y + 1]
  ELSE [c EXCEPT !.t = Take(c.t, LineFeed(c.y))]
WriteLine(c, row) == Newline([c EXCEPT !.t = Take(c.t, Paint(row, c.y))])

\* Mutant of Render: the frame is painted over the rows still on the page's screen.
RenderOver(m, height) ==
  LET scrolled == FoldLeft(WriteLine, [t |-> Terminal(height), y |-> 1], m.past)
  IN TakeAll(scrolled.t, [y \in DOMAIN m.screen |-> Paint(m.screen[y], y)])

\* VtSnapshot.render, read by a terminal just cleared: the history as lines, a screenful
\* of line feeds if there was any, and every row of the screen at its place.
Render(m, height) ==
  LET scrolled == FoldLeft(WriteLine, [t |-> Terminal(height), y |-> 1], m.past)
      feeds == IF m.past = <<>> THEN <<>> ELSE m.screen
      cleared == FoldLeft(LAMBDA c, row : Newline(c), scrolled, feeds)
  IN TakeAll(cleared.t, [y \in DOMAIN m.screen |-> Paint(m.screen[y], y)])

\* session_ws: the page is subscribed and its terminal cleared ...
Subscribe ==
  /\ phase = "closed" /\ phase' = "subscribed" /\ queue' = <<>>
  /\ \E height \in Heights : page' = Terminal(height)
  /\ UNCHANGED <<mirror, parsed, twice, apart, printed, resizes>>

\* ... and then sent the frame.  Output published in between, or parsed and still to be
\* published, is in the frame and will be in the queue.
SendFrame ==
  /\ phase = "subscribed" /\ phase' = "shown"
  /\ page' = Render(mirror, Height(page)) /\ apart' = FALSE
  /\ twice' = (twice \/ parsed # <<>>)
  /\ UNCHANGED <<mirror, parsed, queue, printed, resizes>>

\* _pump_to_client
Pump ==
  /\ phase = "shown" /\ queue # <<>>
  /\ page' = Take(page, Head(queue)) /\ queue' = Tail(queue)
  /\ UNCHANGED <<mirror, phase, parsed, twice, apart, printed, resizes>>

Close ==
  /\ phase # "closed" /\ phase' = "closed" /\ queue' = <<>> /\ page' = Terminal(0)
  /\ twice' = FALSE /\ apart' = FALSE
  /\ UNCHANGED <<mirror, parsed, printed, resizes>>

Next ==
  \/ Output \/ Publish \/ Subscribe \/ SendFrame \/ Pump \/ Close
  \/ \E height \in Heights : Resize(height)

Spec == Init /\ [][Next]_vars

-----------------------------------------------------------------------------

TypeOK ==
  /\ Height(mirror) \in Heights /\ Len(mirror.past) <= Lines
  /\ phase \in {"closed", "subscribed", "shown"} /\ {twice, apart} \subseteq BOOLEAN

Rows(t) == SelectSeq(t.past \o t.screen, LAMBDA row : row # 0)
CaughtUp == phase = "shown" /\ queue = <<>> /\ parsed = <<>>

\* A page of the window's height that has read everything shows the agent's screen, and
\* above it, in order, with none missing and none twice, every row the mirror has kept;
\* unless output was under way between its subscription and its frame, or the mirror has since
\* failed on some or changed size.
PageIsScreen ==
  CaughtUp /\ Height(page) = Height(mirror) /\ ~twice /\ ~apart =>
    /\ page.screen = mirror.screen
    /\ IsSuffix(Rows(mirror), Rows(page)) /\ IsInjective(Rows(page))

\* The frame never paints over the history: a page no more than a row taller than the
\* window, opened now, can scroll back to every row that has left the screen.
SeamKept ==
  \A height \in Heights : height <= Height(mirror) + 1 =>
    ToSet(mirror.past) \subseteq ToSet(Render(mirror, height).past)

MirrorTrue == PageIsScreen /\ SeamKept
=============================================================================
