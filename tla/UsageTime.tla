----------------------------- MODULE UsageTime -----------------------------
(***************************************************************************)
(* Foreground time: pages report when they are shown and hidden and what   *)
(* is done on them, in batches that may be lost; the server keeps the rows *)
(* within its retention, and adds up from them how long the app was used.  *)
(* Time is in units; the rounding to minutes is left out.                  *)
(***************************************************************************)
EXTENDS Integers, Sequences, FiniteSets, SequencesExt, FiniteSetsExt

CONSTANTS
  Pages,        \* one page visit each
  Device,       \* of each, its device class
  Views,        \* view ids
  FlushAfter,   \* flushMs of the client
  IdleGap,      \* IDLE_GAP_DESKTOP
  MaxInterval,  \* MAX_INTERVAL
  Day, Days,    \* the length of a day; the days a report covers
  MaxAge, Cap,  \* max_age_days, max_rows
  MaxTime, MaxEvents, MaxLost  \* bounds: the clock, events pushed, batches lost

VARIABLES
  now,
  pages,    \* each page: shown or not, its queue, and when its flush timer is due
  rows,     \* the events table, in the order of its ids
  shownAt,  \* history: the units during which each page was shown
  starts,   \* history: when each page came to be shown
  missing,  \* history: the kinds of each page's events that never reached the table or left it
  spent     \* events pushed and batches lost

vars == <<now, pages, rows, shownAt, starts, missing, spent>>

NoView == "(none)"
Trusted(p) == Device[p] \in {"phone", "tablet"}
Least(a, b) == IF a < b THEN a ELSE b
Most(a, b) == IF a < b THEN b ELSE a

Init ==
  /\ now = 0
  /\ pages = [p \in Pages |-> [shown |-> FALSE, queue |-> <<>>, due |-> 0]]
  /\ rows = <<>>
  /\ shownAt = [p \in Pages |-> {}]
  /\ starts = [p \in Pages |-> {}]
  /\ missing = [p \in Pages |-> {}]
  /\ spent = [events |-> 0, lost |-> 0]

-----------------------------------------------------------------------------
\* initUsageLog: push, and flush by the timer or when the page is hidden.

Event(kind, view) == [kind |-> kind, view |-> view]
Push(page, e) ==
  [page EXCEPT !.queue = Append(@, e), !.due = IF page.queue = <<>> THEN now + FlushAfter ELSE @]
MayPush == spent.events < MaxEvents /\ spent' = [spent EXCEPT !.events = @ + 1]

Show(p) ==
  /\ ~pages[p].shown /\ MayPush
  /\ pages' = [pages EXCEPT ![p] = [Push(@, Event("session_start", NoView)) EXCEPT !.shown = TRUE]]
  /\ starts' = [starts EXCEPT ![p] = @ \cup {now}]
  /\ UNCHANGED <<now, rows, shownAt, missing>>

Use(p) ==
  /\ pages[p].shown /\ MayPush
  /\ \E e \in {Event("view", v) : v \in Views} \cup {Event("tap", NoView)} :
       pages' = [pages EXCEPT ![p] = Push(@, e)]
  /\ UNCHANGED <<now, rows, shownAt, starts, missing>>

\* insert_rows and _prune: one transaction stamps and stores the batch, and drops what is
\* too old or beyond the cap, which is a first part of the table.
Old(table) == {i \in DOMAIN table : table[i].ts < now - MaxAge \/ i <= Len(table) - Cap}
Kinds(seq) == {seq[i].kind : i \in DOMAIN seq}

Stored(p, batch) ==
  LET all == rows \o [i \in DOMAIN batch |-> [ts |-> now, page |-> p, kind |-> batch[i].kind, view |-> batch[i].view]]
  IN  /\ rows' = SubSeq(all, Cardinality(Old(all)) + 1, Len(all))
      /\ missing' = [q \in Pages |-> missing[q] \cup {all[i].kind : i \in {k \in Old(all) : all[k].page = q}}]

Lost(p, batch) ==
  /\ rows' = rows
  /\ missing' = [missing EXCEPT ![p] = @ \cup Kinds(batch)]

Flush(p) ==
  /\ pages[p].queue # <<>> /\ now = pages[p].due
  /\ pages' = [pages EXCEPT ![p].queue = <<>>]
  /\ \/ Stored(p, pages[p].queue) /\ UNCHANGED spent
     \/ /\ spent.lost < MaxLost /\ spent' = [spent EXCEPT !.lost = @ + 1]
        /\ Lost(p, pages[p].queue)
  /\ UNCHANGED <<now, shownAt, starts>>

\* onVisibility: the end of the stretch leaves with what is queued.
Hide(p) ==
  LET batch == Append(pages[p].queue, Event("session_end", NoView)) IN
  /\ pages[p].shown /\ spent.events < MaxEvents
  /\ pages' = [pages EXCEPT ![p].queue = <<>>, ![p].shown = FALSE]
  /\ \/ Stored(p, batch) /\ spent' = [spent EXCEPT !.events = @ + 1]
     \/ /\ spent.lost < MaxLost /\ spent' = [events |-> spent.events + 1, lost |-> spent.lost + 1]
        /\ Lost(p, batch)
  /\ UNCHANGED <<now, shownAt, starts>>

Tick ==
  /\ now < MaxTime /\ now' = now + 1
  /\ \A p \in Pages : pages[p].queue # <<>> => now < pages[p].due
  /\ shownAt' = [p \in Pages |-> IF pages[p].shown THEN shownAt[p] \cup {now} ELSE shownAt[p]]
  /\ UNCHANGED <<pages, rows, starts, missing, spent>>

Next == Tick \/ \E p \in Pages : Show(p) \/ Use(p) \/ Flush(p) \/ Hide(p)

Spec == Init /\ [][Next]_vars

-----------------------------------------------------------------------------
\* foreground_time over the table.

\* Mutant of Opens: only a lost start is noticed, not a lost end.
OpensUnlessOpen(kind, open) == ~open

\* _visit_intervals: the rows of one visit, in the order of their ids, as stretches.
Opens(kind, open) == kind = "session_start" \/ ~open
VisitIntervals(p) ==
  LET Step(acc, i) ==
        LET r == rows[i]
            view == IF r.kind = "view" THEN r.view ELSE acc.view
            fresh == [start |-> r.ts, order |-> i, device |-> Device[p],
                      points |-> <<r.ts>>, views |-> <<[from |-> r.ts, view |-> view]>>]
            last == acc.all[Len(acc.all)]
            longer == [last EXCEPT !.points = Append(@, r.ts),
                         !.views = IF r.kind = "view" THEN Append(@, [from |-> r.ts, view |-> view]) ELSE @]
        IN  IF r.page # p THEN acc
            ELSE [all |-> IF Opens(r.kind, acc.open) THEN Append(acc.all, fresh)
                          ELSE [acc.all EXCEPT ![Len(acc.all)] = longer],
                  open |-> r.kind # "session_end", view |-> view]
      done == FoldLeft(Step, [all |-> <<>>, open |-> FALSE, view |-> NoView], [i \in DOMAIN rows |-> i])
  IN  {done.all[k] : k \in DOMAIN done.all}

\* _active_spans.
ActiveSpans(iv) ==
  LET n == Len(iv.points) IN
  IF iv.device \in {"phone", "tablet"}
  THEN {[from |-> iv.start, to |-> Least(iv.points[n], iv.start + MaxInterval)]}
  ELSE {[from |-> iv.points[k], to |-> Least(iv.points[k + 1], iv.points[k] + IdleGap)] : k \in 1 .. n - 1}

\* _view_slices: spans clipped to the window and cut where the view changes.
ViewSlices(iv, since, until) ==
  LET Cut(span, k) ==
        LET a == Most(span.from, since)
            b == Least(span.to, until)
            to == IF k < Len(iv.views) THEN iv.views[k + 1].from ELSE b
        IN  [lo |-> Most(a, iv.views[k].from), hi |-> Least(b, to), device |-> iv.device,
             view |-> iv.views[k].view, start |-> iv.start, order |-> iv.order]
  IN  {s \in {Cut(span, k) : span \in ActiveSpans(iv), k \in DOMAIN iv.views} : s.lo < s.hi}

Lookback == Most(IdleGap, MaxInterval)

Seen(p, since, until) ==
  \E i \in DOMAIN rows : rows[i].page = p /\ rows[i].ts \in since - Lookback .. until

Slices(since, until) ==
  UNION {ViewSlices(iv, since, until) : iv \in UNION {VisitIntervals(p) : p \in {q \in Pages : Seen(q, since, until)}}}

\* _sweep: the pieces between neighbouring edges and midnights, with the slices over each.
Pieces(slices, cuts) ==
  LET points == {s.lo : s \in slices} \cup {s.hi : s \in slices} \cup cuts
      neighbours == {e \in points \X points : e[1] < e[2] /\ \A x \in points : ~(e[1] < x /\ x < e[2])}
      piece == {[lo |-> e[1], hi |-> e[2], active |-> {s \in slices : s.lo <= e[1] /\ e[1] < s.hi}] : e \in neighbours}
  IN  {q \in piece : q.active # {}}

Latest(active) ==
  CHOOSE s \in active : \A t \in active : t.start < s.start \/ (t.start = s.start /\ t.order <= s.order)

\* local_window: the days up to today; the report's sums over the pieces.
Since == (now \div Day - (Days - 1)) * Day
Report ==
  LET days == (Since \div Day) .. (now \div Day)
      cuts == {now} \cup {d * Day : d \in days}
      pieces == Pieces(Slices(Since, now), cuts)
      Sum(some) == MapThenSumSet(LAMBDA q : q.hi - q.lo, some)
      In(d) == {q \in pieces : q.lo \div Day = d}
  IN  [total |-> [d \in days |-> Sum(In(d))],
       device |-> [d \in days, c \in {Device[p] : p \in Pages} |->
                     Sum({q \in In(d) : \E s \in q.active : s.device = c})],
       view |-> [d \in days, v \in Views \cup {NoView} |->
                   Sum({q \in In(d) : Latest(q.active).view = v})]]

-----------------------------------------------------------------------------
TypeOK ==
  /\ now \in 0 .. MaxTime
  /\ \A p \in Pages : pages[p].shown \in BOOLEAN /\ pages[p].due \in 0 .. MaxTime + FlushAfter
  /\ \A i \in DOMAIN rows : rows[i].page \in Pages /\ rows[i].ts \in 0 .. now
  /\ Len(rows) <= Cap
  /\ \A p \in Pages : shownAt[p] \subseteq 0 .. MaxTime - 1

\* The rules read off the table unit by unit: row i and the next one of its visit enclose
\* unit u, the stretch is open between them, and it is not cut there.
NextRow(i) == {j \in DOMAIN rows : j > i /\ rows[j].page = rows[i].page
                 /\ \A k \in i + 1 .. j - 1 : rows[k].page # rows[i].page}
PrevRow(i) == {j \in DOMAIN rows : i \in NextRow(j)}
Opening(i) == rows[i].kind = "session_start" \/ \A j \in PrevRow(i) : rows[j].kind = "session_end"
OpenedBy(i) ==
  CHOOSE k \in {j \in 1 .. i : rows[j].page = rows[i].page /\ Opening(j)} :
    \A j \in k + 1 .. i : rows[j].page = rows[i].page => ~Opening(j)
Encloses(i, u) ==
  /\ rows[i].ts <= u /\ rows[i].kind # "session_end"
  /\ \E j \in NextRow(i) : u < rows[j].ts /\ rows[j].kind # "session_start"
  /\ IF Trusted(rows[i].page) THEN u < rows[OpenedBy(i)].ts + MaxInterval ELSE u < rows[i].ts + IdleGap
At(u) == {i \in DOMAIN rows : Encloses(i, u)}
ViewAt(i) ==
  LET seen == {j \in 1 .. i : rows[j].page = rows[i].page /\ rows[j].kind = "view"} IN
  IF seen = {} THEN NoView ELSE rows[CHOOSE j \in seen : \A k \in seen : k <= j].view
Foremost(some) ==
  CHOOSE i \in some : \A j \in some :
    \/ rows[OpenedBy(j)].ts < rows[OpenedBy(i)].ts
    \/ rows[OpenedBy(j)].ts = rows[OpenedBy(i)].ts /\ OpenedBy(j) <= OpenedBy(i)

\* The report of foreground_time is the rules' own count: a unit counts once in its day's
\* total however many pages were open, once for each device class, and for one view only.
ReportExact ==
  LET report == Report
      at == [u \in Since .. now - 1 |-> At(u)]
      Units(d) == {u \in Since .. now - 1 : u \div Day = d /\ at[u] # {}}
  IN
  /\ \A d \in DOMAIN report.total : report.total[d] = Cardinality(Units(d))
  /\ \A e \in DOMAIN report.device :
       report.device[e] = Cardinality({u \in Units(e[1]) : \E i \in at[u] : Device[rows[i].page] = e[2]})
  /\ \A e \in DOMAIN report.view :
       report.view[e] = Cardinality({u \in Units(e[1]) : ViewAt(Foremost(at[u])) = e[2]})

\* Time that counts was spent looking at the page, unless both the end of one stretch and the
\* start of another were lost.
CountedWasShown ==
  \A u \in 0 .. now - 1 : \A i \in At(u) :
    LET p == rows[i].page IN u \in shownAt[p] \/ {"session_start", "session_end"} \subseteq missing[p]

\* On a phone that lost nothing, time shown counts, from the first flush of a stretch to its
\* end or until it has lasted the longest a stretch may count.
ShownCounts ==
  \A p \in Pages : Trusted(p) /\ missing[p] = {} /\ ~pages[p].shown =>
    \A u \in shownAt[p] :
      \/ \E i \in At(u) : rows[i].page = p
      \/ \E w \in starts[p] : w <= u /\ u < w + FlushAfter
      \/ u - MaxInterval .. u \subseteq shownAt[p]

\* What the report says of foreground time.
MinutesTrue == ReportExact /\ CountedWasShown /\ ShownCounts
=============================================================================
