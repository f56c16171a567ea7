------------------------------ MODULE IssueCards ------------------------------
(***************************************************************************)
(* The Board's issue cards: the open issues of a GitLab group and those    *)
(* closed today, kept in one cache that is replaced only when a page asks, *)
(* by two queries that take their time.                                    *)
(***************************************************************************)
EXTENDS Integers, FiniteSets, FiniteSetsExt

CONSTANTS
  Issues,
  GroupOf,     \* the group an issue is in
  Groups,      \* what gitlab_group may say
  Meta,        \* issues labelled as bookkeeping
  Pages,
  Limit,       \* _ISSUE_LIMIT
  Day,         \* length of a day
  MaxTime      \* bound

VARIABLES
  closedAt,    \* when an issue was closed, Open while it is not
  changed,     \* when it was last closed or reopened
  now,
  fetch,       \* refresh: the queries of each page's request
  cache        \* _cache, and the group its data is of

vars == <<closedAt, changed, now, fetch, cache>>

Open == -1
None == -1
NoGroup == ""   \* not configured
DayOf(t) == t - (t % Day)
Midnight == DayOf(now)
Empty == [at |-> None, issues |-> {}, done |-> {}, error |-> FALSE, of |-> NoGroup]
Idle == [stage |-> "idle", at |-> None, of |-> NoGroup, issues |-> {}, done |-> {}]

Init ==
  /\ closedAt = [i \in Issues |-> Open] /\ changed = [i \in Issues |-> -1]
  /\ now = 0 /\ fetch = [p \in Pages |-> Idle] /\ cache = Empty

Tick == now < MaxTime /\ now' = now + 1 /\ UNCHANGED <<closedAt, changed, fetch, cache>>

CloseOrReopen(i) ==
  /\ changed[i] < now
  /\ closedAt' = [closedAt EXCEPT ![i] = IF @ = Open THEN now ELSE Open]
  /\ changed' = [changed EXCEPT ![i] = now]
  /\ UNCHANGED <<now, fetch, cache>>

\* Mutant of Refresh: the time of a fetch is taken when it is done.
RefreshDatedLate(p) ==
  /\ fetch[p].stage = "queried" /\ fetch' = [fetch EXCEPT ![p] = Idle]
  /\ cache' = [at |-> now, issues |-> fetch[p].issues, done |-> fetch[p].done, error |-> FALSE, of |-> fetch[p].of]
  /\ UNCHANGED <<closedAt, changed, now>>

\* refresh: both queries are in, the cache is replaced.
Refresh(p) ==
  /\ fetch[p].stage = "queried" /\ fetch' = [fetch EXCEPT ![p] = Idle]
  /\ cache' = [at |-> fetch[p].at, issues |-> fetch[p].issues, done |-> fetch[p].done, error |-> FALSE,
               of |-> fetch[p].of]
  /\ UNCHANGED <<closedAt, changed, now>>

\* A page asks, on a tap or because its data is old; one request of a page at a time.
\* The setting may have changed since, which leaves the cache as it is.
\* Without a group nothing is queried, and the cache gets a hint for its error.
Ask(p, group) ==
  /\ fetch[p].stage = "idle"
  /\ IF group = NoGroup THEN fetch' = fetch /\ cache' = [cache EXCEPT !.error = TRUE]
     ELSE cache' = cache /\ fetch' = [fetch EXCEPT ![p] = [Idle EXCEPT !.stage = "asked", !.at = now, !.of = group]]
  /\ UNCHANGED <<closedAt, changed, now>>

\* What the API answers: at most Limit rows, the last changed.
Answer(rows) ==
  {S \in SUBSET rows : Cardinality(S) = Min({Limit, Cardinality(rows)})
                        /\ \A i \in S, j \in rows \ S : changed[i] >= changed[j]}

\* search_open_issues
QueryOpen(p) ==
  /\ fetch[p].stage = "asked"
  /\ \E rows \in Answer({i \in Issues : GroupOf[i] = fetch[p].of /\ closedAt[i] = Open}) :
       fetch' = [fetch EXCEPT ![p].stage = "opened", ![p].issues = rows \ Meta]
  /\ UNCHANGED <<closedAt, changed, now, cache>>

\* search_done_today: closed rows changed since midnight, and of those what was closed
\* since then.
QueryDone(p) ==
  /\ fetch[p].stage = "opened"
  /\ \E rows \in Answer({i \in Issues : GroupOf[i] = fetch[p].of /\ closedAt[i] # Open /\ changed[i] >= Midnight}) :
       fetch' = [fetch EXCEPT ![p].stage = "queried", ![p].done = {i \in rows \ Meta : closedAt[i] >= Midnight}]
  /\ UNCHANGED <<closedAt, changed, now, cache>>

\* glab fails on either query: the data stays, under an error.
Fail(p) ==
  /\ fetch[p].stage \in {"asked", "opened"} /\ fetch' = [fetch EXCEPT ![p] = Idle]
  /\ cache' = [cache EXCEPT !.error = TRUE]
  /\ UNCHANGED <<closedAt, changed, now>>

Next ==
  \/ Tick
  \/ \E i \in Issues : CloseOrReopen(i)
  \/ \E p \in Pages, group \in Groups : Ask(p, group)
  \/ \E p \in Pages : QueryOpen(p) \/ QueryDone(p) \/ Refresh(p) \/ Fail(p)

Spec == Init /\ [][Next]_vars

-----------------------------------------------------------------------------

TypeOK ==
  /\ \A p \in Pages : fetch[p].stage \in {"idle", "asked", "opened", "queried"} /\ fetch[p].at <= now
  /\ cache.at <= now /\ cache.issues \cup cache.done \subseteq Issues

\* build_board and get_board: the columns a page draws.
Backlog == cache.issues
Done == cache.done

\* The answer may have left an issue out.
Crowded(i) == Cardinality({j \in Issues \ {i} : GroupOf[j] = GroupOf[i] /\ changed[j] >= changed[i]}) >= Limit

\* Whatever order the requests end in, an issue of the group fetched that has not been
\* touched since the time the cache shows is in the column it belongs to: the backlog
\* while open; if closed, done, at least while the day it was closed on lasts, and not
\* if it was closed before the day of the fetch.  Not so past the API's limit, which
\* bookkeeping issues use up like any other.
CardsTrue ==
  cache.at # None => \A i \in Issues \ Meta :
    GroupOf[i] = cache.of /\ changed[i] < cache.at =>
      /\ i \in Backlog => closedAt[i] = Open
      /\ i \in Done => closedAt[i] # Open /\ closedAt[i] >= DayOf(cache.at)
      /\ closedAt[i] = Open => i \in Backlog \/ Crowded(i)
      /\ closedAt[i] # Open /\ closedAt[i] >= Midnight => i \in Done \/ Crowded(i)

\* A card is of the group fetched and never bookkeeping; one issue in both columns, or a
\* closed one in the backlog, was touched after the fetch began.
CardsForCause ==
  /\ \A i \in Backlog \cup Done : i \notin Meta /\ GroupOf[i] = cache.of
  /\ \A i \in Backlog : closedAt[i] = Open \/ changed[i] >= cache.at
  /\ \A i \in Backlog \cap Done : changed[i] >= cache.at

IssuesTrue == CardsTrue /\ CardsForCause
=============================================================================
