---------------------------- MODULE HostFreshness ----------------------------
(***************************************************************************)
(* What /api/version says of the session-host: whether the code it loaded, *)
(* perhaps days ago, is what the remote default branch has by now.  The    *)
(* host takes its identity from git while it starts; each request asks the *)
(* host, git for the deployed revision, and the checkout's CLAUDE.md for   *)
(* the paths that count, while pulls and checkouts go on.                  *)
(***************************************************************************)
EXTENDS Naturals, Sequences

CONSTANTS
  Trees,       \* revision -> its files, and the paths its CLAUDE.md declares
  Trunk,       \* the revisions the default branch goes through
  Pointers,    \* states of origin/HEAD and of the branches behind it
  Attempts,    \* CAPTURE_ATTEMPTS
  MaxSwitches, \* bound: checkouts
  MaxStarts,   \* bound: starts of the host
  MaxTrouble   \* bound: git calls that fail, host calls that time out

VARIABLES
  head,        \* revision of the checkout
  merged,      \* how far the remote-tracking branch has come
  pointer,
  host,        \* the session-host
  ask,         \* the request under way: what it has read so far
  switches, starts, trouble

vars == <<head, merged, pointer, host, ask, switches, starts, trouble>>

Revisions == DOMAIN Trees
Unknown == 0
Deployed == Trunk[merged]
NoHost == [at |-> "down", runs |-> Unknown, sha |-> Unknown, moved |-> FALSE, failed |-> 0]
NoAsk == [at |-> "none", host |-> NoHost, deployed |-> Unknown, truth |-> Unknown,
          declares |-> {}, stale |-> "unknown", relevant |-> "unknown", failed |-> FALSE]

Init ==
  /\ head = Trunk[1] /\ merged = 1 /\ pointer \in Pointers
  /\ host = NoHost /\ ask = NoAsk /\ switches = 0 /\ starts = 0 /\ trouble = 0

\* A worker takes the primary checkout to a branch, or back.
Checkout(revision) ==
  /\ switches < MaxSwitches /\ switches' = switches + 1
  /\ revision # head /\ head' = revision
  /\ UNCHANGED <<merged, pointer, host, ask, starts, trouble>>

Pull ==
  /\ merged < Len(Trunk) /\ merged' = merged + 1
  /\ UNCHANGED <<head, pointer, host, ask, switches, starts, trouble>>

\* A git call answers, or does not.
Works == UNCHANGED trouble
Fails == trouble < MaxTrouble /\ trouble' = trouble + 1

-----------------------------------------------------------------------------
\* The session-host: its modules are loaded, then build_identity asks git.

Start ==
  /\ starts < MaxStarts /\ starts' = starts + 1
  /\ host' = [NoHost EXCEPT !.at = "importing", !.runs = head]
  /\ UNCHANGED <<head, merged, pointer, ask, switches, trouble>>

Capture ==
  /\ host.at = "importing"
  /\ \/ Works /\ host' = [host EXCEPT !.at = "up", !.sha = head, !.moved = head # host.runs]
     \/ Fails /\ host' = [host EXCEPT !.failed = @ + 1,
                                      !.at = IF host.failed + 1 = Attempts THEN "up" ELSE @]
  /\ UNCHANGED <<head, merged, pointer, ask, switches, starts>>

-----------------------------------------------------------------------------
\* A request to /api/version: identity and resolve_deployed_sha, side by side.

NoneUnderWay == ask.at \in {"none", "answered"}
Answers(identity) == [NoAsk EXCEPT !.at = "deployed", !.host = identity]

\* Mutant of AskHost: the host resolves its identity anew for each answer.
AskHostResolvedAnew ==
  /\ NoneUnderWay /\ Works
  /\ ask' = Answers(IF host.at = "up" THEN [host EXCEPT !.sha = head] ELSE NoHost)
  /\ UNCHANGED <<head, merged, pointer, host, switches, starts>>

\* session_client.identity, of a host that may not be there or not answer in time.
AskHost ==
  /\ NoneUnderWay
  /\ \/ Works /\ ask' = Answers(IF host.at = "up" THEN host ELSE NoHost)
     \/ Fails /\ ask' = [Answers(NoHost) EXCEPT !.failed = TRUE]
  /\ UNCHANGED <<head, merged, pointer, host, switches, starts>>

\* _resolve_default_remote_ref: origin/HEAD when it is set, wherever it leads, else
\* the first of origin/main and origin/master there is.
Resolvable == pointer \in {"set", "main", "master"}

AskDeployed ==
  /\ ask.at = "deployed"
  /\ \/ Works /\ ask' = [ask EXCEPT !.at = "scope", !.deployed = IF Resolvable THEN Deployed ELSE Unknown,
                                    !.truth = Deployed]
     \/ Fails /\ ask' = [ask EXCEPT !.at = "scope", !.failed = TRUE, !.truth = Deployed]
  /\ UNCHANGED <<head, merged, pointer, host, switches, starts>>

Known == ask.host.sha # Unknown /\ ask.deployed # Unknown
Same == ask.host.sha = ask.deployed

\* touched_by, of what git diff lists between the two revisions.
Touched(declares) == \E p \in declares : Trees[ask.host.sha][p] # Trees[ask.deployed][p]

\* declared_session_host_paths, of the checkout as it is.
Declared == Trees[head].declares

\* _session_host_freshness: no answer is ever a guess.
Judge ==
  LET declares == Declared
      says(b) == IF b THEN "yes" ELSE "no" IN
  /\ ask.at = "scope"
  /\ \/ /\ Works
        /\ ask' = [ask EXCEPT !.at = "answered", !.declares = declares,
                     !.stale = IF Known THEN says(~Same) ELSE "unknown",
                     !.relevant = IF ~Known \/ (~Same /\ declares = {}) THEN "unknown"
                                  ELSE says(~Same /\ Touched(declares))]
     \/ /\ Known /\ ~Same /\ declares # {} /\ Fails
        /\ ask' = [ask EXCEPT !.at = "answered", !.declares = declares, !.stale = "yes", !.failed = TRUE]
  /\ UNCHANGED <<head, merged, pointer, host, switches, starts>>

Next ==
  \/ Pull \/ Start \/ Capture \/ AskHost \/ AskDeployed \/ Judge
  \/ \E revision \in Revisions : Checkout(revision)

Spec == Init /\ [][Next]_vars

-----------------------------------------------------------------------------

TypeOK ==
  /\ head \in Revisions /\ merged \in DOMAIN Trunk /\ pointer \in Pointers
  /\ host.at \in {"down", "importing", "up"} /\ host.failed <= Attempts
  /\ {ask.stale, ask.relevant} \subseteq {"unknown", "yes", "no"}

\* "Nothing to restart for" is true when it is said: the host runs the code of the
\* host's files that was deployed when git was asked.  Two exceptions: a checkout
\* that moved between the load of the modules and the capture, and one that is on a
\* branch whose CLAUDE.md does not declare the file.
NoFalseAllClear ==
  ask.at = "answered" /\ ask.relevant = "no" =>
    \/ Trees[ask.host.runs]["host"] = Trees[ask.truth]["host"]
    \/ ask.host.moved
    \/ ask.host.sha # ask.deployed /\ "host" \notin ask.declares

\* A restart is asked for only when it would change a file the host declares.
NoFalseAlarm ==
  ask.at = "answered" /\ ask.relevant = "yes" =>
    ask.stale = "yes" /\ \E p \in ask.declares : Trees[ask.host.sha][p] # Trees[ask.truth][p]

\* Git trouble, a host out of reach or with no identity make the answer unknown, and
\* nothing else does but a remote or a declaration that is not there.
UnknownForCause ==
  ask.at = "answered" =>
    /\ ask.host.sha = Unknown => ask.stale = "unknown" /\ ask.relevant = "unknown"
    /\ ask.relevant = "unknown" =>
         \/ ask.failed \/ ask.host.at = "down" \/ ask.host.failed = Attempts
         \/ ~Resolvable \/ ask.declares = {}

FreshnessHonest == NoFalseAllClear /\ NoFalseAlarm /\ UnknownForCause
=============================================================================
