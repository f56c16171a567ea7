----------------------------- MODULE RunLaunch ------------------------------
(***************************************************************************)
(* What the launcher promises of each run, whoever fires, queues, drains,  *)
(* kills and reaps: it is started at most once, and not once it is over;   *)
(* it is announced (chained, notified, drained for) at most once and not   *)
(* while it works; what its record says at the end was not said while it   *)
(* worked, unless it was a kill; and what is on record stays, unless the   *)
(* whole record is forgotten.                                              *)
(***************************************************************************)
CONSTANTS
  Runs,
  Forgets     \* whether records may be forgotten

VARIABLES
  life,       \* run -> "absent", "waiting", "working" or "ended"
  verdict,    \* run -> what is on record: "open", "over" or "killed"
  announced   \* runs whose follow-ups have begun

launchVars == <<life, verdict, announced>>

Init ==
  /\ life = [r \in Runs |-> "absent"]
  /\ verdict = [r \in Runs |-> "open"]
  /\ announced = {}

Admit(r) ==
  /\ life[r] = "absent" /\ life' = [life EXCEPT ![r] = "waiting"]
  /\ UNCHANGED <<verdict, announced>>

Start(r) ==
  /\ life[r] = "waiting" /\ verdict[r] # "over"
  /\ life' = [life EXCEPT ![r] = "working"]
  /\ UNCHANGED <<verdict, announced>>

End(r) ==
  /\ life[r] = "working" /\ life' = [life EXCEPT ![r] = "ended"]
  /\ UNCHANGED <<verdict, announced>>

\* A kill may be put on record while the run works, or just after it ended.
Kill(r) ==
  /\ life[r] # "absent" /\ verdict' = [verdict EXCEPT ![r] = "killed"]
  /\ UNCHANGED <<life, announced>>

\* The record of r is closed, and some records of runs that do not work may
\* be forgotten.
Closes(r) ==
  \E gone \in SUBSET {s \in Runs : Forgets /\ life[s] # "working"} :
    verdict' = [s \in Runs |-> IF s \in gone THEN "open"
                               ELSE IF s = r /\ verdict[s] = "open" THEN "over"
                               ELSE verdict[s]]

\* It is found to have ended, or given up before it was started.
Close(r) ==
  /\ life[r] \in {"waiting", "ended"} /\ Closes(r)
  /\ UNCHANGED <<life, announced>>

\* Its executor is done with it; one that could not be started ends here.
Announce(r) ==
  /\ life[r] \in {"waiting", "ended"} /\ r \notin announced
  /\ life' = [life EXCEPT ![r] = "ended"]
  /\ Closes(r)
  /\ announced' = announced \cup {r}

Next ==
  \E r \in Runs : Admit(r) \/ Start(r) \/ End(r) \/ Kill(r) \/ Close(r) \/ Announce(r)

Spec == Init /\ [][Next]_launchVars
=============================================================================
