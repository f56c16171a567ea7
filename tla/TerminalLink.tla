---------------------------- MODULE TerminalLink ----------------------------
(***************************************************************************)
(* The pages that show one terminal session, the webapp's proxy between    *)
(* each page and the session host, and the one PTY whose size the phones   *)
(* set and the mirror on the PC follows: links drop, pages reconnect, the  *)
(* session ends.                                                           *)
(***************************************************************************)
EXTENDS Naturals, Sequences

CONSTANTS
  Phones,     \* pages that set the size of the PTY
  Mirrors,    \* pages on the PC, which follow it
  Sizes,      \* sizes a page may fit, 0 for none yet
  MaxTurns,   \* bound: times a phone is turned
  MaxDrops    \* bound: links that drop

Pages == Phones \cup Mirrors

VARIABLES
  alive,    \* the session's process
  pty,      \* (rows, cols) of the session, 0 as created
  shown,    \* what each page shows: live, retry, tap, ended
  size,     \* size of its terminal
  sent,     \* lastSentSize, 0 for null
  up,       \* resize frames on the way from each page to the session host
  owner,    \* history: the phone whose frame was applied last
  lost,     \* history: phones with a frame lost on the way
  turns, drops

vars == <<alive, pty, shown, size, sent, up, owner, lost, turns, drops>>

Nobody == "nobody"
Open(p) == shown[p] = "live"

Init ==
  /\ alive = TRUE /\ pty = 0 /\ owner = Nobody /\ lost = {} /\ turns = 0 /\ drops = 0
  /\ shown = [p \in Pages |-> "retry"] /\ size \in [Pages -> Sizes]
  /\ sent = [p \in Pages |-> 0] /\ up = [p \in Pages |-> << >>]

\* Mutant of Fit: the size counts as sent whether the socket is open or not.
FitAnyway(p, fitted, open) ==
  /\ size' = [size EXCEPT ![p] = fitted]
  /\ sent' = [sent EXCEPT ![p] = fitted]
  /\ up' = IF open /\ fitted # sent[p] THEN [up EXCEPT ![p] = Append(@, fitted)] ELSE up

\* applyTerminalSize: a mirror takes the size last listed; a phone fits its own
\* and sends it when its socket is open and it is not the size sent last.
Fit(p, fitted, open) ==
  /\ size' = [size EXCEPT ![p] = fitted]
  /\ IF p \in Phones /\ open /\ fitted # sent[p]
     THEN sent' = [sent EXCEPT ![p] = fitted] /\ up' = [up EXCEPT ![p] = Append(@, fitted)]
     ELSE UNCHANGED <<sent, up>>

\* The phone is turned, its keyboard opens or closes.
Turn(p) ==
  /\ p \in Phones /\ turns < MaxTurns /\ turns' = turns + 1
  /\ \E fitted \in Sizes \ {size[p]} : Fit(p, fitted, Open(p))
  /\ UNCHANGED <<alive, pty, shown, owner, lost, drops>>

\* The mirror's timer lists the sessions and fits what it finds.
Follow(p) ==
  /\ p \in Mirrors /\ pty # 0
  /\ Fit(p, pty, Open(p))
  /\ UNCHANGED <<alive, pty, shown, owner, lost, turns, drops>>

\* proxy_session_ws and onopen: the host of a live session attaches the page.
Connect(p) ==
  /\ shown[p] \in {"retry", "tap"} /\ alive
  /\ shown' = [shown EXCEPT ![p] = "live"]
  /\ Fit(p, size[p], TRUE)
  /\ UNCHANGED <<alive, pty, owner, lost, turns, drops>>

\* The host refuses a session it no longer has and the proxy closes with 4502:
\* the page tries again until it gives up.
Refused(p) ==
  /\ shown[p] = "retry" /\ ~alive
  /\ shown' = [shown EXCEPT ![p] = "tap"]
  /\ UNCHANGED <<alive, pty, size, sent, up, owner, lost, turns, drops>>

\* client_to_upstream and _pump_from_client: frames of a mirror are not obeyed.
Deliver(p) ==
  /\ up[p] # << >> /\ Open(p) /\ alive
  /\ up' = [up EXCEPT ![p] = Tail(@)]
  /\ IF p \in Phones THEN pty' = Head(up[p]) /\ owner' = p ELSE UNCHANGED <<pty, owner>>
  /\ UNCHANGED <<alive, shown, size, sent, lost, turns, drops>>

\* A link that goes takes the frames on their way with it.
Cut(p, code) ==
  /\ shown' = [shown EXCEPT ![p] = IF code = 4000 THEN "ended" ELSE "retry"]
  /\ up' = [up EXCEPT ![p] = << >>]
  /\ lost' = IF up[p] # << >> THEN lost \cup {p} ELSE lost
  /\ UNCHANGED <<alive, pty, size, sent, owner, turns>>

\* The network or a restart of the webapp.
Drop(p) == Open(p) /\ drops < MaxDrops /\ drops' = drops + 1 /\ Cut(p, 1006)

SessionEnds == alive /\ alive' = FALSE /\ UNCHANGED <<pty, shown, size, sent, up, owner, lost, turns, drops>>

\* The host closed its side with 4000. The proxy passes that on unless its other
\* task, sending what the page typed, or the library's iteration raised before.
RelayEnd(p) == Open(p) /\ ~alive /\ (\E code \in {4000, 1006} : Cut(p, code)) /\ UNCHANGED drops

Next ==
  \/ \E p \in Pages : Turn(p) \/ Follow(p) \/ Connect(p) \/ Refused(p) \/ Deliver(p) \/ Drop(p) \/ RelayEnd(p)
  \/ SessionEnds

Spec == Init /\ [][Next]_vars

-----------------------------------------------------------------------------
TypeOK ==
  /\ alive \in BOOLEAN /\ pty \in Sizes \cup {0} /\ size \in [Pages -> Sizes]
  /\ shown \in [Pages -> {"live", "retry", "tap", "ended"}] /\ lost \subseteq Phones

(* "The phone drives the PTY size": once its frames have arrived the PTY has *)
(* the size of the connected phone that sized it last, across reconnects    *)
(* that send nothing, unless a frame of it was lost with its link.          *)
SizeFollows ==
  \A p \in Phones : Open(p) /\ alive /\ up[p] = << >> /\ owner = p => pty = size[p] \/ p \in lost

(* Every connected phone has told the PTY its size at some time, so a page  *)
(* that opens on an agent never leaves it at the size it was created with.  *)
Sized == \A p \in Phones : Open(p) /\ alive /\ up[p] = << >> => pty # 0 \/ p \in lost

\* A page says the session ended only when it has.
EndedIsTrue == \A p \in Pages : shown[p] = "ended" => ~alive

LinkSound == SizeFollows /\ Sized /\ EndedIsTrue
=============================================================================
