---------------------------- MODULE ScreenStream ----------------------------
(***************************************************************************)
(* The Screen view: the loop that grabs one monitor and sends a frame when *)
(* it changed and the last one was acked, the task that reads the acks,    *)
(* the socket, and the page, which acks what it has drawn, drops the       *)
(* socket while it is hidden and comes back with a new one.                *)
(***************************************************************************)
EXTENDS Naturals, Sequences

CONSTANTS
  Contents,        \* what the monitor can show
  MaxConnecting,   \* bound: sockets the page is opening
  MaxWire          \* messages a socket holds

VARIABLES
  desktop,      \* what the monitor shows, or Locked
  loop,         \* stream_frames: where it is
  image,        \* what it grabbed
  lastDigest, unavailable, acked, stopped,
  wire,         \* frames and statuses on their way to the page
  ackWire,      \* acks on their way back
  page          \* [visible, socket, opening, frame, shows]

vars == <<desktop, loop, image, lastDigest, unavailable, acked, stopped, wire, ackWire, page>>
server == <<loop, image, lastDigest, unavailable, acked, stopped>>

Locked == "locked"
None == "none"
Status == {"unavailable", "live"}
Pages == [visible : BOOLEAN, socket : BOOLEAN, opening : 0..MaxConnecting,
          frame : Contents \cup {None}, shows : {"loading", "ready", "stale", "error"}]

Init ==
  /\ desktop \in Contents
  /\ loop = "done" /\ image = None /\ lastDigest = None
  /\ unavailable = FALSE /\ acked = FALSE /\ stopped = TRUE
  /\ wire = <<>> /\ ackWire = 0
  /\ page = [visible |-> TRUE, socket |-> FALSE, opening |-> 1, frame |-> None, shows |-> "loading"]

DesktopChanges ==
  /\ desktop' \in (Contents \cup {Locked}) \ {desktop}
  /\ UNCHANGED <<server, wire, ackWire, page>>

Goes(to) == loop' = to
\* Sending waits while the socket's buffer is full.
Send(messages) ==
  /\ Len(wire) + Len(messages) <= MaxWire
  /\ wire' = IF page.socket THEN wire \o messages ELSE wire

\* The loop waits until the last frame is acked; a disconnect ends it.
AwaitAck ==
  /\ loop = "await ack" /\ (acked \/ stopped)
  /\ Goes(IF stopped THEN "done" ELSE "grab")
  /\ UNCHANGED <<desktop, image, lastDigest, unavailable, acked, stopped, wire, ackWire, page>>

GrabUnavailable ==
  /\ loop = "grab" /\ desktop = Locked
  /\ unavailable' = TRUE /\ Send(IF unavailable THEN <<>> ELSE <<"unavailable">>)
  /\ Goes("pause")
  /\ UNCHANGED <<desktop, image, lastDigest, acked, stopped, ackWire, page>>

\* Mutant of GrabFrame: the frame sent before the interruption still counts as sent.
GrabFrameResumes ==
  /\ loop = "grab" /\ desktop # Locked
  /\ unavailable' = FALSE /\ Send(IF unavailable THEN <<"live">> ELSE <<>>)
  /\ image' = desktop
  /\ Goes(IF lastDigest = desktop THEN "pause" ELSE "encode")
  /\ UNCHANGED <<desktop, lastDigest, acked, stopped, ackWire, page>>

\* After an interruption the digest is forgotten, so that a frame is sent at once.
GrabFrame ==
  /\ loop = "grab" /\ desktop # Locked
  /\ unavailable' = FALSE /\ Send(IF unavailable THEN <<"live">> ELSE <<>>)
  /\ lastDigest' = IF unavailable THEN None ELSE lastDigest
  /\ image' = desktop
  /\ Goes(IF lastDigest' = desktop THEN "pause" ELSE "encode")
  /\ UNCHANGED <<desktop, acked, stopped, ackWire, page>>

\* The frame was encoded in a thread; the viewer may be gone by now.
SendFrame ==
  /\ loop = "encode"
  /\ IF stopped THEN Goes("done") /\ UNCHANGED <<lastDigest, acked, wire>>
                ELSE /\ acked' = FALSE /\ Send(<<image>>)
                     /\ lastDigest' = image /\ Goes("pause")
  /\ UNCHANGED <<desktop, image, unavailable, stopped, ackWire, page>>

Pause ==
  /\ loop = "pause" /\ Goes(IF stopped THEN "done" ELSE "await ack")
  /\ UNCHANGED <<desktop, image, lastDigest, unavailable, acked, stopped, wire, ackWire, page>>

\* _read_acks
ReadAck ==
  /\ ackWire > 0 /\ ~stopped /\ ackWire' = ackWire - 1 /\ acked' = TRUE
  /\ UNCHANGED <<desktop, loop, image, lastDigest, unavailable, stopped, wire, page>>
ReadDisconnect ==
  /\ ~page.socket /\ ~stopped /\ stopped' = TRUE
  /\ UNCHANGED <<desktop, loop, image, lastDigest, unavailable, acked, wire, ackWire, page>>

-----------------------------------------------------------------------------
\* The page

CloseSocket == wire' = <<>> /\ ackWire' = 0

\* onStatus: a status never takes the page back to ready, only a frame does.
OnStatus ==
  /\ wire # <<>> /\ Head(wire) \in Status
  /\ page' = [page EXCEPT !.shows =
       CASE Head(wire) = "unavailable" -> IF page.frame # None THEN "stale" ELSE "error"
         [] Head(wire) = "live" -> IF page.frame = None THEN "loading" ELSE page.shows]
  /\ wire' = Tail(wire)
  /\ UNCHANGED <<desktop, server, ackWire>>

\* drawFrame: acked once it is loaded.
DrawFrame ==
  /\ wire # <<>> /\ Head(wire) \in Contents
  /\ page' = [page EXCEPT !.frame = Head(wire), !.shows = "ready"]
  /\ wire' = Tail(wire) /\ ackWire' = ackWire + 1
  /\ UNCHANGED <<desktop, server>>

\* A hidden page drops its socket.
Hide ==
  /\ page.visible /\ page' = [page EXCEPT !.visible = FALSE, !.socket = FALSE]
  /\ CloseSocket
  /\ UNCHANGED <<desktop, server>>

\* connect first asks for a token; it can be asked for again meanwhile.
Show ==
  /\ ~page.visible
  /\ page.socket \/ page.opening < MaxConnecting
  /\ page' = [page EXCEPT !.visible = TRUE, !.opening = IF page.socket THEN @ ELSE @ + 1]
  /\ UNCHANGED <<desktop, server, wire, ackWire>>

\* The token is there: this socket is the page's from now on, with a loop of
\* its own.  The loop of an earlier one is left waiting for an ack.
Connected ==
  /\ page.opening > 0
  /\ page' = [page EXCEPT !.opening = @ - 1, !.socket = TRUE]
  /\ CloseSocket
  /\ loop' = "await ack" /\ image' = None /\ lastDigest' = None
  /\ unavailable' = FALSE /\ acked' = TRUE /\ stopped' = FALSE
  /\ UNCHANGED desktop

Next ==
  \/ DesktopChanges
  \/ AwaitAck \/ GrabUnavailable \/ GrabFrame \/ SendFrame \/ Pause
  \/ ReadAck \/ ReadDisconnect
  \/ OnStatus \/ DrawFrame \/ Hide \/ Show \/ Connected

StreamStep == AwaitAck \/ GrabUnavailable \/ GrabFrame \/ SendFrame \/ Pause
PageStep == OnStatus \/ DrawFrame
Fairness == WF_vars(StreamStep) /\ WF_vars(ReadAck) /\ WF_vars(PageStep) /\ WF_vars(Connected)

Spec == Init /\ [][Next]_vars /\ Fairness

-----------------------------------------------------------------------------

TypeOK ==
  /\ desktop \in Contents \cup {Locked}
  /\ loop \in {"await ack", "grab", "encode", "pause", "done"}
  /\ image \in Contents \cup {None} /\ lastDigest \in Contents \cup {None}
  /\ unavailable \in BOOLEAN /\ acked \in BOOLEAN /\ stopped \in BOOLEAN
  /\ wire \in Seq(Contents \cup Status) /\ Len(wire) <= MaxWire
  /\ ackWire \in 0..1
  /\ page \in Pages

\* While the page stays visible and the desktop as it is, the page comes to
\* show just that: the frame, or that the screen cannot be read.  Whatever was
\* sent, drawn, locked and reconnected before: the acks, the digest and the
\* statuses must not wait for one another.
ScreenCatchesUp ==
  /\ \A c \in Contents :
       <>[](page.visible /\ desktop = c) => <>[](page.shows = "ready" /\ page.frame = c)
  /\ <>[](page.visible /\ desktop = Locked) => <>[](page.shows \in {"stale", "error"})
=============================================================================
