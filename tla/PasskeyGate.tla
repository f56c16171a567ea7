----------------------------- MODULE PasskeyGate -----------------------------
(***************************************************************************)
(* The passkey gate: an enrollment window opened from the PC, one pending  *)
(* challenge per kind of ceremony, the list of enrolled devices and the    *)
(* terminal tokens.  Every route runs its part of a ceremony without an    *)
(* await, so a begin or a finish is one step; clients may answer late, out *)
(* of order, twice, or answer a challenge that has been replaced.          *)
(***************************************************************************)
EXTENDS Integers, Sequences, FiniteSets

CONSTANTS
  ChallengeTtl, TokenTtl, WindowLength,
  MaxCeremonies,  \* bound: challenges issued
  MaxTicks        \* bound: ticks of the clock

VARIABLES
  now,
  enrollUntil,    \* _enroll_until
  challenge,      \* kind of ceremony -> _reg_challenge, _auth_challenge
  devices,        \* webauthn_devices.json: the challenge each was enrolled with
  tokens,         \* _terminal_tokens: [by, expires]
  issued,         \* history: kind and time of each challenge issued
  enrollments,        \* history: enrollment windows opened
  earned          \* history: <<kind, challenge>> of each device or token, in order

gateVars == <<now, enrollUntil, challenge, devices, tokens, issued, enrollments, earned>>

Kinds == {"enroll", "unlock"}
None == 0
Ids == DOMAIN issued
EnrollmentOpen == now < enrollUntil

Init ==
  /\ now = 0 /\ enrollUntil = 0
  /\ challenge = [k \in Kinds |-> None]
  /\ devices = {} /\ tokens = {}
  /\ issued = <<>> /\ enrollments = 0 /\ earned = <<>>

Tick ==
  /\ now < MaxTicks
  /\ now' = now + 1
  /\ UNCHANGED <<enrollUntil, challenge, devices, tokens, issued, enrollments, earned>>

OpenEnrollmentWindow ==
  /\ ~EnrollmentOpen  \* bound: the tray asks again only once the window has closed
  /\ enrollUntil' = now + WindowLength
  /\ enrollments' = enrollments + 1
  /\ UNCHANGED <<now, challenge, devices, tokens, issued, earned>>

\* begin_registration, begin_authentication: a new challenge replaces the pending one.
Begin(kind) ==
  /\ Len(issued) < MaxCeremonies
  /\ IF kind = "enroll" THEN EnrollmentOpen ELSE devices # {}
  /\ issued' = Append(issued, [kind |-> kind, at |-> now])
  /\ challenge' = [challenge EXCEPT ![kind] = Len(issued) + 1]
  /\ UNCHANGED <<now, enrollUntil, devices, tokens, enrollments, earned>>

\* The pending challenge, if a response to challenge id answers it in time.
Answers(kind, id) ==
  /\ challenge[kind] # None
  /\ now - issued[challenge[kind]].at <= ChallengeTtl
  /\ id = challenge[kind]

\* finish_registration takes the pending challenge off whatever becomes of the response.
FinishRegistration(id) ==
  /\ challenge' = [challenge EXCEPT !["enroll"] = None]
  /\ IF Answers("enroll", id) /\ EnrollmentOpen
     THEN /\ devices' = devices \cup {id}
          /\ enrollUntil' = 0
          /\ earned' = Append(earned, <<"enroll", id>>)
     ELSE UNCHANGED <<devices, enrollUntil, earned>>
  /\ UNCHANGED <<now, tokens, issued, enrollments>>

Unexpired == {t \in tokens : t.expires > now}
MintToken(by) == tokens' = Unexpired \cup {[by |-> by, expires |-> now + TokenTtl]}

\* Mutant of FinishAuthentication: the challenge stays pending.
FinishAuthenticationKeeps(device, id) ==
  /\ Answers("unlock", id) /\ device \in devices
  /\ MintToken(id) /\ earned' = Append(earned, <<"unlock", id>>)
  /\ UNCHANGED <<now, enrollUntil, challenge, devices, issued, enrollments>>

\* finish_authentication, likewise; the device must still be on the list.
FinishAuthentication(device, id) ==
  /\ challenge' = [challenge EXCEPT !["unlock"] = None]
  /\ IF Answers("unlock", id) /\ device \in devices
     THEN /\ MintToken(id)
          /\ earned' = Append(earned, <<"unlock", id>>)
     ELSE UNCHANGED <<tokens, earned>>
  /\ UNCHANGED <<now, enrollUntil, devices, issued, enrollments>>

MintLocalToken ==
  /\ \A t \in tokens : t.by # None   \* bound: one at a time
  /\ MintToken(None)
  /\ UNCHANGED <<now, enrollUntil, challenge, devices, issued, enrollments, earned>>

RemoveDevice(device) ==
  /\ device \in devices
  /\ devices' = devices \ {device}
  /\ UNCHANGED <<now, enrollUntil, challenge, tokens, issued, enrollments, earned>>

\* valid_terminal_token drops the token it finds expired.
UseToken(t) ==
  /\ t \in tokens
  /\ tokens' = IF t.expires <= now THEN tokens \ {t} ELSE tokens
  /\ UNCHANGED <<now, enrollUntil, challenge, devices, issued, enrollments, earned>>

Next ==
  \/ Tick \/ OpenEnrollmentWindow \/ MintLocalToken
  \/ \E kind \in Kinds : Begin(kind)
  \/ \E id \in Ids : FinishRegistration(id)
  \/ \E id, device \in Ids : FinishAuthentication(device, id)
  \/ \E device \in devices : RemoveDevice(device)
  \/ \E t \in tokens : UseToken(t)

Spec == Init /\ [][Next]_gateVars

-----------------------------------------------------------------------------
TypeOK ==
  /\ challenge \in [Kinds -> {None} \cup Ids] /\ devices \subseteq Ids
  /\ tokens \subseteq [by : {None} \cup Ids, expires : Nat]

(* A challenge is good once and only for the ceremony it was issued for,    *)
(* however responses are repeated, delayed or crossed, and one opened       *)
(* window enrolls at most one device (the pop of the challenge before the   *)
(* checks in finish_registration and finish_authentication; _enroll_until). *)
EachUseEarned ==
  /\ \A i, j \in DOMAIN earned : earned[i][2] = earned[j][2] => i = j
  /\ \A i \in DOMAIN earned : issued[earned[i][2]].kind = earned[i][1]
  /\ Cardinality({i \in DOMAIN earned : earned[i][1] = "enroll"}) <= enrollments
=============================================================================
