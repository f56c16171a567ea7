---------------------------- MODULE AccessProofs ----------------------------
(***************************************************************************)
(* What is proved of who gets in and what he then sees, each from the      *)
(* inductive invariant stated before its theorem: the passkey gate, the    *)
(* lock-out of failed logins, the settings with their tokens, the mirror   *)
(* windows, the windows open on a terminal, the time the app was used, and *)
(* the stream of the screen.                                               *)
(***************************************************************************)
EXTENDS Integers, Sequences, FiniteSets, FiniteSetTheorems, FunctionTheorems,
  SequenceTheorems, WellFoundedInduction, TLAPS

CONSTANTS
  ChallengeTtl, TokenTtl, WindowLength, MaxCeremonies, MaxTicks,
  Clients, Pc, FreeAttempts, BaseDelay, MaxDelay, ForgetAfter, MaxClients, AlertAfter,
  AlertCooldown, MaxOpen, MaxWrong, MaxTime,
  Tokens, Full, Projects, MaxEdits,
  Sessions, MaxWindows, MaxRestarts,
  Phones, Mirrors, Sizes, MaxTurns, MaxDrops,
  Pages, Device, Views, FlushAfter, IdleGap, MaxInterval, Day, Days, MaxAge, Cap, MaxEvents,
  MaxLost,
  Contents, MaxConnecting, MaxWire

VARIABLES
  now, enrollUntil, challenge, devices, tokens, issued, enrollments, earned,
  clock, streaks, open, lastAlert, held, lockedUntil, untold, wrong,
  file, app, up, route, script, meant, revoked, hand, misread, overlapped, edits,
  windows, mirrorHwnds, polling, clicks, session, hostUp, stopping, sweep, listed, restarts,
  rushed, swept,
  alive, pty, shown, size, sent, owner, lost, turns, drops,
  pages, rows, shownAt, starts, missing, spent,
  desktop, loop, image, lastDigest, unavailable, acked, stopped, wire, ackWire, page

Passkey == INSTANCE PasskeyGate
Login == INSTANCE LoginLockout
Config == INSTANCE Settings
Mirror == INSTANCE MirrorWindows
Link == INSTANCE TerminalLink
Usage == INSTANCE UsageTime
Screen == INSTANCE ScreenStream

-----------------------------------------------------------------------------
(* The passkey gate. *)

Kinds == {"enroll", "unlock"}

GateTypes ==
  /\ now \in Nat /\ enrollments \in Nat
  /\ issued \in Seq([kind : Kinds, at : Nat])
  /\ challenge \in [Kinds -> Nat]
  /\ earned \in Seq(Kinds \X Nat)

\* A pending challenge has been issued for its kind and has earned nothing.
PendingUnused ==
  \A k \in Kinds : challenge[k] # 0 =>
    /\ challenge[k] \in 1 .. Len(issued) /\ issued[challenge[k]].kind = k
    /\ \A i \in DOMAIN earned : earned[i][2] # challenge[k]

\* Every use is of a challenge issued for it, and no challenge has two uses.
UsesIssued ==
  /\ \A i \in DOMAIN earned :
       earned[i][2] \in 1 .. Len(issued) /\ issued[earned[i][2]].kind = earned[i][1]
  /\ \A i, j \in DOMAIN earned : earned[i][2] = earned[j][2] => i = j

\* A window that has not been used up has yet to enroll its device.
Enrolled == {i \in DOMAIN earned : earned[i][1] = "enroll"}
WindowsEnough ==
  /\ Cardinality(Enrolled) <= enrollments
  /\ enrollUntil # 0 => Cardinality(Enrolled) < enrollments

GateInv == GateTypes /\ PendingUnused /\ UsesIssued /\ WindowsEnough

LEMMA GateInit == Passkey!Init => GateInv
  <1> SUFFICES ASSUME Passkey!Init PROVE GateInv
    OBVIOUS
  <1>1. now = 0 /\ enrollUntil = 0 /\ enrollments = 0 /\ issued = << >> /\ earned = << >>
        /\ challenge = [k \in Kinds |-> 0]
    BY DEF Passkey!Init, Passkey!None, Passkey!Kinds, Kinds
  <1>2. GateTypes
    BY <1>1 DEF GateTypes
  <1>3. PendingUnused /\ UsesIssued
    BY <1>1 DEF PendingUnused, UsesIssued
  <1>4. WindowsEnough
    <2>1. Enrolled = {}
      BY <1>1 DEF Enrolled
    <2> QED BY <1>1, <2>1, FS_EmptySet DEF WindowsEnough
  <1> QED BY <1>2, <1>3, <1>4 DEF GateInv

LEMMA EnrolledFinite ==
  ASSUME GateTypes
  PROVE IsFiniteSet(Enrolled) /\ Cardinality(Enrolled) \in Nat
  <1>1. DOMAIN earned = 1 .. Len(earned) /\ Len(earned) \in Int
    BY DEF GateTypes
  <1>2. IsFiniteSet(1 .. Len(earned))
    BY <1>1, FS_Interval
  <1>3. Enrolled \subseteq 1 .. Len(earned)
    BY <1>1 DEF Enrolled
  <1> QED BY <1>2, <1>3, FS_Subset, FS_CardinalityType

\* Steps in which no challenge is issued, answered or taken off, and a window
\* only opens with a count of its own.
LEMMA GateAside ==
  ASSUME GateInv, UNCHANGED <<challenge, issued, earned>>, now' \in Nat, enrollments' \in Nat,
         enrollments <= enrollments',
         UNCHANGED enrollUntil \/ enrollments' = enrollments + 1
  PROVE GateInv'
  <1>1. GateTypes' /\ PendingUnused' /\ UsesIssued'
    BY DEF GateInv, GateTypes, PendingUnused, UsesIssued
  <1>2. Cardinality(Enrolled) \in Nat /\ enrollments \in Nat
    BY EnrolledFinite DEF GateInv, GateTypes
  <1>3. Enrolled' = Enrolled
    BY DEF Enrolled
  <1>4. WindowsEnough'
    BY <1>2, <1>3 DEF GateInv, WindowsEnough
  <1> QED BY <1>1, <1>4 DEF GateInv

\* A challenge is taken off, and nothing comes of it.
LEMMA GateWastes ==
  ASSUME GateInv, NEW kind \in Kinds, challenge' = [challenge EXCEPT ![kind] = 0],
         UNCHANGED <<now, enrollUntil, issued, enrollments, earned>>
  PROVE GateInv'
  <1>1. \A k \in Kinds : challenge'[k] = IF k = kind THEN 0 ELSE challenge[k]
    BY DEF GateInv, GateTypes
  <1>2. GateTypes'
    BY DEF GateInv, GateTypes
  <1>3. PendingUnused'
    BY <1>1 DEF GateInv, PendingUnused
  <1>4. UsesIssued' /\ WindowsEnough'
    BY DEF GateInv, UsesIssued, WindowsEnough, Enrolled
  <1> QED BY <1>2, <1>3, <1>4 DEF GateInv

\* A challenge is taken off for the use it was issued for.
LEMMA GateEarns ==
  ASSUME GateInv, NEW kind \in Kinds, NEW id, challenge[kind] # 0, id = challenge[kind],
         challenge' = [challenge EXCEPT ![kind] = 0], earned' = Append(earned, <<kind, id>>),
         UNCHANGED <<now, issued, enrollments>>
  PROVE GateTypes' /\ PendingUnused' /\ UsesIssued'
  <1> DEFINE t == Append(earned, <<kind, id>>)
  <1>1. /\ id \in 1 .. Len(issued) /\ issued[id].kind = kind /\ id \in Nat
        /\ \A i \in DOMAIN earned : earned[i][2] # id
    BY DEF GateInv, PendingUnused, GateTypes
  <1>2. earned \in Seq(Kinds \X Nat) /\ <<kind, id>> \in Kinds \X Nat
    BY <1>1 DEF GateInv, GateTypes
  <1>3. /\ t \in Seq(Kinds \X Nat)
        /\ \A i \in DOMAIN t : (i \in DOMAIN earned /\ t[i] = earned[i])
                               \/ (i = Len(earned) + 1 /\ t[i] = <<kind, id>>)
    BY <1>2
  <1>4. <<kind, id>>[1] = kind /\ <<kind, id>>[2] = id
    OBVIOUS
  <1>5. earned' = t
    OBVIOUS
  <1> HIDE DEF t
  <1>6. \A k \in Kinds : challenge'[k] = IF k = kind THEN 0 ELSE challenge[k]
    BY DEF GateInv, GateTypes
  <1>7. GateTypes'
    BY <1>3, <1>5 DEF GateInv, GateTypes
  <1>8. PendingUnused'
    <2> SUFFICES ASSUME NEW k \in Kinds, challenge'[k] # 0
                 PROVE /\ challenge'[k] \in 1 .. Len(issued) /\ issued[challenge'[k]].kind = k
                       /\ \A i \in DOMAIN t : t[i][2] # challenge'[k]
      BY <1>5 DEF PendingUnused
    <2>1. k # kind /\ challenge'[k] = challenge[k]
      BY <1>6
    <2>2. /\ challenge[k] \in 1 .. Len(issued) /\ issued[challenge[k]].kind = k
          /\ \A i \in DOMAIN earned : earned[i][2] # challenge[k]
      BY <2>1 DEF GateInv, PendingUnused
    <2>3. id # challenge[k]
      BY <1>1, <2>1, <2>2
    <2> QED BY <1>3, <1>4, <2>1, <2>2, <2>3
  <1>9. UsesIssued'
    <2>1. \A i \in DOMAIN t : t[i][2] \in 1 .. Len(issued) /\ issued[t[i][2]].kind = t[i][1]
      BY <1>1, <1>3, <1>4 DEF GateInv, UsesIssued
    <2>2. ASSUME NEW i \in DOMAIN t, NEW j \in DOMAIN t, t[i][2] = t[j][2] PROVE i = j
      BY <1>1, <1>3, <1>4, <2>2 DEF GateInv, UsesIssued
    <2> QED BY <1>5, <2>1, <2>2 DEF UsesIssued
  <1> QED BY <1>7, <1>8, <1>9

\* A use adds itself to the enrolled ones if it is an enrollment.
LEMMA EnrolledGrows ==
  ASSUME GateTypes, NEW kind \in Kinds, NEW id, earned' = Append(earned, <<kind, id>>)
  PROVE /\ kind = "unlock" => Enrolled' = Enrolled
        /\ kind = "enroll" => Cardinality(Enrolled') = Cardinality(Enrolled) + 1
  <1> DEFINE t == Append(earned, <<kind, id>>)  last == Len(earned) + 1
  <1>1. /\ DOMAIN earned = 1 .. Len(earned) /\ Len(earned) \in Nat
        /\ DOMAIN t = 1 .. last
        /\ \A i \in 1 .. Len(earned) : t[i] = earned[i]
        /\ t[last] = <<kind, id>>
    BY DEF GateTypes
  <1>2. t[last][1] = kind
    BY <1>1
  <1>3. earned' = t
    OBVIOUS
  <1> HIDE DEF t
  <1>4. Enrolled' = {i \in DOMAIN t : t[i][1] = "enroll"}
    BY <1>3 DEF Enrolled
  <1>5. last \notin Enrolled
    BY <1>1 DEF Enrolled
  <1>6. CASE kind = "unlock"
    BY <1>1, <1>2, <1>4, <1>6 DEF Enrolled
  <1>7. CASE kind = "enroll"
    <2>1. Enrolled' = Enrolled \cup {last}
      BY <1>1, <1>2, <1>4, <1>7 DEF Enrolled
    <2> HIDE DEF last
    <2> QED BY <1>5, <1>7, <2>1, EnrolledFinite, FS_AddElement
  <1> QED BY <1>6, <1>7 DEF Kinds

LEMMA BeginStep == ASSUME GateInv, NEW kind \in Kinds, Passkey!Begin(kind) PROVE GateInv'
  <1> DEFINE t == Append(issued, [kind |-> kind, at |-> now])  n == Len(issued) + 1
  <1>1. /\ issued' = t /\ challenge' = [challenge EXCEPT ![kind] = n]
        /\ UNCHANGED <<now, enrollUntil, enrollments, earned>>
    BY DEF Passkey!Begin
  <1>2. GateTypes /\ PendingUnused /\ UsesIssued /\ WindowsEnough
    BY DEF GateInv
  <1>3. /\ t \in Seq([kind : Kinds, at : Nat]) /\ Len(issued) \in Nat /\ n \in Nat
        /\ Len(t) = n /\ t[n].kind = kind
        /\ \A i \in 1 .. Len(issued) : t[i] = issued[i] /\ i \in 1 .. n
    BY <1>2 DEF GateTypes
  <1>4. \A i \in DOMAIN earned : earned[i][2] # n
    BY <1>2, <1>3 DEF UsesIssued
  <1>5. n # 0 /\ n \in 1 .. n
    BY <1>3
  <1> HIDE DEF t, n
  <1>6. GateTypes'
    BY <1>1, <1>2, <1>3 DEF GateTypes
  <1>7. \A k \in Kinds : challenge'[k] = IF k = kind THEN n ELSE challenge[k]
    BY <1>1, <1>2 DEF GateTypes
  <1>8. PendingUnused'
    <2> SUFFICES ASSUME NEW k \in Kinds, challenge'[k] # 0
                 PROVE /\ challenge'[k] \in 1 .. Len(t) /\ t[challenge'[k]].kind = k
                       /\ \A i \in DOMAIN earned : earned[i][2] # challenge'[k]
      BY <1>1 DEF PendingUnused
    <2>1. CASE k = kind
      BY <1>3, <1>4, <1>5, <1>7, <2>1
    <2>2. CASE k # kind
      BY <1>2, <1>3, <1>7, <2>2 DEF PendingUnused
    <2> QED BY <2>1, <2>2
  <1>9. UsesIssued'
    BY <1>1, <1>2, <1>3 DEF UsesIssued
  <1>10. WindowsEnough'
    BY <1>1, <1>2 DEF WindowsEnough, Enrolled
  <1> QED BY <1>6, <1>8, <1>9, <1>10 DEF GateInv

LEMMA FinishRegistrationStep ==
  ASSUME GateInv, NEW id, Passkey!FinishRegistration(id) PROVE GateInv'
  <1>1. "enroll" \in Kinds /\ challenge' = [challenge EXCEPT !["enroll"] = 0]
        /\ UNCHANGED <<now, issued, enrollments>>
    BY DEF Passkey!FinishRegistration, Kinds, Passkey!None
  <1>2. CASE Passkey!Answers("enroll", id) /\ Passkey!EnrollmentOpen
    <2>1. /\ challenge["enroll"] # 0 /\ id = challenge["enroll"]
          /\ earned' = Append(earned, <<"enroll", id>>) /\ enrollUntil' = 0
      BY <1>2 DEF Passkey!FinishRegistration, Passkey!Answers, Passkey!None
    <2>2. GateTypes' /\ PendingUnused' /\ UsesIssued'
      BY <1>1, <2>1, GateEarns
    <2>3. GateTypes /\ WindowsEnough
      BY DEF GateInv
    <2>4. Cardinality(Enrolled') = Cardinality(Enrolled) + 1
      BY <1>1, <2>1, <2>3, EnrolledGrows
    <2>5. Cardinality(Enrolled) \in Nat /\ enrollments \in Nat /\ now \in Nat
      BY <2>3, EnrolledFinite DEF GateTypes
    <2>6. Cardinality(Enrolled) < enrollments
      BY <1>2, <2>3, <2>5 DEF WindowsEnough, Passkey!EnrollmentOpen
    <2>7. WindowsEnough'
      BY <1>1, <2>1, <2>4, <2>5, <2>6 DEF WindowsEnough
    <2> QED BY <2>2, <2>7 DEF GateInv
  <1>3. CASE ~(Passkey!Answers("enroll", id) /\ Passkey!EnrollmentOpen)
    <2>1. UNCHANGED <<enrollUntil, earned>>
      BY <1>3 DEF Passkey!FinishRegistration
    <2> QED BY <1>1, <2>1, GateWastes
  <1> QED BY <1>2, <1>3

LEMMA FinishAuthenticationStep ==
  ASSUME GateInv, NEW id, NEW device, Passkey!FinishAuthentication(device, id) PROVE GateInv'
  <1>1. "unlock" \in Kinds /\ challenge' = [challenge EXCEPT !["unlock"] = 0]
        /\ UNCHANGED <<now, issued, enrollments, enrollUntil>>
    BY DEF Passkey!FinishAuthentication, Kinds, Passkey!None
  <1>2. CASE Passkey!Answers("unlock", id) /\ device \in devices
    <2>1. /\ challenge["unlock"] # 0 /\ id = challenge["unlock"]
          /\ earned' = Append(earned, <<"unlock", id>>)
      BY <1>2 DEF Passkey!FinishAuthentication, Passkey!Answers, Passkey!None
    <2>2. GateTypes' /\ PendingUnused' /\ UsesIssued'
      BY <1>1, <2>1, GateEarns
    <2>3. Enrolled' = Enrolled
      BY <1>1, <2>1, EnrolledGrows DEF GateInv
    <2>4. WindowsEnough'
      BY <1>1, <2>3 DEF GateInv, WindowsEnough
    <2> QED BY <2>2, <2>4 DEF GateInv
  <1>3. CASE ~(Passkey!Answers("unlock", id) /\ device \in devices)
    <2>1. UNCHANGED earned
      BY <1>3 DEF Passkey!FinishAuthentication
    <2> QED BY <1>1, <2>1, GateWastes
  <1> QED BY <1>2, <1>3

LEMMA GateStep == GateInv /\ [Passkey!Next]_(Passkey!gateVars) => GateInv'
  <1> SUFFICES ASSUME GateInv, [Passkey!Next]_(Passkey!gateVars) PROVE GateInv'
    OBVIOUS
  <1>0. now \in Nat /\ enrollments \in Nat
    BY DEF GateInv, GateTypes
  <1>1. CASE Passkey!Tick
    <2>1. /\ now' = now + 1 /\ UNCHANGED <<challenge, issued, earned, enrollUntil, enrollments>>
      BY <1>1 DEF Passkey!Tick
    <2> QED BY <1>0, <2>1, GateAside
  <1>2. CASE Passkey!OpenEnrollmentWindow
    <2>1. enrollments' = enrollments + 1 /\ UNCHANGED <<now, challenge, issued, earned>>
      BY <1>2 DEF Passkey!OpenEnrollmentWindow
    <2> QED BY <1>0, <2>1, GateAside
  <1>3. CASE \/ Passkey!MintLocalToken
             \/ \E device \in devices : Passkey!RemoveDevice(device)
             \/ \E t \in tokens : Passkey!UseToken(t)
             \/ UNCHANGED Passkey!gateVars
    <2>1. UNCHANGED <<now, enrollUntil, challenge, issued, enrollments, earned>>
      BY <1>3 DEF Passkey!MintLocalToken, Passkey!RemoveDevice, Passkey!UseToken, Passkey!gateVars
    <2> QED BY <1>0, <2>1, GateAside
  <1>4. CASE \E kind \in Passkey!Kinds : Passkey!Begin(kind)
    BY <1>4, BeginStep DEF Kinds, Passkey!Kinds
  <1>5. CASE \E id \in Passkey!Ids : Passkey!FinishRegistration(id)
    BY <1>5, FinishRegistrationStep
  <1>6. CASE \E id, device \in Passkey!Ids : Passkey!FinishAuthentication(device, id)
    BY <1>6, FinishAuthenticationStep
  <1> QED BY <1>1, <1>2, <1>3, <1>4, <1>5, <1>6 DEF Passkey!Next

\* Whatever responses are repeated, delayed or crossed, and whatever the
\* lifetimes: a challenge is good once and for its own ceremony, and one opened
\* window enrolls at most one device (the pop of the challenge in
\* finish_registration and finish_authentication, and _enroll_until).
THEOREM EachUseEarnedAlways == Passkey!Spec => []Passkey!EachUseEarned
  <1>1. GateInv => Passkey!EachUseEarned
    <2> SUFFICES ASSUME GateInv PROVE Passkey!EachUseEarned
      OBVIOUS
    <2>1. \A i, j \in DOMAIN earned : earned[i][2] = earned[j][2] => i = j
      BY DEF GateInv, UsesIssued
    <2>2. \A i \in DOMAIN earned : issued[earned[i][2]].kind = earned[i][1]
      BY DEF GateInv, UsesIssued
    <2>3. Cardinality({i \in DOMAIN earned : earned[i][1] = "enroll"}) <= enrollments
      BY DEF GateInv, WindowsEnough, Enrolled
    <2>4. Passkey!Cardinality(Enrolled) = Cardinality(Enrolled)
      BY Zenon DEF Passkey!Cardinality, Cardinality, Passkey!IsFiniteSet, IsFiniteSet
    <2> QED BY <2>1, <2>2, <2>3, <2>4 DEF Passkey!EachUseEarned, Enrolled
  <1> QED BY <1>1, GateInit, GateStep, PTL DEF Passkey!Spec

-----------------------------------------------------------------------------
(* Least elements, for the proofs below. *)

LEMMA LeastOf ==
  ASSUME NEW S, S \subseteq Nat, S # {}
  PROVE  \E x \in S : \A y \in S : x <= y
  <1>1. PICK x \in S : \A y \in S : ~(<<y, x>> \in OpToRel(<, Nat))
    BY NatLessThanWellFounded, WFMin
  <1>2. ASSUME NEW y \in S PROVE x <= y
    <2>1. ~(y < x)
      BY <1>1 DEF OpToRel
    <2> QED BY <2>1
  <1> QED BY <1>2

-----------------------------------------------------------------------------
(* The lock-out of failed logins. *)

\* What the constructor of LoginLockout insists on.
LoginAssumption ==
  /\ FreeAttempts \in Nat /\ BaseDelay \in Nat /\ MaxDelay \in Nat /\ ForgetAfter \in Nat
  /\ MaxDelay <= ForgetAfter
  /\ MaxClients \in Nat \ {0} /\ AlertAfter \in Nat \ {0} /\ MaxOpen \in Nat

\* One streak per client, the oldest last failure first.
InOrder(table) ==
  \A i, j \in DOMAIN table :
    i < j => table[i].client # table[j].client /\ table[i].last <= table[j].last

\* The wait is never longer than the lock-out remembers, and a streak that is long enough
\* has been told or held back.
Earned(s) ==
  /\ s.deadline <= s.last + MaxDelay
  /\ s.failures >= 1
  /\ s.alerted <=> s.failures >= AlertAfter

\* Whoever has to wait has a streak that says until when.
LoginInv ==
  /\ streaks \in Seq(Login!Streak) /\ Len(streaks) <= MaxClients /\ InOrder(streaks)
  /\ clock \in Nat /\ held \in Nat /\ untold = held /\ lastAlert \in {Login!Never} \cup Nat
  /\ open \in [Clients -> 0 .. MaxOpen]
  /\ \A i \in DOMAIN streaks :
       /\ streaks[i].last <= clock /\ Earned(streaks[i])
  /\ lockedUntil \in [Clients -> Nat]
  /\ \A c \in Clients : clock < lockedUntil[c] =>
       \E i \in DOMAIN streaks : streaks[i].client = c /\ streaks[i].deadline = lockedUntil[c]

LEMMA RemoveAtIs ==
  ASSUME NEW X, NEW T \in Seq(X), NEW p \in DOMAIN T
  PROVE  /\ Login!RemoveAt(T, p) \in Seq(X) /\ Len(Login!RemoveAt(T, p)) = Len(T) - 1
         /\ \A i \in 1 .. Len(T) - 1 :
              Login!RemoveAt(T, p)[i] = IF i < p THEN T[i] ELSE T[i + 1]
  <1>1. p \in 1 .. Len(T) /\ Len(T) \in Nat
    OBVIOUS
  <1> DEFINE before == SubSeq(T, 1, p - 1)
             after == SubSeq(T, p + 1, Len(T))
  <1>2. /\ before \in Seq(X) /\ Len(before) = p - 1
        /\ \A i \in 1 .. p - 1 : before[i] = T[i]
    BY <1>1
  <1>3. /\ after \in Seq(X) /\ Len(after) = Len(T) - p
        /\ \A i \in 1 .. Len(T) - p : after[i] = T[i + p]
    BY <1>1
  <1>4. Login!RemoveAt(T, p) = before \o after
    BY DEF Login!RemoveAt
  <1> HIDE DEF before, after
  <1>5. before \o after \in Seq(X) /\ Len(before \o after) = Len(T) - 1
    BY <1>1, <1>2, <1>3
  <1>6. ASSUME NEW i \in 1 .. Len(T) - 1
        PROVE  (before \o after)[i] = IF i < p THEN T[i] ELSE T[i + 1]
    <2>1. CASE i < p
      BY <1>1, <1>2, <1>3, <2>1
    <2>2. CASE ~(i < p)
      <3>1. (before \o after)[i] = after[i - (p - 1)]
        <4>1. i \in 1 .. Len(before) + Len(after) /\ ~(i <= Len(before))
          BY <1>1, <1>2, <1>3, <2>2
        <4>2. (before \o after)[i] = after[i - Len(before)]
          BY <1>2, <1>3, <4>1, ConcatProperties
        <4> QED BY <1>2, <4>2
      <3>2. i - (p - 1) \in 1 .. Len(T) - p /\ (i - (p - 1)) + p = i + 1
        BY <1>1, <2>2
      <3> QED BY <1>3, <2>2, <3>1, <3>2
    <2> QED BY <2>1, <2>2
  <1> QED BY <1>4, <1>5, <1>6

\* The table without c's entry: the others as they were, in the same order.
LEMMA WithoutIs ==
  ASSUME NEW T \in Seq(Login!Streak), InOrder(T), NEW c \in Clients
  PROVE  /\ Login!Without(T, c) \in Seq(Login!Streak) /\ InOrder(Login!Without(T, c))
         /\ Len(Login!Without(T, c)) <= Len(T)
         /\ (\E i \in DOMAIN T : T[i].client = c) => Len(Login!Without(T, c)) = Len(T) - 1
         /\ \A i \in DOMAIN Login!Without(T, c) :
              /\ Login!Without(T, c)[i].client # c
              /\ \E j \in DOMAIN T : Login!Without(T, c)[i] = T[j]
         /\ \A j \in DOMAIN T : T[j].client = c
              \/ \E i \in DOMAIN Login!Without(T, c) : Login!Without(T, c)[i] = T[j]
  <1>1. CASE ~ \E i \in DOMAIN T : T[i].client = c
    <2>1. Login!Without(T, c) = T
      BY <1>1 DEF Login!Without
    <2> QED BY <1>1, <2>1
  <1>2. CASE \E i \in DOMAIN T : T[i].client = c
    <2>1. PICK p : p = Login!Place(T, c)
      OBVIOUS
    <2>2. p \in DOMAIN T /\ T[p].client = c
      BY <1>2, <2>1 DEF Login!Place
    <2>3. PICK W : W = Login!RemoveAt(T, p)
      OBVIOUS
    <2>4. Login!Without(T, c) = W
      BY <1>2, <2>1, <2>3 DEF Login!Without
    <2>5. /\ W \in Seq(Login!Streak) /\ Len(W) = Len(T) - 1
          /\ \A i \in 1 .. Len(T) - 1 : W[i] = IF i < p THEN T[i] ELSE T[i + 1]
      BY <2>2, <2>3, RemoveAtIs
    <2>6. DOMAIN T = 1 .. Len(T) /\ Len(T) \in Nat /\ p \in 1 .. Len(T)
          /\ DOMAIN W = 1 .. Len(T) - 1
      BY <2>2, <2>5
    <2> DEFINE from(i) == IF i < p THEN i ELSE i + 1
    <2>7. \A i \in DOMAIN W : from(i) \in DOMAIN T /\ from(i) # p /\ W[i] = T[from(i)]
      BY <2>5, <2>6
    <2>8. \A i, j \in DOMAIN W : i < j => from(i) < from(j)
      BY <2>6
    <2>9. \A j \in DOMAIN T : j # p => \E i \in DOMAIN W : from(i) = j
      <3> SUFFICES ASSUME NEW j \in DOMAIN T, j # p PROVE \E i \in DOMAIN W : from(i) = j
        OBVIOUS
      <3>1. CASE j < p
        BY <2>6, <3>1
      <3>2. CASE j > p
        <4>1. j - 1 \in DOMAIN W /\ from(j - 1) = j
          BY <2>6, <3>2
        <4> QED BY <4>1
      <3> QED BY <2>6, <3>1, <3>2
    <2> HIDE DEF from
    <2>10. \A j \in DOMAIN T : j # p => T[j].client # c
      <3> SUFFICES ASSUME NEW j \in DOMAIN T, j # p PROVE T[j].client # c
        OBVIOUS
      <3>1. j < p \/ p < j
        BY <2>6
      <3> QED BY <2>2, <3>1 DEF InOrder
    <2>11. InOrder(W)
      BY <2>7, <2>8 DEF InOrder
    <2>12. Len(W) <= Len(T)
      BY <2>5, <2>6
    <2> QED BY <2>2, <2>4, <2>5, <2>7, <2>9, <2>10, <2>11, <2>12
  <1> QED BY <1>1, <1>2

\* Making room takes forgotten streaks, or else, from a table full of remembered ones,
\* the first.
LEMMA MakeRoomIs ==
  ASSUME LoginAssumption, clock \in Nat,
         NEW T \in Seq(Login!Streak), InOrder(T), Len(T) <= MaxClients
  PROVE  /\ Login!MakeRoom(T) \in Seq(Login!Streak) /\ InOrder(Login!MakeRoom(T))
         /\ Len(Login!MakeRoom(T)) < MaxClients
         /\ \A i \in DOMAIN Login!MakeRoom(T) : \E j \in DOMAIN T : Login!MakeRoom(T)[i] = T[j]
         /\ \A j \in DOMAIN T :
              \/ \E i \in DOMAIN Login!MakeRoom(T) : Login!MakeRoom(T)[i] = T[j]
              \/ Login!Forgotten(T[j])
              \/ j = 1 /\ Len(T) = MaxClients /\ \A k \in DOMAIN T : ~Login!Forgotten(T[k])
  <1>1. DOMAIN T = 1 .. Len(T) /\ Len(T) \in Nat /\ MaxClients \in Nat \ {0}
        /\ \A i \in DOMAIN T : T[i].last \in Nat
    <2>1. \A i \in DOMAIN T : T[i] \in Login!Streak
      OBVIOUS
    <2>2. \A e \in Login!Streak : e.last \in Nat
      BY DEF Login!Streak
    <2> QED BY <2>1, <2>2 DEF LoginAssumption
  <1>2. CASE \A i \in DOMAIN T : Login!Forgotten(T[i])
    <2>1. Login!MakeRoom(T) = << >>
      BY <1>1, <1>2 DEF Login!MakeRoom
    <2>2. << >> \in Seq(Login!Streak) /\ Len(<< >>) < MaxClients /\ DOMAIN << >> = {}
      BY <1>1
    <2> QED BY <1>2, <2>1, <2>2 DEF InOrder
  <1>3. CASE ~ \A i \in DOMAIN T : Login!Forgotten(T[i])
    <2> DEFINE First(i) == i \in DOMAIN T /\ ~Login!Forgotten(T[i])
                           /\ \A k \in 1 .. i - 1 : Login!Forgotten(T[k])
    <2>1. \E i : First(i)
      <3> DEFINE S == {i \in DOMAIN T : ~Login!Forgotten(T[i])}
      <3>1. S \subseteq Nat /\ S # {}
        BY <1>1, <1>3
      <3>2. PICK i \in S : \A k \in S : i <= k
        BY <3>1, LeastOf
      <3>3. ASSUME NEW k \in 1 .. i - 1 PROVE Login!Forgotten(T[k])
        <4>1. k \in DOMAIN T /\ ~(i <= k)
          BY <1>1, <3>2
        <4> QED BY <3>2, <4>1
      <3> QED BY <3>2, <3>3
    <2>2. PICK m : m = CHOOSE i \in DOMAIN T :
                     ~Login!Forgotten(T[i]) /\ \A k \in 1 .. i - 1 : Login!Forgotten(T[k])
      OBVIOUS
    <2>3. First(m)
      BY <2>1, <2>2
    <2>4. m \in 1 .. Len(T) /\ ~Login!Forgotten(T[m]) /\ \A k \in 1 .. m - 1 : Login!Forgotten(T[k])
      BY <1>1, <2>3
    <2> HIDE DEF First
    <2> DEFINE rest == IF \A i \in DOMAIN T : Login!Forgotten(T[i]) THEN << >>
                       ELSE SubSeq(T, CHOOSE i \in DOMAIN T :
                         ~Login!Forgotten(T[i]) /\ \A k \in 1 .. i - 1 : Login!Forgotten(T[k]), Len(T))
    <2>5. Login!MakeRoom(T) = IF Len(rest) >= MaxClients THEN Tail(rest) ELSE rest
      BY DEF Login!MakeRoom
    <2>6. rest = SubSeq(T, m, Len(T))
      BY <1>3, <2>2
    <2> HIDE DEF rest
    <2>7. PICK left : left = SubSeq(T, m, Len(T))
      OBVIOUS
    <2>8. Login!MakeRoom(T) = IF Len(left) >= MaxClients THEN Tail(left) ELSE left
      BY <2>7, <2>5, <2>6
    <2>9. /\ left \in Seq(Login!Streak) /\ Len(left) = Len(T) - m + 1
          /\ \A i \in 1 .. Len(T) - m + 1 : left[i] = T[i + m - 1]
      BY <1>1, <2>4, <2>7
    <2>10. DOMAIN left = 1 .. Len(T) - m + 1
      BY <2>9
    <2>11. \A i \in DOMAIN left : i + m - 1 \in DOMAIN T /\ i + m - 1 \in Int /\ left[i] = T[i + m - 1]
      <3>1. \A i \in DOMAIN left : i + m - 1 \in 1 .. Len(T) /\ i + m - 1 \in Int
        BY <1>1, <2>4, <2>10
      <3> QED BY <1>1, <2>9, <2>10, <3>1
    <2>12. InOrder(left)
      <3>1. \A i, j \in DOMAIN left : i < j => i + m - 1 < j + m - 1
        BY <1>1, <2>4, <2>10
      <3> QED BY <2>11, <3>1 DEF InOrder
    <2>13. \A j \in DOMAIN T : Login!Forgotten(T[j]) \/ \E i \in DOMAIN left : left[i] = T[j]
      <3> SUFFICES ASSUME NEW j \in DOMAIN T, ~Login!Forgotten(T[j])
                   PROVE \E i \in DOMAIN left : left[i] = T[j]
        OBVIOUS
      <3>1. j \in 1 .. Len(T) /\ ~(j \in 1 .. m - 1)
        BY <1>1, <2>4
      <3>2. j - m + 1 \in DOMAIN left /\ (j - m + 1) + m - 1 = j
        <4>1. j \in Int /\ m \in Int /\ Len(T) \in Int /\ m <= j /\ j <= Len(T)
          BY <1>1, <2>4, <3>1
        <4>2. j - m + 1 \in 1 .. Len(T) - m + 1 /\ (j - m + 1) + m - 1 = j
          BY ONLY <4>1
        <4> QED BY <2>10, <4>2
      <3> QED BY <2>11, <3>2
    <2>14. CASE ~(Len(left) >= MaxClients)
      <3>1. Login!MakeRoom(T) = left
        BY <2>8, <2>14
      <3>2. Len(left) < MaxClients
        BY <1>1, <2>9, <2>14
      <3> QED BY <2>9, <2>11, <2>12, <2>13, <3>1, <3>2
    <2>15. CASE Len(left) >= MaxClients
      <3>1. m = 1 /\ Len(T) = MaxClients /\ Len(left) = Len(T)
        <4>1. m \in Int /\ 1 <= m /\ Len(T) \in Int /\ MaxClients \in Int /\ Len(T) <= MaxClients
          BY <1>1, <2>4
        <4>2. Len(left) = Len(T) - m + 1 /\ Len(left) >= MaxClients
          BY <2>9, <2>15
        <4> QED BY ONLY <4>1, <4>2
      <3>2. left = T
        BY <1>1, <2>7, <3>1
      <3>3. Login!MakeRoom(T) = Tail(T)
        BY <2>8, <2>15, <3>2
      <3>4. \A k \in DOMAIN T : ~Login!Forgotten(T[k])
        <4> SUFFICES ASSUME NEW k \in DOMAIN T, Login!Forgotten(T[k]) PROVE FALSE
          OBVIOUS
        <4>1. k # 1
          BY <2>4, <3>1
        <4>2. 1 \in DOMAIN T /\ 1 < k
          BY <1>1, <4>1
        <4>3. T[1].last <= T[k].last /\ T[1].last \in Nat /\ T[k].last \in Nat
          BY <1>1, <4>2 DEF InOrder
        <4>4. ~(clock - T[1].last >= ForgetAfter) /\ clock - T[k].last >= ForgetAfter
          BY <2>4, <3>1 DEF Login!Forgotten
        <4>5. ForgetAfter \in Nat
          BY DEF LoginAssumption
        <4> QED BY <4>3, <4>4, <4>5
      <3>5. /\ Tail(T) \in Seq(Login!Streak) /\ Len(Tail(T)) = Len(T) - 1
            /\ \A i \in 1 .. Len(T) - 1 : Tail(T)[i] = T[i + 1]
        <4>1. T # << >>
          BY <1>1, <3>1
        <4> QED BY <1>1, <4>1
      <3>6. PICK R : R = Tail(T)
        OBVIOUS
      <3>7. DOMAIN R = 1 .. Len(T) - 1 /\ \A i \in DOMAIN R : i + 1 \in DOMAIN T /\ R[i] = T[i + 1]
        BY <1>1, <3>5, <3>6
      <3>8. InOrder(R)
        <4>1. \A i, j \in DOMAIN R : i < j => i + 1 < j + 1
          BY <1>1, <3>7
        <4> QED BY <3>7, <4>1 DEF InOrder
      <3>9. \A j \in DOMAIN T : j = 1 \/ \E i \in DOMAIN R : R[i] = T[j]
        <4> SUFFICES ASSUME NEW j \in DOMAIN T, j # 1 PROVE \E i \in DOMAIN R : R[i] = T[j]
          OBVIOUS
        <4>1. j - 1 \in DOMAIN R /\ (j - 1) + 1 = j
          BY <1>1, <3>7
        <4> QED BY <3>7, <4>1
      <3>10. Len(R) < MaxClients
        BY <1>1, <3>1, <3>5, <3>6
      <3> QED BY <3>1, <3>3, <3>4, <3>5, <3>6, <3>7, <3>8, <3>9, <3>10
    <2> QED BY <2>14, <2>15
  <1> QED BY <1>2, <1>3

\* The doubled delay is a natural: the powers of two are sizes of sets.
LEMMA DelayIs ==
  ASSUME LoginAssumption, NEW n \in Nat
  PROVE  Login!Delay(n) \in Nat /\ Login!Delay(n) <= MaxDelay
  <1>1. MaxDelay \in Nat /\ BaseDelay \in Nat /\ FreeAttempts \in Nat
    BY DEF LoginAssumption
  <1>2. ASSUME NEW k \in Nat PROVE 2 ^ k \in Nat
    <2>1. 1 \in Int /\ k \in Int
      OBVIOUS
    <2>2. IsFiniteSet(1 .. k) /\ Cardinality(1 .. k) = IF 1 > k THEN 0 ELSE k - 1 + 1
      BY <2>1, FS_Interval
    <2>3. Cardinality(1 .. k) = k
      BY <2>2
    <2>4. IsFiniteSet(SUBSET (1 .. k)) /\ Cardinality(SUBSET (1 .. k)) = 2 ^ k
      BY <2>2, <2>3, FS_SUBSET
    <2> QED BY <2>4, FS_CardinalityType
  <1> DEFINE over == n - FreeAttempts
             doubled == BaseDelay * 2 ^ (over - 1)
  <1>3. Login!Delay(n) = IF over <= 0 THEN 0 ELSE IF doubled < MaxDelay THEN doubled ELSE MaxDelay
    BY DEF Login!Delay
  <1>4. CASE over <= 0
    BY <1>1, <1>3, <1>4
  <1>5. CASE ~(over <= 0)
    <2>1. over - 1 \in Nat
      BY <1>1, <1>5
    <2>2. PICK x \in Nat : x = 2 ^ (over - 1)
      BY <1>2, <2>1
    <2>3. BaseDelay * x \in Nat
      BY <1>1
    <2>4. doubled \in Nat
      BY <2>2, <2>3
    <2> HIDE DEF over, doubled
    <2> QED BY <1>1, <1>3, <1>5, <2>4
  <1> QED BY <1>4, <1>5

\* Who has to wait is not forgotten.
LEMMA WaitIsRemembered ==
  ASSUME LoginAssumption, LoginInv, NEW i \in DOMAIN streaks, clock < streaks[i].deadline
  PROVE  ~Login!Forgotten(streaks[i])
  <1>1. streaks[i].last \in Nat /\ streaks[i].deadline \in Nat
    <2>1. streaks[i] \in Login!Streak
      BY DEF LoginInv
    <2> QED BY <2>1 DEF Login!Streak
  <1>2. streaks[i].deadline <= streaks[i].last + MaxDelay /\ clock \in Nat
    BY DEF LoginInv, Earned
  <1>3. MaxDelay \in Nat /\ ForgetAfter \in Nat /\ MaxDelay <= ForgetAfter
    BY DEF LoginAssumption
  <1> QED BY <1>1, <1>2, <1>3 DEF Login!Forgotten

\* The streak looked up for a client is its only one.
LEMMA LiveIs ==
  ASSUME LoginInv, NEW c \in Clients, NEW i \in DOMAIN streaks, streaks[i].client = c
  PROVE  Login!Live(c) = streaks[i]
  <1>1. PICK p : p = Login!Place(streaks, c)
    OBVIOUS
  <1>2. p \in DOMAIN streaks /\ streaks[p].client = c
    BY <1>1 DEF Login!Place
  <1>3. ~(p < i) /\ ~(i < p)
    BY <1>2 DEF LoginInv, InOrder
  <1>4. p \in Nat /\ i \in Nat
    BY <1>2 DEF LoginInv
  <1>5. p = i
    BY <1>3, <1>4
  <1> QED BY <1>1, <1>5 DEF Login!Live

LEMMA LoginSound == ASSUME LoginAssumption, LoginInv PROVE Login!TypeOK /\ Login!LockoutSound
  <1>1. ASSUME NEW c \in Clients, clock < lockedUntil[c]
        PROVE  Login!Wait(c) = lockedUntil[c] - clock
    <2>1. PICK i \in DOMAIN streaks : streaks[i].client = c /\ streaks[i].deadline = lockedUntil[c]
      BY <1>1 DEF LoginInv
    <2>2. ~Login!Forgotten(streaks[i])
      BY <1>1, <2>1, WaitIsRemembered
    <2>3. Login!Known(c)
      BY <2>1, <2>2 DEF Login!Known
    <2>4. Login!Live(c).deadline = lockedUntil[c]
      BY <2>1, LiveIs
    <2> QED BY <2>3, <2>4 DEF Login!Wait
  <1>2. Login!LocksHold
    BY <1>1 DEF Login!LocksHold
  <1>3. Login!AlertsAccounted
    BY DEF LoginInv, Login!AlertsAccounted
  <1>4. Login!TypeOK
    BY DEF LoginInv, Login!TypeOK
  <1> QED BY <1>2, <1>3, <1>4 DEF Login!LockoutSound

LEMMA LoginInit == ASSUME LoginAssumption, Login!Init PROVE LoginInv
  <1>1. MaxClients \in Nat /\ MaxOpen \in Nat
    BY DEF LoginAssumption
  <1>2. /\ clock = 0 /\ streaks = << >> /\ held = 0 /\ untold = 0 /\ lastAlert = Login!Never
        /\ open = [c \in Clients |-> 0] /\ lockedUntil = [c \in Clients |-> 0]
    BY DEF Login!Init
  <1>3. << >> \in Seq(Login!Streak) /\ Len(<< >>) <= MaxClients /\ DOMAIN << >> = {}
    BY <1>1
  <1>4. \A c \in Clients : ~(clock < lockedUntil[c])
    BY <1>2
  <1> QED BY <1>1, <1>2, <1>3, <1>4 DEF LoginInv, InOrder

LEMMA LoginTick == ASSUME LoginAssumption, LoginInv, Login!Tick PROVE LoginInv'
  <1>1. clock' = clock + 1 /\ UNCHANGED <<streaks, open, lastAlert, held, lockedUntil, untold>>
    BY DEF Login!Tick
  <1>2. \A i \in DOMAIN streaks : streaks[i].last \in Nat
    <2>1. \A i \in DOMAIN streaks : streaks[i] \in Login!Streak
      BY DEF LoginInv
    <2> QED BY <2>1 DEF Login!Streak
  <1>3. \A i \in DOMAIN streaks : streaks[i].last <= clock + 1 /\ Earned(streaks[i])
    BY <1>2 DEF LoginInv
  <1>4. \A c \in Clients : lockedUntil[c] \in Nat /\ (clock + 1 < lockedUntil[c] => clock < lockedUntil[c])
    BY DEF LoginInv
  <1> QED BY <1>1, <1>3, <1>4 DEF LoginInv, Earned

\* Looking a client up drops its streak only once that has been forgotten.
LEMMA LoginLooks ==
  ASSUME LoginAssumption, LoginInv, NEW c \in Clients, Login!LoginCheck(c)
  PROVE  LoginInv'
  <1>1. UNCHANGED <<clock, lastAlert, held, lockedUntil, untold>>
    BY DEF Login!LoginCheck
  <1>2. open' \in [Clients -> 0 .. MaxOpen]
    <2>1. open[c] < MaxOpen /\ (open' = [open EXCEPT ![c] = @ + 1] \/ open' = open)
      BY DEF Login!LoginCheck
    <2>2. open \in [Clients -> 0 .. MaxOpen] /\ MaxOpen \in Nat
      BY DEF LoginInv, LoginAssumption
    <2> QED BY <2>1, <2>2
  <1>3. CASE streaks' = streaks
    BY <1>1, <1>2, <1>3 DEF LoginInv, Earned
  <1>4. CASE streaks' # streaks
    <2>1. PICK W : W = Login!Without(streaks, c)
      OBVIOUS
    <2>2. streaks' = W /\ ~Login!Known(c)
      BY <1>4, <2>1 DEF Login!LoginCheck, Login!Looked
    <2>3. /\ W \in Seq(Login!Streak) /\ InOrder(W) /\ Len(W) <= Len(streaks)
          /\ \A i \in DOMAIN W : \E j \in DOMAIN streaks : W[i] = streaks[j]
          /\ \A j \in DOMAIN streaks : streaks[j].client = c \/ \E i \in DOMAIN W : W[i] = streaks[j]
      BY <2>1, WithoutIs DEF LoginInv
    <2>4. \A i \in DOMAIN W : W[i].last <= clock /\ Earned(W[i])
      BY <2>3 DEF LoginInv
    <2>5. ASSUME NEW d \in Clients, clock < lockedUntil[d]
          PROVE  \E i \in DOMAIN W : W[i].client = d /\ W[i].deadline = lockedUntil[d]
      <3>1. PICK j \in DOMAIN streaks : streaks[j].client = d /\ streaks[j].deadline = lockedUntil[d]
        BY <2>5 DEF LoginInv
      <3>2. ~Login!Forgotten(streaks[j])
        BY <2>5, <3>1, WaitIsRemembered
      <3>3. d # c
        BY <2>2, <3>1, <3>2 DEF Login!Known
      <3> QED BY <2>3, <3>1, <3>3
    <2>6. Len(W) <= MaxClients
      <3>1. Len(W) \in Nat /\ Len(streaks) \in Nat /\ MaxClients \in Nat /\ Len(streaks) <= MaxClients
        BY <2>3 DEF LoginInv, LoginAssumption
      <3> QED BY <2>3, <3>1
    <2> QED BY <1>1, <1>2, <2>2, <2>3, <2>4, <2>5, <2>6 DEF LoginInv, Earned, InOrder
  <1> QED BY <1>3, <1>4

\* A right password clears the client's streak and its wait with it.
LEMMA LoginResets ==
  ASSUME LoginAssumption, LoginInv, NEW c \in Clients, Login!LoginRight(c)
  PROVE  LoginInv'
  <1>1. /\ UNCHANGED <<clock, lastAlert, held, untold>>
        /\ lockedUntil' = [lockedUntil EXCEPT ![c] = 0]
    BY DEF Login!LoginRight
  <1>2. open' \in [Clients -> 0 .. MaxOpen]
    <2>1. open[c] > 0 /\ open' = [open EXCEPT ![c] = @ - 1]
      BY DEF Login!LoginRight
    <2>2. open \in [Clients -> 0 .. MaxOpen] /\ MaxOpen \in Nat
      BY DEF LoginInv, LoginAssumption
    <2> QED BY <2>1, <2>2
  <1>3. PICK W : W = Login!Without(streaks, c)
    OBVIOUS
  <1>4. streaks' = W
    BY <1>3 DEF Login!LoginRight
  <1>5. /\ W \in Seq(Login!Streak) /\ InOrder(W) /\ Len(W) <= Len(streaks)
        /\ \A i \in DOMAIN W : \E j \in DOMAIN streaks : W[i] = streaks[j]
        /\ \A j \in DOMAIN streaks : streaks[j].client = c \/ \E i \in DOMAIN W : W[i] = streaks[j]
    BY <1>3, WithoutIs DEF LoginInv
  <1>6. \A i \in DOMAIN W : W[i].last <= clock /\ Earned(W[i])
    BY <1>5 DEF LoginInv
  <1>7. lockedUntil' \in [Clients -> Nat] /\ lockedUntil'[c] = 0 /\ clock \in Nat
        /\ \A d \in Clients : d # c => lockedUntil'[d] = lockedUntil[d]
    BY <1>1 DEF LoginInv
  <1>8. ASSUME NEW d \in Clients, clock < lockedUntil'[d]
        PROVE  \E i \in DOMAIN W : W[i].client = d /\ W[i].deadline = lockedUntil'[d]
    <2>1. d # c /\ lockedUntil'[d] = lockedUntil[d]
      BY <1>7, <1>8
    <2>2. PICK j \in DOMAIN streaks : streaks[j].client = d /\ streaks[j].deadline = lockedUntil[d]
      BY <1>8, <2>1 DEF LoginInv
    <2> QED BY <1>5, <2>1, <2>2
  <1>9. Len(W) <= MaxClients
    <2>1. Len(W) \in Nat /\ Len(streaks) \in Nat /\ MaxClients \in Nat /\ Len(streaks) <= MaxClients
      BY <1>5 DEF LoginInv, LoginAssumption
    <2> QED BY <1>5, <2>1
  <1> QED BY <1>1, <1>2, <1>4, <1>5, <1>6, <1>7, <1>8, <1>9 DEF LoginInv, Earned, InOrder

\* The table that a failure of c is appended to has room, nothing of c, and all that is
\* remembered of others but for a client it was too full to keep.
LEMMA RestIs ==
  ASSUME LoginAssumption, LoginInv, NEW c \in Clients
  PROVE  /\ Login!Rest(c) \in Seq(Login!Streak) /\ InOrder(Login!Rest(c))
         /\ Len(Login!Rest(c)) < MaxClients
         /\ \A i \in DOMAIN Login!Rest(c) :
              /\ Login!Rest(c)[i].client # c
              /\ \E j \in DOMAIN streaks : Login!Rest(c)[i] = streaks[j]
         /\ \A j \in DOMAIN streaks :
              \/ streaks[j].client = c \/ Login!Forgotten(streaks[j])
              \/ Login!Squeezed(c, streaks[j].client)
              \/ \E i \in DOMAIN Login!Rest(c) : Login!Rest(c)[i] = streaks[j]
  <1>1. /\ streaks \in Seq(Login!Streak) /\ InOrder(streaks) /\ Len(streaks) <= MaxClients
        /\ clock \in Nat /\ MaxClients \in Nat
    BY DEF LoginInv, LoginAssumption
  <1>2. PICK T : T = Login!Without(streaks, c)
    OBVIOUS
  <1>3. /\ T \in Seq(Login!Streak) /\ InOrder(T) /\ Len(T) <= Len(streaks)
        /\ (\E i \in DOMAIN streaks : streaks[i].client = c) => Len(T) = Len(streaks) - 1
        /\ \A i \in DOMAIN T : T[i].client # c /\ \E j \in DOMAIN streaks : T[i] = streaks[j]
        /\ \A j \in DOMAIN streaks : streaks[j].client = c \/ \E i \in DOMAIN T : T[i] = streaks[j]
    BY <1>1, <1>2, WithoutIs
  <1>4. Len(T) \in Nat /\ Len(streaks) \in Nat /\ Len(T) <= MaxClients
    BY <1>1, <1>3
  <1>5. CASE Login!Known(c)
    <2>1. Login!Rest(c) = T
      BY <1>2, <1>5 DEF Login!Rest
    <2>2. Len(T) < MaxClients
      <3>1. \E i \in DOMAIN streaks : streaks[i].client = c
        BY <1>5 DEF Login!Known
      <3> QED BY <1>1, <1>3, <1>4, <3>1
    <2> QED BY <1>3, <2>1, <2>2
  <1>6. CASE ~Login!Known(c)
    <2>1. PICK R : R = Login!MakeRoom(T)
      OBVIOUS
    <2>2. Login!Rest(c) = R
      BY <1>2, <1>6, <2>1 DEF Login!Rest, Login!Looked
    <2>3. /\ R \in Seq(Login!Streak) /\ InOrder(R) /\ Len(R) < MaxClients
          /\ \A i \in DOMAIN R : \E j \in DOMAIN T : R[i] = T[j]
          /\ \A j \in DOMAIN T :
               \/ \E i \in DOMAIN R : R[i] = T[j]
               \/ Login!Forgotten(T[j])
               \/ j = 1 /\ Len(T) = MaxClients /\ \A k \in DOMAIN T : ~Login!Forgotten(T[k])
      BY <1>1, <1>3, <1>4, <2>1, MakeRoomIs
    <2>4. ASSUME NEW j \in DOMAIN streaks, streaks[j].client # c, ~Login!Forgotten(streaks[j]),
                 ~ \E i \in DOMAIN R : R[i] = streaks[j]
          PROVE  Login!Squeezed(c, streaks[j].client)
      <3>1. PICK k \in DOMAIN T : T[k] = streaks[j]
        BY <1>3, <2>4
      <3>2. k = 1 /\ Len(T) = MaxClients /\ \A m \in DOMAIN T : ~Login!Forgotten(T[m])
        BY <2>3, <2>4, <3>1
      <3>3. ~ \E i \in DOMAIN streaks : streaks[i].client = c
        BY <1>1, <1>3, <1>4, <3>2
      <3>4. T = streaks
        BY <1>2, <3>3 DEF Login!Without
      <3>5. Len(streaks) = MaxClients /\ 1 \in DOMAIN streaks /\ streaks[1] = streaks[j]
            /\ \A m \in DOMAIN streaks : ~Login!Forgotten(streaks[m])
        BY <3>1, <3>2, <3>4
      <3>6. \A m \in DOMAIN streaks : streaks[m].last >= streaks[1].last
        <4> SUFFICES ASSUME NEW m \in DOMAIN streaks PROVE streaks[m].last >= streaks[1].last
          OBVIOUS
        <4>1. streaks[m].last \in Nat
          <5>1. streaks[m] \in Login!Streak
            BY <1>1
          <5> QED BY <5>1 DEF Login!Streak
        <4>2. m = 1 \/ 1 < m
          BY <1>1
        <4>3. streaks[1].last \in Nat
          <5>1. streaks[1] \in Login!Streak
            BY <1>1, <3>5
          <5> QED BY <5>1 DEF Login!Streak
        <4>4. 1 < m => streaks[1].last <= streaks[m].last
          BY <1>1, <3>5 DEF InOrder
        <4> QED BY <4>1, <4>2, <4>3, <4>4
      <3>7. Login!Cardinality({m \in DOMAIN streaks : ~Login!Forgotten(streaks[m])}) = MaxClients
        <4>1. {m \in DOMAIN streaks : ~Login!Forgotten(streaks[m])} = 1 .. Len(streaks)
          <5>1. DOMAIN streaks = 1 .. Len(streaks)
            BY <1>1
          <5> QED BY <3>5, <5>1
        <4>2. 1 \in Int /\ Len(streaks) \in Int
          BY <1>4
        <4>3. Cardinality(1 .. Len(streaks)) = IF 1 > Len(streaks) THEN 0 ELSE Len(streaks) - 1 + 1
          BY <4>2, FS_Interval
        <4>4. Cardinality(1 .. Len(streaks)) = MaxClients
          BY <1>4, <3>5, <4>3
        <4>5. \A S : Login!Cardinality(S) = Cardinality(S)
          BY Zenon DEF Login!Cardinality, Cardinality, Login!IsFiniteSet, IsFiniteSet
        <4> QED BY <4>1, <4>4, <4>5
      <3> QED BY <1>1, <1>6, <3>5, <3>6, <3>7 DEF Login!Squeezed
    <2>5. \A i \in DOMAIN R : R[i].client # c /\ \E j \in DOMAIN streaks : R[i] = streaks[j]
      BY <1>3, <2>3
    <2> QED BY <2>2, <2>3, <2>4, <2>5
  <1> QED BY <1>5, <1>6

\* The streak that a failure leaves.
LEMMA GrownIs ==
  ASSUME LoginAssumption, LoginInv, NEW c \in Clients
  PROVE  /\ Login!Grown(c) \in Login!Streak /\ Login!Grown(c).client = c
         /\ Login!Grown(c).last = clock /\ Earned(Login!Grown(c))
         /\ (Login!Grown(c).alerted /\ ~(Login!Known(c) /\ Login!Live(c).alerted))
              <=> Login!Grown(c).failures = AlertAfter
  <1>1. clock \in Nat /\ AlertAfter \in Nat \ {0} /\ MaxDelay \in Nat
    BY DEF LoginInv, LoginAssumption
  <1>2. ASSUME Login!Known(c)
        PROVE  /\ Login!Live(c).failures \in Nat /\ Login!Live(c).alerted \in BOOLEAN
               /\ Login!Live(c).alerted <=> Login!Live(c).failures >= AlertAfter
    <2>1. PICK i \in DOMAIN streaks : streaks[i].client = c
      BY <1>2 DEF Login!Known
    <2>2. Login!Live(c) = streaks[i]
      BY <2>1, LiveIs
    <2>3. streaks[i] \in Login!Streak /\ Earned(streaks[i])
      BY DEF LoginInv
    <2> QED BY <2>2, <2>3 DEF Earned, Login!Streak
  <1>3. PICK n : n = IF Login!Known(c) THEN Login!Live(c).failures + 1 ELSE 1
    OBVIOUS
  <1>4. n \in Nat \ {0}
    BY <1>2, <1>3
  <1>5. Login!Delay(n) \in Nat /\ Login!Delay(n) <= MaxDelay
    BY <1>4, DelayIs
  <1>6. PICK t : t = clock + Login!Delay(n)
    OBVIOUS
  <1>7. PICK passed : passed = (n >= AlertAfter)
    OBVIOUS
  <1>8. PICK g : g = [client |-> c, failures |-> n, deadline |-> t, last |-> clock, alerted |-> passed]
    OBVIOUS
  <1>9. Login!Grown(c) = g
    BY <1>3, <1>6, <1>7, <1>8 DEF Login!Grown
  <1>10. t \in Nat /\ t <= clock + MaxDelay /\ passed \in BOOLEAN /\ n >= 1
    BY <1>1, <1>4, <1>5, <1>6, <1>7
  <1>11. g \in Login!Streak
    BY <1>1, <1>4, <1>8, <1>10 DEF Login!Streak
  <1>12. /\ g.client = c /\ g.failures = n /\ g.deadline = t /\ g.last = clock
         /\ g.alerted <=> n >= AlertAfter
    BY <1>7, <1>8
  <1>13. Earned(g)
    BY <1>10, <1>12 DEF Earned
  <1>14. (n >= AlertAfter /\ ~(Login!Known(c) /\ Login!Live(c).alerted)) <=> n = AlertAfter
    <2>1. CASE Login!Known(c)
      BY <1>1, <1>2, <1>3, <2>1
    <2>2. CASE ~Login!Known(c)
      BY <1>1, <1>3, <2>2
    <2> QED BY <2>1, <2>2
  <1> QED BY <1>14, <1>9, <1>11, <1>12, <1>13

\* A failure that is due an alert is told, or held back and counted.
LEMMA AlertTaken ==
  ASSUME LoginAssumption, LoginInv, NEW c \in Clients, Login!TakeAlert(c)
  PROVE  held' \in Nat /\ untold' = held' /\ lastAlert' \in {Login!Never} \cup Nat
  <1>1. held \in Nat /\ untold = held /\ clock \in Nat /\ lastAlert \in {Login!Never} \cup Nat
    BY DEF LoginInv
  <1> DEFINE due == Login!Grown(c).alerted /\ ~(Login!Known(c) /\ Login!Live(c).alerted)
             cooling == lastAlert # Login!Never /\ clock - lastAlert < AlertCooldown
  <1>2. due <=> Login!Grown(c).failures = AlertAfter
    BY GrownIs
  <1>3. /\ lastAlert' = IF due /\ ~cooling THEN clock ELSE lastAlert
        /\ held' = IF ~due THEN held ELSE IF cooling THEN held + 1 ELSE 0
        /\ untold' = untold + (IF Login!Grown(c).failures = AlertAfter THEN 1 ELSE 0)
                            - (IF due /\ ~cooling THEN 1 + held ELSE 0)
    BY DEF Login!TakeAlert
  <1> HIDE DEF due, cooling
  <1>4. CASE ~due
    BY <1>1, <1>2, <1>3, <1>4
  <1>5. CASE due /\ cooling
    BY <1>1, <1>2, <1>3, <1>5
  <1>6. CASE due /\ ~cooling
    BY <1>1, <1>2, <1>3, <1>6
  <1> QED BY <1>4, <1>5, <1>6

LEMMA FailureKeeps ==
  ASSUME LoginAssumption, LoginInv, NEW c \in Clients, Login!RecordFailure(c),
         clock' = clock, open' \in [Clients -> 0 .. MaxOpen]
  PROVE  LoginInv'
  <1>1. PICK R : R = Login!Rest(c)
    OBVIOUS
  <1>2. PICK g : g = Login!Grown(c)
    OBVIOUS
  <1>3. /\ R \in Seq(Login!Streak) /\ InOrder(R) /\ Len(R) < MaxClients
        /\ \A i \in DOMAIN R : R[i].client # c /\ \E j \in DOMAIN streaks : R[i] = streaks[j]
        /\ \A j \in DOMAIN streaks :
             \/ streaks[j].client = c \/ Login!Forgotten(streaks[j])
             \/ Login!Squeezed(c, streaks[j].client)
             \/ \E i \in DOMAIN R : R[i] = streaks[j]
    BY <1>1, RestIs
  <1>4. g \in Login!Streak /\ g.client = c /\ g.last = clock /\ Earned(g)
    BY <1>2, GrownIs
  <1>5. clock \in Nat /\ MaxClients \in Nat
    BY DEF LoginInv, LoginAssumption
  <1>6. PICK N : N = Append(R, g)
    OBVIOUS
  <1>7. /\ N \in Seq(Login!Streak) /\ Len(N) = Len(R) + 1 /\ DOMAIN N = 1 .. Len(R) + 1
        /\ \A i \in DOMAIN R : N[i] = R[i]
        /\ N[Len(R) + 1] = g
        /\ Len(R) \in Nat /\ DOMAIN R = 1 .. Len(R)
    BY <1>3, <1>4, <1>6
  <1>8. /\ streaks' = N
        /\ lockedUntil' = [d \in Clients |-> IF d = c THEN g.deadline
                                             ELSE IF Login!Squeezed(c, d) THEN 0 ELSE lockedUntil[d]]
        /\ Login!TakeAlert(c)
    BY <1>1, <1>2, <1>6 DEF Login!RecordFailure
  <1>9. \A i \in DOMAIN R : R[i].last <= clock /\ Earned(R[i])
    BY <1>3 DEF LoginInv
  <1>10. \A i \in DOMAIN N : (i \in DOMAIN R /\ N[i] = R[i]) \/ (i = Len(R) + 1 /\ N[i] = g)
    BY <1>7
  <1>11. \A i \in DOMAIN N : N[i].last <= clock /\ Earned(N[i])
    BY <1>4, <1>5, <1>9, <1>10
  <1>12. InOrder(N)
    <2> SUFFICES ASSUME NEW i \in DOMAIN N, NEW j \in DOMAIN N, i < j
                 PROVE  N[i].client # N[j].client /\ N[i].last <= N[j].last
      BY DEF InOrder
    <2>1. i \in DOMAIN R /\ N[i] = R[i]
      BY <1>7
    <2>2. CASE j \in DOMAIN R
      BY <1>3, <1>7, <2>1, <2>2 DEF InOrder
    <2>3. CASE j = Len(R) + 1
      BY <1>3, <1>4, <1>7, <1>9, <2>1, <2>3
    <2> QED BY <1>10, <2>2, <2>3
  <1>13. Len(N) <= MaxClients
    BY <1>3, <1>5, <1>7
  <1>14. lockedUntil' \in [Clients -> Nat]
    <2>1. g.deadline \in Nat /\ lockedUntil \in [Clients -> Nat]
      BY <1>4 DEF Login!Streak, LoginInv
    <2> QED BY <1>8, <2>1
  <1>15. ASSUME NEW d \in Clients, clock < lockedUntil'[d]
         PROVE  \E i \in DOMAIN N : N[i].client = d /\ N[i].deadline = lockedUntil'[d]
    <2>1. CASE d = c
      <3>1. Len(R) + 1 \in DOMAIN N
        BY <1>7
      <3> QED BY <1>4, <1>7, <1>8, <2>1, <3>1
    <2>2. CASE d # c
      <3>1. ~Login!Squeezed(c, d) /\ lockedUntil'[d] = lockedUntil[d]
        BY <1>5, <1>8, <1>15, <2>2
      <3>2. PICK j \in DOMAIN streaks : streaks[j].client = d /\ streaks[j].deadline = lockedUntil[d]
        BY <1>15, <3>1 DEF LoginInv
      <3>3. ~Login!Forgotten(streaks[j])
        BY <1>15, <3>1, <3>2, WaitIsRemembered
      <3>4. PICK i \in DOMAIN R : R[i] = streaks[j]
        BY <1>3, <2>2, <3>1, <3>2, <3>3
      <3>5. i \in DOMAIN N /\ N[i] = R[i]
        BY <1>7
      <3> QED BY <3>1, <3>2, <3>4, <3>5
    <2> QED BY <2>1, <2>2
  <1>16. held' \in Nat /\ untold' = held' /\ lastAlert' \in {Login!Never} \cup Nat
    BY <1>8, AlertTaken
  <1> QED BY <1>5, <1>7, <1>8, <1>11, <1>12, <1>13, <1>14, <1>15, <1>16
          DEF LoginInv, Earned, InOrder

LEMMA LoginFails ==
  ASSUME LoginAssumption, LoginInv, NEW c \in Clients, Login!LoginWrong(c)
  PROVE  LoginInv'
  <1>1. clock' = clock
    BY DEF Login!LoginWrong
  <1>2. open' \in [Clients -> 0 .. MaxOpen]
    <2>1. open[c] > 0 /\ open' = [open EXCEPT ![c] = @ - 1]
      BY DEF Login!LoginWrong
    <2>2. open \in [Clients -> 0 .. MaxOpen] /\ MaxOpen \in Nat
      BY DEF LoginInv, LoginAssumption
    <2> QED BY <2>1, <2>2
  <1>3. CASE c \in Pc
    <2>1. UNCHANGED <<streaks, lastAlert, held, lockedUntil, untold>>
      BY <1>3 DEF Login!LoginWrong
    <2> QED BY <1>1, <1>2, <2>1 DEF LoginInv, Earned
  <1>4. CASE c \notin Pc
    <2>1. Login!RecordFailure(c)
      BY <1>4 DEF Login!LoginWrong
    <2> QED BY <1>1, <1>2, <2>1, FailureKeeps
  <1> QED BY <1>3, <1>4

LEMMA LoginStep ==
  ASSUME LoginAssumption PROVE LoginInv /\ [Login!Next]_(Login!vars) => LoginInv'
  <1> SUFFICES ASSUME LoginInv, [Login!Next]_(Login!vars) PROVE LoginInv'
    OBVIOUS
  <1>1. CASE Login!Tick
    BY <1>1, LoginTick
  <1>2. ASSUME NEW c \in Clients,
               Login!LoginCheck(c) \/ Login!LoginWrong(c) \/ Login!LoginRight(c)
        PROVE  LoginInv'
    BY <1>2, LoginLooks, LoginFails, LoginResets
  <1>3. CASE UNCHANGED Login!vars
    <2>1. UNCHANGED <<clock, streaks, open, lastAlert, held, lockedUntil, untold>>
      BY <1>3 DEF Login!vars
    <2> QED BY <2>1 DEF LoginInv, Earned
  <1> QED BY <1>1, <1>2, <1>3 DEF Login!Next

\* For any clients, delays, size of the table and cooldown that LoginLockout takes, and
\* any number of logins of a client at once: the table stays within its bound, a client
\* serves the whole wait its last failure earned unless the table was full of streaks
\* no staler than its own, and each streak that came to the alert is in an alert or is
\* counted into the next (retry_after, record_failure, _live, _make_room, _take_alert).
THEOREM LockoutSoundAlways ==
  ASSUME LoginAssumption
  PROVE  Login!Spec => [](Login!TypeOK /\ Login!LockoutSound)
  <1>1. Login!Init => LoginInv
    BY LoginInit
  <1>2. LoginInv => Login!TypeOK /\ Login!LockoutSound
    BY LoginSound
  <1> QED BY <1>1, <1>2, LoginStep, PTL DEF Login!Spec

-----------------------------------------------------------------------------
(* The settings. *)

Names == {"root", "history", "model", "models", "password", "port"}

\* Members of the lists and names of single fields are told apart.
ConfigAssumption ==
  /\ Tokens \cap Projects = {} /\ (Tokens \cup Projects) \cap Names = {}
  /\ MaxEdits \in Nat

Values == {"none", "minted", "used", "off", "on", "own", "override", "wide", "narrow", "default",
           "moved", "bad", "m2", "set"}
Configs == [Config!Fields -> Values]
Updates == [at : {"loaded"}, cfg : Configs, stale : BOOLEAN,
            request : [field : Config!Fields \ {"port", "models", "password"}, value : Values]]
Copies == [at : {"loaded"}, cfg : Configs, stale : BOOLEAN]

ConfigTypes ==
  /\ file \in Configs /\ app \in Configs /\ meant \in Configs
  /\ route \in {Config!Idle} \cup Updates /\ script \in {Config!Idle} \cup Copies
  /\ up \in BOOLEAN /\ hand \in BOOLEAN /\ misread \in BOOLEAN /\ overlapped \in BOOLEAN
  /\ issued \subseteq Tokens /\ revoked \subseteq issued /\ edits \in 0 .. MaxEdits

Updating == route # Config!Idle
Copied == script # Config!Idle

\* What is saved, or about to be, has no override, and no token never minted.
Clean(cfg) == cfg["port"] = "own" /\ \A t \in Tokens \ issued : cfg[t] = "none"
AllClean ==
  /\ Clean(file) /\ meant["port"] = "own"
  /\ (Updating => Clean(route.cfg)) /\ (Copied => Clean(script.cfg))
  /\ \A t \in Tokens \ issued : app[t] = "none"

\* An update of a token has what was asked for in hand, and the token was minted.
Asked ==
  Updating /\ route.request.field \in Tokens =>
    route.request.field \in issued /\ route.cfg[route.request.field] = route.request.value

\* A revoked token is out of the file and of every copy still good to save.
Out(cfg) == \A t \in revoked : cfg[t] = "none"
AllOut ==
  ~overlapped =>
    /\ Out(file) /\ (up => Out(app)) /\ (Updating => Out(route.cfg))
    /\ (Copied /\ ~script.stale => Out(script.cfg))

\* A copy agrees with what was meant: on the lists, and on the other fields.
Lists(cfg, goal) ==
  /\ \A t \in Tokens : Config!Held(cfg[t]) = Config!Held(goal[t])
  /\ hand \/ \A p \in Projects : cfg[p] = goal[p]
Agrees(cfg, goal) ==
  /\ Lists(cfg, goal)
  /\ \A f \in {"root", "history", "models", "password"} : cfg[f] = goal[f]
  /\ Config!Heal(cfg)["model"] = Config!Heal(goal)["model"]

\* What will be meant once the update under way is saved.
Goal == [meant EXCEPT ![route.request.field] = route.request.value]
AllAgree ==
  ~overlapped /\ ~misread =>
    /\ Agrees(file, meant) /\ (up => Lists(app, meant))
    /\ (Updating /\ ~route.stale => Agrees(route.cfg, Goal))
    /\ (Copied /\ ~script.stale => Agrees(script.cfg, meant))

ConfigInv == ConfigTypes /\ AllClean /\ Asked /\ AllOut /\ AllAgree

LEMMA FieldsApart ==
  ASSUME ConfigAssumption
  PROVE  /\ Config!Fields = Tokens \cup Projects \cup Names
         /\ \A t \in Tokens : t \notin Projects /\ t \notin Names
         /\ \A p \in Projects : p \notin Tokens /\ p \notin Names
  BY DEF ConfigAssumption, Config!Fields, Names

\* Healing touches the model only, and once.
LEMMA HealShape ==
  ASSUME ConfigAssumption, NEW cfg \in Configs
  PROVE  /\ Config!Heal(cfg) \in Configs
         /\ \A f \in Config!Fields : f # "model" => Config!Heal(cfg)[f] = cfg[f]
         /\ Config!Heal(Config!Heal(cfg))["model"] = Config!Heal(cfg)["model"]
  <1>1. "model" \in Config!Fields /\ "models" \in Config!Fields
    BY DEF Config!Fields
  <1>2. CASE cfg["models"] = "narrow" /\ cfg["model"] = "m2"
    <2>1. Config!Heal(cfg) = [cfg EXCEPT !["model"] = "default"]
      BY <1>2 DEF Config!Heal
    <2>2. Config!Heal(cfg) \in Configs /\ Config!Heal(cfg)["model"] = "default"
      BY <1>1, <2>1 DEF Configs, Values
    <2>3. Config!Heal(Config!Heal(cfg)) = Config!Heal(cfg)
      BY <2>2 DEF Config!Heal
    <2> QED BY <2>1, <2>2, <2>3 DEF Configs
  <1>3. CASE ~(cfg["models"] = "narrow" /\ cfg["model"] = "m2")
    <2>1. Config!Heal(cfg) = cfg
      BY <1>3 DEF Config!Heal
    <2> QED BY <2>1
  <1> QED BY <1>2, <1>3

LEMMA ModelHealed ==
  ASSUME NEW cfg \in Configs
  PROVE  Config!Heal(cfg)["model"] =
           IF cfg["models"] = "narrow" /\ cfg["model"] = "m2" THEN "default" ELSE cfg["model"]
  BY DEF Config!Heal, Configs, Config!Fields

LEMMA HealAgrees ==
  ASSUME ConfigAssumption, NEW cfg \in Configs, NEW goal \in Configs, Agrees(cfg, goal)
  PROVE  Agrees(Config!Heal(cfg), goal)
  <1>1. \A f \in Config!Fields : f # "model" => Config!Heal(cfg)[f] = cfg[f]
    BY HealShape
  <1>2. Config!Heal(Config!Heal(cfg))["model"] = Config!Heal(cfg)["model"]
    BY HealShape
  <1>3. "model" \notin Tokens /\ "model" \notin Projects
    BY FieldsApart DEF Names
  <1>4. Lists(Config!Heal(cfg), goal)
    BY <1>1, <1>3, FieldsApart DEF Agrees, Lists
  <1>5. \A f \in {"root", "history", "models", "password"} : Config!Heal(cfg)[f] = goal[f]
    BY <1>1 DEF Agrees, Config!Fields
  <1> QED BY <1>2, <1>4, <1>5 DEF Agrees

\* Healing and overriding keep the tokens as they are.
LEMMA HealKeeps ==
  ASSUME ConfigAssumption, NEW cfg \in Configs
  PROVE  /\ Clean(cfg) => Clean(Config!Heal(cfg))
         /\ Out(cfg) /\ revoked \subseteq Tokens => Out(Config!Heal(cfg))
  <1>1. \A t \in Tokens : t \in Config!Fields /\ t # "model"
    BY FieldsApart DEF Names
  <1>2. "port" \in Config!Fields
    BY DEF Config!Fields
  <1> QED BY <1>1, <1>2, HealShape DEF Clean, Out

LEMMA OverrideShape ==
  ASSUME ConfigAssumption, NEW cfg \in Configs
  PROVE  /\ Config!Override(cfg) \in Configs
         /\ \A f \in Tokens \cup Projects : Config!Override(cfg)[f] = cfg[f]
  <1>1. "port" \in Config!Fields /\ "override" \in Values
    BY DEF Config!Fields, Values
  <1>2. \A f \in Tokens \cup Projects : f # "port" /\ f \in Config!Fields
    BY FieldsApart DEF Names
  <1> QED BY <1>1, <1>2 DEF Config!Override, Configs

LEMMA DefaultsShape ==
  ASSUME ConfigAssumption
  PROVE  /\ Config!Defaults \in Configs
         /\ \A t \in Tokens : Config!Defaults[t] = "none"
         /\ Config!Defaults["port"] = "own"
  <1>1. ASSUME NEW t \in Tokens PROVE Config!Defaults[t] = "none"
    <2>1. t \in Config!Fields /\ t \notin Projects /\ t # "port" /\ t # "models"
      BY FieldsApart DEF Names
    <2> QED BY <2>1 DEF Config!Defaults
  <1>2. ASSUME NEW p \in Projects PROVE Config!Defaults[p] = "off"
    <2>1. p \in Config!Fields /\ p \notin Tokens /\ p # "port" /\ p # "models"
      BY FieldsApart DEF Names
    <2> QED BY <2>1 DEF Config!Defaults
  <1>3. \A f \in Names : f \in Config!Fields /\ f \notin Tokens /\ f \notin Projects
    BY FieldsApart
  <1>4. Config!Defaults["port"] = "own" /\ Config!Defaults["models"] = "wide"
    BY <1>3 DEF Config!Defaults, Names
  <1>5. ASSUME NEW f \in Names \ {"port", "models"} PROVE Config!Defaults[f] = "default"
    BY <1>3 DEF Config!Defaults
  <1>6. \A f \in Config!Fields : Config!Defaults[f] \in Values
    BY FieldsApart, <1>1, <1>2, <1>4, <1>5 DEF Values
  <1>7. Config!Defaults = [f \in Config!Fields |-> Config!Defaults[f]]
    BY DEF Config!Defaults
  <1> QED BY <1>1, <1>4, <1>6, <1>7 DEF Configs

\* A patch replaces the list its field is in, or the field.
LEMMA PatchShape ==
  ASSUME ConfigAssumption, ConfigTypes, NEW base \in Configs, NEW request \in Config!Requests
  PROVE  LET patched == Config!Patched(base, Config!Patch(request.field, request.value))
         IN  /\ patched \in Configs
             /\ request.field \in Config!Fields \ {"port", "models", "password"}
             /\ request.value \in Values
             /\ patched[request.field] = request.value
             /\ \A f \in Config!Fields \ {request.field} :
                  patched[f] = IF \/ f \in Tokens /\ request.field \in Tokens
                                  \/ f \in Projects /\ request.field \in Projects
                               THEN app[f] ELSE base[f]
  <1> DEFINE field == request.field
             value == request.value
             patched == Config!Patched(base, Config!Patch(field, value))
  <1>1. field \in Config!Fields \ {"port", "models", "password"} /\ value \in Values
    BY FieldsApart DEF Config!Requests, Names, Values
  <1>2. Config!Fellows(field) = IF field \in Tokens THEN Tokens
                                ELSE IF field \in Projects THEN Projects ELSE {field}
    <2>1. CASE field \in Tokens
      BY <2>1, FieldsApart DEF Config!Fellows
    <2>2. CASE field \in Projects
      BY <2>2, FieldsApart DEF Config!Fellows
    <2>3. CASE field \notin Tokens /\ field \notin Projects
      BY <2>3 DEF Config!Fellows
    <2> QED BY <2>1, <2>2, <2>3, FieldsApart
  <1>3. field \in Config!Fellows(field) /\ Config!Fellows(field) \subseteq Config!Fields
    BY <1>1, <1>2, FieldsApart
  <1>4. DOMAIN Config!Patch(field, value) = Config!Fellows(field)
    BY DEF Config!Patch
  <1>5. \A f \in Config!Fields :
          patched[f] = IF f \in Config!Fellows(field) THEN IF f = field THEN value ELSE app[f]
                       ELSE base[f]
    BY <1>3, <1>4 DEF Config!Patched, Config!Patch
  <1>6. \A f \in Config!Fields : patched[f] \in Values
    BY <1>1, <1>5 DEF ConfigTypes, Configs
  <1>7. patched = [f \in Config!Fields |-> patched[f]]
    BY DEF Config!Patched
  <1>8. patched \in Configs
    BY <1>6, <1>7 DEF Configs
  <1>9. \A f \in Config!Fields \ {field} :
          f \in Config!Fellows(field) <=> \/ f \in Tokens /\ field \in Tokens
                                          \/ f \in Projects /\ field \in Projects
    BY <1>2, FieldsApart
  <1>10. \A f \in Config!Fields \ {field} :
           patched[f] = IF \/ f \in Tokens /\ field \in Tokens
                           \/ f \in Projects /\ field \in Projects
                        THEN app[f] ELSE base[f]
    BY <1>5, <1>9
  <1> HIDE DEF field, value, patched
  <1>11. patched[field] = value
    BY <1>1, <1>3, <1>5
  <1> QED BY <1>1, <1>8, <1>10, <1>11 DEF field, value, patched

\* What a load returns, when it does not raise.
LEMMA ReadShape ==
  ASSUME ConfigAssumption, ConfigInv, NEW how \in {"read", "unreadable"}, NEW base,
         Config!Read(base, how)
  PROVE  /\ base \in Configs /\ Clean(base) /\ (~overlapped => Out(base))
         /\ how = "read" /\ ~overlapped /\ ~misread => Agrees(base, meant)
  <1>1. file \in Configs /\ meant \in Configs /\ revoked \subseteq Tokens /\ Clean(file)
    BY DEF ConfigInv, ConfigTypes, AllClean
  <1>2. CASE how = "read"
    <2>1. base = Config!Heal(file)
      BY <1>2 DEF Config!Read
    <2>2. base \in Configs /\ Clean(base)
      BY <1>1, <2>1, HealShape, HealKeeps
    <2>3. ~overlapped => Out(base)
      BY <1>1, <2>1, HealKeeps DEF ConfigInv, AllOut
    <2>4. ~overlapped /\ ~misread => Agrees(base, meant)
      BY <1>1, <2>1, HealAgrees DEF ConfigInv, AllAgree
    <2> QED BY <2>2, <2>3, <2>4
  <1>3. CASE how = "unreadable"
    <2>1. base = Config!Defaults
      BY <1>3 DEF Config!Read
    <2> QED BY <1>1, <1>3, <2>1, DefaultsShape DEF Clean, Out
  <1> QED BY <1>2, <1>3

LEMMA ConfigInit == ASSUME ConfigAssumption, Config!Init PROVE ConfigInv
  <1>1. /\ file = Config!Defaults /\ app = Config!Override(Config!Defaults) /\ meant = Config!Defaults
        /\ ~Updating /\ ~Copied /\ issued = {} /\ revoked = {}
    BY DEF Config!Init, Updating, Copied
  <1>2. /\ Config!Defaults \in Configs /\ \A t \in Tokens : Config!Defaults[t] = "none"
        /\ Config!Defaults["port"] = "own"
    BY DefaultsShape
  <1>3. /\ app \in Configs
        /\ \A f \in Tokens \cup Projects : app[f] = Config!Defaults[f]
    BY <1>1, <1>2, OverrideShape
  <1>4. ConfigTypes
    <2>1. file \in Configs /\ app \in Configs /\ meant \in Configs
      BY <1>1, <1>2, <1>3
    <2>2. route = Config!Idle /\ script = Config!Idle
      BY DEF Config!Init
    <2>3. up = TRUE /\ hand = FALSE /\ misread = FALSE /\ overlapped = FALSE /\ edits \in 0 .. MaxEdits
      BY DEF Config!Init, ConfigAssumption
    <2> QED BY <1>1, <2>1, <2>2, <2>3 DEF ConfigTypes
  <1>5. AllClean
    BY <1>1, <1>2, <1>3 DEF AllClean, Clean
  <1>6. AllOut
    BY <1>1 DEF AllOut, Out
  <1>7. AllAgree
    BY <1>1, <1>3 DEF AllAgree, Agrees, Lists
  <1>8. Asked
    BY <1>1 DEF Asked
  <1> QED BY <1>4, <1>5, <1>6, <1>7, <1>8 DEF ConfigInv

\* A route's own edit agrees with what will be meant, whatever its fellows are in memory.
LEMMA PatchAgrees ==
  ASSUME ConfigAssumption, ConfigTypes, NEW base \in Configs, NEW request \in Config!Requests,
         Agrees(base, meant), Lists(app, meant)
  PROVE  Agrees(Config!Patched(base, Config!Patch(request.field, request.value)),
                [meant EXCEPT ![request.field] = request.value])
  <1> DEFINE field == request.field
             value == request.value
             patched == Config!Patched(base, Config!Patch(field, value))
             goal == [meant EXCEPT ![field] = value]
  <1>1. /\ patched \in Configs /\ field \in Config!Fields \ {"port", "models", "password"}
        /\ value \in Values /\ patched[field] = value
        /\ \A f \in Config!Fields \ {field} :
             patched[f] = IF \/ f \in Tokens /\ field \in Tokens
                             \/ f \in Projects /\ field \in Projects
                          THEN app[f] ELSE base[f]
    BY PatchShape
  <1>2. meant \in Configs
    BY DEF ConfigTypes
  <1>3. goal[field] = value /\ \A f \in Config!Fields \ {field} : goal[f] = meant[f]
    BY <1>1, <1>2 DEF Configs
  <1> HIDE DEF field, value, patched, goal
  <1>4. Lists(patched, goal)
    <2>1. ASSUME NEW t \in Tokens PROVE Config!Held(patched[t]) = Config!Held(goal[t])
      <3>1. t \in Config!Fields /\ t \notin Projects
        BY FieldsApart
      <3>2. Config!Held(base[t]) = Config!Held(meant[t]) /\ Config!Held(app[t]) = Config!Held(meant[t])
        BY DEF Agrees, Lists
      <3>3. CASE t = field
        BY <1>1, <1>3, <3>3
      <3>4. CASE t # field
        BY <1>1, <1>3, <3>1, <3>2, <3>4
      <3> QED BY <3>3, <3>4
    <2>2. ASSUME ~hand, NEW p \in Projects PROVE patched[p] = goal[p]
      <3>1. p \in Config!Fields /\ p \notin Tokens
        BY FieldsApart
      <3>2. base[p] = meant[p] /\ app[p] = meant[p]
        BY <2>2 DEF Agrees, Lists
      <3>3. CASE p = field
        BY <1>1, <1>3, <3>3
      <3>4. CASE p # field
        BY <1>1, <1>3, <3>1, <3>2, <3>4
      <3> QED BY <3>3, <3>4
    <2> QED BY <2>1, <2>2 DEF Lists
  <1>5. \A f \in Names \ {field} : patched[f] = base[f] /\ goal[f] = meant[f]
    BY <1>1, <1>3, FieldsApart
  <1>6. ASSUME NEW f \in {"root", "history", "models", "password"} PROVE patched[f] = goal[f]
    <2>1. f \in Names /\ base[f] = meant[f]
      BY DEF Agrees, Names
    <2> QED BY <1>1, <1>3, <1>5, <2>1
  <1>7. Config!Heal(patched)["model"] = Config!Heal(goal)["model"]
    <2>1. Config!Heal(base)["model"] = Config!Heal(meant)["model"] /\ base["models"] = meant["models"]
      BY DEF Agrees
    <2>2. patched["models"] = base["models"] /\ goal["models"] = meant["models"]
      BY <1>1, <1>5 DEF Names
    <2>3. goal \in Configs
      BY <1>1, <1>2 DEF goal, Configs
    <2>4. \A cfg \in Configs : Config!Heal(cfg)["model"] =
            IF cfg["models"] = "narrow" /\ cfg["model"] = "m2" THEN "default" ELSE cfg["model"]
      BY ModelHealed
    <2>5. CASE field = "model"
      BY <1>1, <1>3, <2>1, <2>2, <2>3, <2>4, <2>5
    <2>6. CASE field # "model"
      <3>1. patched["model"] = base["model"] /\ goal["model"] = meant["model"]
        BY <1>5, <2>6 DEF Names
      <3> QED BY <1>1, <1>2, <2>1, <2>2, <2>3, <2>4, <3>1
    <2> QED BY <2>5, <2>6
  <1>8. Agrees(patched, goal)
    BY <1>4, <1>6, <1>7 DEF Agrees
  <1> QED BY <1>8 DEF field, value, patched, goal

LEMMA RouteLoadsKeeps ==
  ASSUME ConfigAssumption, ConfigInv, NEW request \in Config!Requests,
         NEW how \in {"read", "unreadable"}, Config!RouteLoads(request, how)
  PROVE  ConfigInv'
  <1>1. /\ up /\ edits' = edits + 1 /\ edits < MaxEdits
        /\ issued' = IF request.value = "minted" THEN issued \cup {request.field} ELSE issued
        /\ misread' = (misread \/ how = "unreadable")
        /\ UNCHANGED <<file, app, up, script, meant, revoked, hand, overlapped>>
    BY DEF Config!RouteLoads
  <1>2. PICK base \in {Config!Heal(file), Config!Defaults} :
          LET patched == Config!Heal(Config!Patched(base, Config!Patch(request.field, request.value)))
          IN  /\ Config!Read(base, how)
              /\ route' = IF Config!Valid(patched)
                          THEN [at |-> "loaded", cfg |-> patched, request |-> request, stale |-> FALSE]
                          ELSE Config!Idle
    BY DEF Config!RouteLoads
  <1> DEFINE drafted == Config!Patched(base, Config!Patch(request.field, request.value))
             patched == Config!Heal(drafted)
  <1>3. /\ base \in Configs /\ Clean(base) /\ (~overlapped => Out(base))
        /\ how = "read" /\ ~overlapped /\ ~misread => Agrees(base, meant)
    BY <1>2, ReadShape
  <1>4. ConfigTypes /\ ConfigAssumption
    BY DEF ConfigInv
  <1>5. /\ drafted \in Configs /\ request.field \in Config!Fields \ {"port", "models", "password"}
        /\ request.value \in Values /\ drafted[request.field] = request.value
        /\ \A f \in Config!Fields \ {request.field} :
             drafted[f] = IF \/ f \in Tokens /\ request.field \in Tokens
                             \/ f \in Projects /\ request.field \in Projects
                          THEN app[f] ELSE base[f]
    BY <1>3, <1>4, PatchShape
  <1>6. /\ patched \in Configs
        /\ \A f \in Config!Fields : f # "model" => patched[f] = drafted[f]
    BY <1>5, HealShape
  <1>7. route' = IF Config!Valid(patched)
                 THEN [at |-> "loaded", cfg |-> patched, request |-> request, stale |-> FALSE]
                 ELSE Config!Idle
    BY <1>2
  <1>8. /\ request = [field |-> request.field, value |-> request.value]
        /\ request.value = "minted" => request.field \in Tokens \ issued
        /\ request.field \in Tokens => request.value \in {"minted", "none"}
        /\ request.field \in Tokens /\ request.value = "none" => app[request.field] # "none"
    BY FieldsApart DEF Config!Requests, Names, Config!Mint, Config!Revoke
  <1>9. ~overlapped /\ ~misread' => Agrees(patched, [meant EXCEPT ![request.field] = request.value])
    <2> SUFFICES ASSUME ~overlapped, ~misread' PROVE Agrees(patched, [meant EXCEPT ![request.field] = request.value])
      OBVIOUS
    <2>1. Agrees(base, meant) /\ Lists(app, meant)
      BY <1>1, <1>3 DEF ConfigInv, AllAgree
    <2>2. Agrees(drafted, [meant EXCEPT ![request.field] = request.value])
      BY <1>3, <1>4, <2>1, PatchAgrees
    <2>3. [meant EXCEPT ![request.field] = request.value] \in Configs
      BY <1>4, <1>5 DEF ConfigTypes, Configs
    <2> QED BY <1>5, <2>2, <2>3, HealAgrees
  <1> HIDE DEF drafted, patched
  <1>10. /\ Updating' => route' = [at |-> "loaded", cfg |-> patched, request |-> request, stale |-> FALSE]
         /\ route' \in {Config!Idle} \cup Updates
    BY <1>5, <1>6, <1>7, <1>8 DEF Updates, Updating
  <1>11. ConfigTypes'
    <2>1. issued' \subseteq Tokens /\ revoked' \subseteq issued'
      BY <1>1, <1>4, <1>8 DEF ConfigTypes
    <2>2. edits' \in 0 .. MaxEdits
      BY <1>1, <1>4 DEF ConfigTypes, ConfigAssumption
    <2>3. misread' \in BOOLEAN
      BY <1>1, <1>4 DEF ConfigTypes
    <2> QED BY <1>1, <1>4, <1>10, <2>1, <2>2, <2>3 DEF ConfigTypes
  <1>12. AllClean'
    <2>1. issued \subseteq issued' /\ issued' \subseteq Tokens
      BY <1>1, <1>11 DEF ConfigTypes
    <2>2. patched["port"] = "own"
      <3>1. "port" \in Config!Fields /\ "port" \notin Tokens /\ "port" \notin Projects
        BY FieldsApart DEF Names
      <3>2. drafted["port"] = base["port"]
        BY <1>5, <3>1
      <3> QED BY <1>3, <1>6, <3>1, <3>2 DEF Clean
    <2>3. ASSUME NEW t \in Tokens \ issued' PROVE patched[t] = "none"
      <3>1. t \in Config!Fields /\ t \notin Projects /\ t # "model"
        BY FieldsApart DEF Names
      <3>2. t \notin issued /\ base[t] = "none" /\ app[t] = "none"
        BY <1>3, <2>1 DEF Clean, ConfigInv, AllClean
      <3>3. t # request.field
        BY <1>1, <1>8, <3>2
      <3> QED BY <1>5, <1>6, <3>1, <3>2, <3>3
    <2>4. Updating' => Clean(route.cfg)'
      BY <1>10, <2>2, <2>3 DEF Clean
    <2> QED BY <1>1, <2>1, <2>4 DEF ConfigInv, AllClean, Clean, Copied
  <1>13. AllOut'
    <2>1. ASSUME ~overlapped, NEW t \in revoked PROVE patched[t] = "none"
      <3>1. t \in Tokens /\ t \in Config!Fields /\ t \notin Projects /\ t # "model" /\ t \in issued
        BY <1>4, FieldsApart DEF Names, ConfigTypes
      <3>2. base[t] = "none" /\ app[t] = "none"
        BY <1>1, <1>3, <2>1 DEF Out, ConfigInv, AllOut
      <3>3. t # request.field
        BY <1>8, <3>1, <3>2
      <3> QED BY <1>5, <1>6, <3>1, <3>2, <3>3
    <2>2. ~overlapped /\ Updating' => Out(route.cfg)'
      BY <1>1, <1>10, <2>1 DEF Out
    <2> QED BY <1>1, <2>2 DEF ConfigInv, AllOut, Out, Copied
  <1>14. AllAgree'
    <2>1. Updating' => route'.cfg = patched /\ route'.request = request
      BY <1>10
    <2>2. ~overlapped /\ ~misread' /\ Updating' => Agrees(route.cfg, Goal)'
      BY <1>1, <1>9, <2>1 DEF Agrees, Lists, Goal
    <2> QED BY <1>1, <2>2 DEF ConfigInv, AllAgree, Agrees, Lists, Copied
  <1>15. Asked'
    <2>1. ASSUME request.field \in Tokens
          PROVE  request.field \in issued' /\ patched[request.field] = request.value
      <3>1. request.value = "minted" \/ app[request.field] # "none"
        BY <1>8, <2>1
      <3>2. request.field \in issued'
        BY <1>1, <2>1, <3>1 DEF ConfigInv, AllClean
      <3>3. request.field # "model"
        BY <2>1, FieldsApart DEF Names
      <3> QED BY <1>5, <1>6, <3>2, <3>3
    <2> QED BY <1>10, <2>1 DEF Asked
  <1> QED BY <1>11, <1>12, <1>13, <1>14, <1>15 DEF ConfigInv

\* Marking a copy stale leaves the rest of it alone, and takes it out of what must hold of it.
LEMMA StaleCopies ==
  ASSUME ConfigTypes
  PROVE  /\ Updating =>
              /\ [route EXCEPT !.stale = TRUE] \in Updates /\ [route EXCEPT !.stale = TRUE].stale
              /\ [route EXCEPT !.stale = TRUE].cfg = route.cfg
              /\ [route EXCEPT !.stale = TRUE] # Config!Idle
         /\ Copied =>
              /\ [script EXCEPT !.stale = TRUE] \in Copies /\ [script EXCEPT !.stale = TRUE].stale
              /\ [script EXCEPT !.stale = TRUE].cfg = script.cfg
              /\ [script EXCEPT !.stale = TRUE] # Config!Idle
  <1>1. ASSUME Updating
        PROVE  /\ [route EXCEPT !.stale = TRUE] \in Updates /\ [route EXCEPT !.stale = TRUE].stale
               /\ [route EXCEPT !.stale = TRUE].cfg = route.cfg
               /\ [route EXCEPT !.stale = TRUE] # Config!Idle
    <2>1. route \in Updates
      BY <1>1 DEF ConfigTypes, Updating
    <2> QED BY <2>1 DEF Updates, Config!Idle
  <1>2. ASSUME Copied
        PROVE  /\ [script EXCEPT !.stale = TRUE] \in Copies /\ [script EXCEPT !.stale = TRUE].stale
               /\ [script EXCEPT !.stale = TRUE].cfg = script.cfg
               /\ [script EXCEPT !.stale = TRUE] # Config!Idle
    <2>1. script \in Copies
      BY <1>2 DEF ConfigTypes, Copied
    <2> QED BY <2>1 DEF Copies, Config!Idle
  <1> QED BY <1>1, <1>2

LEMMA RouteSavesKeeps == ASSUME ConfigAssumption, ConfigInv, Config!RouteSaves PROVE ConfigInv'
  <1>1. /\ route.at = "loaded" /\ route' = Config!Idle
        /\ file' = route.cfg /\ app' = Config!Override(route.cfg)
        /\ script' = IF script = Config!Idle THEN Config!Idle ELSE [script EXCEPT !.stale = TRUE]
        /\ meant' = Goal
        /\ revoked' = IF route.request.field \in Tokens /\ route.request.value = "none"
                      THEN revoked \cup {route.request.field} ELSE revoked
        /\ overlapped' = (overlapped \/ route.stale)
        /\ UNCHANGED <<up, issued, hand, misread, edits>>
    BY DEF Config!RouteSaves, Goal
  <1>2. ConfigTypes
    BY DEF ConfigInv
  <1>3. Updating /\ route \in Updates
    BY <1>1, <1>2 DEF ConfigTypes, Config!Idle, Updating
  <1>4. /\ route.cfg \in Configs /\ route.stale \in BOOLEAN /\ route.request.value \in Values
        /\ route.request.field \in Config!Fields \ {"port", "models", "password"}
    BY <1>3 DEF Updates
  <1>5. app' \in Configs /\ \A f \in Tokens \cup Projects : app'[f] = route.cfg[f]
    BY <1>1, <1>4, OverrideShape
  <1>6. ~Updating'
    BY <1>1 DEF Updating
  <1>7. (Copied' <=> Copied) /\ (Copied => script' \in Copies /\ script'.stale /\ script'.cfg = script.cfg)
    BY <1>1, <1>2, StaleCopies DEF Copied
  <1>8. ConfigTypes'
    <2>1. revoked' \subseteq issued'
      BY <1>1, <1>2, <1>3 DEF ConfigTypes, ConfigInv, Asked
    <2>2. meant' \in Configs
      BY <1>1, <1>2, <1>4 DEF ConfigTypes, Goal, Configs
    <2>3. script' \in {Config!Idle} \cup Copies
      BY <1>1, <1>7 DEF Copied
    <2>4. overlapped' \in BOOLEAN
      BY <1>1, <1>2, <1>4 DEF ConfigTypes
    <2> QED BY <1>1, <1>2, <1>4, <1>5, <2>1, <2>2, <2>3, <2>4 DEF ConfigTypes
  <1>9. AllClean'
    <2>1. Clean(route.cfg)
      BY <1>3 DEF ConfigInv, AllClean
    <2>2. \A t \in Tokens \ issued : app'[t] = "none"
      BY <1>5, <2>1 DEF Clean
    <2>3. Copied' => Clean(script.cfg)'
      BY <1>1, <1>7 DEF ConfigInv, AllClean, Clean
    <2>4. meant'["port"] = "own"
      BY <1>1, <1>2, <1>4 DEF ConfigInv, AllClean, ConfigTypes, Configs, Goal, Config!Fields
    <2> QED BY <1>1, <1>6, <2>1, <2>2, <2>3, <2>4 DEF AllClean, Clean
  <1>10. AllOut'
    <2> SUFFICES ASSUME ~overlapped, ~route.stale PROVE AllOut'
      BY <1>1 DEF AllOut
    <2>1. \A t \in revoked' : route.cfg[t] = "none"
      BY <1>1, <1>3 DEF ConfigInv, Asked, AllOut, Out
    <2>2. revoked' \subseteq Tokens
      BY <1>8 DEF ConfigTypes
    <2>3. \A t \in revoked' : file'[t] = "none" /\ app'[t] = "none"
      BY <1>1, <1>5, <2>1, <2>2
    <2> QED BY <1>6, <1>7, <2>3 DEF AllOut, Out
  <1>11. AllAgree'
    <2> SUFFICES ASSUME ~overlapped, ~route.stale, ~misread PROVE AllAgree'
      BY <1>1 DEF AllAgree
    <2>1. Agrees(route.cfg, Goal)
      BY <1>3 DEF ConfigInv, AllAgree
    <2>2. Agrees(file, meant)'
      BY <1>1, <2>1 DEF Agrees, Lists
    <2>3. Lists(app, meant)'
      BY <1>1, <1>5, <2>1 DEF Agrees, Lists
    <2> QED BY <1>6, <1>7, <2>2, <2>3 DEF AllAgree
  <1>12. Asked'
    BY <1>6 DEF Asked
  <1> QED BY <1>8, <1>9, <1>10, <1>11, <1>12 DEF ConfigInv

LEMMA RequestKeeps ==
  ASSUME ConfigAssumption, ConfigInv, NEW t \in Tokens, NEW path, Config!Request(t, path)
  PROVE  ConfigInv'
  <1>1. /\ up /\ app[t] # "none" /\ app' = [app EXCEPT ![t] = "used"]
        /\ UNCHANGED <<file, up, route, script, meant, issued, revoked, hand, misread, overlapped, edits>>
    BY DEF Config!Request, Config!histories
  <1>2. ConfigTypes
    BY DEF ConfigInv
  <1>3. /\ app' \in Configs /\ app'[t] = "used"
        /\ \A f \in Config!Fields \ {t} : app'[f] = app[f]
    BY <1>1, <1>2, FieldsApart DEF ConfigTypes, Configs, Values
  <1>4. ConfigTypes'
    BY <1>1, <1>2, <1>3 DEF ConfigTypes
  <1>5. t \in issued
    BY <1>1 DEF ConfigInv, AllClean
  <1>6. AllClean'
    <2>1. \A u \in Tokens \ issued : app'[u] = "none"
      BY <1>3, <1>5, FieldsApart DEF ConfigInv, AllClean
    <2> QED BY <1>1, <2>1 DEF ConfigInv, AllClean, Clean, Updating, Copied
  <1>7. Asked'
    BY <1>1 DEF ConfigInv, Asked, Updating
  <1>8. AllOut'
    <2>1. ~overlapped => t \notin revoked
      BY <1>1 DEF ConfigInv, AllOut, Out
    <2>2. ~overlapped => Out(app)'
      BY <1>1, <1>2, <1>3, <2>1, FieldsApart DEF ConfigInv, AllOut, Out, ConfigTypes
    <2> QED BY <1>1, <2>2 DEF ConfigInv, AllOut, Out, Updating, Copied
  <1>9. AllAgree'
    <2>1. Lists(app, meant) => Lists(app', meant)
      <3> SUFFICES ASSUME Lists(app, meant) PROVE Lists(app', meant)
        OBVIOUS
      <3>1. \A u \in Tokens : Config!Held(app'[u]) = Config!Held(meant[u])
        BY <1>1, <1>3, FieldsApart DEF Lists, Config!Held
      <3>2. \A p \in Projects : app'[p] = app[p]
        BY <1>3, FieldsApart
      <3> QED BY <3>1, <3>2 DEF Lists
    <2> QED BY <1>1, <2>1 DEF ConfigInv, AllAgree, Agrees, Lists, Goal, Updating, Copied
  <1> QED BY <1>4, <1>6, <1>7, <1>8, <1>9 DEF ConfigInv

LEMMA StopsKeeps == ASSUME ConfigInv, Config!Stops PROVE ConfigInv'
  <1>1. /\ ~up' /\ up' \in BOOLEAN /\ ~Updating' /\ route' = Config!Idle
        /\ UNCHANGED <<file, app, script, meant, issued, revoked, hand, misread, overlapped, edits>>
    BY DEF Config!Stops, Config!histories, Updating
  <1>2. ConfigTypes'
    BY <1>1 DEF ConfigInv, ConfigTypes
  <1>3. AllClean' /\ Asked'
    BY <1>1 DEF ConfigInv, AllClean, Clean, Asked, Copied
  <1>4. AllOut'
    BY <1>1 DEF ConfigInv, AllOut, Out, Copied
  <1>5. AllAgree'
    BY <1>1 DEF ConfigInv, AllAgree, Agrees, Lists, Copied
  <1> QED BY <1>2, <1>3, <1>4, <1>5 DEF ConfigInv

LEMMA StartsKeeps ==
  ASSUME ConfigAssumption, ConfigInv, NEW how \in {"read", "unreadable"}, Config!Starts(how)
  PROVE  ConfigInv'
  <1>1. /\ up' = TRUE /\ misread' = (misread \/ how = "unreadable")
        /\ UNCHANGED <<file, route, script, meant, issued, revoked, hand, overlapped, edits>>
    BY DEF Config!Starts, Config!histories
  <1>2. PICK base \in {Config!Heal(file), Config!Defaults} :
          Config!Read(base, how) /\ app' = Config!Override(base)
    BY DEF Config!Starts
  <1>3. /\ base \in Configs /\ Clean(base) /\ (~overlapped => Out(base))
        /\ how = "read" /\ ~overlapped /\ ~misread => Agrees(base, meant)
    BY <1>2, ReadShape
  <1>4. app' \in Configs /\ \A f \in Tokens \cup Projects : app'[f] = base[f]
    BY <1>2, <1>3, OverrideShape
  <1>5. ConfigTypes'
    BY <1>1, <1>4 DEF ConfigInv, ConfigTypes
  <1>6. AllClean'
    <2>1. \A t \in Tokens \ issued : app'[t] = "none"
      BY <1>3, <1>4 DEF Clean
    <2> QED BY <1>1, <2>1 DEF ConfigInv, AllClean, Clean, Updating, Copied
  <1>7. Asked'
    BY <1>1 DEF ConfigInv, Asked, Updating
  <1>8. AllOut'
    <2>1. ~overlapped => Out(app)'
      BY <1>1, <1>3, <1>4 DEF Out, ConfigInv, ConfigTypes
    <2> QED BY <1>1, <2>1 DEF ConfigInv, AllOut, Out, Updating, Copied
  <1>9. AllAgree'
    <2>1. ~overlapped /\ ~misread' => Lists(app, meant)'
      BY <1>1, <1>3, <1>4 DEF Agrees, Lists
    <2> QED BY <1>1, <2>1 DEF ConfigInv, AllAgree, Agrees, Lists, Goal, Updating, Copied
  <1> QED BY <1>5, <1>6, <1>7, <1>8, <1>9 DEF ConfigInv

LEMMA ScriptLoadsKeeps ==
  ASSUME ConfigAssumption, ConfigInv, NEW how \in {"read", "unreadable"}, Config!ScriptLoads(how)
  PROVE  ConfigInv'
  <1>1. /\ edits < MaxEdits /\ edits' = edits + 1 /\ misread' = (misread \/ how = "unreadable")
        /\ UNCHANGED <<file, app, up, route, meant, issued, revoked, hand, overlapped>>
    BY DEF Config!ScriptLoads, Config!histories
  <1>2. PICK base \in {Config!Heal(file), Config!Defaults} :
          /\ Config!Read(base, how)
          /\ script' = [at |-> "loaded", cfg |-> base, stale |-> FALSE]
    BY DEF Config!ScriptLoads
  <1>3. /\ base \in Configs /\ Clean(base) /\ (~overlapped => Out(base))
        /\ how = "read" /\ ~overlapped /\ ~misread => Agrees(base, meant)
    BY <1>2, ReadShape
  <1>4. script' \in Copies /\ script'.cfg = base
    BY <1>2, <1>3 DEF Copies
  <1>5. ConfigTypes'
    <2>1. edits' \in 0 .. MaxEdits
      BY <1>1 DEF ConfigInv, ConfigTypes, ConfigAssumption
    <2> QED BY <1>1, <1>4, <2>1 DEF ConfigInv, ConfigTypes
  <1>6. AllClean'
    BY <1>1, <1>3, <1>4 DEF ConfigInv, AllClean, Clean, Updating
  <1>7. Asked'
    BY <1>1 DEF ConfigInv, Asked, Updating
  <1>8. AllOut'
    BY <1>1, <1>3, <1>4 DEF ConfigInv, AllOut, Out, Updating
  <1>9. AllAgree'
    <2>1. ~overlapped /\ ~misread' => Agrees(script.cfg, meant)'
      BY <1>1, <1>3, <1>4 DEF Agrees, Lists
    <2> QED BY <1>1, <2>1 DEF ConfigInv, AllAgree, Agrees, Lists, Goal, Updating
  <1> QED BY <1>5, <1>6, <1>7, <1>8, <1>9 DEF ConfigInv

\* A route under way, marked stale by another writer, keeps what was asked for.
LEMMA RouteStale ==
  ASSUME ConfigInv,
         route' = IF route = Config!Idle THEN Config!Idle ELSE [route EXCEPT !.stale = TRUE]
  PROVE  /\ route' \in {Config!Idle} \cup Updates /\ (Updating' <=> Updating)
         /\ Updating => route'.stale /\ route'.cfg = route.cfg /\ route'.request = route.request
  <1>1. CASE route = Config!Idle
    BY <1>1 DEF Updating
  <1>2. CASE route # Config!Idle
    <2>1. route \in Updates /\ Updating
      BY <1>2 DEF ConfigInv, ConfigTypes, Updating
    <2>2. route' = [route EXCEPT !.stale = TRUE]
      BY <1>2
    <2>3. Updating'
      BY <2>1, <2>2, StaleCopies DEF ConfigInv, Updating
    <2> QED BY <2>1, <2>2, <2>3 DEF Updates
  <1> QED BY <1>1, <1>2

LEMMA ScriptSavesKeeps == ASSUME ConfigAssumption, ConfigInv, Config!ScriptSaves PROVE ConfigInv'
  <1>1. /\ script.at = "loaded" /\ script' = Config!Idle
        /\ file' = [script.cfg EXCEPT !["password"] = "set"]
        /\ meant' = [meant EXCEPT !["password"] = "set"]
        /\ route' = IF route = Config!Idle THEN Config!Idle ELSE [route EXCEPT !.stale = TRUE]
        /\ overlapped' = (overlapped \/ script.stale)
        /\ UNCHANGED <<app, up, issued, revoked, hand, misread, edits>>
    BY DEF Config!ScriptSaves
  <1>2. ConfigTypes
    BY DEF ConfigInv
  <1>3. Copied /\ script.cfg \in Configs /\ script.stale \in BOOLEAN
    BY <1>1, <1>2 DEF ConfigTypes, Config!Idle, Copied, Copies
  <1>4. /\ "password" \in Config!Fields /\ "password" \notin Tokens /\ "password" \notin Projects
        /\ "password" # "port" /\ "password" # "model" /\ "password" # "models"
        /\ "set" \in Values
    BY FieldsApart DEF Names, Values
  <1>5. /\ file' \in Configs /\ file'["password"] = "set"
        /\ \A f \in Config!Fields : f # "password" => file'[f] = script.cfg[f]
    BY <1>1, <1>3, <1>4 DEF Configs
  <1>6. /\ meant' \in Configs /\ meant'["password"] = "set"
        /\ \A f \in Config!Fields : f # "password" => meant'[f] = meant[f]
    BY <1>1, <1>2, <1>4 DEF ConfigTypes, Configs
  <1>7. ~Copied'
    BY <1>1 DEF Copied
  <1>8. /\ route' \in {Config!Idle} \cup Updates /\ (Updating' <=> Updating)
        /\ Updating => route'.stale /\ route'.cfg = route.cfg /\ route'.request = route.request
    BY <1>1, RouteStale
  <1>9. ConfigTypes'
    <2>1. overlapped' \in BOOLEAN
      BY <1>1, <1>2, <1>3 DEF ConfigTypes
    <2> QED BY <1>1, <1>2, <1>5, <1>6, <1>8, <2>1 DEF ConfigTypes
  <1>10. AllClean'
    <2>1. Clean(script.cfg)
      BY <1>3 DEF ConfigInv, AllClean
    <2>2. Clean(file)'
      BY <1>1, <1>4, <1>5, <2>1, FieldsApart DEF Clean, Names
    <2> QED BY <1>1, <1>7, <1>8, <2>2 DEF ConfigInv, AllClean, Clean
  <1>11. Asked'
    BY <1>1, <1>8 DEF ConfigInv, Asked
  <1>12. AllOut'
    <2> SUFFICES ASSUME ~overlapped, ~script.stale PROVE AllOut'
      BY <1>1 DEF AllOut
    <2>1. Out(script.cfg)
      BY <1>3 DEF ConfigInv, AllOut
    <2>2. Out(file)'
      BY <1>1, <1>2, <1>4, <1>5, <2>1, FieldsApart DEF Out, ConfigTypes
    <2> QED BY <1>1, <1>7, <1>8, <2>2 DEF ConfigInv, AllOut, Out
  <1>13. AllAgree'
    <2> SUFFICES ASSUME ~overlapped, ~script.stale, ~misread PROVE AllAgree'
      BY <1>1 DEF AllAgree
    <2>1. Agrees(script.cfg, meant) /\ (up => Lists(app, meant))
      BY <1>3 DEF ConfigInv, AllAgree
    <2>2. \A f \in Tokens \cup Projects : meant'[f] = meant[f] /\ file'[f] = script.cfg[f]
      BY <1>4, <1>5, <1>6, FieldsApart
    <2>3. Lists(file, meant)'
      BY <1>1, <2>1, <2>2 DEF Agrees, Lists
    <2>4. (up => Lists(app, meant))'
      BY <1>1, <2>1, <2>2 DEF Lists
    <2>5. \A f \in {"root", "history", "models", "password"} : file'[f] = meant'[f]
      BY <1>5, <1>6, <2>1 DEF Agrees, Config!Fields
    <2>6. Config!Heal(file')["model"] = Config!Heal(meant')["model"]
      <3>1. /\ file'["model"] = script.cfg["model"] /\ file'["models"] = script.cfg["models"]
            /\ meant'["model"] = meant["model"] /\ meant'["models"] = meant["models"]
        BY <1>5, <1>6 DEF Config!Fields
      <3>2. Config!Heal(script.cfg)["model"] = Config!Heal(meant)["model"]
        BY <2>1 DEF Agrees
      <3>3. meant \in Configs
        BY <1>2 DEF ConfigTypes
      <3> QED BY <1>3, <1>5, <1>6, <3>1, <3>2, <3>3, ModelHealed
    <2>7. Agrees(file, meant)'
      BY <2>3, <2>5, <2>6 DEF Agrees
    <2> QED BY <1>7, <1>8, <2>4, <2>7 DEF AllAgree
  <1> QED BY <1>9, <1>10, <1>11, <1>12, <1>13 DEF ConfigInv

\* By hand a favourite is set, the history's size goes bad or back, or a model leaves the list.
HandEdits ==
  [field : Projects, value : {"on"}] \cup [field : {"history"}, value : {"bad", "default"}]
    \cup [field : {"models"}, value : {"narrow"}]

LEMMA HandEditKeeps ==
  ASSUME ConfigAssumption, ConfigInv, NEW edit \in HandEdits, Config!HandEdit(edit.field, edit.value)
  PROVE  ConfigInv'
  <1> DEFINE field == edit.field
             value == edit.value
  <1>1. /\ edits < MaxEdits /\ edits' = edits + 1
        /\ file' = [file EXCEPT ![field] = value] /\ meant' = [meant EXCEPT ![field] = value]
        /\ hand' = (hand \/ field \in Projects)
        /\ route' = IF route = Config!Idle THEN Config!Idle ELSE [route EXCEPT !.stale = TRUE]
        /\ script' = IF script = Config!Idle THEN Config!Idle ELSE [script EXCEPT !.stale = TRUE]
        /\ UNCHANGED <<app, up, issued, revoked, misread, overlapped>>
    BY DEF Config!HandEdit
  <1>2. ConfigTypes
    BY DEF ConfigInv
  <1>3. /\ field \in Config!Fields /\ value \in Values /\ field \notin Tokens
        /\ field # "port" /\ field # "model" /\ field # "password"
        /\ field \notin Projects => field \in {"history", "models"}
        /\ field = "models" => value = "narrow"
    BY FieldsApart DEF HandEdits, Names, Values
  <1> HIDE DEF field, value
  <1>4. /\ file' \in Configs /\ file'[field] = value
        /\ \A f \in Config!Fields : f # field => file'[f] = file[f]
    BY <1>1, <1>2, <1>3 DEF ConfigTypes, Configs
  <1>5. /\ meant' \in Configs /\ meant'[field] = value
        /\ \A f \in Config!Fields : f # field => meant'[f] = meant[f]
    BY <1>1, <1>2, <1>3 DEF ConfigTypes, Configs
  <1>6. /\ route' \in {Config!Idle} \cup Updates /\ (Updating' <=> Updating)
        /\ Updating => route'.stale /\ route'.cfg = route.cfg /\ route'.request = route.request
    BY <1>1, RouteStale
  <1>7. /\ script' \in {Config!Idle} \cup Copies /\ (Copied' <=> Copied)
        /\ Copied => script'.stale /\ script'.cfg = script.cfg
    BY <1>1, <1>2, StaleCopies DEF Copied
  <1>8. ConfigTypes'
    <2>1. edits' \in 0 .. MaxEdits
      BY <1>1, <1>2 DEF ConfigTypes, ConfigAssumption
    <2>2. hand' \in BOOLEAN
      BY <1>1, <1>2 DEF ConfigTypes
    <2> QED BY <1>1, <1>2, <1>4, <1>5, <1>6, <1>7, <2>1, <2>2 DEF ConfigTypes
  <1>9. \A t \in Tokens : file'[t] = file[t] /\ meant'[t] = meant[t]
    BY <1>3, <1>4, <1>5, FieldsApart
  <1>10. AllClean'
    <2>1. Clean(file)'
      BY <1>1, <1>3, <1>4, <1>9 DEF ConfigInv, AllClean, Clean, Config!Fields
    <2>2. meant'["port"] = "own"
      BY <1>3, <1>5 DEF ConfigInv, AllClean, Config!Fields
    <2> QED BY <1>1, <1>6, <1>7, <2>1, <2>2 DEF ConfigInv, AllClean, Clean
  <1>11. Asked'
    BY <1>1, <1>6 DEF ConfigInv, Asked
  <1>12. AllOut'
    <2>1. ~overlapped => Out(file)'
      BY <1>1, <1>2, <1>9 DEF ConfigInv, AllOut, Out, ConfigTypes
    <2> QED BY <1>1, <1>6, <1>7, <2>1 DEF ConfigInv, AllOut, Out
  <1>13. AllAgree'
    <2> SUFFICES ASSUME ~overlapped, ~misread PROVE AllAgree'
      BY <1>1 DEF AllAgree
    <2>1. Agrees(file, meant) /\ (up => Lists(app, meant))
      BY DEF ConfigInv, AllAgree
    <2>2. ~hand' => ~hand /\ \A p \in Projects : file'[p] = file[p] /\ meant'[p] = meant[p]
      BY <1>1, <1>2, <1>4, <1>5, FieldsApart DEF ConfigTypes
    <2>3. Lists(file, meant)' /\ (up => Lists(app, meant))'
      BY <1>1, <1>9, <2>1, <2>2 DEF Agrees, Lists
    <2>4. \A f \in {"root", "history", "models", "password"} : file'[f] = meant'[f]
      BY <1>4, <1>5, <2>1 DEF Agrees, Config!Fields
    <2>5. Config!Heal(file')["model"] = Config!Heal(meant')["model"]
      <3>1. file["models"] = meant["models"] /\ Config!Heal(file)["model"] = Config!Heal(meant)["model"]
        BY <2>1 DEF Agrees
      <3>2. /\ file'["model"] = file["model"] /\ meant'["model"] = meant["model"]
            /\ field # "models" => file'["models"] = file["models"] /\ meant'["models"] = meant["models"]
            /\ field = "models" => file'["models"] = "narrow" /\ meant'["models"] = "narrow"
        BY <1>3, <1>4, <1>5 DEF Config!Fields
      <3>3. file \in Configs /\ meant \in Configs
        BY <1>2 DEF ConfigTypes
      <3> QED BY <1>4, <1>5, <3>1, <3>2, <3>3, ModelHealed
    <2>6. Agrees(file, meant)'
      BY <2>3, <2>4, <2>5 DEF Agrees
    <2> QED BY <1>6, <1>7, <2>3, <2>6 DEF AllAgree
  <1> QED BY <1>8, <1>10, <1>11, <1>12, <1>13 DEF ConfigInv

LEMMA ConfigStep ==
  ASSUME ConfigAssumption PROVE ConfigInv /\ [Config!Next]_(Config!vars) => ConfigInv'
  <1> SUFFICES ASSUME ConfigInv, [Config!Next]_(Config!vars) PROVE ConfigInv'
    OBVIOUS
  <1>1. ASSUME NEW how \in Config!How,
               \/ \E request \in Config!Requests : Config!RouteLoads(request, how)
               \/ Config!Starts(how) \/ Config!ScriptLoads(how)
        PROVE  ConfigInv'
    <2>1. how \in {"read", "unreadable"}
      BY DEF Config!How
    <2> QED BY <1>1, <2>1, RouteLoadsKeeps, StartsKeeps, ScriptLoadsKeeps
  <1>2. CASE Config!RouteSaves \/ Config!Stops \/ Config!ScriptSaves
    BY <1>2, RouteSavesKeeps, StopsKeeps, ScriptSavesKeeps
  <1>3. CASE \E t \in Tokens, path \in {"run", "other"} : Config!Request(t, path)
    BY <1>3, RequestKeeps
  <1>4. ASSUME NEW f, NEW v, [field |-> f, value |-> v] \in HandEdits, Config!HandEdit(f, v)
        PROVE  ConfigInv'
    <2> DEFINE edit == [field |-> f, value |-> v]
    <2>1. edit.field = f /\ edit.value = v
      OBVIOUS
    <2>2. Config!HandEdit(edit.field, edit.value)
      BY <1>4, <2>1
    <2> HIDE DEF edit
    <2>3. edit \in HandEdits
      BY <1>4 DEF edit
    <2> QED BY <2>2, <2>3, HandEditKeeps
  <1>5. ASSUME NEW p \in Projects, Config!HandEdit(p, "on") PROVE ConfigInv'
    BY <1>4, <1>5 DEF HandEdits
  <1>6. ASSUME NEW v \in {"bad", "default"}, Config!HandEdit("history", v) PROVE ConfigInv'
    BY <1>4, <1>6 DEF HandEdits
  <1>7. CASE Config!HandEdit("models", "narrow")
    BY <1>4, <1>7 DEF HandEdits
  <1>8. CASE UNCHANGED Config!vars
    <2>1. UNCHANGED <<file, app, up, route, script, meant, issued, revoked, hand, misread,
                      overlapped, edits>>
      BY <1>8 DEF Config!vars
    <2> QED BY <2>1 DEF ConfigInv, ConfigTypes, AllClean, Clean, Asked, AllOut, Out, AllAgree,
       Agrees, Lists, Goal, Updating, Copied
  <1> QED BY <1>1, <1>2, <1>3, <1>5, <1>6, <1>7, <1>8 DEF Config!Next

LEMMA ConfigSound == ASSUME ConfigAssumption, ConfigInv PROVE Config!TypeOK /\ Config!SettingsSound
  <1>1. Config!TypeOK
    BY DEF ConfigInv, ConfigTypes, Configs, Config!TypeOK
  <1>2. Config!PortKept
    BY DEF ConfigInv, AllClean, Clean, Config!PortKept
  <1>3. Config!RevokedStaysOut
    BY DEF ConfigInv, AllOut, Out, Config!RevokedStaysOut
  <1>4. Config!EditsKept
    <2> SUFFICES ASSUME ~overlapped, ~misread, NEW f \in Config!Fields
                 PROVE  \/ Config!Heal(file)[f] = Config!Heal(meant)[f]
                        \/ f \in Tokens /\ Config!Held(file[f]) = Config!Held(meant[f])
                        \/ f \in Projects /\ hand
      BY DEF Config!EditsKept
    <2>1. Agrees(file, meant) /\ file \in Configs /\ meant \in Configs
      BY DEF ConfigInv, AllAgree, ConfigTypes
    <2>2. f # "model" => Config!Heal(file)[f] = file[f] /\ Config!Heal(meant)[f] = meant[f]
      BY <2>1, HealShape
    <2>3. CASE f \in Tokens
      BY <2>1, <2>3 DEF Agrees, Lists
    <2>4. CASE f \in Projects
      BY <2>1, <2>2, <2>4, FieldsApart DEF Agrees, Lists, Names
    <2>5. CASE f \in Names
      <3>1. file["port"] = "own" /\ meant["port"] = "own"
        BY DEF ConfigInv, AllClean, Clean
      <3> QED BY <2>1, <2>2, <2>5, <3>1 DEF Agrees, Names
    <2> QED BY <2>3, <2>4, <2>5, FieldsApart
  <1> QED BY <1>1, <1>2, <1>3, <1>4 DEF Config!SettingsSound

\* For any tokens and projects, any scopes, and routes, scripts, an editor and restarts in
\* any order: an edit stays in the file until its field is edited again unless two saves
\* overlapped or a load found the file unreadable, a revoked token lets nothing through
\* again unless a script saved over the revocation, and the override of the port never
\* reaches the file (update_webapp_config, load_webapp_config, revoke_token, set_password).
THEOREM SettingsSoundAlways ==
  ASSUME ConfigAssumption
  PROVE  Config!Spec => [](Config!TypeOK /\ Config!SettingsSound)
  <1>1. Config!Init => ConfigInv
    BY ConfigInit
  <1>2. ConfigInv => Config!TypeOK /\ Config!SettingsSound
    BY ConfigSound
  <1> QED BY <1>1, <1>2, ConfigStep, PTL DEF Config!Spec

-----------------------------------------------------------------------------
(* The mirror windows. *)

Windows == [sid : Sessions, is : {"opening", "titled", "closed"}]

MirrorTypes ==
  /\ \E n \in Nat : windows \in [1 .. n -> Windows]
  /\ mirrorHwnds \in [Sessions -> {0} \cup DOMAIN windows]
  /\ clicks \in [Sessions -> Nat]
  /\ session \in [Sessions -> {"none", "live", "ended"}]

\* A session that nobody pressed for while its window was on the way has one
\* window, or none and at most one click that will open it.
Single(s) ==
  /\ clicks[s] <= 1
  /\ clicks[s] = 1 => Mirror!On(s) = {}
  /\ \A v, w \in Mirror!On(s) : v = w

\* A session yet to be launched has no window and nobody opens one; while the
\* sweep closes, all that live were listed.
MirrorInv ==
  /\ MirrorTypes /\ Mirror!RegisteredOwn /\ Mirror!SweepSparesLive
  /\ sweep = "close" => Mirror!Live \subseteq listed
  /\ \A s \in Sessions : session[s] = "none" => Mirror!On(s) = {} /\ clicks[s] = 0
  /\ \A s \in Sessions \ rushed : Single(s)

LEMMA MirrorInit == Mirror!Init => MirrorInv
  <1> SUFFICES ASSUME Mirror!Init PROVE MirrorInv
    OBVIOUS
  <1>1. /\ windows = << >> /\ sweep = "done" /\ swept = {}
        /\ clicks = [s \in Sessions |-> 0] /\ mirrorHwnds = [s \in Sessions |-> 0]
        /\ session = [s \in Sessions |-> "none"]
    BY DEF Mirror!Init, Mirror!NoWindow
  <1>2. windows \in [1 .. 0 -> Windows] /\ DOMAIN windows = {}
    BY <1>1
  <1>3. MirrorTypes
    BY <1>1, <1>2 DEF MirrorTypes
  <1>4. \A s \in Sessions : Mirror!On(s) = {}
    BY <1>2 DEF Mirror!On, Mirror!Ids
  <1>5. Mirror!RegisteredOwn /\ Mirror!SweepSparesLive
    BY <1>1 DEF Mirror!RegisteredOwn, Mirror!SweepSparesLive, Mirror!NoWindow
  <1> QED BY <1>1, <1>3, <1>4, <1>5 DEF MirrorInv, Single

\* Windows get titles and close, and that is all.
NoneOpened ==
  \E n \in Nat :
    /\ windows \in [1 .. n -> Windows] /\ windows' \in [1 .. n -> Windows]
    /\ \A w \in 1 .. n : /\ windows'[w].sid = windows[w].sid
                         /\ windows[w].is = "closed" => windows'[w].is = "closed"

LEMMA NoneOpenedFacts ==
  ASSUME NoneOpened
  PROVE  /\ DOMAIN windows' = DOMAIN windows
         /\ \A w \in DOMAIN windows : windows'[w].sid = windows[w].sid
         /\ \A s : Mirror!On(s)' \subseteq Mirror!On(s)
  BY DEF NoneOpened, Mirror!On, Mirror!Ids

LEMMA NothingOpens ==
  ASSUME MirrorTypes, UNCHANGED windows PROVE NoneOpened
  BY DEF MirrorTypes, NoneOpened

LEMMA ClosingOpensNone ==
  ASSUME MirrorTypes, NEW ws, Mirror!Close(ws) PROVE NoneOpened
  <1>1. PICK n \in Nat : windows \in [1 .. n -> Windows]
    BY DEF MirrorTypes
  <1>2. windows' = [w \in 1 .. n |-> IF w \in ws THEN [windows[w] EXCEPT !.is = "closed"]
                                     ELSE windows[w]]
    BY <1>1 DEF Mirror!Close, Mirror!Ids
  <1>3. ASSUME NEW w \in 1 .. n
        PROVE /\ windows'[w] \in Windows /\ windows'[w].sid = windows[w].sid
              /\ windows[w].is = "closed" => windows'[w].is = "closed"
    <2>1. windows[w] \in Windows
      BY <1>1, <1>3
    <2>2. CASE w \in ws
      <3>1. windows'[w] = [windows[w] EXCEPT !.is = "closed"]
        BY <1>2, <1>3, <2>2
      <3> QED BY <2>1, <3>1 DEF Windows
    <2>3. CASE w \notin ws
      BY <1>2, <1>3, <2>1, <2>3
    <2> QED BY <2>2, <2>3
  <1> QED BY <1>1, <1>2, <1>3 DEF NoneOpened

\* A step that opens no window: what the registry may come to hold, and what
\* each session's clicks may become.
LEMMA MirrorQuietStep ==
  ASSUME MirrorInv, NoneOpened,
         mirrorHwnds' \in [Sessions -> {0} \cup DOMAIN windows],
         \A s \in Sessions : mirrorHwnds'[s] # 0 => windows[mirrorHwnds'[s]].sid = s,
         clicks' \in [Sessions -> Nat], session' \in [Sessions -> {"none", "live", "ended"}],
         \A s \in Sessions : session'[s] = "none" =>
           session[s] = "none" /\ clicks'[s] \in {0, clicks[s]},
         \A s \in Sessions \ rushed' : s \notin rushed /\
           (clicks'[s] \in {0, clicks[s]} \/ (clicks'[s] = 1 /\ Mirror!On(s) = {})),
         sweep' = "close" => Mirror!Live' \subseteq listed',
         swept' = {}
  PROVE  MirrorInv'
  <1>1. /\ DOMAIN windows' = DOMAIN windows
        /\ \A w \in DOMAIN windows : windows'[w].sid = windows[w].sid
        /\ \A s : Mirror!On(s)' \subseteq Mirror!On(s)
    BY NoneOpenedFacts
  <1>2. \E n \in Nat : windows' \in [1 .. n -> Windows]
    BY DEF NoneOpened
  <1>3. MirrorTypes'
    BY <1>1, <1>2 DEF MirrorTypes
  <1>4. Mirror!RegisteredOwn' /\ Mirror!SweepSparesLive'
    <2>1. ASSUME NEW s \in Sessions, mirrorHwnds'[s] # 0
          PROVE windows'[mirrorHwnds'[s]].sid = s
      <3>1. mirrorHwnds'[s] \in DOMAIN windows
        BY <2>1
      <3> QED BY <1>1, <2>1, <3>1
    <2> QED BY <2>1 DEF Mirror!RegisteredOwn, Mirror!SweepSparesLive, Mirror!NoWindow
  <1>5. ASSUME NEW s \in Sessions, session'[s] = "none"
        PROVE Mirror!On(s)' = {} /\ clicks'[s] = 0
    BY <1>1, <1>5 DEF MirrorInv
  <1>6. ASSUME NEW s \in Sessions \ rushed' PROVE Single(s)'
    <2>1. Single(s) /\ clicks[s] \in Nat
      BY <1>6 DEF MirrorInv, MirrorTypes
    <2>2. clicks'[s] <= 1 /\ (clicks'[s] = 1 => Mirror!On(s) = {})
      BY <1>6, <2>1 DEF Single
    <2> QED BY <1>1, <2>1, <2>2 DEF Single
  <1> QED BY <1>3, <1>4, <1>5, <1>6 DEF MirrorInv

\* The new window is its session's only one, or a request was too quick.
LEMMA MirrorOpensStep ==
  ASSUME MirrorInv, NEW sid \in Sessions, Mirror!MirrorOpens(sid)
  PROVE  MirrorInv'
  <1>1. PICK n \in Nat : windows \in [1 .. n -> Windows]
    BY DEF MirrorInv, MirrorTypes
  <1>2. Mirror!Cardinality(Mirror!Ids) = n
    <2>1. Mirror!Ids = 1 .. n
      BY <1>1 DEF Mirror!Ids
    <2>2. Mirror!Cardinality(Mirror!Ids) = Cardinality(Mirror!Ids)
      BY Zenon DEF Mirror!Cardinality, Cardinality, Mirror!IsFiniteSet, IsFiniteSet
    <2> QED BY <2>1, <2>2, FS_Interval
  <1>3. windows' = [w \in 1 .. n + 1 |-> IF w \in 1 .. n THEN windows[w]
                                         ELSE [sid |-> sid, is |-> "opening"]]
    BY <1>1, <1>2 DEF Mirror!MirrorOpens, Mirror!Open, Mirror!Ids
  <1>4. /\ UNCHANGED <<mirrorHwnds, session, sweep, listed, rushed, swept>>
        /\ clicks[sid] > 0 /\ clicks' = [clicks EXCEPT ![sid] = @ - 1]
        /\ clicks \in [Sessions -> Nat]
    BY DEF Mirror!MirrorOpens, MirrorInv, MirrorTypes
  <1>5. /\ windows' \in [1 .. n + 1 -> Windows] /\ windows'[n + 1].sid = sid
        /\ \A w \in 1 .. n : windows'[w] = windows[w]
    <2>1. \A w \in 1 .. n : w \in 1 .. n + 1 /\ windows'[w] = windows[w]
      BY <1>3
    <2>2. windows'[n + 1] = [sid |-> sid, is |-> "opening"]
      BY <1>3
    <2>3. \A w \in 1 .. n + 1 : windows'[w] \in Windows
      <3> TAKE w \in 1 .. n + 1
      <3>1. w \in 1 .. n \/ w = n + 1
        OBVIOUS
      <3> QED BY <1>1, <2>1, <2>2, <3>1 DEF Windows
    <2> QED BY <1>3, <2>1, <2>2, <2>3
  <1>6. DOMAIN windows = 1 .. n /\ DOMAIN windows' = 1 .. n + 1 /\ n + 1 \in Nat
    BY <1>1, <1>5
  <1>7. clicks' \in [Sessions -> Nat] /\ clicks'[sid] = clicks[sid] - 1
        /\ \A s \in Sessions \ {sid} : clicks'[s] = clicks[s]
    BY <1>4
  <1>8. /\ \A s \in Sessions \ {sid} : Mirror!On(s)' = Mirror!On(s)
        /\ Mirror!On(sid)' \subseteq Mirror!On(sid) \cup {n + 1}
    <2>1. ASSUME NEW s \in Sessions, NEW w, w \in Mirror!On(s)'
          PROVE w \in Mirror!On(s) \/ (s = sid /\ w = n + 1)
      <3>1. w \in 1 .. n + 1 /\ windows'[w].sid = s /\ windows'[w].is # "closed"
        BY <1>6, <2>1 DEF Mirror!On, Mirror!Ids
      <3>2. w \in 1 .. n \/ w = n + 1
        BY <3>1
      <3> QED BY <1>5, <1>6, <3>1, <3>2 DEF Mirror!On, Mirror!Ids
    <2>2. ASSUME NEW s \in Sessions, NEW w \in Mirror!On(s) PROVE w \in Mirror!On(s)'
      <3>1. w \in 1 .. n /\ windows[w].sid = s /\ windows[w].is # "closed"
        BY <1>6, <2>2 DEF Mirror!On, Mirror!Ids
      <3> QED BY <1>5, <1>6, <3>1 DEF Mirror!On, Mirror!Ids
    <2> QED BY <2>1, <2>2
  <1>9. MirrorTypes'
    BY <1>4, <1>5, <1>6, <1>7 DEF MirrorInv, MirrorTypes
  <1>10. Mirror!RegisteredOwn' /\ Mirror!SweepSparesLive'
    <2>1. ASSUME NEW s \in Sessions, mirrorHwnds[s] # 0 PROVE windows'[mirrorHwnds[s]].sid = s
      <3>1. mirrorHwnds[s] \in 1 .. n
        BY <1>6, <2>1 DEF MirrorInv, MirrorTypes
      <3> QED BY <1>5, <2>1, <3>1 DEF MirrorInv, Mirror!RegisteredOwn, Mirror!NoWindow
    <2> QED BY <1>4, <2>1 DEF MirrorInv, Mirror!RegisteredOwn, Mirror!SweepSparesLive, Mirror!NoWindow
  <1>11. ASSUME NEW s \in Sessions, session'[s] = "none"
         PROVE Mirror!On(s)' = {} /\ clicks'[s] = 0
    <2>1. Mirror!On(s) = {} /\ clicks[s] = 0
      BY <1>4, <1>11 DEF MirrorInv
    <2> QED BY <1>4, <1>7, <1>8, <2>1
  <1>12. ASSUME NEW s \in Sessions \ rushed' PROVE Single(s)'
    <2>1. Single(s)
      BY <1>4, <1>12 DEF MirrorInv
    <2>2. CASE s # sid
      BY <1>7, <1>8, <2>1, <2>2 DEF Single
    <2>3. CASE s = sid
      <3>1. clicks[s] = 1 /\ Mirror!On(s) = {}
        BY <1>4, <2>1, <2>3 DEF Single
      <3> QED BY <1>7, <1>8, <2>3, <3>1 DEF Single
    <2> QED BY <2>2, <2>3
  <1>13. sweep' = "close" => Mirror!Live' \subseteq listed'
    BY <1>4 DEF MirrorInv, Mirror!Live
  <1> QED BY <1>9, <1>10, <1>11, <1>12, <1>13 DEF MirrorInv

LEMMA FocusableOwn ==
  ASSUME MirrorInv, NEW s \in Sessions, NEW w \in Mirror!Focusable(s)
  PROVE  w \in DOMAIN windows /\ windows[w].sid = s
  <1>1. CASE w \in Mirror!Titled(s)
    BY <1>1 DEF Mirror!Titled, Mirror!On, Mirror!Ids
  <1>2. CASE w = mirrorHwnds[s] /\ Mirror!IsWindow(w)
    BY <1>2 DEF Mirror!IsWindow, Mirror!NoWindow, MirrorInv, MirrorTypes, Mirror!RegisteredOwn
  <1> QED BY <1>1, <1>2 DEF Mirror!Focusable

\* Nothing to be found and nothing on its way: the session has no window.
LEMMA NoneComing ==
  ASSUME NEW s \in Sessions, Mirror!Focusable(s) = {}, ~Mirror!Coming(s), MirrorInv
  PROVE  Mirror!On(s) = {} /\ clicks[s] = 0
  <1>1. clicks[s] = 0 /\ Mirror!On(s) = Mirror!Titled(s)
    BY DEF Mirror!Coming, MirrorInv, MirrorTypes
  <1>2. Mirror!Titled(s) = {}
    BY DEF Mirror!Focusable
  <1> QED BY <1>1, <1>2

LEMMA MirrorSessionStep ==
  ASSUME MirrorInv, NEW s \in Sessions,
         \/ Mirror!Launch(s) \/ Mirror!AgentExits(s)
         \/ Mirror!PollFinds(s) \/ Mirror!PollTimesOut(s)
         \/ Mirror!MirrorFocuses(s) \/ Mirror!MirrorFindsNone(s)
         \/ Mirror!CloseMirrorWindow(s) \/ Mirror!HostStops(s)
  PROVE  MirrorInv'
  <1>0. /\ MirrorTypes /\ swept = {}
        /\ mirrorHwnds \in [Sessions -> {0} \cup DOMAIN windows]
        /\ \A t \in Sessions : mirrorHwnds[t] # 0 => windows[mirrorHwnds[t]].sid = t
        /\ clicks \in [Sessions -> Nat] /\ session \in [Sessions -> {"none", "live", "ended"}]
    BY DEF MirrorInv, MirrorTypes, Mirror!RegisteredOwn, Mirror!SweepSparesLive, Mirror!NoWindow
  <1> DEFINE Registered == /\ mirrorHwnds' \in [Sessions -> {0} \cup DOMAIN windows]
                           /\ \A t \in Sessions : mirrorHwnds'[t] # 0 => windows[mirrorHwnds'[t]].sid = t
  <1>a. UNCHANGED mirrorHwnds => Registered
    BY <1>0
  <1>b. ASSUME NEW w \in DOMAIN windows, windows[w].sid = s, mirrorHwnds' = [mirrorHwnds EXCEPT ![s] = w]
        PROVE Registered
    <2>1. mirrorHwnds'[s] = w /\ \A t \in Sessions \ {s} : mirrorHwnds'[t] = mirrorHwnds[t]
      BY <1>0, <1>b
    <2> QED BY <1>0, <1>b, <2>1
  <1>c. mirrorHwnds' = [mirrorHwnds EXCEPT ![s] = 0] => Registered
    <2> SUFFICES ASSUME mirrorHwnds' = [mirrorHwnds EXCEPT ![s] = 0] PROVE Registered
      OBVIOUS
    <2>1. mirrorHwnds'[s] = 0 /\ \A t \in Sessions \ {s} : mirrorHwnds'[t] = mirrorHwnds[t]
      BY <1>0
    <2> QED BY <1>0, <2>1
  <1> HIDE DEF Registered
  <1>1. CASE Mirror!Launch(s)
    <2>1. /\ session[s] = "none" /\ sweep = "done"
          /\ session' = [session EXCEPT ![s] = "live"] /\ clicks' = [clicks EXCEPT ![s] = 1]
          /\ UNCHANGED <<windows, mirrorHwnds, sweep, rushed, swept>>
      BY <1>1 DEF Mirror!Launch
    <2>2. NoneOpened /\ Mirror!On(s) = {} /\ Registered
      BY <1>0, <1>a, <2>1, NothingOpens DEF MirrorInv
    <2>3. /\ session' \in [Sessions -> {"none", "live", "ended"}] /\ clicks' \in [Sessions -> Nat]
          /\ session'[s] = "live" /\ clicks'[s] = 1
          /\ \A t \in Sessions \ {s} : session'[t] = session[t] /\ clicks'[t] = clicks[t]
      BY <1>0, <2>1
    <2> QED BY <1>0, <2>1, <2>2, <2>3, MirrorQuietStep DEF Registered
  <1>2. CASE Mirror!AgentExits(s)
    <2>1. /\ session[s] = "live" /\ session' = [session EXCEPT ![s] = "ended"]
          /\ UNCHANGED <<windows, mirrorHwnds, clicks, sweep, listed, rushed, swept>>
      BY <1>2 DEF Mirror!AgentExits, Mirror!webapp
    <2>2. NoneOpened /\ Registered
      BY <1>0, <1>a, <2>1, NothingOpens
    <2>3. /\ session' \in [Sessions -> {"none", "live", "ended"}]
          /\ session'[s] = "ended" /\ \A t \in Sessions \ {s} : session'[t] = session[t]
      BY <1>0, <2>1
    <2>4. Mirror!Live' \subseteq Mirror!Live
      BY <2>3 DEF Mirror!Live
    <2>5. sweep' = "close" => Mirror!Live' \subseteq listed'
      BY <2>1, <2>4 DEF MirrorInv
    <2> QED BY <1>0, <2>1, <2>2, <2>3, <2>5, MirrorQuietStep DEF Registered
  <1>3. ASSUME NoneOpened, Registered, UNCHANGED <<clicks, session, sweep, listed, rushed, swept>>
        PROVE  MirrorInv'
    <2>1. sweep' = "close" => Mirror!Live' \subseteq listed'
      BY <1>3 DEF MirrorInv, Mirror!Live
    <2> QED BY <1>0, <1>3, <2>1, MirrorQuietStep DEF Registered
  <1>4. CASE Mirror!PollFinds(s)
    <2>1. PICK w \in Mirror!Titled(s) : mirrorHwnds' = [mirrorHwnds EXCEPT ![s] = w]
      BY <1>4 DEF Mirror!PollFinds
    <2>2. w \in DOMAIN windows /\ windows[w].sid = s
      BY <2>1 DEF Mirror!Titled, Mirror!On, Mirror!Ids
    <2> QED BY <1>0, <1>b, <1>3, <1>4, <2>1, <2>2, NothingOpens DEF Mirror!PollFinds
  <1>5. CASE Mirror!PollTimesOut(s)
    BY <1>0, <1>a, <1>3, <1>5, NothingOpens DEF Mirror!PollTimesOut
  <1>6. CASE Mirror!MirrorFocuses(s)
    <2>1. PICK w \in Mirror!Focusable(s) : mirrorHwnds' = [mirrorHwnds EXCEPT ![s] = w]
      BY <1>6 DEF Mirror!MirrorFocuses
    <2>2. w \in DOMAIN windows /\ windows[w].sid = s
      BY <2>1, FocusableOwn
    <2> QED BY <1>0, <1>b, <1>3, <1>6, <2>1, <2>2, NothingOpens DEF Mirror!MirrorFocuses
  <1>7. CASE Mirror!MirrorFindsNone(s)
    <2>1. /\ session[s] # "none" /\ Mirror!Focusable(s) = {} /\ clicks' = [clicks EXCEPT ![s] = @ + 1]
          /\ mirrorHwnds' = [mirrorHwnds EXCEPT ![s] = 0]
          /\ rushed' = IF Mirror!Coming(s) THEN rushed \cup {s} ELSE rushed
          /\ UNCHANGED <<windows, session, sweep, listed, swept>>
      BY <1>7 DEF Mirror!MirrorFindsNone, Mirror!NoWindow
    <2>2. NoneOpened /\ Registered
      BY <1>0, <1>c, <2>1, NothingOpens
    <2>3. /\ clicks' \in [Sessions -> Nat] /\ clicks'[s] = clicks[s] + 1
          /\ \A t \in Sessions \ {s} : clicks'[t] = clicks[t]
      BY <1>0, <2>1
    <2>4. ASSUME NEW t \in Sessions \ rushed'
          PROVE t \notin rushed /\ (clicks'[t] \in {0, clicks[t]} \/ (clicks'[t] = 1 /\ Mirror!On(t) = {}))
      <3>1. CASE t # s
        BY <2>1, <2>3, <2>4, <3>1
      <3>2. CASE t = s
        <4>1. ~Mirror!Coming(s) /\ s \notin rushed
          BY <2>1, <2>4, <3>2
        <4> QED BY <2>1, <2>3, <3>2, <4>1, NoneComing
      <3> QED BY <3>1, <3>2
    <2>5. sweep' = "close" => Mirror!Live' \subseteq listed'
      BY <2>1 DEF MirrorInv, Mirror!Live
    <2> QED BY <1>0, <2>1, <2>2, <2>3, <2>4, <2>5, MirrorQuietStep DEF Registered
  <1>8. CASE Mirror!CloseMirrorWindow(s)
    <2>1. NoneOpened
      BY <1>0, <1>8, ClosingOpensNone, NothingOpens DEF Mirror!CloseMirrorWindow
    <2> QED BY <1>c, <1>3, <1>8, <2>1 DEF Mirror!CloseMirrorWindow, Mirror!NoWindow
  <1>9. CASE Mirror!HostStops(s)
    <2>1. /\ session' = [session EXCEPT ![s] = IF hostUp THEN "ended" ELSE @]
          /\ UNCHANGED <<windows, mirrorHwnds, clicks, sweep, listed, rushed, swept>>
      BY <1>9 DEF Mirror!HostStops
    <2>2. NoneOpened /\ Registered
      BY <1>0, <1>a, <2>1, NothingOpens
    <2>3. /\ session' \in [Sessions -> {"none", "live", "ended"}]
          /\ \A t \in Sessions : session'[t] \in {session[t], "ended"}
      BY <1>0, <2>1
    <2>4. Mirror!Live' \subseteq Mirror!Live
      BY <2>3 DEF Mirror!Live
    <2>5. sweep' = "close" => Mirror!Live' \subseteq listed'
      BY <2>1, <2>4 DEF MirrorInv
    <2> QED BY <1>0, <2>1, <2>2, <2>3, <2>5, MirrorQuietStep DEF Registered
  <1> QED BY <1>1, <1>2, <1>4, <1>5, <1>6, <1>7, <1>8, <1>9

\* The restart forgets clicks and handles; the sweep lists all that live before
\* it closes, and none is launched between.
LEMMA MirrorStep == MirrorInv /\ [Mirror!Next]_(Mirror!vars) => MirrorInv'
  <1> SUFFICES ASSUME MirrorInv, [Mirror!Next]_(Mirror!vars) PROVE MirrorInv'
    OBVIOUS
  <1>0. /\ MirrorTypes /\ swept = {}
        /\ mirrorHwnds \in [Sessions -> {0} \cup DOMAIN windows]
        /\ \A t \in Sessions : mirrorHwnds[t] # 0 => windows[mirrorHwnds[t]].sid = t
        /\ clicks \in [Sessions -> Nat] /\ session \in [Sessions -> {"none", "live", "ended"}]
    BY DEF MirrorInv, MirrorTypes, Mirror!RegisteredOwn, Mirror!SweepSparesLive, Mirror!NoWindow
  <1>1. ASSUME NoneOpened, swept' = {}, UNCHANGED <<mirrorHwnds, clicks, session, rushed>>,
               sweep' = "close" => Mirror!Live' \subseteq listed'
        PROVE  MirrorInv'
    BY <1>0, <1>1, MirrorQuietStep
  <1>2. UNCHANGED <<session, sweep, listed>> => (sweep' = "close" => Mirror!Live' \subseteq listed')
    BY DEF MirrorInv, Mirror!Live
  <1>3. CASE \E w \in Mirror!Ids : Mirror!SetTitle(w)
    <2>1. PICK w \in Mirror!Ids : Mirror!SetTitle(w)
      BY <1>3
    <2>2. PICK n \in Nat : windows \in [1 .. n -> Windows]
      BY <1>0 DEF MirrorTypes
    <2>3. /\ windows[w].is = "opening" /\ w \in 1 .. n /\ windows[w] \in Windows
          /\ windows' = [windows EXCEPT ![w].is = "titled"]
      BY <2>1, <2>2 DEF Mirror!SetTitle, Mirror!Ids
    <2>4. /\ \A v \in 1 .. n : v # w => windows'[v] = windows[v]
          /\ windows'[w] = [windows[w] EXCEPT !.is = "titled"] /\ DOMAIN windows' = 1 .. n
          /\ windows' = [v \in 1 .. n |-> windows'[v]]
      BY <2>2, <2>3
    <2>5. windows'[w] \in Windows /\ windows'[w].sid = windows[w].sid
      BY <2>3, <2>4 DEF Windows
    <2>6. windows' \in [1 .. n -> Windows]
      BY <2>2, <2>4, <2>5
    <2>7. NoneOpened
      BY <2>2, <2>3, <2>4, <2>5, <2>6 DEF NoneOpened
    <2> QED BY <1>0, <1>1, <1>2, <2>1, <2>7 DEF Mirror!SetTitle, Mirror!webapp
  <1>4. CASE \E w \in Mirror!Ids : Mirror!WindowCloses(w)
    <2>1. NoneOpened
      BY <1>0, <1>4, ClosingOpensNone DEF Mirror!WindowCloses
    <2> QED BY <1>0, <1>1, <1>2, <1>4, <2>1 DEF Mirror!WindowCloses, Mirror!webapp
  <1>5. CASE Mirror!HostComesOrGoes
    BY <1>0, <1>1, <1>2, <1>5, NothingOpens DEF Mirror!HostComesOrGoes, Mirror!webapp
  <1>6. CASE Mirror!Restart
    <2>1. /\ mirrorHwnds' = [s \in Sessions |-> 0] /\ clicks' = [s \in Sessions |-> 0]
          /\ sweep' = "list" /\ UNCHANGED <<windows, session, rushed, swept>>
      BY <1>6 DEF Mirror!Restart, Mirror!NoWindow
    <2> QED BY <1>0, <2>1, NothingOpens, MirrorQuietStep
  <1>7. CASE Mirror!SweepLists
    <2>1. sweep' = "close" => listed' = Mirror!Live
      BY <1>7 DEF Mirror!SweepLists
    <2>2. Mirror!Live' = Mirror!Live
      BY <1>7 DEF Mirror!SweepLists, Mirror!Live
    <2> QED BY <1>0, <1>1, <1>7, <2>1, <2>2, NothingOpens DEF Mirror!SweepLists
  <1>8. CASE Mirror!SweepCloses
    <2> DEFINE orphans == UNION {Mirror!Titled(s) : s \in Sessions \ listed}
    <2>1. /\ sweep = "close" /\ sweep' = "done" /\ Mirror!Close(orphans)
          /\ swept' = swept \cup ({windows[w].sid : w \in orphans} \cap Mirror!Live)
          /\ UNCHANGED <<mirrorHwnds, clicks, session, rushed>>
      BY <1>8 DEF Mirror!SweepCloses
    <2>2. \A w \in orphans : windows[w].sid \in Sessions \ listed
      BY DEF Mirror!Titled, Mirror!On
    <2>3. Mirror!Live \subseteq listed
      BY <2>1 DEF MirrorInv
    <2>4. {windows[w].sid : w \in orphans} \cap Mirror!Live = {}
      BY <2>2, <2>3
    <2>5. NoneOpened
      BY <1>0, <2>1, ClosingOpensNone
    <2> QED BY <1>0, <1>1, <2>1, <2>4, <2>5
  <1>9. CASE UNCHANGED Mirror!vars
    BY <1>0, <1>1, <1>2, <1>9, NothingOpens DEF Mirror!vars
  <1> QED BY <1>3, <1>4, <1>5, <1>6, <1>7, <1>8, <1>9, MirrorSessionStep, MirrorOpensStep DEF Mirror!Next

LEMMA SingleCount ==
  ASSUME NEW S, \A v, w \in S : v = w PROVE Cardinality(S) \in {0, 1}
  <1>1. CASE S = {}
    BY <1>1, FS_EmptySet
  <1>2. CASE S # {}
    <2>1. PICK w \in S : TRUE
      BY <1>2
    <2>2. S = {w}
      BY <2>1
    <2> QED BY <2>2, FS_Singleton
  <1> QED BY <1>1, <1>2

\* For any number of sessions, windows and restarts, and whatever polls time
\* out: a second window takes a request made while the first could not be found
\* yet, no window is registered for another session, and the sweep leaves every
\* live session its window (open_or_focus_mirror_window,
\* close_orphan_mirror_windows).
THEOREM MirrorsKeptAlways == Mirror!Spec => []Mirror!MirrorsKept
  <1>1. MirrorInv => Mirror!MirrorsKept
    <2> SUFFICES ASSUME MirrorInv, NEW s \in Sessions, s \notin rushed
                 PROVE ~(Mirror!Cardinality(Mirror!On(s)) > 1)
      BY DEF MirrorInv, Mirror!MirrorsKept, Mirror!OneWindow
    <2>1. \A v, w \in Mirror!On(s) : v = w
      BY DEF MirrorInv, Single
    <2>2. Cardinality(Mirror!On(s)) \in {0, 1}
      BY <2>1, SingleCount
    <2>3. Mirror!Cardinality(Mirror!On(s)) = Cardinality(Mirror!On(s))
      BY Zenon DEF Mirror!Cardinality, Cardinality, Mirror!IsFiniteSet, IsFiniteSet
    <2> QED BY <2>2, <2>3
  <1> QED BY <1>1, MirrorInit, MirrorStep, PTL DEF Mirror!Spec

-----------------------------------------------------------------------------
(* The pages of a terminal session. *)

LinkAssumption == 0 \notin Sizes

LinkTypes ==
  /\ alive \in BOOLEAN /\ pty \in Sizes \cup {0} /\ size \in [Link!Pages -> Sizes]
  /\ shown \in [Link!Pages -> {"live", "retry", "tap", "ended"}] /\ lost \subseteq Phones
  /\ sent \in [Link!Pages -> Sizes \cup {0}] /\ up \in [Link!Pages -> Seq(Sizes)]

\* Only a phone whose socket is open has frames on the way.
OnTheWay(p) == up[p] # << >> => p \in Phones /\ Link!Open(p)

\* An open phone has sent its size; the frame it sent last is the last on the way, or has
\* come to the PTY or was lost; and from its first frame on the PTY has a size.
Reported(p) ==
  /\ Link!Open(p) => sent[p] = size[p]
  /\ up[p] # << >> => up[p][Len(up[p])] = sent[p]
  /\ up[p] = << >> /\ p \notin lost =>
       /\ owner = p => pty = sent[p]
       /\ sent[p] # 0 => pty # 0

LinkInv ==
  /\ LinkTypes /\ Link!EndedIsTrue
  /\ \A p \in Link!Pages : OnTheWay(p)
  /\ \A p \in Phones : Reported(p)

LEMMA FrameAdded ==
  ASSUME NEW S, NEW s \in Seq(S), NEW x \in S
  PROVE  /\ Append(s, x) \in Seq(S) /\ Append(s, x) # << >>
         /\ Append(s, x)[Len(Append(s, x))] = x
  OBVIOUS

LEMMA FrameTaken ==
  ASSUME NEW S, NEW s \in Seq(S), s # << >>
  PROVE  /\ Head(s) \in S /\ Tail(s) \in Seq(S)
         /\ Tail(s) = << >> => Head(s) = s[Len(s)]
         /\ Tail(s) # << >> => Tail(s)[Len(Tail(s))] = s[Len(s)]
  <1>1. Head(s) \in S /\ Tail(s) \in Seq(S) /\ Len(Tail(s)) = Len(s) - 1 /\ Len(s) \in Nat \ {0}
    OBVIOUS
  <1>2. \A i \in 1 .. Len(s) - 1 : Tail(s)[i] = s[i + 1]
    OBVIOUS
  <1>3. ASSUME Tail(s) = << >> PROVE Head(s) = s[Len(s)]
    <2> DEFINE n == Len(s)
    <2>1. Len(<< >>) = 0 /\ n \in Nat \ {0} /\ Head(s) = s[1]
      BY <1>1
    <2>2. Len(Tail(s)) = n - 1
      BY <1>1
    <2> HIDE DEF n
    <2>3. n - 1 = 0
      BY Zenon, <1>3, <2>1, <2>2
    <2>4. n = 1
      BY <2>1, <2>3
    <2> QED BY <2>1, <2>4 DEF n
  <1>4. ASSUME Tail(s) # << >> PROVE Tail(s)[Len(Tail(s))] = s[Len(s)]
    <2>1. Len(Tail(s)) # 0
      BY <1>1, <1>4
    <2> DEFINE n == Len(s)
    <2>2. n \in Nat \ {0} /\ n - 1 # 0
      BY <1>1, <2>1
    <2> HIDE DEF n
    <2>3. n - 1 \in 1 .. n - 1 /\ n - 1 + 1 = n
      BY <2>2
    <2> QED BY <1>1, <1>2, <2>3 DEF n
  <1> QED BY <1>1, <1>3, <1>4

LEMMA LinkInit == ASSUME LinkAssumption, Link!Init PROVE LinkInv
  <1>1. /\ alive = TRUE /\ pty = 0 /\ lost = {} /\ size \in [Link!Pages -> Sizes]
        /\ shown = [p \in Link!Pages |-> "retry"]
        /\ sent = [p \in Link!Pages |-> 0] /\ up = [p \in Link!Pages |-> << >>]
    BY DEF Link!Init
  <1>2. \A p \in Link!Pages : up[p] = << >> /\ sent[p] = 0 /\ shown[p] = "retry"
    BY <1>1
  <1>3. up \in [Link!Pages -> Seq(Sizes)]
    BY <1>1
  <1>4. LinkTypes
    BY <1>1, <1>3 DEF LinkTypes
  <1>5. Phones \subseteq Link!Pages
    BY DEF Link!Pages
  <1>6. \A p \in Phones : Reported(p)
    BY <1>1, <1>2, <1>5 DEF Reported, Link!Open
  <1>7. Link!EndedIsTrue /\ \A p \in Link!Pages : OnTheWay(p)
    BY <1>2 DEF Link!EndedIsTrue, OnTheWay
  <1> QED BY <1>4, <1>6, <1>7 DEF LinkInv

\* A page fits its terminal and tells the host, while it opens or is open.
LEMMA FitKeeps ==
  ASSUME LinkAssumption, LinkInv, NEW p \in Link!Pages, NEW fitted \in Sizes, NEW isOpen \in BOOLEAN,
         Link!Fit(p, fitted, isOpen), shown' \in [Link!Pages -> {"live", "retry", "tap", "ended"}],
         \A q \in Link!Pages : q # p => shown'[q] = shown[q],
         isOpen <=> shown'[p] = "live", Link!Open(p) => isOpen,
         Link!EndedIsTrue', UNCHANGED <<alive, pty, owner, lost>>
  PROVE  LinkInv'
  <1>1. LinkTypes /\ \A q \in Link!Pages : OnTheWay(q)
    BY DEF LinkInv
  <1>2. \A q \in Phones : Reported(q)
    BY DEF LinkInv
  <1>3. size' = [size EXCEPT ![p] = fitted]
    BY DEF Link!Fit
  <1>4. size' \in [Link!Pages -> Sizes] /\ size'[p] = fitted /\ \A q \in Link!Pages : q # p => size'[q] = size[q]
    BY <1>1, <1>3 DEF LinkTypes
  <1>5. up[p] \in Seq(Sizes) /\ fitted # 0
    BY <1>1 DEF LinkTypes, LinkAssumption
  <1>6. CASE p \in Phones /\ isOpen /\ fitted # sent[p]
    <2>1. sent' = [sent EXCEPT ![p] = fitted] /\ up' = [up EXCEPT ![p] = Append(@, fitted)]
      BY <1>6 DEF Link!Fit
    <2>2. /\ sent' \in [Link!Pages -> Sizes \cup {0}] /\ sent'[p] = fitted
          /\ \A q \in Link!Pages : q # p => sent'[q] = sent[q]
      BY <1>1, <2>1 DEF LinkTypes
    <2>3. /\ Append(up[p], fitted) \in Seq(Sizes) /\ Append(up[p], fitted) # << >>
          /\ Append(up[p], fitted)[Len(Append(up[p], fitted))] = fitted
      BY <1>5, FrameAdded
    <2>4. up'[p] = Append(up[p], fitted) /\ \A q \in Link!Pages : q # p => up'[q] = up[q]
      BY <1>1, <2>1 DEF LinkTypes
    <2>5. up' \in [Link!Pages -> Seq(Sizes)]
      BY <1>1, <2>1, <2>3 DEF LinkTypes
    <2>6. LinkTypes'
      BY <1>1, <1>4, <2>2, <2>5 DEF LinkTypes
    <2>7. ASSUME NEW q \in Link!Pages PROVE OnTheWay(q)'
      BY <1>1, <1>6, <2>4 DEF OnTheWay, Link!Open
    <2>8. ASSUME NEW q \in Phones PROVE Reported(q)'
      <3>1. q \in Link!Pages
        BY DEF Link!Pages
      <3>2. CASE q = p
        BY <1>4, <2>2, <2>3, <2>4, <3>2 DEF Reported
      <3>3. CASE q # p
        BY <1>2, <1>4, <2>2, <2>4, <3>1, <3>3 DEF Reported, Link!Open
      <3> QED BY <3>2, <3>3
    <2> QED BY <2>6, <2>7, <2>8 DEF LinkInv
  <1>7. CASE ~(p \in Phones /\ isOpen /\ fitted # sent[p])
    <2>1. UNCHANGED <<sent, up>>
      BY <1>7 DEF Link!Fit
    <2>2. LinkTypes'
      BY <1>1, <1>4, <2>1 DEF LinkTypes
    <2>3. ASSUME NEW q \in Link!Pages PROVE OnTheWay(q)'
      BY <1>1, <2>1 DEF OnTheWay, Link!Open
    <2>4. ASSUME NEW q \in Phones PROVE Reported(q)'
      <3>1. q \in Link!Pages
        BY DEF Link!Pages
      <3>2. CASE q = p
        BY <1>2, <1>4, <1>7, <2>1, <3>2 DEF Reported, Link!Open
      <3>3. CASE q # p
        BY <1>2, <1>4, <2>1, <3>1, <3>3 DEF Reported, Link!Open
      <3> QED BY <3>2, <3>3
    <2> QED BY <2>2, <2>3, <2>4 DEF LinkInv
  <1> QED BY <1>6, <1>7

LEMMA SizesMove ==
  ASSUME LinkAssumption, LinkInv, NEW p \in Link!Pages,
         Link!Turn(p) \/ Link!Follow(p) \/ Link!Connect(p)
  PROVE  LinkInv'
  <1>1. LinkTypes /\ Link!EndedIsTrue
    BY DEF LinkInv
  <1>2. Link!Open(p) \in BOOLEAN
    BY DEF Link!Open
  <1>3. CASE Link!Turn(p)
    <2>1. /\ UNCHANGED <<alive, pty, shown, owner, lost>>
          /\ \E fitted \in Sizes \ {size[p]} : Link!Fit(p, fitted, Link!Open(p))
      BY <1>3 DEF Link!Turn
    <2>2. PICK fitted \in Sizes : Link!Fit(p, fitted, Link!Open(p))
      BY <2>1
    <2>3. Link!EndedIsTrue' /\ (Link!Open(p) <=> shown'[p] = "live")
      BY <1>1, <2>1 DEF Link!EndedIsTrue, Link!Open
    <2> QED BY <1>1, <1>2, <2>1, <2>2, <2>3, FitKeeps DEF LinkTypes
  <1>4. CASE Link!Follow(p)
    <2>1. pty # 0 /\ Link!Fit(p, pty, Link!Open(p)) /\ UNCHANGED <<alive, pty, shown, owner, lost>>
      BY <1>4 DEF Link!Follow
    <2>2. Link!EndedIsTrue' /\ (Link!Open(p) <=> shown'[p] = "live")
      BY <1>1, <2>1 DEF Link!EndedIsTrue, Link!Open
    <2>3. pty \in Sizes
      BY <1>1, <2>1 DEF LinkTypes
    <2> QED BY <1>1, <1>2, <2>1, <2>2, <2>3, FitKeeps DEF LinkTypes
  <1>5. CASE Link!Connect(p)
    <2>1. /\ alive /\ shown' = [shown EXCEPT ![p] = "live"] /\ Link!Fit(p, size[p], TRUE)
          /\ UNCHANGED <<alive, pty, owner, lost>>
      BY <1>5 DEF Link!Connect
    <2>2. /\ shown' \in [Link!Pages -> {"live", "retry", "tap", "ended"}] /\ shown'[p] = "live"
          /\ \A q \in Link!Pages : q # p => shown'[q] = shown[q]
      BY <1>1, <2>1 DEF LinkTypes
    <2>3. Link!EndedIsTrue'
      BY <1>1, <2>1, <2>2 DEF Link!EndedIsTrue
    <2>4. size[p] \in Sizes
      BY <1>1 DEF LinkTypes
    <2> QED BY <2>1, <2>2, <2>3, <2>4, FitKeeps
  <1> QED BY <1>3, <1>4, <1>5

LEMMA DeliverKeeps ==
  ASSUME LinkAssumption, LinkInv, NEW p \in Link!Pages, Link!Deliver(p) PROVE LinkInv'
  <1>1. LinkTypes /\ Link!EndedIsTrue /\ \A q \in Link!Pages : OnTheWay(q)
    BY DEF LinkInv
  <1>2. \A q \in Phones : Reported(q)
    BY DEF LinkInv
  <1>3. /\ up[p] # << >> /\ up' = [up EXCEPT ![p] = Tail(@)]
        /\ UNCHANGED <<alive, shown, size, sent, lost>>
        /\ IF p \in Phones THEN pty' = Head(up[p]) /\ owner' = p ELSE UNCHANGED <<pty, owner>>
    BY DEF Link!Deliver
  <1>4. p \in Phones /\ Link!Open(p)
    BY <1>1, <1>3 DEF OnTheWay
  <1>5. pty' = Head(up[p]) /\ owner' = p
    BY <1>3, <1>4
  <1>6. up[p] \in Seq(Sizes)
    BY <1>1 DEF LinkTypes
  <1>7. /\ Head(up[p]) \in Sizes /\ Tail(up[p]) \in Seq(Sizes)
        /\ Tail(up[p]) = << >> => Head(up[p]) = up[p][Len(up[p])]
        /\ Tail(up[p]) # << >> => Tail(up[p])[Len(Tail(up[p]))] = up[p][Len(up[p])]
    BY <1>3, <1>6, FrameTaken
  <1>8. up'[p] = Tail(up[p]) /\ \A q \in Link!Pages : q # p => up'[q] = up[q]
    BY <1>1, <1>3 DEF LinkTypes
  <1>9. up' \in [Link!Pages -> Seq(Sizes)]
    BY <1>1, <1>3, <1>7 DEF LinkTypes
  <1>10. LinkTypes'
    BY <1>1, <1>3, <1>5, <1>7, <1>9 DEF LinkTypes
  <1>11. Link!EndedIsTrue'
    BY <1>1, <1>3 DEF Link!EndedIsTrue
  <1>12. ASSUME NEW q \in Link!Pages PROVE OnTheWay(q)'
    BY <1>1, <1>3, <1>4, <1>8 DEF OnTheWay, Link!Open
  <1>13. ASSUME NEW q \in Phones PROVE Reported(q)'
    <2>1. q \in Link!Pages /\ pty' # 0
      BY <1>5, <1>7 DEF Link!Pages, LinkAssumption
    <2>2. CASE q = p
      BY <1>2, <1>3, <1>5, <1>7, <1>8, <2>1, <2>2 DEF Reported, Link!Open
    <2>3. CASE q # p
      BY <1>2, <1>3, <1>5, <1>8, <2>1, <2>3 DEF Reported, Link!Open
    <2> QED BY <2>2, <2>3
  <1> QED BY <1>10, <1>11, <1>12, <1>13 DEF LinkInv

\* A link that goes ends as "ended" only if the session has.
LEMMA CutKeeps ==
  ASSUME LinkAssumption, LinkInv, NEW p \in Link!Pages, NEW code, Link!Cut(p, code),
         code = 4000 => ~alive
  PROVE  LinkInv'
  <1>1. LinkTypes /\ Link!EndedIsTrue /\ \A q \in Link!Pages : OnTheWay(q)
    BY DEF LinkInv
  <1>2. \A q \in Phones : Reported(q)
    BY DEF LinkInv
  <1>3. /\ shown' = [shown EXCEPT ![p] = IF code = 4000 THEN "ended" ELSE "retry"]
        /\ up' = [up EXCEPT ![p] = << >>]
        /\ lost' = IF up[p] # << >> THEN lost \cup {p} ELSE lost
        /\ UNCHANGED <<alive, pty, size, sent, owner>>
    BY DEF Link!Cut
  <1>4. /\ shown' \in [Link!Pages -> {"live", "retry", "tap", "ended"}] /\ shown'[p] # "live"
        /\ shown'[p] = "ended" => ~alive
        /\ \A q \in Link!Pages : q # p => shown'[q] = shown[q]
    BY <1>1, <1>3 DEF LinkTypes
  <1>5. up'[p] = << >> /\ \A q \in Link!Pages : q # p => up'[q] = up[q]
    BY <1>1, <1>3 DEF LinkTypes
  <1>6. up' \in [Link!Pages -> Seq(Sizes)]
    <2>1. << >> \in Seq(Sizes)
      OBVIOUS
    <2> QED BY <1>1, <1>3, <2>1 DEF LinkTypes
  <1>7. lost \subseteq lost' /\ lost' \subseteq Phones /\ (up[p] # << >> => p \in lost')
    BY <1>1, <1>3 DEF LinkTypes, OnTheWay
  <1>8. LinkTypes'
    BY <1>1, <1>3, <1>4, <1>6, <1>7 DEF LinkTypes
  <1>9. Link!EndedIsTrue'
    BY <1>1, <1>3, <1>4 DEF Link!EndedIsTrue
  <1>10. ASSUME NEW q \in Link!Pages PROVE OnTheWay(q)'
    BY <1>1, <1>4, <1>5 DEF OnTheWay, Link!Open
  <1>11. ASSUME NEW q \in Phones PROVE Reported(q)'
    <2>1. q \in Link!Pages
      BY DEF Link!Pages
    <2>2. CASE q = p
      BY <1>2, <1>3, <1>4, <1>5, <1>7, <2>2 DEF Reported, Link!Open
    <2>3. CASE q # p
      BY <1>2, <1>3, <1>4, <1>5, <1>7, <2>1, <2>3 DEF Reported, Link!Open
    <2> QED BY <2>2, <2>3
  <1> QED BY <1>8, <1>9, <1>10, <1>11 DEF LinkInv

LEMMA LinkStep ==
  ASSUME LinkAssumption PROVE LinkInv /\ [Link!Next]_(Link!vars) => LinkInv'
  <1> SUFFICES ASSUME LinkInv, [Link!Next]_(Link!vars) PROVE LinkInv'
    OBVIOUS
  <1>1. ASSUME NEW p \in Link!Pages, Link!Turn(p) \/ Link!Follow(p) \/ Link!Connect(p) PROVE LinkInv'
    BY <1>1, SizesMove
  <1>2. ASSUME NEW p \in Link!Pages, Link!Deliver(p) PROVE LinkInv'
    BY <1>2, DeliverKeeps
  <1>3. ASSUME NEW p \in Link!Pages, Link!Drop(p) \/ Link!RelayEnd(p) PROVE LinkInv'
    <2>1. PICK code \in {1006, 4000} : Link!Cut(p, code) /\ (code = 4000 => ~alive)
      BY <1>3 DEF Link!Drop, Link!RelayEnd
    <2> QED BY <2>1, CutKeeps
  <1>4. ASSUME NEW p \in Link!Pages, Link!Refused(p) PROVE LinkInv'
    <2>1. /\ shown[p] = "retry" /\ shown' = [shown EXCEPT ![p] = "tap"]
          /\ UNCHANGED <<alive, pty, size, sent, up, owner, lost>>
      BY <1>4 DEF Link!Refused
    <2>2. /\ LinkTypes /\ Link!EndedIsTrue /\ \A q \in Link!Pages : OnTheWay(q)
          /\ \A q \in Phones : q \in Link!Pages /\ Reported(q)
      BY DEF LinkInv, Link!Pages
    <2>3. /\ shown' \in [Link!Pages -> {"live", "retry", "tap", "ended"}]
          /\ \A q \in Link!Pages : /\ shown'[q] = "live" <=> shown[q] = "live"
                                   /\ shown'[q] = "ended" <=> shown[q] = "ended"
      BY <2>1, <2>2 DEF LinkTypes
    <2>4. LinkTypes' /\ Link!EndedIsTrue'
      BY <2>1, <2>2, <2>3 DEF LinkTypes, Link!EndedIsTrue
    <2>5. \A q \in Link!Pages : OnTheWay(q)'
      BY <2>1, <2>2, <2>3 DEF OnTheWay, Link!Open
    <2>6. \A q \in Phones : Reported(q)'
      BY <2>1, <2>2, <2>3 DEF Reported, Link!Open
    <2> QED BY <2>4, <2>5, <2>6 DEF LinkInv
  <1>5. CASE Link!SessionEnds
    <2>1. alive' = FALSE /\ UNCHANGED <<pty, shown, size, sent, up, owner, lost>>
      BY <1>5 DEF Link!SessionEnds
    <2> QED BY <2>1 DEF LinkInv, LinkTypes, OnTheWay, Reported, Link!Open, Link!EndedIsTrue
  <1>6. CASE UNCHANGED Link!vars
    <2>1. UNCHANGED <<alive, pty, shown, size, sent, up, owner, lost>>
      BY <1>6 DEF Link!vars
    <2> QED BY <2>1 DEF LinkInv, LinkTypes, OnTheWay, Reported, Link!Open, Link!EndedIsTrue
  <1> QED BY <1>1, <1>2, <1>3, <1>4, <1>5, <1>6 DEF Link!Next

\* For any phones, mirrors and sizes, with phones turned, links dropped and pages back at any
\* moment: once its frames have arrived the PTY has the size of the open phone that sized it
\* last, and some size as soon as a phone is open, unless a frame was lost with its link; and
\* a page says the session has ended only when it has (applyTerminalSize, _pump_from_client).
THEOREM LinkSoundAlways ==
  ASSUME LinkAssumption
  PROVE  Link!Spec => [](Link!TypeOK /\ Link!LinkSound)
  <1>1. Link!Init => LinkInv
    BY LinkInit
  <1>2. LinkInv => Link!TypeOK /\ Link!LinkSound
    <2> SUFFICES ASSUME LinkInv PROVE Link!TypeOK /\ Link!LinkSound
      OBVIOUS
    <2>1. Link!TypeOK
      BY DEF LinkInv, LinkTypes, Link!TypeOK
    <2>2. ASSUME NEW p \in Phones, Link!Open(p), up[p] = << >>, p \notin lost
          PROVE  (owner = p => pty = size[p]) /\ pty # 0
      <3>1. Reported(p) /\ p \in Link!Pages /\ size[p] # 0
        BY DEF LinkInv, LinkTypes, Link!Pages, LinkAssumption
      <3> QED BY <2>2, <3>1 DEF Reported
    <2>3. Link!SizeFollows /\ Link!Sized
      BY <2>2 DEF Link!SizeFollows, Link!Sized
    <2> QED BY <2>1, <2>3 DEF LinkInv, Link!LinkSound
  <1> QED BY <1>1, <1>2, LinkStep, PTL DEF Link!Spec

-----------------------------------------------------------------------------
(* The time a page was used. *)

UsageAssumption ==
  /\ FlushAfter \in Nat /\ IdleGap \in Nat /\ MaxInterval \in Nat
  /\ MaxAge \in Nat /\ Cap \in Nat /\ MaxTime \in Nat

EventKinds == {"session_start", "view", "tap", "session_end"}
UsageEvents == [kind : EventKinds, view : Views \cup {Usage!NoView}]
UsageRows == [ts : Nat, page : Pages, kind : EventKinds, view : Views \cup {Usage!NoView}]
PageStates == [shown : BOOLEAN, queue : Seq(UsageEvents), due : Nat]

UsageTypes ==
  /\ now \in Nat /\ rows \in Seq(UsageRows) /\ pages \in [Pages -> PageStates]
  /\ shownAt \in [Pages -> SUBSET Nat] /\ starts \in [Pages -> SUBSET Nat]
  /\ missing \in [Pages -> SUBSET EventKinds]

\* The ids of a table grow with its stamps.
Orderly(t, at) ==
  \A i \in DOMAIN t : t[i].ts <= at /\ \A j \in DOMAIN t : i <= j => t[i].ts <= t[j].ts

UsageBounds ==
  /\ now <= MaxTime /\ Len(rows) <= Cap
  /\ \A p \in Pages : pages[p].due <= now + FlushAfter /\ \A u \in shownAt[p] : u < now

\* The rows of a page, one and the next of them, the last of them.
RowsOf(t, p) == {i \in DOMAIN t : t[i].page = p}
NextOf(t, p, i, j) ==
  /\ i \in RowsOf(t, p) /\ j \in RowsOf(t, p) /\ i < j
  /\ \A k \in RowsOf(t, p) : ~(i < k /\ k < j)
LastOf(t, p, i) == i \in RowsOf(t, p) /\ \A k \in RowsOf(t, p) : k <= i

Fresh(queue) == queue # <<>> /\ queue[1].kind = "session_start"
Span(a, b, sh) == \A u \in a .. b - 1 : u \in sh

\* What a page has yet to send is of the stretch it is in.
QueueOK(pg) ==
  /\ pg.queue # <<>> => pg.shown
  /\ \A x \in DOMAIN pg.queue : /\ pg.queue[x].kind # "session_end"
                                /\ x > 1 => pg.queue[x].kind # "session_start"

\* Between two rows of one stretch the page was shown, unless an end and a start went missing.
Neighbours(t, p, sh, ms) ==
  \A i, j \in DOMAIN t :
    NextOf(t, p, i, j) /\ t[i].kind # "session_end" /\ t[j].kind # "session_start" =>
      \/ Span(t[i].ts, t[j].ts, sh)
      \/ "session_start" \in ms /\ "session_end" \in ms

\* A stretch without an end is still going on, or its end was lost and the next row is a start.
Newest(t, p, pg, sh, ms, at) ==
  \A i \in DOMAIN t : LastOf(t, p, i) /\ t[i].kind # "session_end" =>
    \/ pg.shown /\ ~Fresh(pg.queue) /\ Span(t[i].ts, at, sh)
    \/ "session_end" \in ms /\ ("session_start" \in ms \/ ~pg.shown \/ Fresh(pg.queue))

\* Rows k to i are of one stretch, whose start is row k.
Stretch(t, p, k, i) ==
  /\ k \in RowsOf(t, p) /\ i \in RowsOf(t, p) /\ k <= i /\ t[k].kind = "session_start"
  /\ \A j \in RowsOf(t, p) :
       /\ k <= j /\ j <= i => t[j].kind # "session_end"
       /\ k < j /\ j <= i => t[j].kind # "session_start"

\* Of a page that lost nothing: its stretch has yet to report its start, or is the newest of
\* the table; and a unit it was shown is one before a first flush, or within a stretch.
Current(t, p, pg, sh, st, at) ==
  pg.shown =>
    \/ Fresh(pg.queue) /\ \E w \in st : w <= at /\ pg.due = w + FlushAfter
    \/ /\ ~Fresh(pg.queue)
       /\ \E k, i \in DOMAIN t : Stretch(t, p, k, i) /\ LastOf(t, p, i) /\ Span(t[k].ts, at, sh)
Within(t, p, sh, u, k, i) == Stretch(t, p, k, i) /\ t[i].ts <= u /\ Span(t[k].ts, u + 1, sh)
Counted(t, p, pg, sh, st, u) ==
  \/ \E w \in st : w <= u /\ u < w + FlushAfter
  \/ \E k, i \in DOMAIN t : Within(t, p, sh, u, k, i) /\
       \/ \E j \in DOMAIN t : NextOf(t, p, i, j) /\ u < t[j].ts /\ t[j].kind # "session_start"
       \/ LastOf(t, p, i) /\ pg.shown /\ ~Fresh(pg.queue)
Whole(t, p, pg, sh, st, at) ==
  Current(t, p, pg, sh, st, at) /\ \A u \in sh : Counted(t, p, pg, sh, st, u)

PageInv(t, p, pg, sh, st, ms, at) ==
  /\ QueueOK(pg) /\ Neighbours(t, p, sh, ms) /\ Newest(t, p, pg, sh, ms, at)
  /\ ms = {} => Whole(t, p, pg, sh, st, at)

UsageInv ==
  /\ UsageTypes /\ UsageBounds /\ Orderly(rows, now)
  /\ \A p \in Pages : PageInv(rows, p, pages[p], shownAt[p], starts[p], missing[p], now)

\* A table after a batch of page p; a table without its first m rows.
Grown(t, all, p, batch, at) ==
  /\ all \in Seq(UsageRows) /\ Len(all) = Len(t) + Len(batch)
  /\ \A i \in DOMAIN t : all[i] = t[i]
  /\ \A x \in DOMAIN batch : /\ all[Len(t) + x].page = p /\ all[Len(t) + x].ts = at
                             /\ all[Len(t) + x].kind = batch[x].kind
Cut(all, t, m) ==
  /\ m \in 0 .. Len(all) /\ t \in Seq(UsageRows) /\ Len(t) = Len(all) - m
  /\ \A i \in DOMAIN t : t[i] = all[i + m]
Dropped(all, p, m) == {all[i].kind : i \in {k \in 1 .. m : all[k].page = p}}

\* What is too old or too many is a first part of the table.
LEMMA OldIs ==
  ASSUME UsageAssumption, now \in Nat, NEW t \in Seq(UsageRows), Orderly(t, now)
  PROVE  \E m \in 0 .. Len(t) :
           Usage!Old(t) = 1 .. m /\ Cardinality(Usage!Old(t)) = m /\ Len(t) - m <= Cap
  <1> DEFINE kept == {i \in 1 .. Len(t) : i \notin Usage!Old(t)}
  <1>1. Len(t) \in Nat /\ DOMAIN t = 1 .. Len(t)
    OBVIOUS
  <1>2. ASSUME NEW i \in DOMAIN t, NEW j \in DOMAIN t, j <= i, i \in Usage!Old(t)
        PROVE  j \in Usage!Old(t)
    <2>1. t[j].ts <= t[i].ts /\ t[i].ts \in Nat /\ t[j].ts \in Nat
      <3>1. t[i] \in UsageRows /\ t[j] \in UsageRows
        BY <1>2
      <3> QED BY <1>2, <3>1 DEF Orderly, UsageRows
    <2> QED BY <1>1, <1>2, <2>1 DEF Usage!Old, UsageAssumption
  <1>3. \E m \in 0 .. Len(t) : Usage!Old(t) = 1 .. m
    <2>1. CASE kept = {}
      <3>1. Usage!Old(t) = 1 .. Len(t)
        <4>1. Usage!Old(t) \subseteq 1 .. Len(t)
          BY <1>1 DEF Usage!Old
        <4>2. \A i \in 1 .. Len(t) : i \in Usage!Old(t)
          BY <2>1
        <4> QED BY <4>1, <4>2
      <3>2. Len(t) \in 0 .. Len(t)
        BY <1>1
      <3> QED BY <3>1, <3>2
    <2>2. CASE kept # {}
      <3>1. PICK n \in kept : \A i \in kept : n <= i
        <4>1. kept \in SUBSET Nat
          BY <1>1
        <4> QED BY <2>2, <4>1, LeastOf
      <3>2. Usage!Old(t) \subseteq 1 .. Len(t)
        BY <1>1 DEF Usage!Old
      <3>3. ASSUME NEW i \in 1 .. Len(t) PROVE i \in Usage!Old(t) <=> i < n
        <4>1. CASE i < n
          BY <3>1, <4>1
        <4>2. CASE n <= i
          BY <1>1, <1>2, <3>1, <4>2
        <4> QED BY <4>1, <4>2
      <3>4. n \in 1 .. Len(t)
        BY <3>1
      <3>5. Usage!Old(t) = 1 .. n - 1
        <4>1. ASSUME NEW i PROVE i \in Usage!Old(t) <=> i \in 1 .. n - 1
          BY <1>1, <3>2, <3>3, <3>4
        <4> QED BY <4>1
      <3>6. n - 1 \in 0 .. Len(t)
        BY <1>1, <3>4
      <3> QED BY <3>5, <3>6
    <2> QED BY <2>1, <2>2
  <1>4. PICK m \in 0 .. Len(t) : Usage!Old(t) = 1 .. m
    BY <1>3
  <1>5. Cardinality(1 .. m) = IF 1 > m THEN 0 ELSE m - 1 + 1
    BY FS_Interval
  <1>6. Len(t) - m <= Cap
    <2>1. SUFFICES ASSUME Len(t) - m > Cap PROVE FALSE
      BY <1>1 DEF UsageAssumption
    <2>2. m + 1 \in Usage!Old(t)
      BY <1>1, <2>1 DEF Usage!Old, UsageAssumption
    <2> QED BY <1>4, <2>2
  <1>7. Cardinality(1 .. m) = m
    BY <1>5
  <1> QED BY <1>4, <1>6, <1>7

\* What storing a batch does to the table and to what is missing.
LEMMA StoredIs ==
  ASSUME UsageAssumption, UsageTypes, Orderly(rows, now), NEW p \in Pages,
         NEW batch \in Seq(UsageEvents), Usage!Stored(p, batch)
  PROVE  \E all \in Seq(UsageRows) : \E m \in 0 .. Len(all) :
           /\ Grown(rows, all, p, batch, now) /\ Orderly(all, now) /\ Cut(all, rows', m)
           /\ Len(rows') <= Cap
           /\ missing' = [q \in Pages |-> missing[q] \cup Dropped(all, q, m)]
  <1> DEFINE news == [i \in DOMAIN batch |-> [ts |-> now, page |-> p,
                                               kind |-> batch[i].kind, view |-> batch[i].view]]
             all == rows \o news
  <1>1. news \in Seq(UsageRows) /\ Len(news) = Len(batch)
    <2>1. Len(batch) \in Nat /\ DOMAIN batch = 1 .. Len(batch)
      OBVIOUS
    <2>2. \A i \in DOMAIN batch : batch[i] \in UsageEvents
      OBVIOUS
    <2>3. \A i \in DOMAIN batch : news[i] \in UsageRows
      BY <2>2 DEF UsageTypes, UsageEvents, UsageRows
    <2> QED BY <2>1, <2>3
  <1>2. rows \in Seq(UsageRows)
    BY DEF UsageTypes
  <1> HIDE DEF news
  <1>3. /\ all \in Seq(UsageRows) /\ Len(all) = Len(rows) + Len(batch)
        /\ \A i \in 1 .. Len(rows) + Len(batch) :
             all[i] = IF i <= Len(rows) THEN rows[i] ELSE news[i - Len(rows)]
    <2>1. /\ all \in Seq(UsageRows) /\ Len(all) = Len(rows) + Len(news)
          /\ \A i \in 1 .. Len(rows) + Len(news) :
               all[i] = IF i <= Len(rows) THEN rows[i] ELSE news[i - Len(rows)]
      BY <1>1, <1>2, ConcatProperties
    <2> HIDE DEF all
    <2> QED BY <1>1, <2>1
  <1> HIDE DEF all
  <1>4. Len(rows) \in Nat /\ Len(batch) \in Nat /\ DOMAIN rows = 1 .. Len(rows)
        /\ DOMAIN batch = 1 .. Len(batch) /\ DOMAIN all = 1 .. Len(all)
    BY <1>2, <1>3
  <1>5. \A i \in DOMAIN rows : all[i] = rows[i]
    BY <1>3, <1>4
  <1>6. \A x \in DOMAIN batch : all[Len(rows) + x] = news[x]
    BY <1>3, <1>4
  <1>7. \A x \in DOMAIN batch : news[x].page = p /\ news[x].ts = now /\ news[x].kind = batch[x].kind
    BY DEF news
  <1>8. Grown(rows, all, p, batch, now)
    BY <1>3, <1>5, <1>6, <1>7 DEF Grown
  <1>9. Orderly(all, now)
    <2>1. ASSUME NEW i \in DOMAIN all
          PROVE  \/ i \in DOMAIN rows /\ all[i] = rows[i]
                 \/ i > Len(rows) /\ all[i].ts = now
      <3>1. CASE i <= Len(rows)
        BY <1>4, <1>5, <3>1
      <3>2. CASE i > Len(rows)
        <4>1. i - Len(rows) \in DOMAIN batch /\ Len(rows) + (i - Len(rows)) = i
          BY <1>3, <1>4, <3>2
        <4> QED BY <1>6, <1>7, <3>2, <4>1
      <3> QED BY <1>4, <3>1, <3>2
    <2>2. ASSUME NEW i \in DOMAIN all, NEW j \in DOMAIN all, i <= j
          PROVE  all[i].ts <= now /\ all[i].ts <= all[j].ts
      <3>1. \A k \in DOMAIN rows : rows[k].ts \in Nat /\ rows[k].ts <= now
        <4>1. \A k \in DOMAIN rows : rows[k] \in UsageRows
          BY <1>2
        <4> QED BY <4>1 DEF Orderly, UsageRows
      <3>2. now \in Nat
        BY DEF UsageTypes
      <3>3. CASE j > Len(rows) /\ all[j].ts = now
        <4>1. (i \in DOMAIN rows /\ all[i] = rows[i]) \/ all[i].ts = now
          BY <2>1
        <4> QED BY <3>1, <3>2, <3>3, <4>1
      <3>4. CASE j \in DOMAIN rows /\ all[j] = rows[j]
        <4>1. i \in DOMAIN rows /\ all[i] = rows[i]
          BY <1>4, <2>1, <2>2, <3>4
        <4>2. rows[i].ts <= rows[j].ts
          BY <2>2, <3>4, <4>1 DEF Orderly
        <4> QED BY <3>1, <3>4, <4>1, <4>2
      <3> QED BY <2>1, <3>3, <3>4
    <2>3. \A i \in DOMAIN all : i <= i
      BY <1>4
    <2> QED BY <2>2, <2>3 DEF Orderly
  <1>10. PICK m \in 0 .. Len(all) :
           Usage!Old(all) = 1 .. m /\ Cardinality(Usage!Old(all)) = m /\ Len(all) - m <= Cap
    BY <1>3, <1>9, OldIs DEF UsageTypes
  <1>11. /\ rows' = SubSeq(all, m + 1, Len(all))
         /\ missing' = [q \in Pages |-> missing[q] \cup Dropped(all, q, m)]
    <2>1. Usage!Cardinality(Usage!Old(all)) = Cardinality(Usage!Old(all))
      BY Zenon DEF Usage!Cardinality, Cardinality, Usage!IsFiniteSet, IsFiniteSet
    <2>2. /\ rows' = SubSeq(all, Usage!Cardinality(Usage!Old(all)) + 1, Len(all))
          /\ missing' = [q \in Pages |-> missing[q]
                          \cup {all[i].kind : i \in {k \in Usage!Old(all) : all[k].page = q}}]
      BY DEF Usage!Stored, all, news
    <2> QED BY <1>10, <2>1, <2>2 DEF Dropped
  <1>12. Cut(all, rows', m) /\ Len(rows') <= Cap
    <2>1. \A i \in m + 1 .. Len(all) : all[i] \in UsageRows
      BY <1>3, <1>4
    <2>2. m + 1 \in Int /\ Len(all) \in Int
      BY <1>3, <1>4
    <2>3. /\ rows' \in Seq(UsageRows)
          /\ Len(rows') = IF m + 1 <= Len(all) THEN Len(all) - (m + 1) + 1 ELSE 0
          /\ \A i \in 1 .. Len(all) - (m + 1) + 1 : rows'[i] = all[m + 1 + i - 1]
      BY <1>11, <2>1, <2>2, SubSeqProperties
    <2>4. Len(rows') = Len(all) - m
      BY <1>10, <2>2, <2>3
    <2>5. ASSUME NEW i \in DOMAIN rows' PROVE rows'[i] = all[i + m]
      <3>1. i \in 1 .. Len(all) - m
        BY <2>3, <2>4
      <3>2. m + 1 + i - 1 = i + m /\ i \in 1 .. Len(all) - (m + 1) + 1
        BY <1>10, <2>2, <3>1
      <3> QED BY <2>3, <3>2
    <2> QED BY <1>10, <2>3, <2>4, <2>5 DEF Cut
  <1> QED BY <1>3, <1>8, <1>9, <1>10, <1>11, <1>12

\* The rows of a page that a table still has, m further down than they were.
Moved(t1, t2, p, m) ==
  /\ m \in Nat
  /\ \A i \in RowsOf(t2, p) : i + m \in RowsOf(t1, p) /\ t1[i + m] = t2[i]
  /\ \A k \in RowsOf(t1, p) : k > m => k - m \in RowsOf(t2, p)

LEMMA RowsAre ==
  ASSUME NEW t \in Seq(UsageRows), NEW p
  PROVE  /\ \A i \in DOMAIN t : i \in Nat /\ i > 0 /\ t[i] \in UsageRows /\ t[i].ts \in Nat
         /\ RowsOf(t, p) \subseteq DOMAIN t
  <1>1. \A i \in DOMAIN t : i \in Nat /\ i > 0 /\ t[i] \in UsageRows
    OBVIOUS
  <1> QED BY <1>1 DEF UsageRows, RowsOf

\* A page's state is about its own rows: it does not matter where in the table they are, nor
\* that the first ones are gone, as long as their kinds are missing.
LEMMA MovedKeeps ==
  ASSUME NEW t1 \in Seq(UsageRows), NEW t2 \in Seq(UsageRows), NEW p, NEW m, Moved(t1, t2, p, m),
         NEW pg, NEW sh, NEW st, NEW ms, NEW ms2, NEW at, PageInv(t1, p, pg, sh, st, ms, at),
         ms \subseteq ms2, ms2 = {} => \A k \in RowsOf(t1, p) : k > m
  PROVE  PageInv(t2, p, pg, sh, st, ms2, at)
  <1>1. /\ RowsOf(t1, p) \subseteq Nat /\ RowsOf(t2, p) \subseteq Nat /\ m \in Nat
        /\ RowsOf(t1, p) \subseteq DOMAIN t1 /\ RowsOf(t2, p) \subseteq DOMAIN t2
    BY RowsAre DEF Moved
  <1>2. \A i \in RowsOf(t2, p) : i + m \in RowsOf(t1, p) /\ t1[i + m] = t2[i]
    BY DEF Moved
  <1>3. \A k \in RowsOf(t1, p) : k > m => k - m \in RowsOf(t2, p) /\ t2[k - m] = t1[k]
    <2>1. \A k \in RowsOf(t1, p) : k > m => k - m \in RowsOf(t2, p)
      BY DEF Moved
    <2>2. \A k \in Nat : (k - m) + m = k
      BY <1>1
    <2> QED BY <1>1, <1>2, <2>1, <2>2
  <1>4. ASSUME NEW i, NEW j, NextOf(t2, p, i, j) PROVE NextOf(t1, p, i + m, j + m)
    <2>1. /\ i \in RowsOf(t2, p) /\ j \in RowsOf(t2, p) /\ i < j
          /\ \A k \in RowsOf(t2, p) : ~(i < k /\ k < j)
      BY <1>4 DEF NextOf
    <2>2. i + m \in RowsOf(t1, p) /\ j + m \in RowsOf(t1, p) /\ i + m < j + m
      BY <1>1, <1>2, <2>1
    <2>3. ASSUME NEW k \in RowsOf(t1, p), i + m < k, k < j + m PROVE FALSE
      <3>1. k - m \in RowsOf(t2, p) /\ i < k - m /\ k - m < j
        BY <1>1, <1>3, <2>1, <2>3
      <3> QED BY <2>1, <3>1
    <2> QED BY <2>2, <2>3 DEF NextOf
  <1>5. ASSUME NEW i, LastOf(t2, p, i) PROVE LastOf(t1, p, i + m)
    <2>1. i \in RowsOf(t2, p) /\ \A k \in RowsOf(t2, p) : k <= i
      BY <1>5 DEF LastOf
    <2>2. ASSUME NEW k \in RowsOf(t1, p) PROVE k <= i + m
      <3>1. CASE k > m
        <4>1. k - m <= i
          BY <1>3, <2>1, <3>1
        <4> QED BY <1>1, <2>1, <4>1
      <3>2. CASE k <= m
        BY <1>1, <2>1, <3>2
      <3> QED BY <1>1, <3>1, <3>2
    <2> QED BY <1>2, <2>1, <2>2 DEF LastOf
  <1>6. Neighbours(t2, p, sh, ms2)
    <2>1. SUFFICES ASSUME NEW i \in DOMAIN t2, NEW j \in DOMAIN t2, NextOf(t2, p, i, j),
                          t2[i].kind # "session_end", t2[j].kind # "session_start"
                   PROVE  Span(t2[i].ts, t2[j].ts, sh) \/ ("session_start" \in ms2 /\ "session_end" \in ms2)
      BY DEF Neighbours
    <2>2. /\ NextOf(t1, p, i + m, j + m) /\ i + m \in DOMAIN t1 /\ j + m \in DOMAIN t1
          /\ t1[i + m] = t2[i] /\ t1[j + m] = t2[j]
      BY <1>1, <1>2, <1>4, <2>1 DEF NextOf
    <2>3. Neighbours(t1, p, sh, ms)
      BY DEF PageInv
    <2>4. Span(t1[i + m].ts, t1[j + m].ts, sh) \/ ("session_start" \in ms /\ "session_end" \in ms)
      BY <2>1, <2>2, <2>3 DEF Neighbours
    <2> QED BY <2>2, <2>4
  <1>7. Newest(t2, p, pg, sh, ms2, at)
    <2>1. SUFFICES ASSUME NEW i \in DOMAIN t2, LastOf(t2, p, i), t2[i].kind # "session_end"
                   PROVE  \/ pg.shown /\ ~Fresh(pg.queue) /\ Span(t2[i].ts, at, sh)
                          \/ "session_end" \in ms2
                             /\ ("session_start" \in ms2 \/ ~pg.shown \/ Fresh(pg.queue))
      BY DEF Newest
    <2>2. LastOf(t1, p, i + m) /\ i + m \in DOMAIN t1 /\ t1[i + m] = t2[i]
      BY <1>1, <1>2, <1>5, <2>1 DEF LastOf
    <2>3. Newest(t1, p, pg, sh, ms, at)
      BY DEF PageInv
    <2>4. \/ pg.shown /\ ~Fresh(pg.queue) /\ Span(t1[i + m].ts, at, sh)
          \/ "session_end" \in ms /\ ("session_start" \in ms \/ ~pg.shown \/ Fresh(pg.queue))
      BY <2>1, <2>2, <2>3 DEF Newest
    <2> QED BY <2>2, <2>4
  <1>8. ASSUME ms2 = {} PROVE Whole(t2, p, pg, sh, st, at)
    <2>1. \A k \in RowsOf(t1, p) : k > m /\ k - m \in RowsOf(t2, p) /\ t2[k - m] = t1[k]
      BY <1>3, <1>8
    <2>2. Whole(t1, p, pg, sh, st, at)
      BY <1>8 DEF PageInv
    <2>3. ASSUME NEW k, NEW i, Stretch(t1, p, k, i) PROVE Stretch(t2, p, k - m, i - m)
      <3>1. /\ k \in RowsOf(t1, p) /\ i \in RowsOf(t1, p) /\ k <= i /\ t1[k].kind = "session_start"
            /\ \A j \in RowsOf(t1, p) :
                 /\ k <= j /\ j <= i => t1[j].kind # "session_end"
                 /\ k < j /\ j <= i => t1[j].kind # "session_start"
        BY <2>3 DEF Stretch
      <3>2. k - m \in RowsOf(t2, p) /\ i - m \in RowsOf(t2, p) /\ k - m <= i - m
            /\ t2[k - m].kind = "session_start"
        BY <1>1, <2>1, <3>1
      <3>3. ASSUME NEW j \in RowsOf(t2, p)
            PROVE  /\ k - m <= j /\ j <= i - m => t2[j].kind # "session_end"
                   /\ k - m < j /\ j <= i - m => t2[j].kind # "session_start"
        <4>1. j + m \in RowsOf(t1, p) /\ t1[j + m] = t2[j]
          BY <1>2
        <4>2. k \in Nat /\ i \in Nat /\ j \in Nat /\ m \in Nat
          BY <1>1, <3>1
        <4>3. (k - m <= j => k <= j + m) /\ (k - m < j => k < j + m) /\ (j <= i - m => j + m <= i)
          BY <4>2
        <4> QED BY <3>1, <4>1, <4>3
      <3> QED BY <3>2, <3>3 DEF Stretch
    <2>4. ASSUME NEW i, LastOf(t1, p, i) PROVE LastOf(t2, p, i - m)
      <3>1. i \in RowsOf(t1, p) /\ \A k \in RowsOf(t1, p) : k <= i
        BY <2>4 DEF LastOf
      <3>2. ASSUME NEW k \in RowsOf(t2, p) PROVE k <= i - m
        <4>1. k + m <= i
          BY <1>2, <3>1
        <4> QED BY <1>1, <3>1, <4>1
      <3> QED BY <2>1, <3>1, <3>2 DEF LastOf
    <2>5. ASSUME NEW i, NEW j, NextOf(t1, p, i, j) PROVE NextOf(t2, p, i - m, j - m)
      <3>1. /\ i \in RowsOf(t1, p) /\ j \in RowsOf(t1, p) /\ i < j
            /\ \A k \in RowsOf(t1, p) : ~(i < k /\ k < j)
        BY <2>5 DEF NextOf
      <3>2. i - m \in RowsOf(t2, p) /\ j - m \in RowsOf(t2, p) /\ i - m < j - m
        BY <1>1, <2>1, <3>1
      <3>3. ASSUME NEW k \in RowsOf(t2, p), i - m < k, k < j - m PROVE FALSE
        <4>1. k + m \in RowsOf(t1, p) /\ i < k + m /\ k + m < j
          BY <1>1, <1>2, <3>1, <3>3
        <4> QED BY <3>1, <4>1
      <3> QED BY <3>2, <3>3 DEF NextOf
    <2>6. \A k, i : Stretch(t1, p, k, i) =>
            /\ k \in DOMAIN t1 /\ i \in DOMAIN t1 /\ k - m \in DOMAIN t2 /\ i - m \in DOMAIN t2
            /\ t2[k - m] = t1[k] /\ t2[i - m] = t1[i]
      BY <1>1, <2>1 DEF Stretch
    <2>7. Current(t2, p, pg, sh, st, at)
      <3>1. Current(t1, p, pg, sh, st, at)
        BY <2>2 DEF Whole
      <3>2. ASSUME NEW k, NEW i, Stretch(t1, p, k, i) /\ LastOf(t1, p, i) /\ Span(t1[k].ts, at, sh)
            PROVE  /\ k - m \in DOMAIN t2 /\ i - m \in DOMAIN t2
                   /\ Stretch(t2, p, k - m, i - m) /\ LastOf(t2, p, i - m) /\ Span(t2[k - m].ts, at, sh)
        BY <2>3, <2>4, <2>6, <3>2
      <3> QED BY <3>1, <3>2 DEF Current
    <2>8. ASSUME NEW u \in sh PROVE Counted(t2, p, pg, sh, st, u)
      <3>1. Counted(t1, p, pg, sh, st, u)
        BY <2>2 DEF Whole
      <3>2. CASE \E w \in st : w <= u /\ u < w + FlushAfter
        BY <3>2 DEF Counted
      <3>3. CASE \E k, i \in DOMAIN t1 : Within(t1, p, sh, u, k, i) /\
                   \/ \E j \in DOMAIN t1 : NextOf(t1, p, i, j) /\ u < t1[j].ts
                                             /\ t1[j].kind # "session_start"
                   \/ LastOf(t1, p, i) /\ pg.shown /\ ~Fresh(pg.queue)
        <4>1. PICK k \in DOMAIN t1, i \in DOMAIN t1 : Within(t1, p, sh, u, k, i) /\
                   \/ \E j \in DOMAIN t1 : NextOf(t1, p, i, j) /\ u < t1[j].ts
                                             /\ t1[j].kind # "session_start"
                   \/ LastOf(t1, p, i) /\ pg.shown /\ ~Fresh(pg.queue)
          BY <3>3
        <4>2. /\ Within(t2, p, sh, u, k - m, i - m)
              /\ k - m \in DOMAIN t2 /\ i - m \in DOMAIN t2
          BY <2>3, <2>6, <4>1 DEF Within
        <4>3. CASE \E j \in DOMAIN t1 : NextOf(t1, p, i, j) /\ u < t1[j].ts
                                          /\ t1[j].kind # "session_start"
          <5>1. PICK j \in DOMAIN t1 : NextOf(t1, p, i, j) /\ u < t1[j].ts
                                          /\ t1[j].kind # "session_start"
            BY <4>3
          <5>2. /\ NextOf(t2, p, i - m, j - m) /\ j - m \in DOMAIN t2
                /\ t2[j - m] = t1[j]
            BY <1>1, <2>1, <2>5, <5>1 DEF NextOf
          <5> QED BY <4>2, <5>1, <5>2 DEF Counted
        <4>4. CASE LastOf(t1, p, i) /\ pg.shown /\ ~Fresh(pg.queue)
          BY <2>4, <4>2, <4>4 DEF Counted
        <4> QED BY <4>1, <4>3, <4>4
      <3> QED BY <3>1, <3>2, <3>3 DEF Counted
    <2> QED BY <2>7, <2>8 DEF Whole
  <1> QED BY <1>6, <1>7, <1>8 DEF PageInv

LEMMA RowsCutKeep ==
  ASSUME NEW all \in Seq(UsageRows), NEW t, NEW m, Cut(all, t, m), NEW p,
         NEW pg, NEW sh, NEW st, NEW ms, NEW at, PageInv(all, p, pg, sh, st, ms, at)
  PROVE  PageInv(t, p, pg, sh, st, ms \cup Dropped(all, p, m), at)
  <1>1. /\ t \in Seq(UsageRows) /\ m \in 0 .. Len(all) /\ Len(t) = Len(all) - m
        /\ \A i \in DOMAIN t : t[i] = all[i + m]
    BY DEF Cut
  <1>2. DOMAIN all = 1 .. Len(all) /\ DOMAIN t = 1 .. Len(t) /\ Len(all) \in Nat
    BY <1>1
  <1>3. Moved(all, t, p, m)
    <2>1. ASSUME NEW i \in RowsOf(t, p) PROVE i + m \in RowsOf(all, p) /\ all[i + m] = t[i]
      BY <1>1, <1>2 DEF RowsOf
    <2>2. ASSUME NEW k \in RowsOf(all, p), k > m PROVE k - m \in RowsOf(t, p)
      <3>1. k \in 1 .. Len(all) /\ all[k].page = p
        BY <1>2 DEF RowsOf
      <3>2. k - m \in DOMAIN t /\ (k - m) + m = k
        BY <1>1, <1>2, <2>2, <3>1
      <3>3. t[k - m] = all[k]
        BY <1>1, <3>2
      <3> QED BY <3>1, <3>2, <3>3 DEF RowsOf
    <2> QED BY <1>1, <2>1, <2>2 DEF Moved
  <1>4. ASSUME ms \cup Dropped(all, p, m) = {}, NEW k \in RowsOf(all, p) PROVE k > m
    <2>1. k \in 1 .. Len(all) /\ all[k].page = p
      BY <1>2 DEF RowsOf
    <2>2. k \notin 1 .. m
      BY <1>4, <2>1 DEF Dropped
    <2> QED BY <1>1, <2>1, <2>2
  <1>5. ms \subseteq ms \cup Dropped(all, p, m)
    OBVIOUS
  <1> QED BY <1>1, <1>3, <1>4, <1>5, MovedKeeps

\* What a batch adds to a table: rows of its page, after all others.
Growth(t, all, p, batch, at) ==
  /\ all \in Seq(UsageRows)
  /\ \A other : other # p => RowsOf(all, other) = RowsOf(t, other)
  /\ \A i : i \in RowsOf(all, p) <=> (i \in RowsOf(t, p) \/ i \in Len(t) + 1 .. Len(t) + Len(batch))
  /\ \A i \in DOMAIN t : i \in DOMAIN all /\ i <= Len(t) /\ all[i] = t[i]
  /\ \A i \in Len(t) + 1 .. Len(t) + Len(batch) :
       /\ i \in DOMAIN all /\ all[i].ts = at /\ i - Len(t) \in DOMAIN batch
       /\ all[i].kind = batch[i - Len(t)].kind

LEMMA GrownRows ==
  ASSUME NEW t \in Seq(UsageRows), NEW all, NEW p, NEW batch \in Seq(UsageEvents), NEW at,
         Grown(t, all, p, batch, at)
  PROVE  Growth(t, all, p, batch, at)
  <1>1. /\ all \in Seq(UsageRows) /\ Len(all) = Len(t) + Len(batch)
        /\ \A i \in DOMAIN t : all[i] = t[i]
        /\ \A x \in DOMAIN batch : /\ all[Len(t) + x].page = p /\ all[Len(t) + x].ts = at
                                   /\ all[Len(t) + x].kind = batch[x].kind
    BY DEF Grown
  <1>2. /\ DOMAIN all = 1 .. Len(t) + Len(batch) /\ DOMAIN t = 1 .. Len(t)
        /\ DOMAIN batch = 1 .. Len(batch) /\ Len(t) \in Nat /\ Len(batch) \in Nat
    BY <1>1
  <1>3. ASSUME NEW i \in Len(t) + 1 .. Len(t) + Len(batch)
        PROVE  /\ i \in DOMAIN all /\ all[i].ts = at /\ all[i].page = p /\ i - Len(t) \in DOMAIN batch
               /\ all[i].kind = batch[i - Len(t)].kind
    <2>1. i - Len(t) \in DOMAIN batch /\ Len(t) + (i - Len(t)) = i /\ i \in DOMAIN all
      BY <1>2
    <2> QED BY <1>1, <2>1
  <1>4. \A i \in DOMAIN t : i \in DOMAIN all /\ i <= Len(t) /\ all[i] = t[i]
    BY <1>1, <1>2
  <1>5. \A i \in DOMAIN all : i \in DOMAIN t \/ i \in Len(t) + 1 .. Len(t) + Len(batch)
    BY <1>2
  <1>6. ASSUME NEW other, other # p PROVE RowsOf(all, other) = RowsOf(t, other)
    BY <1>3, <1>4, <1>5, <1>6 DEF RowsOf
  <1>7. ASSUME NEW i
        PROVE  i \in RowsOf(all, p) <=> (i \in RowsOf(t, p) \/ i \in Len(t) + 1 .. Len(t) + Len(batch))
    BY <1>3, <1>4, <1>5 DEF RowsOf
  <1> QED BY <1>1, <1>3, <1>4, <1>6, <1>7 DEF Growth

LEMMA OtherGrows ==
  ASSUME NEW t \in Seq(UsageRows), NEW all, NEW q, NEW batch \in Seq(UsageEvents), NEW at,
         Grown(t, all, q, batch, at), NEW p, p # q,
         NEW pg, NEW sh, NEW st, NEW ms, PageInv(t, p, pg, sh, st, ms, at)
  PROVE  PageInv(all, p, pg, sh, st, ms, at)
  <1>1. all \in Seq(UsageRows) /\ RowsOf(all, p) = RowsOf(t, p) /\ \A i \in DOMAIN t : all[i] = t[i]
    <2>1. Growth(t, all, q, batch, at)
      BY GrownRows
    <2>2. all \in Seq(UsageRows) /\ \A i \in DOMAIN t : all[i] = t[i]
      BY <2>1 DEF Growth
    <2>3. p # q
      OBVIOUS
    <2>4. RowsOf(all, p) = RowsOf(t, p)
      BY <2>1, <2>3 DEF Growth
    <2> QED BY <2>2, <2>4
  <1>2. \A i \in RowsOf(t, p) : i \in DOMAIN t /\ i \in Nat /\ i > 0
    BY RowsAre
  <1>3. Moved(t, all, p, 0)
    <2>1. \A i \in Nat : i + 0 = i /\ i - 0 = i
      OBVIOUS
    <2> QED BY <1>1, <1>2, <2>1 DEF Moved
  <1> QED BY <1>1, <1>2, <1>3, MovedKeeps

\* A page sends what it has: the rest of a stretch, with its end if the page is hidden.
Sends(pg, pg2, batch) ==
  /\ batch \in Seq(UsageEvents) /\ batch # <<>> /\ pg.shown /\ pg2.queue = <<>>
  /\ \A x \in DOMAIN batch : /\ x > 1 => batch[x].kind # "session_start"
                             /\ x < Len(batch) => batch[x].kind # "session_end"
  /\ batch[1].kind = "session_start" <=> Fresh(pg.queue)
  /\ pg2.shown <=> batch[Len(batch)].kind # "session_end"

LEMMA NothingFresh ==
  ASSUME NEW pg, NEW pg2, NEW batch, Sends(pg, pg2, batch)
  PROVE  /\ QueueOK(pg2) /\ ~Fresh(pg2.queue)
         /\ Len(batch) \in Nat /\ Len(batch) > 0 /\ DOMAIN batch = 1 .. Len(batch)
  <1>1. batch \in Seq(UsageEvents) /\ batch # <<>> /\ pg2.queue = <<>>
    BY DEF Sends
  <1>2. Len(batch) \in Nat /\ Len(batch) > 0 /\ DOMAIN batch = 1 .. Len(batch)
    BY <1>1
  <1>3. DOMAIN pg2.queue = {}
    BY <1>1
  <1>4. QueueOK(pg2)
    BY <1>1, <1>3 DEF QueueOK
  <1>5. ~Fresh(pg2.queue)
    BY <1>1 DEF Fresh
  <1> QED BY <1>2, <1>4, <1>5

\* A batch that is stored goes on with the stretch its page is in.
LEMMA OwnGrows ==
  ASSUME NEW t \in Seq(UsageRows), NEW all, NEW p, NEW batch \in Seq(UsageEvents), NEW at \in Nat,
         Grown(t, all, p, batch, at), NEW pg, NEW pg2, Sends(pg, pg2, batch),
         NEW sh \in SUBSET Nat, NEW st, NEW ms, PageInv(t, p, pg, sh, st, ms, at),
         \A u \in sh : u < at
  PROVE  PageInv(all, p, pg2, sh, st, ms, at)
  <1> DEFINE n == Len(t)
             last == Len(t) + Len(batch)
  <1>1. /\ all \in Seq(UsageRows)
        /\ \A i : i \in RowsOf(all, p) <=> (i \in RowsOf(t, p) \/ i \in n + 1 .. last)
        /\ \A i \in DOMAIN t : i \in DOMAIN all /\ i <= n /\ all[i] = t[i]
        /\ \A i \in n + 1 .. last :
             /\ i \in DOMAIN all /\ all[i].ts = at /\ i - n \in DOMAIN batch
             /\ all[i].kind = batch[i - n].kind
    <2>1. Growth(t, all, p, batch, at)
      BY GrownRows
    <2> QED BY <2>1 DEF Growth
  <1>2. /\ QueueOK(pg2) /\ ~Fresh(pg2.queue)
        /\ Len(batch) \in Nat /\ Len(batch) > 0 /\ DOMAIN batch = 1 .. Len(batch)
    BY NothingFresh
  <1>3. n \in Nat /\ last \in Nat /\ n + 1 \in n + 1 .. last /\ last \in n + 1 .. last
        /\ (n + 1) - n = 1 /\ last - n = Len(batch)
    BY <1>2
  <1>4. /\ RowsOf(t, p) \subseteq DOMAIN t /\ RowsOf(all, p) \subseteq DOMAIN all
        /\ RowsOf(t, p) \subseteq Nat /\ RowsOf(all, p) \subseteq Nat
    BY <1>1, RowsAre
  <1>5. \A i \in n + 1 .. last : /\ i > n + 1 => all[i].kind # "session_start"
                                 /\ i < last => all[i].kind # "session_end"
    <2>1. \A x \in DOMAIN batch : /\ x > 1 => batch[x].kind # "session_start"
                                  /\ x < Len(batch) => batch[x].kind # "session_end"
      BY DEF Sends
    <2>2. ASSUME NEW i \in n + 1 .. last
          PROVE  (i > n + 1 => i - n > 1) /\ (i < last => i - n < Len(batch)) /\ i - n \in DOMAIN batch
      BY <1>2, <1>3
    <2> QED BY <1>1, <2>1, <2>2
  <1>6. /\ all[n + 1].kind = "session_start" <=> Fresh(pg.queue)
        /\ pg2.shown <=> all[last].kind # "session_end"
        /\ pg.shown
    BY <1>1, <1>3 DEF Sends
  <1>7. ASSUME NEW k, NEW i, Stretch(t, p, k, i) PROVE Stretch(all, p, k, i)
    <2>1. /\ k \in RowsOf(t, p) /\ i \in RowsOf(t, p) /\ k <= i /\ t[k].kind = "session_start"
          /\ \A j \in RowsOf(t, p) :
               /\ k <= j /\ j <= i => t[j].kind # "session_end"
               /\ k < j /\ j <= i => t[j].kind # "session_start"
      BY <1>7 DEF Stretch
    <2>2. k \in RowsOf(all, p) /\ i \in RowsOf(all, p) /\ all[k].kind = "session_start"
      BY <1>1, <1>4, <2>1
    <2>3. ASSUME NEW j \in RowsOf(all, p), j <= i PROVE j \in RowsOf(t, p) /\ all[j] = t[j]
      <3>1. i <= n /\ j \notin n + 1 .. last
        BY <1>1, <1>3, <1>4, <2>1, <2>3
      <3> QED BY <1>1, <1>4, <3>1
    <2> QED BY <2>1, <2>2, <2>3 DEF Stretch
  <1>8. ASSUME NEW i, LastOf(t, p, i) PROVE NextOf(all, p, i, n + 1) /\ i \in DOMAIN t
    <2>1. i \in RowsOf(t, p) /\ \A k \in RowsOf(t, p) : k <= i
      BY <1>8 DEF LastOf
    <2>2. i \in RowsOf(all, p) /\ n + 1 \in RowsOf(all, p) /\ i < n + 1 /\ i \in Nat
      BY <1>1, <1>3, <1>4, <2>1
    <2>3. ASSUME NEW k \in RowsOf(all, p), i < k, k < n + 1 PROVE FALSE
      <3>1. k \notin n + 1 .. last
        BY <1>3, <2>3
      <3>2. k <= i
        BY <1>1, <2>1, <3>1
      <3> QED BY <1>4, <2>2, <2>3, <3>2
    <2> QED BY <1>4, <2>1, <2>2, <2>3 DEF NextOf
  <1> HIDE DEF n, last
  <1>9. Neighbours(all, p, sh, ms)
    <2>1. SUFFICES ASSUME NEW i \in DOMAIN all, NEW j \in DOMAIN all, NextOf(all, p, i, j),
                          all[i].kind # "session_end", all[j].kind # "session_start"
                   PROVE  Span(all[i].ts, all[j].ts, sh) \/ ("session_start" \in ms /\ "session_end" \in ms)
      BY DEF Neighbours
    <2>2. /\ i \in RowsOf(all, p) /\ j \in RowsOf(all, p) /\ i < j
          /\ \A k \in RowsOf(all, p) : ~(i < k /\ k < j)
      BY <2>1 DEF NextOf
    <2>3. CASE j \in RowsOf(t, p)
      <3>1. i \in RowsOf(t, p)
        <4>1. i \notin n + 1 .. last
          BY <1>1, <1>3, <1>4, <2>2, <2>3
        <4> QED BY <1>1, <2>2, <4>1
      <3>2. \A k \in RowsOf(t, p) : ~(i < k /\ k < j)
        BY <1>1, <2>2
      <3>3. NextOf(t, p, i, j) /\ all[i] = t[i] /\ all[j] = t[j] /\ i \in DOMAIN t /\ j \in DOMAIN t
        BY <1>1, <1>4, <2>2, <2>3, <3>1, <3>2 DEF NextOf
      <3>4. Neighbours(t, p, sh, ms)
        BY DEF PageInv
      <3> QED BY <2>1, <3>3, <3>4 DEF Neighbours
    <2>4. CASE j \in n + 1 .. last /\ i \in n + 1 .. last
      <3>1. all[i].ts = at /\ all[j].ts = at
        BY <1>1, <2>4
      <3>2. Span(at, at, sh)
        BY DEF Span
      <3> QED BY <3>1, <3>2
    <2>5. CASE j \in n + 1 .. last /\ i \in RowsOf(t, p)
      <3>1. n + 1 \in RowsOf(all, p) /\ i < n + 1 /\ i \in Nat /\ i \in DOMAIN t /\ all[i] = t[i]
        <4>1. i \in DOMAIN t /\ i \in Nat
          BY <1>4, <2>5
        <4>2. i <= n /\ all[i] = t[i]
          BY <1>1, <4>1
        <4>3. n + 1 \in RowsOf(all, p)
          BY <1>1, <1>3
        <4> QED BY <1>3, <4>1, <4>2, <4>3
      <3>2. j = n + 1
        BY <1>3, <2>2, <2>5, <3>1
      <3>3. ~Fresh(pg.queue) /\ all[j].ts = at
        BY <1>1, <1>3, <1>6, <2>1, <3>2
      <3>4. LastOf(t, p, i)
        <4>1. ASSUME NEW k \in RowsOf(t, p) PROVE k <= i
          <5>1. k \in RowsOf(all, p) /\ k <= n /\ k \in Nat
            BY <1>1, <1>4
          <5>2. k < j
            BY <1>3, <3>2, <5>1
          <5> QED BY <2>2, <3>1, <5>1, <5>2
        <4> QED BY <2>5, <4>1 DEF LastOf
      <3>5. Newest(t, p, pg, sh, ms, at)
        BY DEF PageInv
      <3>6. \/ Span(t[i].ts, at, sh)
            \/ "session_end" \in ms /\ ("session_start" \in ms \/ ~pg.shown \/ Fresh(pg.queue))
        BY <2>1, <3>1, <3>4, <3>5 DEF Newest
      <3> QED BY <1>6, <3>1, <3>3, <3>6
    <2> QED BY <1>1, <2>2, <2>3, <2>4, <2>5
  <1>10. Newest(all, p, pg2, sh, ms, at)
    <2>1. SUFFICES ASSUME NEW i \in DOMAIN all, LastOf(all, p, i), all[i].kind # "session_end"
                   PROVE  pg2.shown /\ ~Fresh(pg2.queue) /\ Span(all[i].ts, at, sh)
      BY DEF Newest
    <2>2. i \in RowsOf(all, p) /\ \A k \in RowsOf(all, p) : k <= i
      BY <2>1 DEF LastOf
    <2>3. last \in RowsOf(all, p)
      BY <1>1, <1>3
    <2>4. i <= last
      <3>1. CASE i \in n + 1 .. last
        BY <1>3, <3>1
      <3>2. CASE i \in RowsOf(t, p)
        BY <1>1, <1>3, <1>4, <3>2
      <3> QED BY <1>1, <2>2, <3>1, <3>2
    <2>5. i = last
      BY <1>3, <1>4, <2>2, <2>3, <2>4
    <2>6. all[i].ts = at
      BY <1>1, <1>3, <2>5
    <2>7. Span(at, at, sh)
      BY DEF Span
    <2> QED BY <1>2, <1>6, <2>1, <2>5, <2>6, <2>7
  <1>11. ASSUME ms = {} PROVE Whole(all, p, pg2, sh, st, at)
    <2>1. Whole(t, p, pg, sh, st, at)
      BY <1>11 DEF PageInv
    <2>2. ASSUME pg2.shown
          PROVE  \E k, i \in DOMAIN all : Stretch(all, p, k, i) /\ LastOf(all, p, i) /\ Span(all[k].ts, at, sh)
      <3>1. last \in RowsOf(all, p) /\ last \in DOMAIN all /\ n + 1 \in RowsOf(all, p) /\ n + 1 \in DOMAIN all
        BY <1>1, <1>3
      <3>2. \A k \in RowsOf(all, p) : k <= last
        BY <1>1, <1>3, <1>4
      <3>3. LastOf(all, p, last)
        BY <3>1, <3>2 DEF LastOf
      <3>4. \A i \in n + 1 .. last : all[i].kind # "session_end"
        BY <1>3, <1>5, <1>6, <2>2
      <3>5. CASE Fresh(pg.queue)
        <4>1. Stretch(all, p, n + 1, last)
          <5>1. n + 1 <= last /\ all[n + 1].kind = "session_start"
            BY <1>3, <1>6, <3>5
          <5>2. ASSUME NEW j \in RowsOf(all, p), n + 1 <= j
                PROVE  all[j].kind # "session_end" /\ (n + 1 < j => all[j].kind # "session_start")
            <6>1. j \in n + 1 .. last
              BY <1>3, <1>4, <3>2, <5>2
            <6> QED BY <1>3, <1>5, <3>4, <6>1
          <5>3. \A j \in RowsOf(all, p) :
                  /\ n + 1 <= j /\ j <= last => all[j].kind # "session_end"
                  /\ n + 1 < j /\ j <= last => all[j].kind # "session_start"
            <6>1. \A j \in RowsOf(all, p) : j \in Nat /\ (n + 1 < j => n + 1 <= j)
              BY <1>3, <1>4
            <6> QED BY <5>2, <6>1
          <5> QED BY <3>1, <5>1, <5>3 DEF Stretch
        <4>2. all[n + 1].ts = at
          BY <1>1, <1>3
        <4>3. Span(at, at, sh)
          BY DEF Span
        <4> QED BY <3>1, <3>3, <4>1, <4>2, <4>3
      <3>6. CASE ~Fresh(pg.queue)
        <4>1. PICK k \in DOMAIN t, i \in DOMAIN t :
                Stretch(t, p, k, i) /\ LastOf(t, p, i) /\ Span(t[k].ts, at, sh)
          BY <1>6, <2>1, <3>6 DEF Whole, Current
        <4>2. k \in RowsOf(t, p) /\ i \in RowsOf(t, p) /\ k <= i /\ t[k].kind = "session_start"
          BY <4>1 DEF Stretch
        <4>3. \A j \in RowsOf(t, p) : j <= i
          BY <4>1 DEF LastOf
        <4>4. Stretch(all, p, k, last)
          <5>1. k \in RowsOf(all, p) /\ k <= last /\ all[k].kind = "session_start"
            BY <1>1, <1>3, <1>4, <4>2
          <5>2. ASSUME NEW j \in RowsOf(all, p), k <= j
                PROVE  all[j].kind # "session_end" /\ (k < j => all[j].kind # "session_start")
            <6>1. CASE j \in RowsOf(t, p)
              <7>1. j <= i /\ all[j] = t[j]
                BY <1>1, <1>4, <4>3, <6>1
              <7> QED BY <4>1, <5>2, <6>1, <7>1 DEF Stretch
            <6>2. CASE j \in n + 1 .. last
              <7>1. j = n + 1 => all[j].kind # "session_start"
                BY <1>6, <3>6
              <7> QED BY <1>3, <1>5, <3>4, <6>2, <7>1
            <6> QED BY <1>1, <6>1, <6>2
          <5>3. \A j \in RowsOf(all, p) :
                  /\ k <= j /\ j <= last => all[j].kind # "session_end"
                  /\ k < j /\ j <= last => all[j].kind # "session_start"
            <6>1. \A j \in RowsOf(all, p) : j \in Nat /\ k \in Nat /\ (k < j => k <= j)
              BY <1>4, <4>2
            <6> QED BY <5>2, <6>1
          <5> QED BY <3>1, <5>1, <5>3 DEF Stretch
        <4>5. k \in DOMAIN all /\ all[k] = t[k]
          BY <1>1
        <4> QED BY <3>1, <3>3, <4>1, <4>4, <4>5
      <3> QED BY <3>5, <3>6
    <2>3. Current(all, p, pg2, sh, st, at)
      BY <1>2, <2>2 DEF Current
    <2>4. ASSUME NEW u \in sh PROVE Counted(all, p, pg2, sh, st, u)
      <3>1. Counted(t, p, pg, sh, st, u)
        BY <2>1 DEF Whole
      <3>2. CASE \E w \in st : w <= u /\ u < w + FlushAfter
        BY <3>2 DEF Counted
      <3>3. ASSUME NEW k \in DOMAIN t, NEW i \in DOMAIN t, Within(t, p, sh, u, k, i),
                   \/ \E j \in DOMAIN t : NextOf(t, p, i, j) /\ u < t[j].ts
                                             /\ t[j].kind # "session_start"
                   \/ LastOf(t, p, i) /\ pg.shown /\ ~Fresh(pg.queue)
            PROVE  Counted(all, p, pg2, sh, st, u)
        <4>1. Within(all, p, sh, u, k, i) /\ k \in DOMAIN all /\ i \in DOMAIN all
          BY <1>1, <1>7, <3>3 DEF Within
        <4>2. CASE LastOf(t, p, i) /\ ~Fresh(pg.queue)
          <5>1. NextOf(all, p, i, n + 1) /\ n + 1 \in DOMAIN all /\ all[n + 1].ts = at
                /\ all[n + 1].kind # "session_start"
            BY <1>1, <1>3, <1>6, <1>8, <4>2
          <5> QED BY <4>1, <5>1 DEF Counted
        <4>3. ASSUME NEW j \in DOMAIN t, NextOf(t, p, i, j), u < t[j].ts, t[j].kind # "session_start"
              PROVE  Counted(all, p, pg2, sh, st, u)
          <5>1. /\ i \in RowsOf(t, p) /\ j \in RowsOf(t, p) /\ i < j
                /\ \A x \in RowsOf(t, p) : ~(i < x /\ x < j)
            BY <4>3 DEF NextOf
          <5>2. ASSUME NEW x \in RowsOf(all, p), i < x, x < j PROVE FALSE
            <6>1. j <= n /\ j \in Nat
              BY <1>1, <1>4, <5>1
            <6>2. x \notin n + 1 .. last
              BY <1>3, <5>2, <6>1
            <6> QED BY <1>1, <5>1, <5>2, <6>2
          <5>3. NextOf(all, p, i, j) /\ j \in DOMAIN all /\ all[j] = t[j]
            BY <1>1, <5>1, <5>2 DEF NextOf
          <5> QED BY <4>1, <4>3, <5>3 DEF Counted
        <4> QED BY <3>3, <4>2, <4>3
      <3> QED BY <3>1, <3>2, <3>3 DEF Counted
    <2> QED BY <2>3, <2>4 DEF Whole
  <1> QED BY <1>2, <1>9, <1>10, <1>11 DEF PageInv

\* A batch that is lost takes the end of a stretch or the start of the next with it.
LEMMA OwnLoses ==
  ASSUME NEW t \in Seq(UsageRows), NEW p, NEW batch \in Seq(UsageEvents), NEW at,
         NEW pg, NEW pg2, Sends(pg, pg2, batch),
         NEW sh, NEW st, NEW ms, PageInv(t, p, pg, sh, st, ms, at),
         NEW ms2, ms2 = ms \cup {batch[x].kind : x \in DOMAIN batch}
  PROVE  PageInv(t, p, pg2, sh, st, ms2, at)
  <1>1. /\ QueueOK(pg2) /\ ~Fresh(pg2.queue)
        /\ Len(batch) \in Nat /\ Len(batch) > 0 /\ DOMAIN batch = 1 .. Len(batch)
    BY NothingFresh
  <1>2. 1 \in DOMAIN batch /\ Len(batch) \in DOMAIN batch
    BY <1>1
  <1>3. ms \subseteq ms2 /\ batch[1].kind \in ms2 /\ batch[Len(batch)].kind \in ms2 /\ ms2 # {}
    BY <1>2
  <1>4. /\ pg.shown /\ (batch[1].kind = "session_start" <=> Fresh(pg.queue))
        /\ (pg2.shown <=> batch[Len(batch)].kind # "session_end")
    BY DEF Sends
  <1>5. Neighbours(t, p, sh, ms2)
    <2>1. Neighbours(t, p, sh, ms)
      BY DEF PageInv
    <2> QED BY <1>3, <2>1 DEF Neighbours
  <1>6. Newest(t, p, pg2, sh, ms2, at)
    <2>1. SUFFICES ASSUME NEW i \in DOMAIN t, LastOf(t, p, i), t[i].kind # "session_end"
                   PROVE  \/ pg2.shown /\ ~Fresh(pg2.queue) /\ Span(t[i].ts, at, sh)
                          \/ "session_end" \in ms2 /\ ("session_start" \in ms2 \/ ~pg2.shown)
      BY DEF Newest
    <2>2. Newest(t, p, pg, sh, ms, at)
      BY DEF PageInv
    <2>3. \/ pg.shown /\ ~Fresh(pg.queue) /\ Span(t[i].ts, at, sh)
          \/ "session_end" \in ms /\ ("session_start" \in ms \/ ~pg.shown \/ Fresh(pg.queue))
      BY <2>1, <2>2 DEF Newest
    <2>4. CASE Span(t[i].ts, at, sh)
      BY <1>1, <1>3, <1>4, <2>4
    <2>5. CASE "session_end" \in ms /\ ("session_start" \in ms \/ Fresh(pg.queue))
      BY <1>3, <1>4, <2>5
    <2> QED BY <1>4, <2>3, <2>4, <2>5
  <1> QED BY <1>1, <1>3, <1>5, <1>6 DEF PageInv

\* A page that comes to be shown has its start to report.
LEMMA ShowKeeps ==
  ASSUME UsageAssumption, NEW t, NEW p, NEW at \in Nat, NEW pg, NEW pg2, ~pg.shown, pg2.shown,
         NEW e, e.kind = "session_start", pg2.queue = <<e>>, pg2.due = at + FlushAfter,
         NEW sh \in SUBSET Nat, NEW st, NEW ms, PageInv(t, p, pg, sh, st, ms, at)
  PROVE  PageInv(t, p, pg2, sh, st \cup {at}, ms, at)
  <1>1. Fresh(pg2.queue) /\ QueueOK(pg2)
    <2>1. DOMAIN pg2.queue = {1} /\ pg2.queue[1] = e /\ pg2.queue # <<>>
      OBVIOUS
    <2> QED BY <2>1 DEF Fresh, QueueOK
  <1>2. Neighbours(t, p, sh, ms)
    BY DEF PageInv
  <1>3. Newest(t, p, pg2, sh, ms, at)
    <2>1. Newest(t, p, pg, sh, ms, at)
      BY DEF PageInv
    <2> QED BY <1>1, <2>1 DEF Newest
  <1>4. ASSUME ms = {} PROVE Whole(t, p, pg2, sh, st \cup {at}, at)
    <2>1. \A u \in sh : Counted(t, p, pg, sh, st, u)
      BY <1>4 DEF PageInv, Whole
    <2>2. ASSUME NEW u \in sh PROVE Counted(t, p, pg2, sh, st \cup {at}, u)
      BY <2>1 DEF Counted
    <2>3. Current(t, p, pg2, sh, st \cup {at}, at)
      <3>1. at \in st \cup {at} /\ at <= at
        OBVIOUS
      <3> QED BY <1>1, <3>1 DEF Current
    <2> QED BY <2>2, <2>3 DEF Whole
  <1> QED BY <1>1, <1>2, <1>3, <1>4 DEF PageInv

\* What is done on a page is queued behind what it has yet to report.
LEMMA UseKeeps ==
  ASSUME NEW t, NEW p, NEW at, NEW pg, pg.shown, pg.queue \in Seq(UsageEvents),
         NEW e \in UsageEvents, e.kind \notin {"session_start", "session_end"},
         NEW pg2, pg2.shown, pg2.queue = Append(pg.queue, e), pg.queue # <<>> => pg2.due = pg.due,
         NEW sh, NEW st, NEW ms, PageInv(t, p, pg, sh, st, ms, at)
  PROVE  PageInv(t, p, pg2, sh, st, ms, at)
  <1>1. /\ pg2.queue # <<>> /\ Len(pg2.queue) = Len(pg.queue) + 1 /\ pg2.queue \in Seq(UsageEvents)
        /\ \A i \in 1 .. Len(pg.queue) : pg2.queue[i] = pg.queue[i]
        /\ pg2.queue[Len(pg.queue) + 1] = e
    BY AppendProperties
  <1>2. Len(pg.queue) \in Nat /\ DOMAIN pg.queue = 1 .. Len(pg.queue)
        /\ DOMAIN pg2.queue = 1 .. Len(pg.queue) + 1 /\ (pg.queue # <<>> => Len(pg.queue) > 0)
        /\ (pg.queue = <<>> => Len(pg.queue) = 0)
    BY <1>1
  <1>3. \A x \in DOMAIN pg2.queue : \/ x \in DOMAIN pg.queue /\ pg2.queue[x] = pg.queue[x]
                                    \/ pg2.queue[x] = e
    <2>1. \A x \in 1 .. Len(pg.queue) + 1 : x \in 1 .. Len(pg.queue) \/ x = Len(pg.queue) + 1
      BY <1>2
    <2> QED BY <1>1, <1>2, <2>1
  <1>4. QueueOK(pg2)
    <2>1. \A x \in DOMAIN pg.queue : /\ pg.queue[x].kind # "session_end"
                                     /\ x > 1 => pg.queue[x].kind # "session_start"
      BY DEF PageInv, QueueOK
    <2> QED BY <1>3, <2>1 DEF QueueOK
  <1>5. Fresh(pg2.queue) <=> Fresh(pg.queue)
    <2>1. CASE pg.queue = <<>>
      <3>1. pg2.queue[1] = e
        BY <1>1, <1>2, <2>1
      <3> QED BY <2>1, <3>1 DEF Fresh
    <2>2. CASE pg.queue # <<>>
      <3>1. pg2.queue[1] = pg.queue[1]
        BY <1>1, <1>2, <2>2
      <3> QED BY <1>1, <2>2, <3>1 DEF Fresh
    <2> QED BY <2>1, <2>2
  <1>6. Fresh(pg.queue) => pg2.due = pg.due
    BY DEF Fresh
  <1>7. Neighbours(t, p, sh, ms) /\ Newest(t, p, pg2, sh, ms, at)
    BY <1>5 DEF PageInv, Newest
  <1>8. ASSUME ms = {} PROVE Whole(t, p, pg2, sh, st, at)
    <2>1. Current(t, p, pg, sh, st, at) /\ \A u \in sh : Counted(t, p, pg, sh, st, u)
      BY <1>8 DEF PageInv, Whole
    <2>2. Current(t, p, pg2, sh, st, at)
      BY <1>5, <1>6, <2>1 DEF Current
    <2>3. \A u \in sh : Counted(t, p, pg2, sh, st, u)
      BY <1>5, <2>1 DEF Counted
    <2> QED BY <2>2, <2>3 DEF Whole
  <1> QED BY <1>4, <1>7, <1>8 DEF PageInv

\* A unit passes, with nothing due.
LEMMA UnitPasses ==
  ASSUME UsageAssumption, NEW t \in Seq(UsageRows), NEW p, NEW at \in Nat, Orderly(t, at), NEW pg,
         pg.queue # <<>> => at < pg.due,
         NEW sh \in SUBSET Nat, NEW sh2, sh2 = IF pg.shown THEN sh \cup {at} ELSE sh,
         NEW st \in SUBSET Nat, NEW ms, PageInv(t, p, pg, sh, st, ms, at)
  PROVE  PageInv(t, p, pg, sh2, st, ms, at + 1)
  <1>1. ASSUME NEW a \in Int, NEW b \in Int, Span(a, b, sh) PROVE Span(a, b, sh2)
    BY <1>1 DEF Span
  <1>2. ASSUME NEW a \in Int, pg.shown, Span(a, at, sh) PROVE Span(a, at + 1, sh2)
    <2>1. ASSUME NEW u \in a .. at + 1 - 1 PROVE u \in a .. at - 1 \/ u = at
      OBVIOUS
    <2> QED BY <1>2, <2>1 DEF Span
  <1>3. \A i \in DOMAIN t : t[i].ts \in Int /\ t[i].ts <= at
    BY RowsAre DEF Orderly
  <1>4. QueueOK(pg)
    BY DEF PageInv
  <1>5. Neighbours(t, p, sh2, ms)
    <2>1. Neighbours(t, p, sh, ms)
      BY DEF PageInv
    <2> QED BY <1>1, <1>3, <2>1 DEF Neighbours
  <1>6. Newest(t, p, pg, sh2, ms, at + 1)
    <2>1. Newest(t, p, pg, sh, ms, at)
      BY DEF PageInv
    <2> QED BY <1>2, <1>3, <2>1 DEF Newest
  <1>7. ASSUME ms = {} PROVE Whole(t, p, pg, sh2, st, at + 1)
    <2>1. Current(t, p, pg, sh, st, at) /\ \A u \in sh : Counted(t, p, pg, sh, st, u)
      BY <1>7 DEF PageInv, Whole
    <2>2. Current(t, p, pg, sh2, st, at + 1)
      <3>1. \A w \in st : w <= at => w <= at + 1
        OBVIOUS
      <3> QED BY <1>2, <1>3, <2>1, <3>1 DEF Current
    <2>3. ASSUME NEW u \in sh PROVE Counted(t, p, pg, sh2, st, u)
      <3>1. ASSUME NEW k \in DOMAIN t, NEW i \in DOMAIN t, Within(t, p, sh, u, k, i)
            PROVE  Within(t, p, sh2, u, k, i)
        <4>1. t[k].ts \in Int /\ u + 1 \in Int
          BY <1>3
        <4>2. Span(t[k].ts, u + 1, sh)
          BY <3>1 DEF Within
        <4>3. Span(t[k].ts, u + 1, sh2)
          BY <1>1, <4>1, <4>2
        <4> QED BY <3>1, <4>3 DEF Within
      <3>2. Counted(t, p, pg, sh, st, u)
        BY <2>1
      <3> QED BY <3>1, <3>2 DEF Counted
    <2>4. ASSUME pg.shown PROVE Counted(t, p, pg, sh2, st, at)
      <3>1. CASE Fresh(pg.queue)
        <4>1. PICK w \in st : w <= at /\ pg.due = w + FlushAfter
          BY <2>1, <2>4, <3>1 DEF Current
        <4>2. at < w + FlushAfter
          BY <3>1, <4>1 DEF Fresh
        <4> QED BY <4>1, <4>2 DEF Counted
      <3>2. CASE ~Fresh(pg.queue)
        <4>1. PICK k \in DOMAIN t, i \in DOMAIN t :
                Stretch(t, p, k, i) /\ LastOf(t, p, i) /\ Span(t[k].ts, at, sh)
          BY <2>1, <2>4, <3>2 DEF Current
        <4>2. Within(t, p, sh2, at, k, i)
          BY <1>2, <1>3, <2>4, <4>1 DEF Within
        <4> QED BY <2>4, <3>2, <4>1, <4>2 DEF Counted
      <3> QED BY <3>1, <3>2
    <2>5. \A u \in sh2 : Counted(t, p, pg, sh2, st, u)
      BY <2>3, <2>4
    <2> QED BY <2>2, <2>5 DEF Whole
  <1> QED BY <1>4, <1>5, <1>6, <1>7 DEF PageInv

\* A page that sends, whether what it sends arrives or not.
SendsNow(p, batch) ==
  /\ p \in Pages /\ Sends(pages[p], pages'[p], batch) /\ pages' \in [Pages -> PageStates]
  /\ \A q \in Pages : q # p => pages'[q] = pages[q]
  /\ pages'[p].due = pages[p].due /\ UNCHANGED <<now, shownAt, starts>>

LEMMA StoredKeeps ==
  ASSUME UsageAssumption, UsageInv, NEW p \in Pages, NEW batch, SendsNow(p, batch),
         Usage!Stored(p, batch)
  PROVE  UsageInv'
  <1>1. UsageTypes /\ Orderly(rows, now) /\ UsageBounds
    BY DEF UsageInv
  <1>2. batch \in Seq(UsageEvents)
    BY DEF SendsNow, Sends
  <1>3. PICK all \in Seq(UsageRows) : \E m \in 0 .. Len(all) :
          /\ Grown(rows, all, p, batch, now) /\ Orderly(all, now) /\ Cut(all, rows', m)
          /\ Len(rows') <= Cap
          /\ missing' = [q \in Pages |-> missing[q] \cup Dropped(all, q, m)]
    BY <1>1, <1>2, StoredIs
  <1>4. PICK m \in 0 .. Len(all) :
          /\ Grown(rows, all, p, batch, now) /\ Orderly(all, now) /\ Cut(all, rows', m)
          /\ Len(rows') <= Cap
          /\ missing' = [q \in Pages |-> missing[q] \cup Dropped(all, q, m)]
    BY <1>3
  <1>5. /\ now' = now /\ shownAt' = shownAt /\ starts' = starts /\ pages' \in [Pages -> PageStates]
        /\ \A q \in Pages : q # p => pages'[q] = pages[q]
        /\ pages'[p].due = pages[p].due /\ Sends(pages[p], pages'[p], batch)
    BY DEF SendsNow
  <1>6. /\ rows \in Seq(UsageRows) /\ now \in Nat /\ rows' \in Seq(UsageRows)
        /\ \A q \in Pages : shownAt[q] \in SUBSET Nat /\ missing[q] \in SUBSET EventKinds
    BY <1>1, <1>4 DEF UsageTypes, Cut
  <1>7. ASSUME NEW q \in Pages PROVE Dropped(all, q, m) \subseteq EventKinds
    <2>1. \A i \in 1 .. m : all[i] \in UsageRows
      BY <1>4
    <2> QED BY <2>1 DEF Dropped, UsageRows
  <1>8. UsageTypes'
    <2>1. missing' \in [Pages -> SUBSET EventKinds]
      BY <1>4, <1>6, <1>7
    <2> QED BY <1>1, <1>5, <1>6, <2>1 DEF UsageTypes
  <1>9. UsageBounds'
    BY <1>1, <1>4, <1>5 DEF UsageBounds
  <1>10. Orderly(rows', now')
    <2>1. /\ \A i \in DOMAIN rows' : rows'[i] = all[i + m] /\ i + m \in DOMAIN all
          /\ \A i, j \in DOMAIN rows' : i <= j => i + m <= j + m
      BY <1>4, <1>6 DEF Cut
    <2> QED BY <1>4, <1>5, <2>1 DEF Orderly
  <1>11. ASSUME NEW q \in Pages
         PROVE  PageInv(rows', q, pages'[q], shownAt'[q], starts'[q], missing'[q], now')
    <2>1. PageInv(rows, q, pages[q], shownAt[q], starts[q], missing[q], now)
      BY DEF UsageInv
    <2>2. PageInv(all, q, pages'[q], shownAt[q], starts[q], missing[q], now)
      <3>1. CASE q = p
        <4>1. \A u \in shownAt[p] : u < now
          BY <1>1 DEF UsageBounds
        <4>2. PageInv(all, p, pages'[p], shownAt[p], starts[p], missing[p], now)
          BY <1>2, <1>4, <1>5, <1>6, <2>1, <3>1, <4>1, OwnGrows
        <4> QED BY <3>1, <4>2
      <3>2. CASE q # p
        <4>1. PageInv(all, q, pages[q], shownAt[q], starts[q], missing[q], now)
          BY <1>2, <1>4, <1>6, <2>1, <3>2, OtherGrows
        <4> QED BY <1>5, <3>2, <4>1
      <3> QED BY <3>1, <3>2
    <2>3. PageInv(rows', q, pages'[q], shownAt[q], starts[q], missing[q] \cup Dropped(all, q, m), now)
      BY <1>4, <2>2, RowsCutKeep
    <2>4. missing'[q] = missing[q] \cup Dropped(all, q, m)
      BY <1>4
    <2> QED BY <1>5, <2>3, <2>4
  <1> QED BY <1>8, <1>9, <1>10, <1>11 DEF UsageInv

LEMMA LostKeeps ==
  ASSUME UsageAssumption, UsageInv, NEW p \in Pages, NEW batch, SendsNow(p, batch),
         Usage!Lost(p, batch)
  PROVE  UsageInv'
  <1>1. UsageTypes /\ Orderly(rows, now) /\ UsageBounds
    BY DEF UsageInv
  <1>2. batch \in Seq(UsageEvents)
    BY DEF SendsNow, Sends
  <1>3. /\ now' = now /\ shownAt' = shownAt /\ starts' = starts /\ pages' \in [Pages -> PageStates]
        /\ \A q \in Pages : q # p => pages'[q] = pages[q]
        /\ pages'[p].due = pages[p].due /\ Sends(pages[p], pages'[p], batch) /\ rows' = rows
    BY DEF SendsNow, Usage!Lost
  <1> DEFINE kinds == {batch[x].kind : x \in DOMAIN batch}
  <1>4. kinds \subseteq EventKinds
    <2>1. \A x \in DOMAIN batch : batch[x] \in UsageEvents
      BY <1>2
    <2> QED BY <2>1 DEF UsageEvents
  <1>5. /\ missing' = [missing EXCEPT ![p] = missing[p] \cup kinds]
        /\ missing \in [Pages -> SUBSET EventKinds]
    BY <1>1 DEF Usage!Lost, Usage!Kinds, UsageTypes
  <1> HIDE DEF kinds
  <1>6. /\ missing' \in [Pages -> SUBSET EventKinds] /\ missing'[p] = missing[p] \cup kinds
        /\ \A q \in Pages : q # p => missing'[q] = missing[q]
    BY <1>4, <1>5
  <1>7. UsageTypes'
    BY <1>1, <1>3, <1>6 DEF UsageTypes
  <1>8. UsageBounds'
    BY <1>1, <1>3 DEF UsageBounds
  <1>9. ASSUME NEW q \in Pages
        PROVE  PageInv(rows', q, pages'[q], shownAt'[q], starts'[q], missing'[q], now')
    <2>1. PageInv(rows, q, pages[q], shownAt[q], starts[q], missing[q], now)
      BY DEF UsageInv
    <2>2. CASE q = p
      <3>1. rows \in Seq(UsageRows)
        BY <1>1 DEF UsageTypes
      <3>2. missing'[p] = missing[p] \cup {batch[x].kind : x \in DOMAIN batch}
        BY <1>6 DEF kinds
      <3>3. PageInv(rows, p, pages'[p], shownAt[p], starts[p], missing'[p], now)
        BY <1>2, <1>3, <2>1, <2>2, <3>1, <3>2, OwnLoses
      <3> QED BY <1>3, <2>2, <3>3
    <2>3. CASE q # p
      BY <1>3, <1>6, <2>1, <2>3
    <2> QED BY <2>2, <2>3
  <1> QED BY <1>1, <1>3, <1>7, <1>8, <1>9 DEF UsageInv

LEMMA FlushKeeps == ASSUME UsageAssumption, UsageInv, NEW p \in Pages, Usage!Flush(p) PROVE UsageInv'
  <1> DEFINE batch == pages[p].queue
  <1>1. /\ pages \in [Pages -> PageStates] /\ pages[p] \in PageStates
        /\ batch \in Seq(UsageEvents) /\ batch # <<>>
    BY DEF UsageInv, UsageTypes, PageStates, Usage!Flush
  <1>2. /\ pages' = [pages EXCEPT ![p] = [pages[p] EXCEPT !.queue = <<>>]]
        /\ UNCHANGED <<now, shownAt, starts>>
    BY <1>1 DEF Usage!Flush, PageStates
  <1>3. /\ pages'[p].queue = <<>> /\ pages'[p].shown = pages[p].shown /\ pages'[p].due = pages[p].due
        /\ \A q \in Pages : q # p => pages'[q] = pages[q]
        /\ pages' \in [Pages -> PageStates]
    <2> DEFINE pg == [pages[p] EXCEPT !.queue = <<>>]
    <2>1. <<>> \in Seq(UsageEvents)
      OBVIOUS
    <2>2. pg \in PageStates /\ pg.queue = <<>> /\ pg.shown = pages[p].shown /\ pg.due = pages[p].due
      BY <1>1, <2>1 DEF PageStates
    <2>3. pages' = [pages EXCEPT ![p] = pg]
      BY <1>2
    <2> HIDE DEF pg
    <2>4. pages'[p] = pg /\ (\A q \in Pages : q # p => pages'[q] = pages[q])
      BY <1>1, <2>3
    <2>5. pages' \in [Pages -> PageStates]
      BY <1>1, <2>2, <2>3
    <2> QED BY <2>2, <2>4, <2>5
  <1>4. Sends(pages[p], pages'[p], batch)
    <2>1. QueueOK(pages[p])
      BY DEF UsageInv, PageInv
    <2>2. Len(batch) \in DOMAIN batch
      BY <1>1
    <2> QED BY <1>1, <1>3, <2>1, <2>2 DEF Sends, QueueOK, Fresh
  <1>5. SendsNow(p, batch)
    BY <1>2, <1>3, <1>4 DEF SendsNow
  <1>6. Usage!Stored(p, batch) \/ Usage!Lost(p, batch)
    BY DEF Usage!Flush
  <1> QED BY <1>5, <1>6, StoredKeeps, LostKeeps

LEMMA HideKeeps == ASSUME UsageAssumption, UsageInv, NEW p \in Pages, Usage!Hide(p) PROVE UsageInv'
  <1> DEFINE queue == pages[p].queue
             end == Usage!Event("session_end", Usage!NoView)
             batch == Append(queue, end)
  <1>1. /\ pages \in [Pages -> PageStates] /\ pages[p] \in PageStates
        /\ queue \in Seq(UsageEvents) /\ pages[p].shown
    BY DEF UsageInv, UsageTypes, PageStates, Usage!Hide
  <1>2. /\ pages' = [pages EXCEPT ![p] = [pages[p] EXCEPT !.queue = <<>>, !.shown = FALSE]]
        /\ UNCHANGED <<now, shownAt, starts>>
    BY <1>1 DEF Usage!Hide, PageStates
  <1>3. /\ pages'[p].queue = <<>> /\ ~pages'[p].shown /\ pages'[p].due = pages[p].due
        /\ \A q \in Pages : q # p => pages'[q] = pages[q]
        /\ pages' \in [Pages -> PageStates]
    <2> DEFINE pg == [pages[p] EXCEPT !.queue = <<>>, !.shown = FALSE]
    <2>1. <<>> \in Seq(UsageEvents)
      OBVIOUS
    <2>2. pg \in PageStates /\ pg.queue = <<>> /\ ~pg.shown /\ pg.due = pages[p].due
      BY <1>1, <2>1 DEF PageStates
    <2>3. pages' = [pages EXCEPT ![p] = pg]
      BY <1>2
    <2> HIDE DEF pg
    <2>4. pages'[p] = pg /\ (\A q \in Pages : q # p => pages'[q] = pages[q])
      BY <1>1, <2>3
    <2>5. pages' \in [Pages -> PageStates]
      BY <1>1, <2>2, <2>3
    <2> QED BY <2>2, <2>4, <2>5
  <1>4. end \in UsageEvents /\ end.kind = "session_end"
    BY DEF Usage!Event, UsageEvents, EventKinds
  <1>5. Usage!Stored(p, batch) \/ Usage!Lost(p, batch)
    BY DEF Usage!Hide
  <1> HIDE DEF end
  <1>6. /\ batch \in Seq(UsageEvents) /\ batch # <<>> /\ Len(batch) = Len(queue) + 1
        /\ \A i \in 1 .. Len(queue) : batch[i] = queue[i]
        /\ batch[Len(queue) + 1] = end
    BY <1>1, <1>4, AppendProperties
  <1>7. Len(queue) \in Nat /\ DOMAIN queue = 1 .. Len(queue)
        /\ DOMAIN batch = 1 .. Len(queue) + 1 /\ (queue # <<>> <=> Len(queue) > 0)
    BY <1>1, <1>6
  <1>8. QueueOK(pages[p])
    BY DEF UsageInv, PageInv
  <1> HIDE DEF batch
  <1>9. ASSUME NEW x \in DOMAIN batch
        PROVE  /\ x > 1 => batch[x].kind # "session_start"
               /\ x < Len(batch) => batch[x].kind # "session_end"
    <2>1. CASE x = Len(queue) + 1
      BY <1>4, <1>6, <1>7, <2>1
    <2>2. CASE x \in DOMAIN queue
      BY <1>6, <1>7, <1>8, <2>2 DEF QueueOK
    <2> QED BY <1>7, <2>1, <2>2
  <1>10. batch[1].kind = "session_start" <=> Fresh(queue)
    <2>1. CASE queue = <<>>
      <3>1. batch[1] = end
        BY <1>6, <1>7, <2>1
      <3> QED BY <1>4, <2>1, <3>1 DEF Fresh
    <2>2. CASE queue # <<>>
      <3>1. batch[1] = queue[1]
        BY <1>6, <1>7, <2>2
      <3> QED BY <2>2, <3>1 DEF Fresh
    <2> QED BY <2>1, <2>2
  <1>11. batch[Len(batch)].kind = "session_end"
    BY <1>4, <1>6
  <1>12. Sends(pages[p], pages'[p], batch)
    BY <1>1, <1>3, <1>6, <1>9, <1>10, <1>11 DEF Sends
  <1>13. SendsNow(p, batch)
    BY <1>2, <1>3, <1>12 DEF SendsNow
  <1> QED BY <1>5, <1>13, StoredKeeps, LostKeeps

LEMMA ShowsKeeps == ASSUME UsageAssumption, UsageInv, NEW p \in Pages, Usage!Show(p) PROVE UsageInv'
  <1> DEFINE e == Usage!Event("session_start", Usage!NoView)
             pg == [pages[p] EXCEPT !.queue = <<e>>, !.due = now + FlushAfter, !.shown = TRUE]
  <1>1. /\ UsageTypes /\ UsageBounds /\ Orderly(rows, now)
        /\ \A q \in Pages : PageInv(rows, q, pages[q], shownAt[q], starts[q], missing[q], now)
    BY DEF UsageInv
  <1>2. /\ pages \in [Pages -> PageStates] /\ pages[p] \in PageStates /\ now \in Nat
        /\ now + FlushAfter \in Nat /\ starts \in [Pages -> SUBSET Nat] /\ shownAt[p] \in SUBSET Nat
    BY <1>1 DEF UsageTypes, UsageAssumption
  <1>3. ~pages[p].shown /\ pages[p].queue = <<>>
    <2>1. QueueOK(pages[p]) /\ ~pages[p].shown
      BY <1>1 DEF PageInv, Usage!Show
    <2> QED BY <2>1 DEF QueueOK
  <1>4. e \in UsageEvents /\ e.kind = "session_start"
    BY DEF Usage!Event, UsageEvents, EventKinds
  <1>5. /\ pages' = [pages EXCEPT ![p] = pg] /\ starts' = [starts EXCEPT ![p] = starts[p] \cup {now}]
        /\ UNCHANGED <<now, rows, shownAt, missing>>
    <2>1. Append(<<>>, e) = <<e>>
      OBVIOUS
    <2> HIDE DEF e
    <2>2. [Usage!Push(pages[p], e) EXCEPT !.shown = TRUE] = pg
      BY <1>2, <1>3, <2>1 DEF Usage!Push, PageStates
    <2> HIDE DEF pg
    <2>3. pages' = [pages EXCEPT ![p] = [Usage!Push(pages[p], e) EXCEPT !.shown = TRUE]]
      BY <1>2 DEF Usage!Show, e
    <2> QED BY <2>2, <2>3 DEF Usage!Show
  <1>6. pg \in PageStates /\ pg.queue = <<e>> /\ pg.shown /\ pg.due = now + FlushAfter
    <2> HIDE DEF e
    <2>1. <<e>> \in Seq(UsageEvents)
      BY <1>4
    <2> QED BY <1>2, <2>1 DEF PageStates
  <1> HIDE DEF e, pg
  <1>7. /\ pages'[p] = pg /\ \A q \in Pages : q # p => pages'[q] = pages[q] /\ starts'[q] = starts[q]
    BY <1>2, <1>5
  <1>8. starts'[p] = starts[p] \cup {now}
    BY <1>2, <1>5
  <1>9. UsageTypes'
    <2>1. pages' \in [Pages -> PageStates] /\ starts' \in [Pages -> SUBSET Nat]
      BY <1>2, <1>5, <1>6
    <2> QED BY <1>1, <1>5, <2>1 DEF UsageTypes
  <1>10. UsageBounds'
    BY <1>1, <1>2, <1>5, <1>6, <1>7 DEF UsageBounds
  <1>11. ASSUME NEW q \in Pages
         PROVE  PageInv(rows', q, pages'[q], shownAt'[q], starts'[q], missing'[q], now')
    <2>1. CASE q = p
      <3>1. PageInv(rows, p, pages[p], shownAt[p], starts[p], missing[p], now)
        BY <1>1
      <3>2. PageInv(rows, p, pg, shownAt[p], starts[p] \cup {now}, missing[p], now)
        BY <1>2, <1>3, <1>4, <1>6, <3>1, ShowKeeps
      <3> QED BY <1>5, <1>7, <1>8, <2>1, <3>2
    <2>2. CASE q # p
      BY <1>1, <1>5, <1>7, <2>2
    <2> QED BY <2>1, <2>2
  <1> QED BY <1>1, <1>5, <1>9, <1>10, <1>11 DEF UsageInv

LEMMA UsesKeeps == ASSUME UsageAssumption, UsageInv, NEW p \in Pages, Usage!Use(p) PROVE UsageInv'
  <1>1. /\ UsageTypes /\ UsageBounds /\ Orderly(rows, now)
        /\ \A q \in Pages : PageInv(rows, q, pages[q], shownAt[q], starts[q], missing[q], now)
    BY DEF UsageInv
  <1>2. /\ pages \in [Pages -> PageStates] /\ pages[p] \in PageStates /\ now \in Nat
        /\ now + FlushAfter \in Nat /\ pages[p].queue \in Seq(UsageEvents) /\ pages[p].shown
    BY <1>1 DEF UsageTypes, UsageAssumption, PageStates, Usage!Use
  <1>3. PICK e \in {Usage!Event("view", v) : v \in Views} \cup {Usage!Event("tap", Usage!NoView)} :
          pages' = [pages EXCEPT ![p] = Usage!Push(pages[p], e)]
    BY <1>2 DEF Usage!Use
  <1>4. e \in UsageEvents /\ e.kind \notin {"session_start", "session_end"}
    BY DEF Usage!Event, UsageEvents, EventKinds
  <1> DEFINE due == IF pages[p].queue = <<>> THEN now + FlushAfter ELSE pages[p].due
             pg == [pages[p] EXCEPT !.queue = Append(pages[p].queue, e), !.due = due]
  <1>5. pages' = [pages EXCEPT ![p] = pg]
    BY <1>3 DEF Usage!Push
  <1>6. Append(pages[p].queue, e) \in Seq(UsageEvents)
    BY <1>2, <1>4, AppendProperties
  <1>7. due \in Nat /\ (pages[p].queue # <<>> => due = pages[p].due)
        /\ due <= now + FlushAfter
    <2>1. pages[p].due \in Nat /\ pages[p].due <= now + FlushAfter
      BY <1>1, <1>2 DEF PageStates, UsageBounds
    <2> QED BY <1>2, <2>1
  <1> HIDE DEF due
  <1>8. pg \in PageStates /\ pg.queue = Append(pages[p].queue, e) /\ pg.shown /\ pg.due = due
    BY <1>2, <1>6, <1>7 DEF PageStates
  <1> HIDE DEF pg
  <1>9. /\ pages'[p] = pg /\ pages' \in [Pages -> PageStates]
        /\ \A q \in Pages : q # p => pages'[q] = pages[q]
    BY <1>2, <1>5, <1>8
  <1>10. UNCHANGED <<now, rows, shownAt, starts, missing>>
    BY DEF Usage!Use
  <1>11. UsageTypes'
    BY <1>1, <1>9, <1>10 DEF UsageTypes
  <1>12. UsageBounds'
    BY <1>1, <1>7, <1>8, <1>9, <1>10 DEF UsageBounds
  <1>13. ASSUME NEW q \in Pages
         PROVE  PageInv(rows', q, pages'[q], shownAt'[q], starts'[q], missing'[q], now')
    <2>1. CASE q = p
      <3>1. PageInv(rows, p, pages[p], shownAt[p], starts[p], missing[p], now)
        BY <1>1
      <3>2. PageInv(rows, p, pg, shownAt[p], starts[p], missing[p], now)
        BY <1>2, <1>4, <1>7, <1>8, <3>1, UseKeeps
      <3> QED BY <1>9, <1>10, <2>1, <3>2
    <2>2. CASE q # p
      BY <1>1, <1>9, <1>10, <2>2
    <2> QED BY <2>1, <2>2
  <1> QED BY <1>1, <1>10, <1>11, <1>12, <1>13 DEF UsageInv

LEMMA TickKeeps == ASSUME UsageAssumption, UsageInv, Usage!Tick PROVE UsageInv'
  <1>1. /\ UsageTypes /\ UsageBounds /\ Orderly(rows, now)
        /\ \A q \in Pages : PageInv(rows, q, pages[q], shownAt[q], starts[q], missing[q], now)
    BY DEF UsageInv
  <1>2. /\ now' = now + 1 /\ now < MaxTime /\ now \in Nat /\ rows \in Seq(UsageRows)
        /\ UNCHANGED <<pages, rows, starts, missing>>
        /\ shownAt' = [q \in Pages |-> IF pages[q].shown THEN shownAt[q] \cup {now} ELSE shownAt[q]]
        /\ \A q \in Pages : pages[q].queue # <<>> => now < pages[q].due
        /\ \A q \in Pages : shownAt[q] \in SUBSET Nat /\ starts[q] \in SUBSET Nat
                            /\ pages[q].due \in Nat
    BY <1>1 DEF Usage!Tick, UsageTypes, PageStates
  <1>3. UsageTypes'
    <2>1. shownAt' \in [Pages -> SUBSET Nat] /\ now' \in Nat
      BY <1>2
    <2> QED BY <1>1, <1>2, <2>1 DEF UsageTypes
  <1>4. UsageBounds'
    BY <1>1, <1>2 DEF UsageBounds, UsageAssumption
  <1>5. Orderly(rows', now')
    <2>1. \A i \in DOMAIN rows : rows[i].ts \in Nat
      BY <1>2, RowsAre
    <2> QED BY <1>1, <1>2, <2>1 DEF Orderly
  <1>6. ASSUME NEW q \in Pages
        PROVE  PageInv(rows', q, pages'[q], shownAt'[q], starts'[q], missing'[q], now')
    <2>1. shownAt'[q] = IF pages[q].shown THEN shownAt[q] \cup {now} ELSE shownAt[q]
      BY <1>2
    <2>2. PageInv(rows, q, pages[q], shownAt'[q], starts[q], missing[q], now + 1)
      BY <1>1, <1>2, <2>1, UnitPasses
    <2> QED BY <1>2, <2>2
  <1> QED BY <1>3, <1>4, <1>5, <1>6 DEF UsageInv

LEMMA UsageInit == ASSUME UsageAssumption, Usage!Init PROVE UsageInv
  <1>1. <<>> \in Seq(UsageRows) /\ <<>> \in Seq(UsageEvents) /\ DOMAIN <<>> = {} /\ Len(<<>>) = 0
    OBVIOUS
  <1>2. /\ now = 0 /\ rows = <<>> /\ shownAt = [p \in Pages |-> {}] /\ starts = [p \in Pages |-> {}]
        /\ missing = [p \in Pages |-> {}]
        /\ pages = [p \in Pages |-> [shown |-> FALSE, queue |-> <<>>, due |-> 0]]
    BY DEF Usage!Init
  <1>3. UsageTypes
    BY <1>1, <1>2 DEF UsageTypes, PageStates
  <1>4. UsageBounds /\ Orderly(rows, now)
    BY <1>1, <1>2 DEF UsageBounds, Orderly, UsageAssumption
  <1>5. ASSUME NEW p \in Pages
        PROVE  PageInv(rows, p, pages[p], shownAt[p], starts[p], missing[p], now)
    <2>1. ~pages[p].shown /\ pages[p].queue = <<>> /\ shownAt[p] = {} /\ DOMAIN rows = {}
      BY <1>1, <1>2
    <2>2. QueueOK(pages[p])
      BY <1>1, <2>1 DEF QueueOK
    <2>3. /\ Neighbours(rows, p, shownAt[p], missing[p])
          /\ Newest(rows, p, pages[p], shownAt[p], missing[p], now)
      BY <2>1 DEF Neighbours, Newest
    <2>4. Whole(rows, p, pages[p], shownAt[p], starts[p], now)
      BY <2>1 DEF Whole, Current
    <2> QED BY <2>2, <2>3, <2>4 DEF PageInv
  <1> QED BY <1>3, <1>4, <1>5 DEF UsageInv

LEMMA UsageStep == ASSUME UsageAssumption, UsageInv, [Usage!Next]_(Usage!vars) PROVE UsageInv'
  <1>1. CASE Usage!Tick
    BY <1>1, TickKeeps
  <1>2. ASSUME NEW p \in Pages, Usage!Show(p) PROVE UsageInv'
    BY <1>2, ShowsKeeps
  <1>3. ASSUME NEW p \in Pages, Usage!Use(p) PROVE UsageInv'
    BY <1>3, UsesKeeps
  <1>4. ASSUME NEW p \in Pages, Usage!Flush(p) PROVE UsageInv'
    BY <1>4, FlushKeeps
  <1>5. ASSUME NEW p \in Pages, Usage!Hide(p) PROVE UsageInv'
    BY <1>5, HideKeeps
  <1>6. CASE UNCHANGED Usage!vars
    BY <1>6 DEF Usage!vars, UsageInv, UsageTypes, UsageBounds
  <1> QED BY <1>1, <1>2, <1>3, <1>4, <1>5, <1>6 DEF Usage!Next

\* The row of a page before one of its rows, at or after a given one.
LEMMA PreviousRow ==
  ASSUME UsageTypes, NEW p, NEW k \in RowsOf(rows, p), NEW i \in RowsOf(rows, p), k < i
  PROVE  \E j \in RowsOf(rows, p) : k <= j /\ NextOf(rows, p, j, i)
  <1> DEFINE before == {j \in RowsOf(rows, p) : j < i}
             distances == {i - j : j \in before}
  <1>1. rows \in Seq(UsageRows) /\ \A j \in RowsOf(rows, p) : j \in Nat
    <2>1. rows \in Seq(UsageRows)
      BY DEF UsageTypes
    <2> QED BY <2>1, RowsAre
  <1>2. distances \subseteq Nat /\ distances # {}
    <2>1. \A j \in before : i - j \in Nat
      BY <1>1
    <2>2. k \in before
      OBVIOUS
    <2> QED BY <2>1, <2>2
  <1>3. PICK d \in distances : \A e \in distances : d <= e
    <2> HIDE DEF distances
    <2> QED BY <1>2, LeastOf
  <1>4. PICK j \in before : d = i - j
    BY <1>3
  <1>5. ASSUME NEW x \in before PROVE x <= j
    <2>1. i - j <= i - x
      BY <1>3, <1>4
    <2> QED BY <1>1, <2>1
  <1>6. k <= j /\ j < i
    BY <1>5
  <1>7. \A x \in RowsOf(rows, p) : ~(j < x /\ x < i)
    BY <1>1, <1>5
  <1> QED BY <1>6, <1>7 DEF NextOf

LEMMA NextRows ==
  ASSUME UsageTypes, NEW i \in DOMAIN rows, NEW j \in DOMAIN rows
  PROVE  j \in Usage!NextRow(i) <=> NextOf(rows, rows[i].page, i, j)
  <1>1. \A k \in DOMAIN rows : k \in Nat
    BY DEF UsageTypes
  <1>2. \A k \in i + 1 .. j - 1 : k \in DOMAIN rows
    BY DEF UsageTypes
  <1>3. \A k \in DOMAIN rows : k \in i + 1 .. j - 1 <=> (i < k /\ k < j)
    BY <1>1
  <1> QED BY <1>2, <1>3 DEF Usage!NextRow, NextOf, RowsOf

\* The row that opens a stretch is found from each of its rows.
LEMMA OpenerOf ==
  ASSUME UsageTypes, NEW p, NEW k, NEW i, Stretch(rows, p, k, i)
  PROVE  Usage!OpenedBy(i) = k
  <1>1. /\ k \in RowsOf(rows, p) /\ i \in RowsOf(rows, p) /\ k <= i /\ rows[k].kind = "session_start"
        /\ \A j \in RowsOf(rows, p) :
             /\ k <= j /\ j <= i => rows[j].kind # "session_end"
             /\ k < j /\ j <= i => rows[j].kind # "session_start"
    BY DEF Stretch
  <1>2. /\ DOMAIN rows = 1 .. Len(rows) /\ Len(rows) \in Nat
        /\ k \in DOMAIN rows /\ i \in DOMAIN rows /\ rows[k].page = p /\ rows[i].page = p
    BY <1>1 DEF UsageTypes, RowsOf
  <1>3. Usage!Opening(k)
    BY <1>1 DEF Usage!Opening
  <1>4. ASSUME NEW j \in k + 1 .. i, rows[j].page = p PROVE ~Usage!Opening(j)
    <2>1. j \in RowsOf(rows, p) /\ k < j /\ j <= i
      BY <1>2, <1>4 DEF RowsOf
    <2>2. PICK x \in RowsOf(rows, p) : k <= x /\ NextOf(rows, p, x, j)
      BY <1>1, <2>1, PreviousRow
    <2>3. x < j /\ x \in DOMAIN rows /\ j \in DOMAIN rows /\ rows[x].page = p
      BY <2>1, <2>2 DEF NextOf, RowsOf
    <2>4. x \in Usage!PrevRow(j)
      BY <2>2, <2>3, NextRows DEF Usage!PrevRow
    <2>5. x <= i
      BY <1>2, <2>1, <2>3
    <2>6. rows[x].kind # "session_end" /\ rows[j].kind # "session_start"
      BY <1>1, <2>1, <2>2, <2>5
    <2> QED BY <2>4, <2>6 DEF Usage!Opening
  <1> DEFINE Opener(x) ==
        /\ x \in {j \in 1 .. i : rows[j].page = rows[i].page /\ Usage!Opening(j)}
        /\ \A j \in x + 1 .. i : rows[j].page = rows[i].page => ~Usage!Opening(j)
  <1>5. Opener(k)
    BY <1>1, <1>2, <1>3, <1>4
  <1>6. ASSUME NEW x, Opener(x) PROVE x = k
    <2>1. x \in 1 .. i /\ rows[x].page = p /\ Usage!Opening(x)
      BY <1>2, <1>6
    <2>2. ~(x < k)
      <3>1. x < k => k \in x + 1 .. i
        BY <1>1, <1>2, <2>1
      <3> QED BY <1>2, <1>3, <1>6, <3>1
    <2>3. ~(k < x)
      <3>1. k < x => x \in k + 1 .. i
        BY <1>1, <1>2, <2>1
      <3> QED BY <1>4, <2>1, <3>1
    <2> QED BY <1>2, <2>1, <2>2, <2>3
  <1>7. Usage!OpenedBy(i) = CHOOSE x : Opener(x)
    BY Zenon DEF Usage!OpenedBy
  <1> HIDE DEF Opener
  <1> QED BY <1>5, <1>6, <1>7

LEMMA UsageMeans ==
  ASSUME UsageAssumption, UsageInv
  PROVE  Usage!TypeOK /\ Usage!CountedWasShown /\ Usage!ShownCounts
  <1>1. UsageTypes /\ UsageBounds /\ Orderly(rows, now)
    BY DEF UsageInv
  <1>2. /\ DOMAIN rows = 1 .. Len(rows) /\ Len(rows) \in Nat /\ now \in Nat
        /\ \A i \in DOMAIN rows : rows[i] \in UsageRows
    BY <1>1 DEF UsageTypes
  <1>3. \A i \in DOMAIN rows : rows[i].ts \in Nat /\ rows[i].ts <= now /\ rows[i].page \in Pages
    BY <1>1, <1>2 DEF Orderly, UsageRows
  <1>4. \A p \in Pages : /\ pages[p] \in PageStates /\ shownAt[p] \in SUBSET Nat
                         /\ starts[p] \in SUBSET Nat /\ missing[p] \in SUBSET EventKinds
    BY <1>1 DEF UsageTypes
  <1>5. Usage!TypeOK
    <2>1. now \in 0 .. MaxTime /\ Len(rows) <= Cap
      BY <1>1, <1>2 DEF UsageBounds, UsageAssumption
    <2>2. ASSUME NEW p \in Pages
          PROVE  /\ pages[p].shown \in BOOLEAN /\ pages[p].due \in 0 .. MaxTime + FlushAfter
                 /\ shownAt[p] \subseteq 0 .. MaxTime - 1
      <3>1. pages[p].shown \in BOOLEAN /\ pages[p].due \in Nat
        BY <1>4 DEF PageStates
      <3>2. pages[p].due <= now + FlushAfter /\ \A u \in shownAt[p] : u < now
        BY <1>1 DEF UsageBounds
      <3>3. pages[p].due \in 0 .. MaxTime + FlushAfter
        BY <2>1, <3>1, <3>2 DEF UsageAssumption
      <3>4. \A u \in shownAt[p] : u \in 0 .. MaxTime - 1
        BY <1>4, <2>1, <3>2 DEF UsageAssumption
      <3> QED BY <3>1, <3>3, <3>4
    <2>3. \A i \in DOMAIN rows : rows[i].page \in Pages /\ rows[i].ts \in 0 .. now
      BY <1>2, <1>3
    <2> QED BY <2>1, <2>2, <2>3 DEF Usage!TypeOK
  <1>6. Usage!CountedWasShown
    <2>1. SUFFICES ASSUME NEW u \in 0 .. now - 1, NEW i \in Usage!At(u)
                   PROVE  \/ u \in shownAt[rows[i].page]
                          \/ {"session_start", "session_end"} \subseteq missing[rows[i].page]
      BY DEF Usage!CountedWasShown
    <2> DEFINE p == rows[i].page
    <2>2. i \in DOMAIN rows /\ rows[i].ts <= u /\ rows[i].kind # "session_end"
      BY DEF Usage!At, Usage!Encloses
    <2>3. PICK j \in Usage!NextRow(i) : u < rows[j].ts /\ rows[j].kind # "session_start"
      BY DEF Usage!At, Usage!Encloses
    <2>4. j \in DOMAIN rows
      BY <2>3 DEF Usage!NextRow
    <2>5. NextOf(rows, p, i, j) /\ p \in Pages
      BY <1>1, <1>3, <2>2, <2>3, <2>4, NextRows
    <2>6. Neighbours(rows, p, shownAt[p], missing[p])
      BY <2>5 DEF UsageInv, PageInv
    <2>7. \/ Span(rows[i].ts, rows[j].ts, shownAt[p])
          \/ "session_start" \in missing[p] /\ "session_end" \in missing[p]
      BY <2>2, <2>3, <2>4, <2>5, <2>6 DEF Neighbours
    <2>8. u \in rows[i].ts .. rows[j].ts - 1
      BY <1>3, <2>2, <2>3, <2>4
    <2> QED BY <2>7, <2>8 DEF Span
  <1>7. Usage!ShownCounts
    <2>1. SUFFICES ASSUME NEW p \in Pages, Usage!Trusted(p), missing[p] = {}, ~pages[p].shown,
                          NEW u \in shownAt[p]
                   PROVE  \/ \E i \in Usage!At(u) : rows[i].page = p
                          \/ \E w \in starts[p] : w <= u /\ u < w + FlushAfter
                          \/ u - MaxInterval .. u \subseteq shownAt[p]
      BY DEF Usage!ShownCounts
    <2>2. Counted(rows, p, pages[p], shownAt[p], starts[p], u)
      BY <2>1 DEF UsageInv, PageInv, Whole
    <2>3. CASE \E w \in starts[p] : w <= u /\ u < w + FlushAfter
      BY <2>3
    <2>4. ASSUME NEW k \in DOMAIN rows, NEW i \in DOMAIN rows, NEW j \in DOMAIN rows,
                 Within(rows, p, shownAt[p], u, k, i), NextOf(rows, p, i, j),
                 u < rows[j].ts, rows[j].kind # "session_start"
          PROVE  (\E x \in Usage!At(u) : rows[x].page = p) \/ u - MaxInterval .. u \subseteq shownAt[p]
      <3>1. /\ Stretch(rows, p, k, i) /\ rows[i].ts <= u /\ Span(rows[k].ts, u + 1, shownAt[p])
        BY <2>4 DEF Within
      <3>2. rows[i].page = p /\ rows[i].kind # "session_end"
        <4>1. k <= i /\ i <= i /\ i \in RowsOf(rows, p)
          BY <1>2, <3>1 DEF Stretch
        <4> QED BY <3>1, <4>1 DEF Stretch, RowsOf
      <3>3. Usage!OpenedBy(i) = k
        BY <1>1, <3>1, OpenerOf
      <3>4. j \in Usage!NextRow(i)
        BY <1>1, <2>4, <3>2, NextRows
      <3>5. CASE u < rows[k].ts + MaxInterval
        <4>1. Usage!Encloses(i, u)
          BY <2>1, <2>4, <3>1, <3>2, <3>3, <3>4, <3>5 DEF Usage!Encloses
        <4> QED BY <3>2, <4>1 DEF Usage!At
      <3>6. CASE ~(u < rows[k].ts + MaxInterval)
        <4>1. u \in Nat /\ rows[k].ts \in Nat /\ MaxInterval \in Nat
          BY <1>3, <1>4, <2>1 DEF UsageAssumption
        <4>2. \A x \in u - MaxInterval .. u : x \in rows[k].ts .. (u + 1) - 1
          BY <3>6, <4>1
        <4> QED BY <3>1, <4>2 DEF Span
      <3> QED BY <3>5, <3>6
    <2> QED BY <2>1, <2>2, <2>3, <2>4 DEF Counted
  <1> QED BY <1>5, <1>6, <1>7

\* What the report counts as time in the foreground (foreground_time): a unit that counts was
\* spent looking at the page, unless the end of one stretch and the start of another were lost
\* on the way or with the retention; and on a phone that lost nothing, time the page was shown
\* counts, from the first flush after it came to be shown until its stretch has lasted the
\* longest a stretch may count. Whatever the flush interval, the idle gap, the longest stretch,
\* the retention and the order in which the pages are shown, used, flushed and hidden.
THEOREM UsageTrueAlways ==
  ASSUME UsageAssumption
  PROVE  Usage!Spec => [](Usage!TypeOK /\ Usage!CountedWasShown /\ Usage!ShownCounts)
  <1>1. Usage!Init => UsageInv
    BY UsageInit
  <1>2. UsageInv /\ [Usage!Next]_(Usage!vars) => UsageInv'
    BY UsageStep
  <1>3. UsageInv => Usage!TypeOK /\ Usage!CountedWasShown /\ Usage!ShownCounts
    BY UsageMeans
  <1> QED BY <1>1, <1>2, <1>3, PTL DEF Usage!Spec

-----------------------------------------------------------------------------
(* The stream of the screen. *)

ScreenAssumption ==
  /\ Contents \cap (Screen!Status \cup {Screen!None, Screen!Locked}) = {}
  /\ MaxConnecting \in Nat \ {0} /\ MaxWire \in Nat

\* Of the frames sent over a socket at most one is not acked yet: it is on its way to the page,
\* or its ack is on its way back, or the ack has been read and the next frame may go.
OneUnderWay ==
  /\ \A i, j \in DOMAIN wire : wire[i] \in Contents /\ wire[j] \in Contents => i = j
  /\ (\E i \in DOMAIN wire : wire[i] \in Contents) => ackWire = 0 /\ ~acked
  /\ ackWire # 0 => ~acked

LoopTypes ==
  /\ desktop \in Contents \cup {Screen!Locked}
  /\ loop \in {"await ack", "grab", "encode", "pause", "done"}
  /\ image \in Contents \cup {Screen!None} /\ lastDigest \in Contents \cup {Screen!None}
  /\ unavailable \in BOOLEAN /\ acked \in BOOLEAN /\ stopped \in BOOLEAN
WireTypes == wire \in Seq(Contents \cup Screen!Status) /\ Len(wire) <= MaxWire
AckTypes == ackWire \in 0 .. 1

\* A loop past its wait has an ack that it has not used; what it encodes is a picture.
ScreenInv ==
  /\ LoopTypes /\ WireTypes /\ AckTypes /\ page \in Screen!Pages /\ OneUnderWay
  /\ loop \in {"grab", "encode"} => acked
  /\ loop = "encode" => image \in Contents

\* While nothing happens to the frames under way.
LEMMA StillUnderWay ==
  ASSUME OneUnderWay, WireTypes, AckTypes, wire' = wire, ackWire' = ackWire, acked' = acked
  PROVE  OneUnderWay' /\ WireTypes' /\ AckTypes'
  BY DEF OneUnderWay, WireTypes, AckTypes

\* A status adds no frame.
LEMMA SendsStatus ==
  ASSUME ScreenAssumption, WireTypes, NEW messages \in Seq(Screen!Status), Screen!Send(messages)
  PROVE  /\ WireTypes'
         /\ \A i \in DOMAIN wire' : wire'[i] \in Contents => i \in DOMAIN wire /\ wire'[i] = wire[i]
  <1>1. wire \in Seq(Contents \cup Screen!Status) /\ Len(wire) <= MaxWire
    BY DEF WireTypes
  <1>2. messages \in Seq(Contents \cup Screen!Status)
    OBVIOUS
  <1>3. \A i \in DOMAIN messages : messages[i] \notin Contents
    BY DEF ScreenAssumption
  <1>4. CASE page.socket
    <2>1. wire' = wire \o messages /\ Len(wire) + Len(messages) <= MaxWire
      BY <1>4 DEF Screen!Send
    <2>2. /\ wire \o messages \in Seq(Contents \cup Screen!Status)
          /\ Len(wire \o messages) = Len(wire) + Len(messages)
          /\ \A i \in 1 .. Len(wire) + Len(messages) :
               (wire \o messages)[i] = IF i <= Len(wire) THEN wire[i] ELSE messages[i - Len(wire)]
      BY <1>1, <1>2, ConcatProperties
    <2>3. ASSUME NEW i \in DOMAIN wire', wire'[i] \in Contents
          PROVE  i \in DOMAIN wire /\ wire'[i] = wire[i]
      <3>1. i \in 1 .. Len(wire) + Len(messages)
        BY <2>1, <2>2
      <3>2. wire'[i] = IF i <= Len(wire) THEN wire[i] ELSE messages[i - Len(wire)]
        BY <2>1, <2>2, <3>1
      <3>3. i > Len(wire) => i - Len(wire) \in DOMAIN messages
        BY <1>1, <1>2, <3>1
      <3>4. i <= Len(wire)
        BY <1>1, <1>3, <2>3, <3>1, <3>2, <3>3
      <3> QED BY <1>1, <3>1, <3>2, <3>4
    <2>4. WireTypes'
      BY <2>1, <2>2 DEF WireTypes
    <2> QED BY <2>3, <2>4
  <1>5. CASE ~page.socket
    BY <1>1, <1>5 DEF Screen!Send, WireTypes
  <1> QED BY <1>4, <1>5

LEMMA StatusUnderWay ==
  ASSUME ScreenAssumption, WireTypes, AckTypes, OneUnderWay, ackWire' = ackWire, acked' = acked,
         NEW messages \in Seq(Screen!Status), Screen!Send(messages)
  PROVE  OneUnderWay' /\ WireTypes' /\ AckTypes'
  <1>1. /\ WireTypes'
        /\ \A i \in DOMAIN wire' : wire'[i] \in Contents => i \in DOMAIN wire /\ wire'[i] = wire[i]
    BY SendsStatus
  <1>2. OneUnderWay'
    BY <1>1 DEF OneUnderWay
  <1> QED BY <1>1, <1>2 DEF AckTypes

\* What is behind the head of the wire.
LEMMA WireMoves ==
  ASSUME ScreenAssumption, WireTypes, wire # <<>>, wire' = Tail(wire)
  PROVE  /\ WireTypes' /\ Head(wire) = wire[1] /\ 1 \in DOMAIN wire
         /\ \A i \in DOMAIN wire' : i \in Nat /\ i + 1 \in DOMAIN wire /\ i + 1 # 1
                                    /\ wire'[i] = wire[i + 1]
  <1>1. wire \in Seq(Contents \cup Screen!Status) /\ Len(wire) <= MaxWire
    BY DEF WireTypes
  <1>2. /\ Tail(wire) \in Seq(Contents \cup Screen!Status) /\ Len(Tail(wire)) = Len(wire) - 1
        /\ \A i \in 1 .. Len(Tail(wire)) : Tail(wire)[i] = wire[i + 1]
        /\ Head(wire) = wire[1]
    BY <1>1, HeadTailProperties
  <1>3. Len(wire) \in Nat /\ DOMAIN wire = 1 .. Len(wire)
    BY <1>1
  <1>4. DOMAIN Tail(wire) = 1 .. Len(wire) - 1
    BY <1>2
  <1>5. Len(wire) # 0
    BY <1>1
  <1>6. 1 \in DOMAIN wire /\ \A i \in DOMAIN Tail(wire) : i \in Nat /\ i + 1 \in DOMAIN wire /\ i + 1 # 1
    BY <1>3, <1>4, <1>5
  <1>7. \A i \in DOMAIN Tail(wire) : Tail(wire)[i] = wire[i + 1]
    BY <1>2, <1>4
  <1>8. Len(Tail(wire)) <= MaxWire
    <2>1. Len(wire) - 1 <= Len(wire)
      BY <1>3
    <2> QED BY <1>1, <1>2, <1>3, <2>1 DEF ScreenAssumption
  <1> QED BY <1>2, <1>6, <1>7, <1>8 DEF WireTypes

\* A socket that is closed has nothing under way.
LEMMA Emptied ==
  ASSUME ScreenAssumption, Screen!CloseSocket
  PROVE  OneUnderWay' /\ WireTypes' /\ AckTypes'
  <1>1. <<>> \in Seq(Contents \cup Screen!Status) /\ Len(<<>>) = 0 /\ DOMAIN <<>> = {}
    OBVIOUS
  <1>2. wire' = <<>> /\ ackWire' = 0
    BY DEF Screen!CloseSocket
  <1>3. WireTypes'
    BY <1>1, <1>2 DEF WireTypes, ScreenAssumption
  <1>4. OneUnderWay'
    BY <1>1, <1>2 DEF OneUnderWay
  <1> QED BY <1>2, <1>3, <1>4 DEF AckTypes

\* The loop of the stream, and the task that reads the acks.
LEMMA StreamKeeps ==
  ASSUME ScreenAssumption, ScreenInv,
         \/ Screen!AwaitAck \/ Screen!GrabUnavailable \/ Screen!GrabFrame \/ Screen!Pause
         \/ Screen!ReadAck \/ Screen!ReadDisconnect \/ Screen!DesktopChanges
  PROVE  ScreenInv'
  <1>0. /\ LoopTypes /\ WireTypes /\ AckTypes /\ page \in Screen!Pages /\ OneUnderWay
        /\ (loop \in {"grab", "encode"} => acked) /\ (loop = "encode" => image \in Contents)
    BY DEF ScreenInv
  <1>1. CASE Screen!DesktopChanges
    <2>1. /\ UNCHANGED <<loop, image, lastDigest, unavailable, acked, stopped, wire, ackWire, page>>
          /\ desktop' \in Contents \cup {Screen!Locked}
      BY <1>1 DEF Screen!DesktopChanges, Screen!server
    <2>2. LoopTypes'
      BY <1>0, <2>1 DEF LoopTypes
    <2>3. OneUnderWay' /\ WireTypes' /\ AckTypes'
      BY <1>0, <2>1, StillUnderWay
    <2> QED BY <1>0, <2>1, <2>2, <2>3 DEF ScreenInv
  <1>2. CASE Screen!AwaitAck \/ Screen!Pause
    <2>1. /\ UNCHANGED <<desktop, image, lastDigest, unavailable, acked, stopped, wire, ackWire, page>>
          /\ loop' \in {"done", "grab", "await ack"} /\ (loop' = "grab" => acked)
      BY <1>2 DEF Screen!AwaitAck, Screen!Pause, Screen!Goes
    <2>2. LoopTypes'
      BY <1>0, <2>1 DEF LoopTypes
    <2>3. OneUnderWay' /\ WireTypes' /\ AckTypes'
      BY <1>0, <2>1, StillUnderWay
    <2> QED BY <1>0, <2>1, <2>2, <2>3 DEF ScreenInv
  <1>3. CASE Screen!GrabUnavailable
    <2>1. PICK messages \in Seq(Screen!Status) : Screen!Send(messages)
      <3>1. <<>> \in Seq(Screen!Status) /\ <<"unavailable">> \in Seq(Screen!Status)
        BY DEF Screen!Status
      <3>2. CASE unavailable
        BY <1>3, <3>1, <3>2 DEF Screen!GrabUnavailable
      <3>3. CASE ~unavailable
        BY <1>3, <3>1, <3>3 DEF Screen!GrabUnavailable
      <3> QED BY <3>2, <3>3
    <2>2. /\ unavailable' = TRUE /\ loop' = "pause"
          /\ UNCHANGED <<desktop, image, lastDigest, acked, stopped, ackWire, page>>
      BY <1>3 DEF Screen!GrabUnavailable, Screen!Goes
    <2>3. OneUnderWay' /\ WireTypes' /\ AckTypes'
      BY <1>0, <2>1, <2>2, StatusUnderWay
    <2>4. LoopTypes'
      BY <1>0, <2>2 DEF LoopTypes
    <2> QED BY <1>0, <2>2, <2>3, <2>4 DEF ScreenInv
  <1>4. CASE Screen!GrabFrame
    <2>1. PICK messages \in Seq(Screen!Status) : Screen!Send(messages)
      <3>1. <<>> \in Seq(Screen!Status) /\ <<"live">> \in Seq(Screen!Status)
        BY DEF Screen!Status
      <3>2. CASE unavailable
        BY <1>4, <3>1, <3>2 DEF Screen!GrabFrame
      <3>3. CASE ~unavailable
        BY <1>4, <3>1, <3>3 DEF Screen!GrabFrame
      <3> QED BY <3>2, <3>3
    <2>2. /\ unavailable' = FALSE /\ loop = "grab" /\ loop' \in {"pause", "encode"}
          /\ desktop # Screen!Locked /\ lastDigest' \in {Screen!None, lastDigest} /\ image' = desktop
          /\ UNCHANGED <<desktop, acked, stopped, ackWire, page>>
      BY <1>4 DEF Screen!GrabFrame, Screen!Goes
    <2>3. desktop \in Contents /\ acked
      BY <1>0, <2>2 DEF LoopTypes
    <2>4. OneUnderWay' /\ WireTypes' /\ AckTypes'
      BY <1>0, <2>1, <2>2, StatusUnderWay
    <2>5. LoopTypes'
      BY <1>0, <2>2, <2>3 DEF LoopTypes
    <2> QED BY <1>0, <2>2, <2>3, <2>4, <2>5 DEF ScreenInv
  <1>5. CASE Screen!ReadAck
    <2>1. /\ UNCHANGED <<desktop, loop, image, lastDigest, unavailable, stopped, wire, page>>
          /\ ackWire > 0 /\ ackWire' = ackWire - 1 /\ acked' = TRUE
      BY <1>5 DEF Screen!ReadAck
    <2>2. ackWire = 1 /\ ackWire' = 0
      BY <1>0, <2>1 DEF AckTypes
    <2>3. OneUnderWay'
      BY <1>0, <2>1, <2>2 DEF OneUnderWay
    <2>4. LoopTypes' /\ WireTypes' /\ AckTypes'
      <3>1. LoopTypes'
        BY <1>0, <2>1 DEF LoopTypes
      <3>2. WireTypes'
        BY <1>0, <2>1 DEF WireTypes
      <3>3. AckTypes'
        BY <2>2 DEF AckTypes
      <3> QED BY <3>1, <3>2, <3>3
    <2> QED BY <1>0, <2>1, <2>3, <2>4 DEF ScreenInv
  <1>6. CASE Screen!ReadDisconnect
    <2>1. /\ UNCHANGED <<desktop, loop, image, lastDigest, unavailable, acked, wire, ackWire, page>>
          /\ stopped' = TRUE
      BY <1>6 DEF Screen!ReadDisconnect
    <2>2. LoopTypes'
      BY <1>0, <2>1 DEF LoopTypes
    <2>3. OneUnderWay' /\ WireTypes' /\ AckTypes'
      BY <1>0, <2>1, StillUnderWay
    <2> QED BY <1>0, <2>1, <2>2, <2>3 DEF ScreenInv
  <1> QED BY <1>1, <1>2, <1>3, <1>4, <1>5, <1>6

LEMMA FrameKeeps == ASSUME ScreenAssumption, ScreenInv, Screen!SendFrame PROVE ScreenInv'
  <1>0. /\ LoopTypes /\ WireTypes /\ AckTypes /\ page \in Screen!Pages /\ OneUnderWay
        /\ loop = "encode" /\ acked /\ image \in Contents
    BY DEF ScreenInv, Screen!SendFrame
  <1>1. CASE stopped
    <2>1. /\ UNCHANGED <<desktop, image, lastDigest, unavailable, acked, stopped, wire, ackWire, page>>
          /\ loop' = "done"
      BY <1>1 DEF Screen!SendFrame, Screen!Goes
    <2>2. LoopTypes'
      BY <1>0, <2>1 DEF LoopTypes
    <2>3. OneUnderWay' /\ WireTypes' /\ AckTypes'
      BY <1>0, <2>1, StillUnderWay
    <2> QED BY <1>0, <2>1, <2>2, <2>3 DEF ScreenInv
  <1>2. CASE ~stopped
    <2>1. /\ acked' = FALSE /\ Screen!Send(<<image>>) /\ lastDigest' = image /\ loop' = "pause"
          /\ UNCHANGED <<desktop, image, unavailable, stopped, ackWire, page>>
      BY <1>2 DEF Screen!SendFrame, Screen!Goes
    <2>2. wire \in Seq(Contents \cup Screen!Status) /\ Len(wire) <= MaxWire
      BY <1>0 DEF WireTypes
    <2>3. ackWire = 0 /\ \A i \in DOMAIN wire : wire[i] \notin Contents
      BY <1>0 DEF OneUnderWay
    <2>4. WireTypes' /\ \A i \in DOMAIN wire' : wire'[i] \in Contents => i = Len(wire) + 1
      <3>1. CASE page.socket
        <4>1. wire' = Append(wire, image) /\ Len(wire) + 1 <= MaxWire
          <5>1. wire' = wire \o <<image>> /\ Len(wire) + Len(<<image>>) <= MaxWire
            BY <2>1, <3>1 DEF Screen!Send
          <5>2. Len(<<image>>) = 1 /\ wire \o <<image>> = Append(wire, image)
            BY <1>0, <2>2, AppendIsConcat
          <5> QED BY <5>1, <5>2
        <4>2. /\ Append(wire, image) \in Seq(Contents \cup Screen!Status)
              /\ Len(Append(wire, image)) = Len(wire) + 1
              /\ \A i \in 1 .. Len(wire) : Append(wire, image)[i] = wire[i]
          BY <1>0, <2>2, AppendProperties
        <4>3. WireTypes'
          BY <4>1, <4>2 DEF WireTypes
        <4>4. ASSUME NEW i \in DOMAIN wire', wire'[i] \in Contents PROVE i = Len(wire) + 1
          <5>1. i \in 1 .. Len(wire) + 1 /\ Len(wire) \in Nat /\ DOMAIN wire = 1 .. Len(wire)
            BY <2>2, <4>1, <4>2
          <5>2. i \in 1 .. Len(wire) => wire'[i] = wire[i] /\ i \in DOMAIN wire
            BY <4>1, <4>2, <5>1
          <5> QED BY <2>3, <4>4, <5>1, <5>2
        <4> QED BY <4>3, <4>4
      <3>2. CASE ~page.socket
        BY <2>1, <2>2, <2>3, <3>2 DEF Screen!Send, WireTypes
      <3> QED BY <3>1, <3>2
    <2>5. OneUnderWay'
      BY <2>1, <2>3, <2>4 DEF OneUnderWay
    <2>6. LoopTypes' /\ AckTypes'
      BY <1>0, <2>1, <2>3 DEF LoopTypes, AckTypes
    <2> QED BY <1>0, <2>1, <2>4, <2>5, <2>6 DEF ScreenInv
  <1> QED BY <1>1, <1>2

LEMMA PageKeeps ==
  ASSUME ScreenAssumption, ScreenInv, Screen!OnStatus \/ Screen!DrawFrame PROVE ScreenInv'
  <1>0. /\ LoopTypes /\ WireTypes /\ AckTypes /\ page \in Screen!Pages /\ OneUnderWay
        /\ (loop \in {"grab", "encode"} => acked) /\ (loop = "encode" => image \in Contents)
    BY DEF ScreenInv
  <1>1. /\ wire # <<>> /\ wire' = Tail(wire)
        /\ UNCHANGED <<desktop, loop, image, lastDigest, unavailable, acked, stopped>>
    BY DEF Screen!OnStatus, Screen!DrawFrame, Screen!server
  <1>2. /\ WireTypes' /\ Head(wire) = wire[1] /\ 1 \in DOMAIN wire
        /\ \A i \in DOMAIN wire' : i \in Nat /\ i + 1 \in DOMAIN wire /\ i + 1 # 1
                                   /\ wire'[i] = wire[i + 1]
    BY <1>0, <1>1, WireMoves
  <1>3. LoopTypes'
    BY <1>0, <1>1 DEF LoopTypes
  <1>4. CASE Screen!OnStatus
    <2>1. Head(wire) \in Screen!Status /\ ackWire' = ackWire
      BY <1>4 DEF Screen!OnStatus
    <2>2. page' \in Screen!Pages
      <3>1. CASE Head(wire) = "unavailable"
        <4>1. page' = [page EXCEPT !.shows = IF page.frame # Screen!None THEN "stale" ELSE "error"]
          BY <1>4, <3>1 DEF Screen!OnStatus
        <4> QED BY <1>0, <4>1 DEF Screen!Pages
      <3>2. CASE Head(wire) = "live"
        <4>1. page' = [page EXCEPT !.shows = IF page.frame = Screen!None THEN "loading" ELSE page.shows]
          BY <1>4, <3>2 DEF Screen!OnStatus
        <4> QED BY <1>0, <4>1 DEF Screen!Pages
      <3> QED BY <2>1, <3>1, <3>2 DEF Screen!Status
    <2>3. OneUnderWay'
      <3>1. \A i, j \in DOMAIN wire' : wire'[i] \in Contents /\ wire'[j] \in Contents => i + 1 = j + 1
        BY <1>0, <1>2 DEF OneUnderWay
      <3>2. \A i, j \in DOMAIN wire' : i + 1 = j + 1 => i = j
        BY <1>2
      <3>3. (\E i \in DOMAIN wire' : wire'[i] \in Contents) => \E i \in DOMAIN wire : wire[i] \in Contents
        BY <1>2
      <3> QED BY <1>0, <1>1, <2>1, <3>1, <3>2, <3>3 DEF OneUnderWay
    <2> QED BY <1>0, <1>1, <1>2, <1>3, <2>1, <2>2, <2>3 DEF ScreenInv, AckTypes
  <1>5. CASE Screen!DrawFrame
    <2>1. /\ Head(wire) \in Contents /\ ackWire' = ackWire + 1
          /\ page' = [page EXCEPT !.frame = Head(wire), !.shows = "ready"]
      BY <1>5 DEF Screen!DrawFrame
    <2>2. page' \in Screen!Pages
      BY <1>0, <2>1 DEF Screen!Pages
    <2>3. ackWire = 0 /\ ~acked
      BY <1>0, <1>2, <2>1 DEF OneUnderWay
    <2>4. \A i \in DOMAIN wire' : wire'[i] \notin Contents
      BY <1>0, <1>2, <2>1 DEF OneUnderWay
    <2>5. OneUnderWay'
      BY <1>1, <2>3, <2>4 DEF OneUnderWay
    <2> QED BY <1>0, <1>1, <1>2, <1>3, <2>1, <2>2, <2>3, <2>5 DEF ScreenInv, AckTypes
  <1> QED BY <1>4, <1>5

LEMMA SocketKeeps ==
  ASSUME ScreenAssumption, ScreenInv, Screen!Hide \/ Screen!Show \/ Screen!Connected PROVE ScreenInv'
  <1>0. /\ LoopTypes /\ WireTypes /\ AckTypes /\ page \in Screen!Pages /\ OneUnderWay
        /\ (loop \in {"grab", "encode"} => acked) /\ (loop = "encode" => image \in Contents)
    BY DEF ScreenInv
  <1>1. CASE Screen!Hide
    <2>1. /\ page' = [page EXCEPT !.visible = FALSE, !.socket = FALSE] /\ Screen!CloseSocket
          /\ UNCHANGED <<desktop, loop, image, lastDigest, unavailable, acked, stopped>>
      BY <1>1 DEF Screen!Hide, Screen!server
    <2>2. page' \in Screen!Pages
      BY <1>0, <2>1 DEF Screen!Pages
    <2>3. LoopTypes'
      BY <1>0, <2>1 DEF LoopTypes
    <2>4. OneUnderWay' /\ WireTypes' /\ AckTypes'
      BY <2>1, Emptied
    <2> QED BY <1>0, <2>1, <2>2, <2>3, <2>4 DEF ScreenInv
  <1>2. CASE Screen!Show
    <2>1. /\ page' = [page EXCEPT !.visible = TRUE, !.opening = IF page.socket THEN @ ELSE @ + 1]
          /\ page.socket \/ page.opening < MaxConnecting
          /\ UNCHANGED <<desktop, loop, image, lastDigest, unavailable, acked, stopped, wire, ackWire>>
      BY <1>2 DEF Screen!Show, Screen!server
    <2>2. page.opening \in 0 .. MaxConnecting
      BY <1>0 DEF Screen!Pages
    <2>3. (IF page.socket THEN page.opening ELSE page.opening + 1) \in 0 .. MaxConnecting
      BY <2>1, <2>2 DEF ScreenAssumption
    <2>4. page' \in Screen!Pages
      BY <1>0, <2>1, <2>3 DEF Screen!Pages
    <2>5. LoopTypes'
      BY <1>0, <2>1 DEF LoopTypes
    <2>6. OneUnderWay' /\ WireTypes' /\ AckTypes'
      BY <1>0, <2>1, StillUnderWay
    <2> QED BY <1>0, <2>1, <2>4, <2>5, <2>6 DEF ScreenInv
  <1>3. CASE Screen!Connected
    <2>1. /\ page' = [page EXCEPT !.opening = @ - 1, !.socket = TRUE] /\ page.opening > 0
          /\ Screen!CloseSocket /\ loop' = "await ack" /\ image' = Screen!None
          /\ lastDigest' = Screen!None /\ unavailable' = FALSE /\ acked' = TRUE /\ stopped' = FALSE
          /\ desktop' = desktop
      BY <1>3 DEF Screen!Connected
    <2>2. page.opening - 1 \in 0 .. MaxConnecting
      <3>1. page.opening \in 0 .. MaxConnecting
        BY <1>0 DEF Screen!Pages
      <3>2. MaxConnecting \in Nat
        BY DEF ScreenAssumption
      <3>3. page.opening > 0
        BY <2>1
      <3> QED BY <3>1, <3>2, <3>3
    <2>3. page' \in Screen!Pages
      BY <1>0, <2>1, <2>2 DEF Screen!Pages
    <2>4. LoopTypes'
      BY <1>0, <2>1 DEF LoopTypes
    <2>5. OneUnderWay' /\ WireTypes' /\ AckTypes'
      BY <2>1, Emptied
    <2> QED BY <2>1, <2>3, <2>4, <2>5 DEF ScreenInv
  <1> QED BY <1>1, <1>2, <1>3

LEMMA ScreenStep ==
  ASSUME ScreenAssumption, ScreenInv, [Screen!Next]_(Screen!vars)
  PROVE  ScreenInv'
  <1>1. CASE UNCHANGED Screen!vars
    <2>1. UNCHANGED <<desktop, loop, image, lastDigest, unavailable, acked, stopped, wire, ackWire, page>>
      BY <1>1 DEF Screen!vars
    <2>2. LoopTypes' /\ page' \in Screen!Pages
      BY <2>1 DEF ScreenInv, LoopTypes
    <2>3. OneUnderWay' /\ WireTypes' /\ AckTypes'
      BY <2>1, StillUnderWay DEF ScreenInv
    <2> QED BY <2>1, <2>2, <2>3 DEF ScreenInv
  <1> QED BY <1>1, StreamKeeps, FrameKeeps, PageKeeps, SocketKeeps DEF Screen!Next

\* However the desktop changes and is locked, and the page hides, comes back and opens sockets
\* over each other: of the frames sent over a socket at most one is not acked yet
\* (stream_frames waits for the ack of _read_acks), whatever the socket holds.
THEOREM OneFrameAlways ==
  ASSUME ScreenAssumption
  PROVE  Screen!Spec => [](Screen!TypeOK /\ OneUnderWay)
  <1>1. ASSUME Screen!Init PROVE ScreenInv
    <2>1. <<>> \in Seq(Contents \cup Screen!Status) /\ Len(<<>>) = 0 /\ DOMAIN <<>> = {}
      OBVIOUS
    <2>2. /\ desktop \in Contents /\ loop = "done" /\ image = Screen!None /\ lastDigest = Screen!None
          /\ unavailable = FALSE /\ acked = FALSE /\ stopped = TRUE /\ wire = <<>> /\ ackWire = 0
          /\ page = [visible |-> TRUE, socket |-> FALSE, opening |-> 1, frame |-> Screen!None,
                     shows |-> "loading"]
      BY <1>1 DEF Screen!Init
    <2>3. LoopTypes /\ AckTypes
      <3>1. AckTypes
        BY <2>2 DEF AckTypes
      <3>2. LoopTypes
        BY <2>2 DEF LoopTypes
      <3> QED BY <3>1, <3>2
    <2>4. WireTypes
      BY <2>1, <2>2 DEF WireTypes, ScreenAssumption
    <2>5. OneUnderWay
      BY <2>1, <2>2 DEF OneUnderWay
    <2>6. page \in Screen!Pages
      <3>1. 1 \in 0 .. MaxConnecting
        BY DEF ScreenAssumption
      <3> QED BY <2>2, <3>1 DEF Screen!Pages
    <2> QED BY <2>2, <2>3, <2>4, <2>5, <2>6 DEF ScreenInv
  <1>2. ScreenInv => Screen!TypeOK /\ OneUnderWay
    BY DEF ScreenInv, LoopTypes, WireTypes, AckTypes, Screen!TypeOK
  <1> QED BY <1>1, <1>2, ScreenStep, PTL DEF Screen!Spec
=============================================================================
