---------------------------- MODULE CameraProofs ----------------------------
(***************************************************************************)
(* What the mouse and the camera guarantee for every set of buttons, every *)
(* kind of packets and every length of frames and of the limit of a double *)
(* click.                                                                  *)
(*                                                                         *)
(* None of the properties is inductive as it stands.  The buttons need     *)
(* that what is held from the update before is still down, and that nothing*)
(* is down while the mouse sleeps.  The double clicks need the meaning of  *)
(* the countdown: what is left of the limit since the last press.  The yaw *)
(* needs what holds within an update, while messages are being read: it is *)
(* behind by the movement that has been gathered, which is what the packets*)
(* of the update have moved less what an absolute one of them has dropped. *)
(***************************************************************************)
EXTENDS Camera, TLAPS

-----------------------------------------------------------------------------
(* The circle.                                                              *)

\* The remainder, also of a negative number, lies in the circle.
LEMMA RemainderBounds ==
  ASSUME NEW a \in Int, NEW n \in Nat \ {0}
  PROVE  \E q \in Int : a = n * q + (a % n) /\ (a % n) \in 0 .. n - 1
<1>1. a \div n \in Int /\ a = n * (a \div n) + (a % n) /\ (a % n) \in 0 .. n - 1
  OBVIOUS
<1> QED
  BY <1>1

LEMMA MultiplesApart ==
  ASSUME NEW n \in Nat \ {0}, NEW q \in Int, NEW r \in Int, q < r
  PROVE  n * q + n <= n * r
<1>1. r - q - 1 \in Nat
  OBVIOUS
<1>2. n * (r - q - 1) >= 0
  BY <1>1
<1>3. n * (r - q - 1) = n * r - n * q - n
  OBVIOUS
<1> QED
  BY <1>2, <1>3

LEMMA RemainderUnique ==
  ASSUME NEW a \in Int, NEW n \in Nat \ {0}, NEW q \in Int, NEW r \in 0 .. n - 1, a = n * q + r
  PROVE  a % n = r
<1>1. PICK p \in Int : a = n * p + (a % n) /\ (a % n) \in 0 .. n - 1
  BY RemainderBounds
<1>2. n * p \in Int /\ n * q \in Int
  OBVIOUS
<1>3. ~(p < q) /\ ~(q < p)
  BY <1>1, <1>2, MultiplesApart
<1>4. p = q
  BY <1>3
<1> QED
  BY <1>1, <1>2, <1>4

\* Turning by d from where a looks is turning from a.
LEMMA TurnedRemainder ==
  ASSUME NEW a \in Int, NEW d \in Int, NEW n \in Nat \ {0}
  PROVE  ((a % n) - d) % n = (a - d) % n
<1>1. PICK p \in Int : a = n * p + (a % n) /\ (a % n) \in 0 .. n - 1
  BY RemainderBounds
<1> DEFINE c == (a % n) - d
<1>2. c \in Int
  BY <1>1
<1>3. PICK q \in Int : c = n * q + (c % n) /\ (c % n) \in 0 .. n - 1
  BY <1>2, RemainderBounds
<1>4. n * (p + q) = n * p + n * q /\ p + q \in Int /\ n * p \in Int /\ n * q \in Int
  OBVIOUS
<1>5. a - d = n * (p + q) + (c % n) /\ a - d \in Int
  <2>1. a - d = n * p + c
    BY <1>1, <1>4
  <2> HIDE DEF c
  <2> QED
    BY <1>2, <1>3, <1>4, <2>1
<1>6. (a - d) % n = c % n
  <2> HIDE DEF c
  <2> QED
    BY <1>3, <1>4, <1>5, RemainderUnique
<1> QED
  BY <1>6

\* The remainder of a sum is that of the sum of the remainders.
LEMMA RemainderOfSum ==
  ASSUME NEW a \in Int, NEW b \in Int, NEW n \in Nat \ {0}
  PROVE  ((a % n) + (b % n)) % n = (a + b) % n
<1>1. a % n \in Int /\ b % n \in Int
  BY RemainderBounds
<1> DEFINE r == a % n
           t == b % n
<1>2. \A e \in Int : (r - e) % n = (a - e) % n
  BY TurnedRemainder
<1>3. \A e \in Int : (t - e) % n = (b - e) % n
  BY TurnedRemainder
<1> HIDE DEF r, t
<1>4. r \in Int /\ t \in Int
  BY <1>1 DEF r, t
<1>5. \E e \in Int : r - e = r + t /\ a - e = t + a
  <2>1. -t \in Int /\ r - (-t) = r + t /\ a - (-t) = t + a
    BY <1>4
  <2> QED
    BY <2>1
<1>6. \E e \in Int : t - e = t + a /\ b - e = a + b
  <2>1. -a \in Int /\ t - (-a) = t + a /\ b - (-a) = a + b
    BY <1>4
  <2> QED
    BY <2>1
<1>7. (r + t) % n = (t + a) % n
  BY <1>2, <1>5
<1>8. (t + a) % n = (a + b) % n
  BY <1>3, <1>6
<1> QED
  BY <1>7, <1>8 DEF r, t

\* A whole turn changes nothing.
LEMMA WholeTurn ==
  ASSUME NEW a \in Int, NEW n \in Nat \ {0}
  PROVE  (a + n) % n = a % n /\ (a - n) % n = a % n
<1>1. PICK p \in Int : a = n * p + (a % n) /\ (a % n) \in 0 .. n - 1
  BY RemainderBounds
<1>2. /\ n * (p + 1) = n * p + n /\ n * (p - 1) = n * p - n
      /\ n * p \in Int /\ p + 1 \in Int /\ p - 1 \in Int
  OBVIOUS
<1>3. /\ a + n = n * (p + 1) + (a % n) /\ a + n \in Int
      /\ a - n = n * (p - 1) + (a % n) /\ a - n \in Int
  BY <1>1, <1>2
<1> QED
  BY <1>1, <1>2, <1>3, RemainderUnique

\* WrappedYaw keeps where the camera looks.
LEMMA WrapKeepsHeading ==
  ASSUME NEW y \in Int
  PROVE  WrappedYaw(y) \in Int /\ WrappedYaw(y) % Turn = y % Turn
<1>1. Turn \in Nat \ {0}
  BY CameraAssumption
<1>2. (y + Turn) % Turn = y % Turn /\ (y - Turn) % Turn = y % Turn
  BY <1>1, WholeTurn
<1>3. WrappedYaw(y) \in {y, y + Turn, y - Turn}
  BY DEF WrappedYaw
<1> QED
  BY <1>1, <1>2, <1>3

-----------------------------------------------------------------------------
(* The mouse.                                                               *)

\* What is left of the limit since the last press of b.
Countdown(b) ==
  /\ lastClickTime[b] = IF clicks[b].last < ClickLimit THEN ClickLimit - clicks[b].last ELSE 0
  /\ b \in doubleClicks <=>
       /\ clicks[b].last < ClickLimit
       /\ clicks[b].previous - clicks[b].last < ClickLimit

MouseInv ==
  /\ TypeOK
  /\ PressedWhenItWentDown
  /\ holdButtons \subseteq buttons
  /\ ~isAwake => buttons = {}
  /\ \A b \in Button : Countdown(b)
  /\ relativePosition = moved - dropped

LEMMA InvMouse == MouseInv => PressedWhenItWentDown /\ DoubleClickInTime
BY DEF MouseInv, Countdown, DoubleClickInTime

LEMMA MouseInit == Init => MouseInv
<1> SUFFICES ASSUME Init PROVE MouseInv
  OBVIOUS
<1>1. ClickLimit \in Nat \ {0} /\ MaxPackets \in Nat \ {0}
  BY MouseAssumption
<1>2. LongAgo \in [last : Age, previous : Age]
  BY <1>1 DEF LongAgo, Age
<1>3. TypeOK
  <2>1. {buttons, holdButtons, doubleClicks, held, wentDown} \subseteq SUBSET Button
    BY DEF Init
  <2>2. lastClickTime \in [Button -> 0 .. ClickLimit]
    BY <1>1 DEF Init
  <2>3. clicks \in [Button -> [last : Age, previous : Age]]
    BY <1>2 DEF Init
  <2>4. /\ relativePosition \in Int /\ absolutePosition \in Int
        /\ moved \in Int /\ dropped \in Int
        /\ frameWheel \in -1 .. 1 /\ packets \in 0 .. MaxPackets
    <3>1. /\ relativePosition = 0 /\ absolutePosition = 0 /\ moved = 0 /\ dropped = 0
          /\ frameWheel = 0 /\ packets = 0
      BY DEF Init
    <3> QED
      BY <1>1, <3>1
  <2>5. setAbsolute \in BOOLEAN /\ isAwake \in BOOLEAN
    BY DEF Init
  <2> QED
    BY <2>1, <2>2, <2>3, <2>4, <2>5 DEF TypeOK
<1>4. \A b \in Button : Countdown(b)
  BY <1>1 DEF Init, Countdown, LongAgo
<1> QED
  BY <1>3, <1>4 DEF Init, MouseInv, PressedWhenItWentDown

\* Time goes by.
LEMMA OlderFacts ==
  ASSUME NEW a \in Age, NEW m \in Nat \ {0}
  PROVE  /\ Older(a, m) \in Age /\ a \in Nat
         /\ Older(a, m) < ClickLimit => Older(a, m) = a + m
         /\ a + m < ClickLimit => Older(a, m) = a + m
         /\ Older(a, m) = a + m \/ (Older(a, m) = 2 * ClickLimit /\ a + m > 2 * ClickLimit)
<1>1. ClickLimit \in Nat \ {0}
  BY MouseAssumption
<1> QED
  BY <1>1 DEF Older, Age

LEMMA UpdateFrameStateKeepsMouse ==
  ASSUME MouseInv, NEW msec \in Durations, NEW cursor \in Int, UpdateFrameState(msec, cursor)
  PROVE  MouseInv'
<1> USE DEF MouseInv
<1>1. ClickLimit \in Nat \ {0} /\ MaxPackets \in Nat \ {0} /\ msec \in Nat \ {0}
  BY MouseAssumption
<1>2. ASSUME NEW b \in Button
      PROVE  /\ clicks[b] \in [last : Age, previous : Age]
             /\ clicks[b].last \in Age /\ clicks[b].previous \in Age
             /\ lastClickTime[b] \in 0 .. ClickLimit
             /\ clicks'[b] = [last |-> Older(clicks[b].last, msec),
                              previous |-> Older(clicks[b].previous, msec)]
             /\ lastClickTime'[b] = CountedDown(lastClickTime[b], msec)
  BY DEF TypeOK, UpdateFrameState
<1>3. ASSUME NEW b \in Button
      PROVE  /\ clicks'[b] \in [last : Age, previous : Age]
             /\ lastClickTime'[b] \in 0 .. ClickLimit
  <2> DEFINE l == clicks[b].last
             p == clicks[b].previous
  <2>1. l \in Age /\ p \in Age
    BY <1>2
  <2> HIDE DEF l, p
  <2>2. Older(l, msec) \in Age /\ Older(p, msec) \in Age
    BY <1>1, <2>1, OlderFacts
  <2>3. clicks'[b] = [last |-> Older(l, msec), previous |-> Older(p, msec)]
    BY <1>2 DEF l, p
  <2>4. clicks'[b] \in [last : Age, previous : Age]
    BY <2>2, <2>3
  <2>5. lastClickTime'[b] \in 0 .. ClickLimit
    <3> DEFINE c == lastClickTime[b]
    <3>1. c \in 0 .. ClickLimit /\ lastClickTime'[b] = CountedDown(c, msec)
      BY <1>2
    <3> HIDE DEF c
    <3> QED
      BY <1>1, <3>1 DEF CountedDown
  <2> QED
    BY <2>4, <2>5
<1>4. clicks' \in [Button -> [last : Age, previous : Age]]
  BY <1>3 DEF UpdateFrameState
<1>5. lastClickTime' \in [Button -> 0 .. ClickLimit]
  BY <1>3 DEF UpdateFrameState
<1>6. TypeOK'
  BY <1>1, <1>4, <1>5 DEF TypeOK, UpdateFrameState
<1>7. ASSUME NEW b \in Button
      PROVE  Countdown(b)'
  <2> DEFINE l == clicks[b].last
             p == clicks[b].previous
             c == lastClickTime[b]
             ll == Older(l, msec)
             pp == Older(p, msec)
  <2>1. /\ c = IF l < ClickLimit THEN ClickLimit - l ELSE 0
        /\ b \in doubleClicks <=> l < ClickLimit /\ p - l < ClickLimit
    BY DEF Countdown
  <2>2. /\ clicks'[b].last = ll /\ clicks'[b].previous = pp
        /\ lastClickTime'[b] = CountedDown(c, msec)
    <3>1. clicks'[b] = [last |-> ll, previous |-> pp] /\ lastClickTime'[b] = CountedDown(c, msec)
      BY <1>2
    <3> HIDE DEF ll, pp, c
    <3> QED
      BY <3>1
  <2>3. b \in doubleClicks' <=> b \in doubleClicks /\ ~(c > 0 /\ c <= msec)
    BY DEF UpdateFrameState, Expired
  <2>4. l \in Age /\ p \in Age
    BY <1>2
  <2> HIDE DEF l, p, c
  <2>5. /\ ll \in Age /\ l \in Nat /\ pp \in Age /\ p \in Nat
        /\ ll < ClickLimit => ll = l + msec
        /\ l + msec < ClickLimit => ll = l + msec
        /\ pp = p + msec \/ (pp = 2 * ClickLimit /\ p + msec > 2 * ClickLimit)
    BY <1>1, <2>4, OlderFacts
  <2> HIDE DEF ll, pp
  <2>6. CountedDown(c, msec) = IF ll < ClickLimit THEN ClickLimit - ll ELSE 0
    BY <1>1, <2>1, <2>5 DEF CountedDown, Age
  <2>7. b \in doubleClicks' <=> ll < ClickLimit /\ pp - ll < ClickLimit
    BY <1>1, <2>1, <2>3, <2>5 DEF Age
  <2> QED
    BY <2>2, <2>6, <2>7 DEF Countdown
<1>8. PressedWhenItWentDown' /\ holdButtons' \subseteq buttons'
      /\ relativePosition' = moved' - dropped'
  BY DEF PressedWhenItWentDown, ButtonPressed, UpdateFrameState
<1>9. ~isAwake' => buttons' = {}
  BY DEF UpdateFrameState
<1> QED
  BY <1>6, <1>7, <1>8, <1>9

\* Steps that concern no button.
LEMMA ButtonsUntouched ==
  ASSUME MouseInv, UNCHANGED <<buttonVars, held, wentDown, clicks>>,
         isAwake' = isAwake \/ isAwake' = TRUE
  PROVE  /\ PressedWhenItWentDown' /\ holdButtons' \subseteq buttons'
         /\ ~isAwake' => buttons' = {}
         /\ \A b \in Button : Countdown(b)'
BY DEF MouseInv, PressedWhenItWentDown, ButtonPressed, Countdown, buttonVars

LEMMA MovesKeepsMouse ==
  ASSUME MouseInv, NEW m \in Motions, NEW w \in Wheel, Moves(m, w)
  PROVE  MouseInv'
<1> USE DEF MouseInv
<1>1. /\ m \in [absolute : BOOLEAN, by : Int] /\ m.by \in Int /\ Bound \in Nat
      /\ MaxPackets \in Nat \ {0}
  BY MouseAssumption
<1>2. UNCHANGED <<buttonVars, isAwake, held, wentDown, clicks>>
  BY DEF Moves
<1>3. /\ relativePosition' \in Int /\ absolutePosition' \in Int
      /\ moved' \in Int /\ dropped' \in Int
      /\ setAbsolute' \in BOOLEAN /\ frameWheel' \in -1 .. 1
      /\ relativePosition' = moved' - dropped'
  <2>1. /\ relativePosition \in Int /\ absolutePosition \in Int
        /\ moved \in Int /\ dropped \in Int
        /\ setAbsolute \in BOOLEAN /\ frameWheel \in -1 .. 1
        /\ relativePosition = moved - dropped
    BY DEF TypeOK
  <2>2. CASE ~isAwake
    BY <2>1, <2>2 DEF Moves, motionVars
  <2>3. CASE isAwake /\ m.absolute
    BY <1>1, <2>1, <2>3 DEF Moves, WheelAfter
  <2>4. CASE isAwake /\ ~m.absolute
    BY <1>1, <2>1, <2>4 DEF Moves, WheelAfter, RelativeAfter, Clamped
  <2> QED
    BY <2>2, <2>3, <2>4
<1>4. packets' \in 0 .. MaxPackets
  BY <1>1 DEF Moves, Packet, TypeOK
<1>5. TypeOK'
  BY <1>2, <1>3, <1>4 DEF TypeOK, buttonVars
<1> QED
  BY <1>2, <1>3, <1>5, ButtonsUntouched

LEMMA PressKeepsMouse ==
  ASSUME MouseInv, NEW b \in Button, Press(b)
  PROVE  MouseInv'
<1> USE DEF MouseInv
<1>1. /\ ClickLimit \in Nat \ {0} /\ MaxPackets \in Nat \ {0} /\ packets' \in 0 .. MaxPackets
  BY MouseAssumption DEF Press, Packet, TypeOK
<1>2. /\ b \notin held /\ b \notin buttons /\ b \notin holdButtons /\ held' = held \cup {b}
      /\ UNCHANGED <<motionVars, isAwake, moved, dropped>>
  BY DEF Press, PressedWhenItWentDown
<1>3. CASE ~isAwake
  <2>1. UNCHANGED <<buttonVars, wentDown, clicks>> /\ buttons = {}
    BY <1>3 DEF Press
  <2>2. TypeOK'
    BY <1>1, <1>2, <2>1 DEF TypeOK, buttonVars, motionVars
  <2>3. \A c \in Button : Countdown(c)'
    BY <2>1 DEF Countdown, buttonVars
  <2> QED
    BY <1>2, <2>1, <2>2, <2>3 DEF PressedWhenItWentDown, buttonVars, motionVars
<1>4. CASE isAwake
  <2>1. /\ buttons' = buttons \cup {b} /\ wentDown' = wentDown \cup {b}
        /\ holdButtons' = holdButtons
        /\ doubleClicks' = IF lastClickTime[b] > 0 THEN doubleClicks \cup {b} ELSE doubleClicks
        /\ lastClickTime' = [lastClickTime EXCEPT ![b] = ClickLimit]
        /\ clicks' = [clicks EXCEPT ![b] = [last |-> 0, previous |-> clicks[b].last]]
    BY <1>4 DEF Press
  <2>2. /\ clicks \in [Button -> [last : Age, previous : Age]]
        /\ lastClickTime \in [Button -> 0 .. ClickLimit]
    BY DEF TypeOK
  <2>3. /\ clicks[b].last \in Age /\ 0 \in Age /\ ClickLimit \in 0 .. ClickLimit
        /\ lastClickTime[b] \in 0 .. ClickLimit
    BY <1>1, <2>2 DEF Age
  <2>4. /\ clicks' \in [Button -> [last : Age, previous : Age]]
        /\ lastClickTime' \in [Button -> 0 .. ClickLimit]
    BY <2>1, <2>2, <2>3
  <2>5. TypeOK'
    BY <1>1, <1>2, <2>1, <2>4 DEF TypeOK, motionVars
  <2>6. PressedWhenItWentDown'
    BY <1>2, <2>1 DEF PressedWhenItWentDown, ButtonPressed
  <2>7. ASSUME NEW c \in Button
        PROVE  Countdown(c)'
    <3>1. CASE c = b
      <4>1. clicks'[b].last = 0 /\ clicks'[b].previous = clicks[b].last
            /\ lastClickTime'[b] = ClickLimit
        BY <2>1, <2>2
      <4>2. /\ lastClickTime[b] > 0 <=> clicks[b].last < ClickLimit
            /\ b \in doubleClicks => clicks[b].last < ClickLimit
        BY <1>1, <2>3 DEF Countdown, Age
      <4>3. b \in doubleClicks' <=> clicks[b].last < ClickLimit
        BY <2>1, <4>2
      <4> QED
        BY <1>1, <2>3, <3>1, <4>1, <4>3 DEF Countdown, Age
    <3>2. CASE c # b
      <4>1. clicks'[c] = clicks[c] /\ lastClickTime'[c] = lastClickTime[c]
            /\ (c \in doubleClicks' <=> c \in doubleClicks)
        BY <2>1, <2>2, <3>2
      <4> QED
        BY <4>1 DEF Countdown
    <3> QED
      BY <3>1, <3>2
  <2> QED
    BY <1>2, <1>4, <2>1, <2>5, <2>6, <2>7 DEF motionVars
<1> QED
  BY <1>3, <1>4

LEMMA ReleaseKeepsMouse ==
  ASSUME MouseInv, NEW b \in Button, Release(b)
  PROVE  MouseInv'
<1> USE DEF MouseInv
<1>1. packets' \in 0 .. MaxPackets
  BY MouseAssumption DEF Release, Packet, TypeOK
<1>2. /\ held' = held \ {b}
      /\ UNCHANGED <<doubleClicks, lastClickTime, motionVars, isAwake, clicks, moved, dropped>>
      /\ IF ~isAwake THEN UNCHANGED <<buttons, holdButtons, wentDown>>
         ELSE /\ buttons' = buttons \ {b} /\ holdButtons' = holdButtons \ {b}
              /\ wentDown' = wentDown \ {b}
  BY DEF Release, HoldAfterRelease
<1>3. TypeOK'
  BY <1>1, <1>2 DEF TypeOK, motionVars
<1>4. \A c \in Button : Countdown(c)'
  BY <1>2 DEF Countdown
<1>5. PressedWhenItWentDown' /\ holdButtons' \subseteq buttons' /\ (~isAwake' => buttons' = {})
  BY <1>2 DEF PressedWhenItWentDown, ButtonPressed
<1> QED
  BY <1>2, <1>3, <1>4, <1>5 DEF motionVars

LEMMA SleepKeepsMouse ==
  ASSUME MouseInv, Sleep
  PROVE  MouseInv'
<1> USE DEF MouseInv
<1>1. ClickLimit \in Nat \ {0}
  BY MouseAssumption
<1>2. LongAgo \in [last : Age, previous : Age] /\ 0 \in 0 .. ClickLimit
  BY <1>1 DEF LongAgo, Age
<1>3. TypeOK'
  <2>1. {buttons', holdButtons', doubleClicks', held', wentDown'} \subseteq SUBSET Button
    BY DEF TypeOK, Sleep
  <2>2. lastClickTime' \in [Button -> 0 .. ClickLimit]
    BY <1>2 DEF Sleep
  <2>3. clicks' \in [Button -> [last : Age, previous : Age]]
    BY <1>2 DEF Sleep
  <2>4. /\ relativePosition' \in Int /\ absolutePosition' \in Int
        /\ moved' \in Int /\ dropped' \in Int
        /\ frameWheel' \in -1 .. 1 /\ packets' \in 0 .. MaxPackets
    BY DEF TypeOK, Sleep
  <2>5. setAbsolute' \in BOOLEAN /\ isAwake' \in BOOLEAN
    BY DEF TypeOK, Sleep
  <2> QED
    BY <2>1, <2>2, <2>3, <2>4, <2>5 DEF TypeOK
<1>4. \A b \in Button : Countdown(b)'
  BY <1>1 DEF Sleep, Countdown, LongAgo
<1> QED
  BY <1>3, <1>4 DEF Sleep, PressedWhenItWentDown

LEMMA MessageKeepsMouse ==
  ASSUME MouseInv, Message
  PROVE  MouseInv'
<1>1. CASE Wake
  <2>1. TypeOK'
    <3>1. /\ UNCHANGED <<buttons, holdButtons, doubleClicks, lastClickTime>>
          /\ UNCHANGED <<relativePosition, absolutePosition, setAbsolute, frameWheel>>
          /\ UNCHANGED <<held, packets, wentDown, clicks, moved, dropped>> /\ isAwake' \in BOOLEAN
      BY <1>1 DEF Wake, buttonVars, motionVars, ghosts
    <3>2. {buttons', holdButtons', doubleClicks', held', wentDown'} \subseteq SUBSET Button
      BY <3>1 DEF MouseInv, TypeOK
    <3>3. /\ relativePosition' \in Int /\ absolutePosition' \in Int
          /\ moved' \in Int /\ dropped' \in Int
          /\ setAbsolute' \in BOOLEAN /\ frameWheel' \in -1 .. 1 /\ packets' \in 0 .. MaxPackets
      BY <3>1 DEF MouseInv, TypeOK
    <3>4. /\ lastClickTime' \in [Button -> 0 .. ClickLimit]
          /\ clicks' \in [Button -> [last : Age, previous : Age]]
      BY <3>1 DEF MouseInv, TypeOK
    <3> QED
      BY <3>1, <3>2, <3>3, <3>4 DEF TypeOK
  <2> QED
    BY <1>1, <2>1, ButtonsUntouched DEF MouseInv, Wake, motionVars, ghosts
<1> QED
  BY <1>1, MovesKeepsMouse, PressKeepsMouse, ReleaseKeepsMouse, SleepKeepsMouse DEF Message

-----------------------------------------------------------------------------
(* The camera.                                                              *)

\* Within an update of the simulation the yaw is behind the heading by what the mouse
\* has gathered; and no frame of the menu, nor the vertical axis, turns it.
YawInv ==
  /\ (heading + lost) % Turn = IF ~updated /\ phase = "sim" /\ axis = "x"
                               THEN (yaw - relativePosition) % Turn ELSE yaw % Turn
  /\ phase = "menu" \/ axis = "y" => yaw = StartYaw

CameraInv == CameraTypeOK /\ MouseInv /\ YawInv

LEMMA Circle ==
  /\ Turn \in Nat \ {0} /\ Quarter \in Nat \ {0} /\ MaxYaw \in Nat /\ Turn <= MaxYaw
  /\ StartYaw \in Int /\ StartYaw >= 0 /\ StartYaw <= Turn
  /\ StartPitch \in -Quarter .. Quarter
BY CameraAssumption

LEMMA InvYaw == CameraInv => YawTracks
BY DEF CameraInv, YawInv, YawTracks

LEMMA CameraInvInit == CameraInit => CameraInv
<1> SUFFICES ASSUME CameraInit PROVE CameraInv
  OBVIOUS
<1>1. MouseInv
  BY MouseInit DEF CameraInit
<1>2. yaw \in -MaxYaw .. MaxYaw /\ pitch \in -Quarter .. Quarter
  BY Circle DEF CameraInit
<1>3. /\ heading = StartYaw % Turn /\ heading \in 0 .. Turn - 1
      /\ lost = 0 /\ lost \in 0 .. Turn - 1
  <2>1. StartYaw \in Int /\ Turn \in Nat \ {0}
    BY Circle
  <2> QED
    BY <2>1, RemainderBounds DEF CameraInit
<1>4. YawInv
  <2>1. heading + lost = Turn * 0 + heading /\ heading + lost \in Int
    BY <1>3, Circle
  <2>2. (heading + lost) % Turn = StartYaw % Turn
    BY <1>3, <2>1, Circle, RemainderUnique
  <2> QED
    BY <2>2 DEF CameraInit, YawInv
<1>5. updated \in BOOLEAN /\ phase \in {"menu", "sim"} /\ axis \in {"x", "y"}
  BY DEF CameraInit
<1> QED
  BY <1>1, <1>2, <1>3, <1>4, <1>5 DEF CameraInv, CameraTypeOK, MouseInv

LEMMA BeginUpdateKeepsCamera ==
  ASSUME CameraInv, BeginUpdate
  PROVE  CameraInv'
<1> USE DEF CameraInv
<1>1. PICK msec \in Durations, cursor \in -1 .. Bound + 1 : UpdateFrameState(msec, cursor)
  BY DEF BeginUpdate
<1>2. cursor \in Int
  BY MouseAssumption
<1>3. MouseInv'
  BY <1>1, <1>2, UpdateFrameStateKeepsMouse
<1>4. /\ updated /\ updated' = FALSE /\ relativePosition' = 0
      /\ UNCHANGED <<phase, yaw, pitch, axis, heading, lost>>
  BY <1>1 DEF BeginUpdate, UpdateFrameState
<1>5. yaw - relativePosition' = yaw
  BY <1>4, Circle DEF CameraTypeOK
<1>6. YawInv'
  BY <1>4, <1>5 DEF YawInv
<1> QED
  BY <1>3, <1>4, <1>6 DEF CameraTypeOK, MouseInv

LEMMA HandleMessageKeepsCamera ==
  ASSUME CameraInv, HandleMessage
  PROVE  CameraInv'
<1> USE DEF CameraInv
<1>1. MouseInv'
  BY MessageKeepsMouse DEF HandleMessage
<1>2. /\ ~updated /\ UNCHANGED <<phase, updated, yaw, pitch, axis>>
      /\ IF phase = "sim" /\ axis = "x"
         THEN /\ heading' = (heading - (moved' - moved)) % Turn
              /\ lost' = (lost + (dropped' - dropped)) % Turn
         ELSE UNCHANGED <<heading, lost>>
  BY DEF HandleMessage
<1>3. /\ relativePosition = moved - dropped /\ relativePosition' = moved' - dropped'
      /\ moved \in Int /\ moved' \in Int /\ dropped \in Int /\ dropped' \in Int
      /\ yaw \in Int /\ Turn \in Nat \ {0}
      /\ heading \in 0 .. Turn - 1 /\ lost \in 0 .. Turn - 1
  BY <1>1, Circle DEF MouseInv, TypeOK, CameraTypeOK
<1>4. heading' \in 0 .. Turn - 1 /\ lost' \in 0 .. Turn - 1 /\ YawInv'
  <2>1. CASE phase = "sim" /\ axis = "x"
    <3> DEFINE a == heading - (moved' - moved)
               b == lost + (dropped' - dropped)
               c == yaw - relativePosition
               d == relativePosition' - relativePosition
               h == heading + lost
    <3>1. /\ a \in Int /\ b \in Int /\ c \in Int /\ d \in Int /\ h \in Int
          /\ a + b = h - d /\ c - d = yaw - relativePosition'
      BY <1>3
    <3>2. /\ heading' = a % Turn /\ lost' = b % Turn
          /\ h % Turn = c % Turn
      BY <1>2, <1>3, <2>1 DEF YawInv
    <3> HIDE DEF a, b, c, d, h
    <3>3. (heading' + lost') % Turn = (a + b) % Turn
      BY <1>3, <3>1, <3>2, RemainderOfSum
    <3>4. (h - d) % Turn = (c - d) % Turn
      <4>1. ((h % Turn) - d) % Turn = (h - d) % Turn /\ ((c % Turn) - d) % Turn = (c - d) % Turn
        BY <1>3, <3>1, TurnedRemainder
      <4> QED
        BY <3>2, <4>1
    <3>5. heading' \in 0 .. Turn - 1 /\ lost' \in 0 .. Turn - 1
      BY <1>3, <3>1, <3>2, RemainderBounds
    <3>6. (heading' + lost') % Turn = (yaw - relativePosition') % Turn
      BY <3>1, <3>3, <3>4
    <3> QED
      BY <1>2, <2>1, <3>5, <3>6 DEF YawInv
  <2>2. CASE ~(phase = "sim" /\ axis = "x")
    BY <1>2, <1>3, <2>2 DEF YawInv
  <2> QED
    BY <2>1, <2>2
<1> QED
  BY <1>1, <1>2, <1>4 DEF CameraTypeOK, MouseInv

LEMMA MenuFrameKeepsCamera ==
  ASSUME CameraInv, MenuFrame \/ UNCHANGED allVars
  PROVE  CameraInv'
<1> USE DEF CameraInv
<1>1. UNCHANGED vars /\ UNCHANGED <<yaw, pitch, axis, heading, lost>>
  BY DEF MenuFrame, allVars, cameraVars
<1>2. MouseInv'
  <2>1. TypeOK'
    BY <1>1 DEF MouseInv, TypeOK, vars, buttonVars, motionVars, ghosts, Age
  <2> QED
    BY <1>1, <2>1, ButtonsUntouched DEF MouseInv, vars, buttonVars, motionVars, ghosts
<1>3. YawInv'
  BY <1>1 DEF YawInv, MenuFrame, vars, motionVars, allVars, cameraVars
<1>4. phase' \in {"menu", "sim"} /\ updated' \in BOOLEAN
  BY DEF MenuFrame, CameraTypeOK, allVars, cameraVars
<1> QED
  BY <1>1, <1>2, <1>3, <1>4 DEF CameraTypeOK, MouseInv

LEMMA SimFrameKeepsCamera ==
  ASSUME CameraInv, SimFrame
  PROVE  CameraInv'
<1> USE DEF CameraInv
<1>1. UNCHANGED vars /\ UNCHANGED <<phase, axis, heading, lost>> /\ phase = "sim" /\ ~updated /\ updated'
  BY DEF SimFrame
<1>2. MouseInv'
  <2>1. TypeOK'
    BY <1>1 DEF MouseInv, TypeOK, vars, buttonVars, motionVars, ghosts, Age
  <2> QED
    BY <1>1, <2>1, ButtonsUntouched DEF MouseInv, vars, buttonVars, motionVars, ghosts
<1>3. yaw \in Int /\ pitch \in Int /\ relativePosition \in Int
  BY Circle DEF CameraTypeOK, MouseInv, TypeOK
<1>4. CASE axis = "x"
  <2>1. /\ yaw' = WrappedYaw(yaw - relativePosition) /\ pitch' = pitch
        /\ yaw' \in -MaxYaw .. MaxYaw
    BY <1>4 DEF SimFrame
  <2>2. yaw' % Turn = (heading + lost) % Turn
    BY <1>1, <1>3, <1>4, <2>1, WrapKeepsHeading DEF YawInv
  <2>3. YawInv'
    BY <1>1, <1>4, <2>2 DEF YawInv
  <2> QED
    BY <1>1, <1>2, <2>1, <2>3 DEF CameraTypeOK, MouseInv
<1>5. CASE axis # "x"
  <2>1. /\ pitch' = ClampedPitch(pitch - relativePosition) /\ yaw' = yaw
        /\ yaw' \in -MaxYaw .. MaxYaw
    BY <1>5 DEF SimFrame
  <2>2. pitch' \in -Quarter .. Quarter
    BY <1>3, <2>1, Circle DEF ClampedPitch
  <2>3. YawInv'
    BY <1>1, <1>5, <2>1 DEF YawInv
  <2> QED
    BY <1>1, <1>2, <2>1, <2>2, <2>3 DEF CameraTypeOK, MouseInv
<1> QED
  BY <1>4, <1>5

LEMMA CameraInvariant == CameraSpec => []CameraInv
<1>1. CameraInv /\ [CameraNext]_allVars => CameraInv'
  BY BeginUpdateKeepsCamera, HandleMessageKeepsCamera, MenuFrameKeepsCamera,
     SimFrameKeepsCamera DEF CameraNext
<1> QED
  BY <1>1, CameraInvInit, PTL DEF CameraSpec

-----------------------------------------------------------------------------
(* The theorems.                                                            *)

\* Every variable of mouse and camera keeps its type, among them the pitch, which
\* never goes beyond straight up or down (Camera.cpp:16-20), and the countdown of a
\* double click, which is never negative (Mouse.cpp:27-35).
THEOREM CameraTypes == CameraSpec => []CameraTypeOK
BY CameraInvariant, PTL DEF CameraInv

\* A button is pressed in exactly the update in which it went down last, and none is
\* down that the user does not hold (Mouse.cpp:38-46, Win32Mouse.cpp:84-106).
THEOREM PressedOnTime == CameraSpec => []PressedWhenItWentDown
<1>1. CameraInv => PressedWhenItWentDown
  BY InvMouse DEF CameraInv
<1> QED
  BY <1>1, CameraInvariant, PTL

\* A double click is shown exactly as long as the limit allows, for every limit and
\* all lengths of frames (Mouse.cpp:27-35, Win32Mouse.cpp:84-106).
THEOREM DoubleClicksInTime == CameraSpec => []DoubleClickInTime
<1>1. CameraInv => DoubleClickInTime
  BY InvMouse DEF CameraInv
<1> QED
  BY <1>1, CameraInvariant, PTL

\* After every frame the camera looks where the packets of the simulation's updates
\* have turned it, each counted once, but for what came in an update before its last
\* packet with an absolute position (Camera.cpp:16-27, Mouse.cpp:19-21,
\* Win32Mouse.cpp:31-42).
THEOREM CameraLooksWhereTurned == CameraSpec => []YawTracks
BY InvYaw, CameraInvariant, PTL

\* How far a frame brings the yaw back.
LEMMA WrapComesBack ==
  ASSUME NEW y \in Int, NEW d \in Int
  PROVE  LET driven == Excess(y) + Size(d)
         IN  Excess(WrappedYaw(y - d)) <= IF driven > Turn THEN driven - Turn ELSE 0
<1>1. Size(d) \in Int /\ Size(d) >= d /\ Size(d) >= -d
  BY DEF Size
<1> QED
  BY <1>1, Circle DEF Excess, WrappedYaw

\* However far a frame drives the yaw outside of its circle, each frame takes a whole
\* turn of it back (Camera.cpp:22-27).
THEOREM YawReturns == CameraSpec => YawComesBack
<1> DEFINE Back == LET driven == Excess(yaw) + Size(relativePosition)
                   IN  Excess(yaw') <= IF driven > Turn THEN driven - Turn ELSE 0
<1>1. ASSUME CameraInv, [CameraNext]_allVars, ~updated, updated'
      PROVE  Back
  <2>1. yaw \in Int /\ relativePosition \in Int
    BY <1>1, Circle DEF CameraInv, CameraTypeOK, MouseInv, TypeOK
  <2>2. (SimFrame /\ axis = "x") \/ (yaw' = yaw /\ yaw = StartYaw)
    <3>1. MenuFrame \/ SimFrame
      BY <1>1 DEF CameraNext, BeginUpdate, HandleMessage, allVars, cameraVars
    <3> QED
      BY <1>1, <3>1 DEF MenuFrame, SimFrame, CameraInv, YawInv, CameraTypeOK
  <2>3. CASE SimFrame /\ axis = "x"
    <3>1. yaw' = WrappedYaw(yaw - relativePosition)
      BY <2>3 DEF SimFrame
    <3> QED
      BY <2>1, <3>1, WrapComesBack
  <2>4. CASE yaw' = yaw /\ yaw = StartYaw
    <3>1. Excess(yaw') = 0 /\ Excess(yaw) = 0 /\ Size(relativePosition) \in Nat
      BY <2>1, <2>4, Circle DEF Excess, Size
    <3> QED
      BY <2>1, <3>1, Circle
  <2> QED
    BY <2>2, <2>3, <2>4
<1>2. CameraInv /\ [CameraNext]_allVars => [~updated /\ updated' => Back]_allVars
  BY <1>1
<1> QED
  BY <1>2, CameraInvariant, PTL DEF CameraSpec, YawComesBack
=============================================================================
