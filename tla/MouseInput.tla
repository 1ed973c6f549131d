----------------------------- MODULE MouseInput -----------------------------
(***************************************************************************)
(* The mouse: Mouse::UpdateFrameState at the start of an update, raw       *)
(* packets while messages are read (Win32Mouse::UpdateRAW), Sleep and Wake *)
(* by the window.  The two axes are treated alike: one is modelled.        *)
(***************************************************************************)
EXTENDS Integers, FiniteSets

CONSTANTS
  Button,      \* the buttons of the mouse
  ClickLimit,  \* Mouse::clickLimit, in units of time
  Durations,   \* how long a frame may take
  Bound,       \* absolutePositionBounds
  Motions,     \* what a packet may say: [absolute |-> BOOLEAN, by |-> Int]
  Wheel,       \* the wheel data of a packet, 0 for none; 120 is one notch up
  MaxPackets   \* bound on the packets during one update

ASSUME MouseAssumption ==
  /\ ClickLimit \in Nat \ {0} /\ Durations \subseteq Nat \ {0} /\ Bound \in Nat
  /\ Motions \subseteq [absolute : BOOLEAN, by : Int]
  /\ Wheel \subseteq Int /\ MaxPackets \in Nat \ {0}

VARIABLES
  buttons,           \* Mouse::buttons
  holdButtons,       \* Mouse::holdButtons
  doubleClicks,      \* Mouse::doubleClicks
  lastClickTime,     \* Mouse::lastClickTime
  relativePosition,  \* Mouse::relativePosition, in units of the sensitivity
  absolutePosition,  \* Mouse::absolutePosition
  setAbsolute,       \* Win32Mouse::setAbsolute
  frameWheel,        \* Mouse::frameWheel
  isAwake,           \* Mouse::isAwake
  held,              \* the buttons the user holds
  packets,           \* packets since this update began
  wentDown,          \* buttons that went down in this update; for properties only
  clicks,            \* clicks[b]: times since the last two presses; likewise
  moved,             \* movement reported since this update began; likewise
  dropped            \* how much of it came before an absolute packet; likewise

buttonVars == <<buttons, holdButtons, doubleClicks, lastClickTime>>
motionVars == <<relativePosition, absolutePosition, setAbsolute, frameWheel>>
ghosts == <<wentDown, clicks, moved, dropped>>
vars == <<buttonVars, motionVars, isAwake, held, packets, ghosts>>

\* Times longer ago than two limits are all the same.
Age == 0 .. 2 * ClickLimit
Older(age, msec) == IF age + msec > 2 * ClickLimit THEN 2 * ClickLimit ELSE age + msec
LongAgo == [last |-> 2 * ClickLimit, previous |-> 2 * ClickLimit]

TypeOK ==
  /\ {buttons, holdButtons, doubleClicks, held, wentDown} \subseteq SUBSET Button
  /\ lastClickTime \in [Button -> 0 .. ClickLimit]
  /\ relativePosition \in Int /\ absolutePosition \in Int
  /\ moved \in Int /\ dropped \in Int
  /\ setAbsolute \in BOOLEAN /\ isAwake \in BOOLEAN
  /\ frameWheel \in -1 .. 1
  /\ packets \in 0 .. MaxPackets
  /\ clicks \in [Button -> [last : Age, previous : Age]]

Init ==
  /\ buttons = {} /\ holdButtons = {} /\ doubleClicks = {}
  /\ lastClickTime = [b \in Button |-> 0]
  /\ relativePosition = 0 /\ absolutePosition = 0
  /\ setAbsolute = FALSE
  /\ frameWheel = 0
  /\ isAwake = TRUE
  /\ held \in SUBSET Button
  /\ packets = 0
  /\ wentDown = {}
  /\ clicks = [b \in Button |-> LongAgo]
  /\ moved = 0 /\ dropped = 0

ButtonPressed(b) == b \in buttons /\ b \notin holdButtons
DoubleClicked(b) == b \in buttons /\ b \in doubleClicks

\* Faulty variant: a double click is not forgotten when its time has run out.
ExpiredNot(msec) == {}

\* The buttons whose last click is too long ago now.
Expired(msec) == {b \in Button : lastClickTime[b] > 0 /\ lastClickTime[b] <= msec}

\* Faulty variant: the countdown goes below zero.
CountedDownBelow(t, msec) == IF t > 0 THEN t - msec ELSE t

\* What is left of a countdown, never less than nothing.
CountedDown(t, msec) == IF t > msec THEN t - msec ELSE 0

\* Mouse::UpdateFrameState; then InternalUpdate takes over where the cursor is.
UpdateFrameState(msec, cursor) ==
  /\ holdButtons' = buttons
  /\ doubleClicks' = doubleClicks \ Expired(msec)
  /\ lastClickTime' = [b \in Button |-> CountedDown(lastClickTime[b], msec)]
  /\ relativePosition' = 0
  /\ frameWheel' = 0
  /\ absolutePosition' = cursor
  /\ packets' = 0
  /\ wentDown' = {}
  /\ clicks' = [b \in Button |-> [last |-> Older(clicks[b].last, msec),
                                  previous |-> Older(clicks[b].previous, msec)]]
  /\ moved' = 0 /\ dropped' = 0
  /\ UNCHANGED <<buttons, setAbsolute, isAwake, held>>

Packet == packets < MaxPackets /\ packets' = packets + 1

Clamped(x) == IF x < 0 THEN 0 ELSE IF x > Bound THEN Bound ELSE x

\* Faulty variant: a packet replaces the movement of the one before it.
RelativeAfterLast(by) == by

\* relativePosition += lLast * sensitivity.
RelativeAfter(by) == relativePosition + by

\* "usButtonData == 120" is one notch up, everything else counts as down.
WheelAfter(w) == IF w = 0 THEN frameWheel ELSE IF w = 120 THEN 1 ELSE -1

\* A packet about movement or the wheel.  The first one with an absolute position
\* tells no movement; later ones tell that from the position before, and set
\* relativePosition to it instead of adding it.
Moves(m, w) ==
  /\ Packet
  /\ IF ~isAwake THEN UNCHANGED <<motionVars, moved, dropped>>
     ELSE /\ IF m.absolute
             THEN /\ absolutePosition' = m.by
                  /\ relativePosition' =
                       IF setAbsolute THEN m.by - absolutePosition ELSE relativePosition
                  /\ setAbsolute' = TRUE
                  /\ moved' = IF setAbsolute THEN moved + (m.by - absolutePosition) ELSE moved
                  /\ dropped' = IF setAbsolute THEN moved ELSE dropped
             ELSE /\ relativePosition' = RelativeAfter(m.by)
                  /\ absolutePosition' = Clamped(absolutePosition + m.by)
                  /\ moved' = moved + m.by
                  /\ UNCHANGED <<setAbsolute, dropped>>
          /\ frameWheel' = WheelAfter(w)
  /\ UNCHANGED <<buttonVars, isAwake, held, wentDown, clicks>>

\* A packet that says that button b went down.
Press(b) ==
  /\ Packet
  /\ b \notin held
  /\ held' = held \cup {b}
  /\ IF ~isAwake THEN UNCHANGED <<buttonVars, wentDown, clicks>>
     ELSE /\ buttons' = buttons \cup {b}
          /\ doubleClicks' = IF lastClickTime[b] > 0 THEN doubleClicks \cup {b} ELSE doubleClicks
          /\ lastClickTime' = [lastClickTime EXCEPT ![b] = ClickLimit]
          /\ wentDown' = wentDown \cup {b}
          /\ clicks' = [clicks EXCEPT ![b] = [last |-> 0, previous |-> @.last]]
          /\ UNCHANGED holdButtons
  /\ UNCHANGED <<motionVars, isAwake, moved, dropped>>

\* Faulty variant: as in the keyboard, a release leaves the hold state.
HoldAfterReleaseKept(b) == holdButtons

\* "holdButtons[i] = false" of a release.
HoldAfterRelease(b) == holdButtons \ {b}

\* A packet that says that button b went up.
Release(b) ==
  /\ Packet
  /\ b \in held
  /\ held' = held \ {b}
  /\ IF ~isAwake THEN UNCHANGED <<buttons, holdButtons, wentDown>>
     ELSE /\ buttons' = buttons \ {b}
          /\ holdButtons' = HoldAfterRelease(b)
          /\ wentDown' = wentDown \ {b}
  /\ UNCHANGED <<doubleClicks, lastClickTime, motionVars, isAwake, clicks, moved, dropped>>

\* Mouse::Sleep; the movement of this update stays.
Sleep ==
  /\ isAwake' = FALSE
  /\ buttons' = {} /\ holdButtons' = {} /\ doubleClicks' = {}
  /\ lastClickTime' = [b \in Button |-> 0]
  /\ frameWheel' = 0
  /\ wentDown' = {}
  /\ clicks' = [b \in Button |-> LongAgo]
  /\ UNCHANGED <<relativePosition, absolutePosition, setAbsolute, held, packets, moved, dropped>>

Wake ==
  /\ isAwake' = TRUE
  /\ UNCHANGED <<buttonVars, motionVars, held, packets, ghosts>>

\* What the pump of an update may bring to the mouse.
Message ==
  \/ \E m \in Motions, w \in Wheel : Moves(m, w)
  \/ \E b \in Button : Press(b) \/ Release(b)
  \/ Sleep \/ Wake

-----------------------------------------------------------------------------
(* Properties.                                                              *)

\* A button is pressed in exactly the update in which it went down last, also
\* when it was released and pressed again within one update or while the devices
\* were asleep, and no button is down that the user does not hold
\* (Mouse.h:30-37, Win32Mouse.cpp:84-106, Mouse.cpp:38-46).
PressedWhenItWentDown ==
  \A b \in buttons : b \in held /\ (ButtonPressed(b) <=> b \in wentDown)

\* A double click is shown exactly as long as less than the limit has passed since
\* the last press, if less than the limit lay between that and the one before
\* (Mouse.h:68-70): the countdown of Mouse.cpp:27-35 measures both, in whole frames.
\* What time lay between two presses within a frame is not in the code nor here.
DoubleClickInTime ==
  \A b \in Button :
    b \in doubleClicks <=>
      /\ clicks[b].last < ClickLimit
      /\ clicks[b].previous - clicks[b].last < ClickLimit
=============================================================================
