------------------------------- MODULE Camera -------------------------------
(***************************************************************************)
(* The camera under the mouse: in the updates of the menu the mouse moves  *)
(* nothing, in those of a simulation Camera::UpdateCamera turns the camera *)
(* by what the mouse has gathered since the update began.  MouseInput has  *)
(* one axis: it is x, which turns the yaw, or y, which turns the pitch.    *)
(* Angles are whole parts of a turn.                                       *)
(***************************************************************************)
EXTENDS MouseInput

CONSTANTS
  Turn,        \* a full turn, 360 degrees in the code
  StartYaw,    \* the yaw of InitCamera, 315 degrees
  StartPitch,  \* the pitch of InitCamera, -15 degrees
  Quarter,     \* straight up, 90 degrees
  MaxYaw       \* bound on the yaw, which the code does not have

ASSUME CameraAssumption ==
  /\ Turn \in Nat \ {0} /\ Quarter \in Nat \ {0} /\ MaxYaw \in Nat
  /\ Turn <= MaxYaw
  /\ StartYaw \in 0 .. Turn /\ StartPitch \in -Quarter .. Quarter

VARIABLES
  phase,    \* "menu" or "sim"
  updated,  \* the messages of this update have been handled and the frame is over
  yaw,      \* Camera::yaw
  pitch,    \* Camera::pitch
  axis,     \* the axis of the mouse, "x" or "y"
  heading,  \* where all packets have turned to; for properties only
  lost      \* how far packets turned that absolute ones replaced; likewise

cameraVars == <<phase, updated, yaw, pitch, axis, heading, lost>>
allVars == <<vars, cameraVars>>

CameraTypeOK ==
  /\ TypeOK
  /\ phase \in {"menu", "sim"} /\ updated \in BOOLEAN
  /\ yaw \in -MaxYaw .. MaxYaw /\ pitch \in -Quarter .. Quarter
  /\ axis \in {"x", "y"}
  /\ heading \in 0 .. Turn - 1 /\ lost \in 0 .. Turn - 1

\* InitCamera, called by the constructor of the renderer before the menu.
CameraInit ==
  /\ Init
  /\ phase = "menu" /\ updated = TRUE
  /\ yaw = StartYaw /\ pitch = StartPitch
  /\ axis \in {"x", "y"}
  /\ heading = StartYaw % Turn /\ lost = 0

\* UpdateWindow begins.
BeginUpdate ==
  /\ updated
  /\ \E msec \in Durations, cursor \in -1 .. Bound + 1 : UpdateFrameState(msec, cursor)
  /\ updated' = FALSE
  /\ UNCHANGED <<phase, yaw, pitch, axis, heading, lost>>

\* A message to the mouse, or one that puts it to sleep or wakes it.
HandleMessage ==
  /\ ~updated
  /\ Message
  /\ IF phase = "sim" /\ axis = "x"
     THEN /\ heading' = (heading - (moved' - moved)) % Turn
          /\ lost' = (lost + (dropped' - dropped)) % Turn
     ELSE UNCHANGED <<heading, lost>>
  /\ UNCHANGED <<phase, updated, yaw, pitch, axis>>

\* The rest of a frame of the menu, which may be the last.
MenuFrame ==
  /\ phase = "menu" /\ ~updated
  /\ phase' \in {"menu", "sim"}
  /\ updated' = TRUE
  /\ UNCHANGED <<vars, yaw, pitch, axis, heading, lost>>

\* Faulty variant: the second test does not look at what the first has done.
WrappedTwice(y) == IF y < 0 THEN y + Turn + Turn ELSE IF y > Turn THEN y - Turn ELSE y

\* One turn back into the circle, at most, in an update.
WrappedYaw(y) == IF y < 0 THEN y + Turn ELSE IF y > Turn THEN y - Turn ELSE y

ClampedPitch(p) == IF p > Quarter THEN Quarter ELSE IF p < -Quarter THEN -Quarter ELSE p

\* Camera::UpdateCamera in a frame of the simulation.
SimFrame ==
  /\ phase = "sim" /\ ~updated
  /\ IF axis = "x"
     THEN yaw' = WrappedYaw(yaw - relativePosition) /\ UNCHANGED pitch
     ELSE pitch' = ClampedPitch(pitch - relativePosition) /\ UNCHANGED yaw
  /\ yaw' \in -MaxYaw .. MaxYaw
  /\ updated' = TRUE
  /\ UNCHANGED <<vars, phase, axis, heading, lost>>

CameraNext == BeginUpdate \/ HandleMessage \/ MenuFrame \/ SimFrame

CameraSpec == CameraInit /\ [][CameraNext]_allVars

-----------------------------------------------------------------------------
(* Properties.                                                              *)

\* After every frame the camera looks where the packets of the simulation's updates
\* have turned it, each once, but for the movement in an update before its last
\* packet with an absolute position, which that replaces (Win32Mouse.cpp:31-34)
\* although the mouse has made it (Mouse.h:43).  The movement of the menu and of the
\* update that left it does not count, and the wrap loses nothing
\* (Camera.cpp:16-27, Mouse.cpp:19-21, Main.cpp:85-97).
YawTracks == updated => yaw % Turn = (heading + lost) % Turn

Size(d) == IF d < 0 THEN -d ELSE d

\* How far the yaw is outside of its circle.
Excess(y) == IF y < 0 THEN -y ELSE IF y > Turn THEN y - Turn ELSE 0

\* A frame may leave the yaw outside of its circle, since the wrap is made once
\* (Camera.cpp:22-27); each frame then takes a whole turn of it back, so that only
\* frames with more than a turn of movement drive it further away.
YawComesBack ==
  [][~updated /\ updated' =>
       LET driven == Excess(yaw) + Size(relativePosition)
       IN  Excess(yaw') <= IF driven > Turn THEN driven - Turn ELSE 0]_allVars
=============================================================================
