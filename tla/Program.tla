------------------------------ MODULE Program ------------------------------
(***************************************************************************)
(* main of the program: the menu, then the loop of the simulation, both on *)
(* top of the window.  Each calls UpdateWindow (BeginUpdate to EndUpdate   *)
(* of WindowInput) and then looks at the keys of that frame.               *)
(***************************************************************************)
EXTENDS WindowInput

CONSTANTS
  MenuKeys,  \* the keys of the menu in their order, NUM1 to NUM4 in the code
  Toggle     \* a key that toggles a flag of the simulation: SPACE and paused

ASSUME ProgramAssumption ==
  /\ MenuKeys \in Seq(Keys)
  /\ {Toggle, "ESCAPE"} \subseteq Keys

VARIABLES
  phase,    \* "menu", "sim" or "ended"
  chosen,   \* the key the simulation was chosen with
  paused    \* Simulation::paused

programVars == <<phase, chosen, paused>>
vars == <<inputVars, programVars>>

Init ==
  /\ InputInit
  /\ phase = "menu"
  /\ chosen = "none"
  /\ paused = FALSE

\* The body of SimulationMenu after UpdateWindow, whose result it ignores.
MenuFrame ==
  /\ phase = "menu"
  /\ Frame
  /\ LET pressed == SelectSeq(MenuKeys, KeyPressed)
     IN  IF pressed # <<>>
         THEN phase' = "sim" /\ chosen' = Head(pressed)
         ELSE /\ phase' = IF KeyPressed("ESCAPE") THEN "ended" ELSE "menu"
              /\ UNCHANGED chosen
  /\ UNCHANGED paused

\* Faulty variant: the loop looks at the key only.
SimEndsOnKey == KeyDown("ESCAPE")

\* The condition of the loop of main.
SimEnds == forceQuit \/ KeyDown("ESCAPE")

\* Faulty variant: the toggle looks whether the key is down.
TogglesWhileDown == KeyDown(Toggle)

\* Simulation::UpdateKeys.
Toggles == KeyPressed(Toggle)

\* The loop of main.
SimFrame ==
  /\ phase = "sim"
  /\ Frame
  /\ IF SimEnds
     THEN phase' = "ended" /\ UNCHANGED paused
     ELSE paused' = (paused # Toggles) /\ UNCHANGED phase
  /\ UNCHANGED chosen

\* exit, or DestroyGameWindow and the end of main.
Ended == phase = "ended" /\ UNCHANGED vars

Running == phase # "ended"

UpdateStep ==
  /\ Running
  /\ BeginUpdate \/ ReadMessage \/ EndUpdate
  /\ UNCHANGED programVars

Next ==
  \/ Running /\ UserStep /\ UNCHANGED programVars
  \/ UpdateStep
  \/ MenuFrame \/ SimFrame
  \/ Ended

(***************************************************************************)
(* The program's thread goes on.  The user need not do anything.           *)
(***************************************************************************)
Fairness == WF_vars(UpdateStep) /\ WF_vars(MenuFrame \/ SimFrame)

Spec == Init /\ [][Next]_vars /\ Fairness

-----------------------------------------------------------------------------
(* Properties.                                                              *)

\* A simulation whose window is closed ends, as does one whose frame sees ESCAPE
\* down, whatever else the user does (Main.cpp:85).
SimulationEnds ==
  (phase = "sim" /\ (forceQuit \/ (at = "frame" /\ KeyDown("ESCAPE")))) ~> (phase = "ended")

\* Paused only changes from one frame to the next in frames that saw the key
\* pressed, at most once for each hold, also for a key that was held in the menu already
\* when the simulation was chosen (Main.cpp:34, Simulation.cpp:92-94).
PausedOncePerHold ==
  [][paused' # paused => typed[Toggle] = 1 /\ Toggle \in wentDown]_vars

\* What CheckMessages calls "a Quit Message" (Win32Window.cpp:174) ends the
\* program, also in the menu.
QuitEndsProgram == forceQuit ~> (phase = "ended")
=============================================================================
