----------------------------- MODULE WindowSize -----------------------------
(***************************************************************************)
(* The size and place of the window and what follows them: the renderer,   *)
(* the bounds of the mouse, and the rectangle the pointer is confined to.  *)
(* Windows and its user move, size, maximise, minimise, activate and close *)
(* the window; each action is what Win32Window does with the messages this *)
(* sends it.  While the user drags the window Windows runs a loop of its   *)
(* own, from WM_ENTERSIZEMOVE to WM_EXITSIZEMOVE.                          *)
(***************************************************************************)
EXTENDS Integers

CONSTANTS
  Places,   \* where the window may be
  Extents,  \* the sizes it may have
  Created,  \* the rectangle it is created with, offset (100, 100)
  Home,     \* the place main moves it to, (0, 0)
  Full      \* its rectangle when maximised

Rects == [at : Places, extent : Extents]
Parked == [at |-> "parked", extent |-> 0]  \* where a minimised window is kept
Free == [at |-> "anywhere", extent |-> 0]  \* ClipCursor(NULL)

ASSUME WindowAssumption ==
  /\ Created \in Rects /\ Full \in Rects
  /\ Home \in Places
  /\ Extents \subseteq Nat \ {0}

VARIABLES
  size,          \* Window::size
  rendererSize,  \* the size of the last OnWindowResize
  bounds,        \* absolutePositionBounds of the mouse
  maximised, lockMouse, showMouse, active, forceQuit,  \* as in Window and Win32Window
  started,       \* main is about to show the menu
  clip,          \* where Windows lets the pointer go
  cursorCount,   \* the counter of ShowCursor, negative while the pointer is hidden
  rect,          \* the rectangle of the window when it is not minimised
  shown,         \* "normal", "maximised", "minimised" or "destroyed"
  dragging,      \* Windows is in its loop of moving and sizing
  snapped,       \* sized with a key since the renderer was; for properties only
  displaced,     \* moved or minimised since the pointer was confined; likewise
  resizedAway    \* maximised, restored or let go while inactive; likewise

pointerVars == <<lockMouse, clip, displaced>>
cursorVars == <<showMouse, cursorCount>>
sizeVars == <<size, rendererSize, bounds, maximised, snapped, resizedAway>>
osVars == <<rect, shown, dragging>>
vars == <<sizeVars, pointerVars, cursorVars, osVars, active, forceQuit, started>>

\* The constructor, with the messages that CreateWindowEx sends.
Init ==
  /\ rect = Created /\ shown = "normal" /\ dragging = FALSE
  /\ size = Created.extent /\ rendererSize = size /\ bounds = size
  /\ maximised = FALSE /\ lockMouse = FALSE /\ showMouse = TRUE /\ active = TRUE
  /\ forceQuit = FALSE /\ started = FALSE
  /\ clip = Free /\ cursorCount = 0
  /\ snapped = FALSE /\ displaced = FALSE /\ resizedAway = FALSE

-----------------------------------------------------------------------------
(* What the handlers are made of.                                           *)

\* GetWindowRect, before and after a change.
WindowRect == IF shown = "minimised" THEN Parked ELSE rect

\* Faulty variant: the rectangle is that of before the change.
LockMouseEarly(lock) ==
  /\ lockMouse' = lock
  /\ clip' = IF lock THEN WindowRect ELSE Free
  /\ displaced' = FALSE

LockMouseToWindow(lock) ==
  /\ lockMouse' = lock
  /\ clip' = IF lock THEN WindowRect' ELSE Free
  /\ displaced' = FALSE

\* Faulty variant: every call counts, also one that changes nothing.
ShowOSPointerAlways(show) ==
  /\ showMouse' = show
  /\ cursorCount' = IF show THEN cursorCount + 1 ELSE cursorCount - 1

\* The counter is touched only by a call that changes something.
ShowOSPointer(show) ==
  IF show = showMouse THEN UNCHANGED cursorVars
  ELSE /\ showMouse' = show
       /\ cursorCount' = IF show THEN cursorCount + 1 ELSE cursorCount - 1

\* applyResize: renderer, bounds and clip follow the size.
ApplyResize ==
  /\ rendererSize' = size' /\ bounds' = size'
  /\ LockMouseToWindow(lockMouse)
  /\ snapped' = FALSE
  /\ resizedAway' = ~active

NoResize == UNCHANGED <<rendererSize, bounds, lockMouse, clip, resizedAway>>

\* "newX > 0 && newY > 0".
NewSize(extent) == IF extent > 0 THEN extent ELSE size

\* Faulty variant: maximising is not remembered.
MaximisedNever(kind) == FALSE

MaximisedAfter(kind) == kind = "maximised" \/ (kind = "minimised" /\ maximised)

\* WM_SIZE.
Sized(kind, extent) ==
  /\ size' = NewSize(extent)
  /\ maximised' = MaximisedAfter(kind)
  /\ IF kind = "maximised" \/ (kind = "restored" /\ maximised)
     THEN ApplyResize
     ELSE /\ NoResize
          /\ displaced' = TRUE
          /\ snapped' = (snapped \/ (kind = "restored" /\ shown # "maximised" /\ ~dragging
                                      /\ size' # size))

-----------------------------------------------------------------------------
(* The program.                                                             *)

\* main up to the renderer, whose constructor is told the size.
Start ==
  /\ ~started /\ started' = TRUE
  /\ ShowOSPointer(FALSE)
  /\ lockMouse' = TRUE /\ clip' = rect /\ displaced' = TRUE
  /\ rect' = [rect EXCEPT !.at = Home]
  /\ rendererSize' = size
  /\ UNCHANGED <<size, bounds, maximised, snapped, resizedAway, shown, dragging, active, forceQuit>>

Alive == started /\ shown # "destroyed"

\* WM_CLOSE or WM_QUIT in the queue: CheckMessages keeps it from WindowProc.
Quit ==
  /\ started
  /\ ShowOSPointer(TRUE)
  /\ LockMouseToWindow(FALSE)
  /\ forceQuit' = TRUE
  /\ UNCHANGED <<sizeVars, osVars, active, started>>

\* WM_DESTROY, after a WM_CLOSE sent past the queue.
Destroy ==
  /\ Alive
  /\ ShowOSPointer(TRUE)
  /\ LockMouseToWindow(FALSE)
  /\ forceQuit' = TRUE
  /\ shown' = "destroyed"
  /\ UNCHANGED <<sizeVars, rect, dragging, active, started>>

-----------------------------------------------------------------------------
(* Messages about the place and size of the window.                         *)

\* WM_ENTERSIZEMOVE.
BeginDrag ==
  /\ Alive /\ active /\ ~dragging /\ shown # "minimised"
  /\ dragging' = TRUE
  /\ UNCHANGED <<sizeVars, pointerVars, cursorVars, rect, shown, active, forceQuit, started>>

\* The window follows the drag; WM_SIZE comes only with a change of size, and
\* WM_MOVE is not looked at.
Drag ==
  /\ Alive /\ dragging
  /\ rect' \in Rects \ {rect} /\ shown' = "normal"
  /\ IF rect'.extent # rect.extent \/ shown = "maximised"
     THEN Sized("restored", rect'.extent)
     ELSE displaced' = TRUE /\ UNCHANGED <<sizeVars, lockMouse, clip>>
  /\ UNCHANGED <<cursorVars, dragging, active, forceQuit, started>>

\* WM_EXITSIZEMOVE: the drag ends, also because another window was activated.
EndDrag ==
  /\ Alive /\ dragging
  /\ dragging' = FALSE
  /\ UNCHANGED <<size, maximised, cursorVars, rect, shown, active, forceQuit, started>>
  /\ ApplyResize

\* A key of Windows or another program gives the window a place and a size, or
\* restores it: WM_SIZE without a drag around it.
Snap ==
  /\ Alive /\ ~dragging /\ rect' \in Rects
  /\ shown # "normal" \/ rect'.extent # rect.extent
  /\ shown' = "normal"
  /\ Sized("restored", rect'.extent)
  /\ UNCHANGED <<cursorVars, dragging, active, forceQuit, started>>

Maximise ==
  /\ Alive /\ ~dragging /\ shown # "maximised"
  /\ shown' = "maximised" /\ rect' = Full
  /\ Sized("maximised", Full.extent)
  /\ UNCHANGED <<cursorVars, dragging, active, forceQuit, started>>

Minimise ==
  /\ Alive /\ ~dragging /\ shown # "minimised"
  /\ shown' = "minimised"
  /\ Sized("minimised", 0)
  /\ UNCHANGED <<cursorVars, rect, dragging, active, forceQuit, started>>

-----------------------------------------------------------------------------
(* Messages about whose turn it is.                                         *)

\* Faulty variant: the pointer is freed only when the mouse is not locked.
ReleasedWhenUnlocked == IF lockMouse THEN clip ELSE Free

\* ClipCursor(NULL) when another window is activated.
Released == Free

Deactivate ==
  /\ Alive /\ active
  /\ active' = FALSE
  /\ clip' = Released
  /\ resizedAway' = FALSE
  /\ UNCHANGED <<size, rendererSize, bounds, maximised, snapped, lockMouse, displaced, cursorVars, osVars, forceQuit, started>>

\* WM_ACTIVATE, also for a window that is still minimised.
Activate ==
  /\ Alive /\ ~active
  /\ active' = TRUE
  /\ UNCHANGED <<sizeVars, cursorVars, osVars, forceQuit, started>>
  /\ IF lockMouse THEN LockMouseToWindow(TRUE) ELSE UNCHANGED pointerVars

\* WM_LBUTTONDOWN.
Click ==
  /\ Alive /\ active /\ shown # "minimised" /\ ~dragging
  /\ UNCHANGED <<sizeVars, cursorVars, osVars, active, forceQuit, started>>
  /\ IF lockMouse THEN LockMouseToWindow(TRUE) ELSE UNCHANGED pointerVars

Next ==
  \/ Start \/ Quit \/ Destroy
  \/ BeginDrag \/ Drag \/ EndDrag
  \/ Snap \/ Maximise \/ Minimise
  \/ Activate \/ Deactivate \/ Click

Spec == Init /\ [][Next]_vars

-----------------------------------------------------------------------------
(* Properties.                                                              *)

\* The renderer and the bounds of the mouse have the size of the window, however
\* it was dragged, maximised, minimised and restored, except during a drag and after
\* a key of Windows has sized it (Win32Window.cpp:276-305): that alone leaves them
\* behind, until the next drag or change of the maximised state.
RendererFollows ==
  ~dragging /\ ~snapped => rendererSize = rect.extent /\ bounds = rect.extent

\* While the window is used with a locked mouse the pointer cannot leave for good:
\* it is confined, and to where the window is if that has not moved since
\* (Win32Window.cpp:231-246, 299-305, 310-325).
PointerConfined ==
  active /\ lockMouse => clip # Free /\ (~displaced => clip = WindowRect)

\* A program in the background does not hold the pointer of the others, unless its
\* window was resized there (Win32Window.cpp:219-228; line 303 does not ask whether
\* the window is active).
PointerFreeElsewhere == started /\ ~active => clip = Free \/ resizedAway

\* Once the program has been told to quit the pointer is visible and free and stays
\* so, although the update goes on to read messages, the menu goes on for ever, and
\* WM_CLOSE, WM_DESTROY and WM_QUIT may each release it again: the counter of
\* ShowCursor is exact (Win32Window.cpp:173-178, 212-218, 327-339).
QuitReleasesPointer == forceQuit => clip = Free /\ cursorCount = 0
=============================================================================
