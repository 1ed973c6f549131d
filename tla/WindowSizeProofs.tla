------------------------- MODULE WindowSizeProofs -------------------------
(***************************************************************************)
(* The invariants of WindowSize hold for all places and sizes of the       *)
(* window, and however long it is moved, sized, minimised and switched.    *)
(*                                                                         *)
(* None of the four is inductive alone.  What they rest on: the size that  *)
(* Win32Window keeps is always that of the rectangle (a minimised window   *)
(* keeps the one it had), Windows shows the window maximised only while    *)
(* the program remembers it, ShowCursor is called exactly when showMouse   *)
(* changes, and nothing locks the mouse again after it was told to quit.   *)
(***************************************************************************)
EXTENDS WindowSize, TLAPS

SizeTypeOK ==
  /\ rect \in Rects
  /\ size = rect.extent
  /\ shown \in {"normal", "maximised", "minimised", "destroyed"}
  /\ {maximised, lockMouse, showMouse, active, forceQuit, started, dragging, snapped,
      displaced, resizedAway} \subseteq BOOLEAN

\* What the window looks like and what the program remembers of it.
ShownAsKnown == shown = "maximised" => maximised

\* The counter of ShowCursor is a function of the flag.
CountExact == cursorCount = IF showMouse THEN 0 ELSE -1

\* Until main is about to show the menu nobody quits or switches, and who has been
\* told to quit does not lock or hide the pointer again.
QuitIsFinal ==
  /\ ~started => active /\ ~forceQuit
  /\ forceQuit => ~lockMouse /\ showMouse

SizeInv ==
  /\ SizeTypeOK /\ ShownAsKnown /\ CountExact /\ QuitIsFinal
  /\ RendererFollows /\ PointerConfined /\ PointerFreeElsewhere /\ QuitReleasesPointer

\* The rectangle the window has is never mistaken for "anywhere".
LEMMA WindowIsSomewhere ==
  ASSUME rect \in Rects
  PROVE  WindowRect # Free /\ rect # Free
<1>1. rect.extent # 0
  BY WindowAssumption DEF Rects
<1> QED
  BY <1>1 DEF WindowRect, Free, Parked

LEMMA SizeInvInit == Init => SizeInv
BY WindowAssumption
   DEF Init, SizeInv, SizeTypeOK, ShownAsKnown, CountExact, QuitIsFinal, RendererFollows,
       PointerConfined, PointerFreeElsewhere, QuitReleasesPointer, Rects

-----------------------------------------------------------------------------
(* The steps.                                                               *)

\* Who is started, quits or is asked about the pointer leaves the size alone.
LEMMA ProgramKeepsInv ==
  ASSUME SizeInv, Start \/ Quit \/ Destroy
  PROVE  SizeInv'
<1> USE DEF SizeInv
<1>1. WindowRect # Free /\ rect # Free
  BY WindowIsSomewhere DEF SizeTypeOK
<1>2. SizeTypeOK' /\ ShownAsKnown'
  BY WindowAssumption
     DEF SizeTypeOK, ShownAsKnown, Rects, Start, Quit, Destroy, ShowOSPointer,
         LockMouseToWindow, cursorVars, sizeVars, osVars
<1>3. CountExact'
  <2>1. showMouse \in BOOLEAN /\ (ShowOSPointer(FALSE) \/ ShowOSPointer(TRUE))
    BY DEF SizeTypeOK, Start, Quit, Destroy
  <2>2. \/ (showMouse' <=> showMouse) /\ cursorCount' = cursorCount
        \/ showMouse /\ ~showMouse' /\ cursorCount' = cursorCount - 1
        \/ ~showMouse /\ showMouse' /\ cursorCount' = cursorCount + 1
    BY <2>1, Zenon DEF ShowOSPointer, cursorVars
  <2>3. (showMouse => cursorCount = 0) /\ (~showMouse => cursorCount = -1)
    BY DEF CountExact
  <2>4. (showMouse' => cursorCount' = 0) /\ (~showMouse' => cursorCount' = -1)
    BY <2>2, <2>3
  <2> QED
    BY <2>4 DEF CountExact
<1>4. QuitIsFinal'
  BY DEF QuitIsFinal, SizeTypeOK, Start, Quit, Destroy, Alive, ShowOSPointer,
         LockMouseToWindow, cursorVars
<1>5. RendererFollows'
  <2>1. CASE Start
    <3>1. rect'.extent = rect.extent
      BY <2>1 DEF Start, SizeTypeOK, Rects
    <3> QED
      BY <2>1, <3>1 DEF RendererFollows, SizeTypeOK, Start
  <2>2. CASE Quit \/ Destroy
    BY <2>2 DEF RendererFollows, Quit, Destroy, sizeVars, osVars
  <2> QED
    BY <2>1, <2>2
<1>6. PointerConfined' /\ PointerFreeElsewhere'
  BY <1>1 DEF PointerConfined, PointerFreeElsewhere, QuitIsFinal, SizeTypeOK, Start, Quit,
              Destroy, LockMouseToWindow
<1>7. QuitReleasesPointer'
  BY <1>3, <1>4 DEF QuitReleasesPointer, CountExact, QuitIsFinal, Start, Quit, Destroy,
                    LockMouseToWindow
<1> QED
  BY <1>2, <1>3, <1>4, <1>5, <1>6, <1>7

LEMMA TurnsKeepInv ==
  ASSUME SizeInv, Activate \/ Deactivate \/ Click
  PROVE  SizeInv'
<1> USE DEF SizeInv
<1>1. /\ WindowRect # Free
      /\ UNCHANGED <<size, rendererSize, bounds, maximised, snapped, cursorVars, osVars,
                     forceQuit, started, lockMouse>>
  BY WindowIsSomewhere
     DEF SizeTypeOK, Activate, Deactivate, Click, sizeVars, pointerVars, LockMouseToWindow
<1>2. /\ active' \in BOOLEAN /\ started
      /\ active' \/ (clip' = Free /\ ~resizedAway')
      /\ displaced' \in BOOLEAN /\ resizedAway' \in BOOLEAN
  <2>1. displaced \in BOOLEAN /\ resizedAway \in BOOLEAN /\ started
    BY DEF SizeTypeOK, Activate, Deactivate, Click, Alive
  <2>2. CASE Activate
    BY <2>1, <2>2 DEF Activate, sizeVars, pointerVars, LockMouseToWindow
  <2>3. CASE Deactivate
    BY <2>1, <2>3 DEF Deactivate, Released
  <2>4. CASE Click
    BY <2>1, <2>4 DEF Click, sizeVars, pointerVars, LockMouseToWindow
  <2> QED
    BY <2>2, <2>3, <2>4
<1>3. SizeTypeOK' /\ ShownAsKnown' /\ CountExact' /\ QuitIsFinal' /\ RendererFollows'
  BY <1>1, <1>2 DEF SizeTypeOK, ShownAsKnown, CountExact, QuitIsFinal, RendererFollows,
                    cursorVars, osVars
<1>4. PointerConfined'
  <2>1. CASE Activate \/ Click
    BY <1>1, <2>1 DEF PointerConfined, Activate, Click, LockMouseToWindow, WindowRect, osVars
  <2>2. CASE Deactivate
    BY <2>2 DEF PointerConfined, Deactivate
  <2> QED
    BY <2>1, <2>2
<1>5. PointerFreeElsewhere'
  BY <1>2 DEF PointerFreeElsewhere
<1>6. QuitReleasesPointer'
  BY <1>1 DEF QuitReleasesPointer, QuitIsFinal, Activate, Deactivate, Click, Released,
              LockMouseToWindow, pointerVars, cursorVars
<1> QED
  BY <1>3, <1>4, <1>5, <1>6

\* WM_SIZE leaves the pointer where it was or confines it to the new rectangle, and
\* the renderer follows unless the size changed without a drag around it.
LEMMA SizedKeepsInv ==
  ASSUME SizeInv, Alive, rect' \in Rects, NEW kind \in {"restored", "maximised", "minimised"},
         Sized(kind, IF kind = "minimised" THEN 0 ELSE rect'.extent),
         kind = "minimised" => rect' = rect,
         shown' = (IF kind = "restored" THEN "normal" ELSE kind),
         UNCHANGED <<cursorVars, dragging, active, forceQuit, started>>
  PROVE  SizeInv'
<1> USE DEF SizeInv
<1>1. WindowRect # Free /\ WindowRect' # Free
  <2>1. rect'.extent # 0
    BY WindowAssumption DEF Rects
  <2> QED
    BY <2>1, WindowIsSomewhere DEF SizeTypeOK, WindowRect, Free, Parked
<1>2. size' = rect'.extent
  <2>1. rect'.extent \in Nat /\ rect'.extent > 0 /\ size = rect.extent
    <3>1. rect'.extent \in Extents /\ size = rect.extent
      BY DEF SizeTypeOK, Rects
    <3>2. rect'.extent \in Nat \ {0}
      BY <3>1, WindowAssumption
    <3> QED
      BY <3>1, <3>2
  <2>2. CASE kind = "minimised"
    BY <2>1, <2>2 DEF Sized, NewSize
  <2>3. CASE kind # "minimised"
    BY <2>1, <2>3 DEF Sized, NewSize
  <2> QED
    BY <2>2, <2>3
<1>3. maximised' \in BOOLEAN /\ ShownAsKnown'
  BY DEF Sized, MaximisedAfter, ShownAsKnown, SizeTypeOK
<1>4. started
  BY DEF Alive
<1>5. CASE ApplyResize
  <2>1. SizeTypeOK' /\ CountExact' /\ QuitIsFinal'
    BY <1>2, <1>3, <1>5 DEF ApplyResize, LockMouseToWindow, SizeTypeOK, CountExact,
                            QuitIsFinal, cursorVars
  <2>2. RendererFollows'
    BY <1>2, <1>5 DEF ApplyResize, RendererFollows
  <2>3. PointerConfined' /\ PointerFreeElsewhere' /\ QuitReleasesPointer'
    BY <1>1, <1>5 DEF ApplyResize, LockMouseToWindow, PointerConfined, PointerFreeElsewhere,
                      QuitReleasesPointer, QuitIsFinal, SizeTypeOK, cursorVars
  <2> QED
    BY <1>3, <2>1, <2>2, <2>3
<1>6. CASE ~ApplyResize
  <2>1. /\ NoResize /\ displaced' = TRUE
        /\ kind # "maximised" /\ (kind = "restored" => ~maximised)
        /\ snapped' = (snapped \/ (kind = "restored" /\ shown # "maximised" /\ ~dragging
                                      /\ size' # size))
    BY <1>6 DEF Sized
  <2>2. SizeTypeOK' /\ CountExact' /\ QuitIsFinal'
    BY <1>2, <1>3, <2>1 DEF NoResize, SizeTypeOK, CountExact, QuitIsFinal, cursorVars
  <2>3. RendererFollows'
    BY <1>2, <2>1 DEF NoResize, RendererFollows, SizeTypeOK, ShownAsKnown
  <2>4. PointerConfined' /\ PointerFreeElsewhere' /\ QuitReleasesPointer'
    BY <2>1 DEF NoResize, PointerConfined, PointerFreeElsewhere, QuitReleasesPointer,
                QuitIsFinal, SizeTypeOK, cursorVars
  <2> QED
    BY <1>3, <2>2, <2>3, <2>4
<1> QED
  BY <1>5, <1>6

LEMMA DragKeepsInv ==
  ASSUME SizeInv, BeginDrag \/ Drag \/ EndDrag
  PROVE  SizeInv'
<1> USE DEF SizeInv
<1>1. CASE BeginDrag
  BY <1>1 DEF BeginDrag, SizeTypeOK, ShownAsKnown, CountExact, QuitIsFinal, RendererFollows,
              PointerConfined, PointerFreeElsewhere, QuitReleasesPointer, WindowRect, sizeVars,
              pointerVars, cursorVars
<1>2. CASE Drag
  <2>1. CASE rect'.extent # rect.extent \/ shown = "maximised"
    BY <1>2, <2>1, SizedKeepsInv DEF Drag
  <2>2. CASE ~(rect'.extent # rect.extent \/ shown = "maximised")
    BY <1>2, <2>2 DEF Drag, SizeTypeOK, ShownAsKnown, CountExact, QuitIsFinal, RendererFollows,
                PointerConfined, PointerFreeElsewhere, QuitReleasesPointer, sizeVars, cursorVars
  <2> QED
    BY <2>1, <2>2
<1>3. CASE EndDrag
  <2>1. WindowRect' = WindowRect /\ WindowRect # Free
    BY <1>3, WindowIsSomewhere DEF EndDrag, WindowRect, SizeTypeOK
  <2> QED
    BY <1>3, <2>1
       DEF EndDrag, ApplyResize, LockMouseToWindow, SizeTypeOK, ShownAsKnown, CountExact,
           QuitIsFinal, RendererFollows, PointerConfined, PointerFreeElsewhere,
           QuitReleasesPointer, cursorVars
<1> QED
  BY <1>1, <1>2, <1>3

LEMMA PlacesKeepInv ==
  ASSUME SizeInv, Snap \/ Maximise \/ Minimise
  PROVE  SizeInv'
<1>1. CASE Snap
  BY <1>1, SizedKeepsInv DEF Snap
<1>2. CASE Maximise
  BY <1>2, SizedKeepsInv, WindowAssumption DEF Maximise
<1>3. CASE Minimise
  BY <1>3, SizedKeepsInv DEF Minimise, SizeInv, SizeTypeOK
<1> QED
  BY <1>1, <1>2, <1>3

LEMMA SizeInvariant == Spec => []SizeInv
<1>1. SizeInv /\ UNCHANGED vars => SizeInv'
  BY DEF vars, sizeVars, pointerVars, cursorVars, osVars, SizeInv, SizeTypeOK, ShownAsKnown,
         CountExact, QuitIsFinal, RendererFollows, PointerConfined, PointerFreeElsewhere,
         QuitReleasesPointer, WindowRect
<1>2. SizeInv /\ [Next]_vars => SizeInv'
  BY <1>1, ProgramKeepsInv, DragKeepsInv, PlacesKeepInv, TurnsKeepInv DEF Next
<1> QED
  BY <1>2, SizeInvInit, PTL DEF Spec

-----------------------------------------------------------------------------
(* The theorems.                                                            *)

\* Renderer and mouse bounds have the size of the window whenever it is not being
\* dragged and no key of Windows has sized it since (Win32Window.cpp:276-305).
THEOREM RendererFollowsAlways == Spec => []RendererFollows
BY SizeInvariant, PTL DEF SizeInv

\* In the window that is used a locked pointer is confined, and to where the window
\* is if that has not moved since (Win32Window.cpp:231-246, 299-305, 310-325).
THEOREM PointerConfinedAlways == Spec => []PointerConfined
BY SizeInvariant, PTL DEF SizeInv

\* In the background the program holds the pointer only after a resize there
\* (Win32Window.cpp:219-228, 303).
THEOREM PointerFreeElsewhereAlways == Spec => []PointerFreeElsewhere
BY SizeInvariant, PTL DEF SizeInv

\* From the moment the program is told to quit the pointer is free and visible,
\* however often it is told (Win32Window.cpp:173-178, 212-218, 327-339).
THEOREM QuitReleases == Spec => []QuitReleasesPointer
BY SizeInvariant, PTL DEF SizeInv
=============================================================================
