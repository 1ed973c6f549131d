---------------------------- MODULE WindowInput ----------------------------
(***************************************************************************)
(* The window and its keyboard: Window::UpdateWindow, the message pump of  *)
(* Win32Window and the two arrays of Keyboard, against a user who presses  *)
(* keys, switches to other windows, moves the pointer out and in, and      *)
(* closes the window at any time, also while the pump runs.                *)
(*                                                                         *)
(* The system delivers three streams of messages, each in order: raw       *)
(* keyboard input, activation (sent messages) and what concerns the        *)
(* pointer.  Between the streams no order is assumed.  Sleep and Wake are  *)
(* always called for mouse and keyboard together: one flag stands for      *)
(* both.  A bool array over the keys is the set of the keys it is true at. *)
(***************************************************************************)
EXTENDS Integers, Sequences, SequencesExt

CONSTANTS
  Keys,      \* the keys the user presses
  Events,    \* what else the user does, of "switch", "pointer", "close" and "quit"
  MaxPosts   \* bound on the messages the user causes during one update

ASSUME InputAssumption ==
  /\ Events \subseteq {"switch", "pointer", "close", "quit"}
  /\ MaxPosts \in Nat \ {0}

Stream == {"input", "activation", "pointer"}

VARIABLES
  down,             \* keys the user holds down
  foreground,       \* the window is the one the user works in
  pointerIn,        \* the pointer is over the window
  tracking,         \* the system was asked to tell when the pointer leaves
  queue,            \* queue[s]: messages of stream s that are still to be read
  posts,            \* messages caused since this update began
  open,             \* the window exists
  active,           \* Win32Window::active
  isAwake,          \* Mouse::isAwake and Keyboard::isAwake
  mouseLeftWindow,  \* Win32Window::mouseLeftWindow
  forceQuit,        \* Win32Window::forceQuit
  keyStates,        \* Keyboard::keyStates
  holdStates,       \* Keyboard::holdStates
  at,               \* where the program is: "update", "pump" or "frame"
  wentDown,         \* keys that went down in this update; used by properties only
  typed             \* typed[k]: frames that saw k pressed in this hold; likewise

user == <<down, foreground, pointerIn>>
window == <<active, isAwake, mouseLeftWindow, forceQuit>>
keyboard == <<keyStates, holdStates>>
ghosts == <<wentDown, typed>>
inputVars == <<user, tracking, queue, posts, open, window, keyboard, at, ghosts>>

KeyMessage == [key : Keys, make : BOOLEAN]
PointerMessage == {"move", "leave", "close", "quit"}

QueueOK ==
  /\ DOMAIN queue = Stream
  /\ queue["input"] \in Seq(KeyMessage)
  /\ queue["activation"] \in Seq(BOOLEAN)
  /\ queue["pointer"] \in Seq(PointerMessage)

InputTypeOK ==
  /\ down \subseteq Keys /\ keyStates \subseteq Keys /\ holdStates \subseteq Keys
  /\ {foreground, pointerIn, tracking, open, active, isAwake, mouseLeftWindow, forceQuit}
       \subseteq BOOLEAN
  /\ QueueOK
  /\ posts \in 0 .. MaxPosts
  /\ at \in {"update", "pump", "frame"}
  /\ wentDown \subseteq keyStates
  /\ typed \in [Keys -> 0 .. 2]
  /\ ~open => forceQuit /\ ~active

InputInit ==
  /\ down \in SUBSET Keys
  /\ foreground = TRUE /\ active = TRUE
  /\ pointerIn \in BOOLEAN
  /\ tracking = FALSE /\ mouseLeftWindow = FALSE
  /\ queue = [s \in Stream |-> <<>>]
  /\ posts = 0
  /\ open = TRUE /\ forceQuit = FALSE
  /\ isAwake = TRUE
  /\ keyStates = {} /\ holdStates = {}
  /\ at = "update"
  /\ wentDown = {}
  /\ typed = [k \in Keys |-> 0]

\* Is this key currently pressed down?
KeyDown(k) == k \in keyStates

\* Has this key been held down for multiple frames?
KeyHeld(k) == KeyDown(k) /\ k \in holdStates

\* Is this the first update the key has been pressed for?
KeyPressed(k) == KeyDown(k) /\ ~KeyHeld(k)

-----------------------------------------------------------------------------
(* The user and the system (external).                                      *)

Post(s, m) ==
  /\ open
  /\ posts < MaxPosts
  /\ posts' = posts + 1
  /\ queue' = [queue EXCEPT ![s] = Append(@, m)]

userOnly == <<open, window, keyboard, at, ghosts>>

\* A key goes down, or repeats while it is down: the same message.
PressKey(k) ==
  /\ down' = down \cup {k}
  /\ Post("input", [key |-> k, make |-> TRUE])
  /\ UNCHANGED <<foreground, pointerIn, tracking, userOnly>>

ReleaseKey(k) ==
  /\ k \in down
  /\ down' = down \ {k}
  /\ Post("input", [key |-> k, make |-> FALSE])
  /\ UNCHANGED <<foreground, pointerIn, tracking, userOnly>>

SwitchWindow ==
  /\ "switch" \in Events
  /\ foreground' = ~foreground
  /\ Post("activation", foreground')
  /\ UNCHANGED <<down, pointerIn, tracking, userOnly>>

\* Over the window, every movement is a message.
MovePointer ==
  /\ "pointer" \in Events
  /\ pointerIn' = TRUE
  /\ Post("pointer", "move")
  /\ UNCHANGED <<down, foreground, tracking, userOnly>>

\* WM_MOUSELEAVE comes once for each TrackMouseEvent.
PointerLeaves ==
  /\ "pointer" \in Events
  /\ pointerIn
  /\ pointerIn' = FALSE
  /\ tracking' = FALSE
  /\ IF tracking THEN Post("pointer", "leave") ELSE UNCHANGED <<queue, posts>>
  /\ UNCHANGED <<down, foreground, userOnly>>

\* "close": the user closes the window, the default procedure destroys it.
\* "quit": somebody posts WM_CLOSE, which CheckMessages handles itself.
CloseWindow(m) ==
  /\ m \in Events
  /\ Post("pointer", m)
  /\ UNCHANGED <<user, tracking, userOnly>>

UserStep ==
  \/ \E k \in Keys : PressKey(k) \/ ReleaseKey(k)
  \/ SwitchWindow \/ MovePointer \/ PointerLeaves
  \/ \E m \in {"close", "quit"} : CloseWindow(m)

-----------------------------------------------------------------------------
(* Window::UpdateWindow.                                                    *)

\* Faulty variant: keys already held are remembered, released ones not forgotten.
UpdatedHoldNot == holdStates

\* Keyboard::UpdateFrameState.
UpdatedHold == keyStates

BeginUpdate ==
  /\ at = "update"
  /\ at' = "pump"
  /\ holdStates' = UpdatedHold
  /\ posts' = 0
  /\ wentDown' = {}
  /\ UNCHANGED <<user, tracking, queue, open, window, keyStates, typed>>

Rest(s) == [queue EXCEPT ![s] = Tail(@)]

\* Faulty variant: input is recorded whichever window is active.
RecordedAnyway == isAwake

\* The tests of CheckMessages and of UpdateRAW.
Recorded == active /\ isAwake

\* WM_INPUT: Win32Keyboard::UpdateRAW.
ReadInput ==
  /\ at = "pump" /\ queue["input"] # <<>>
  /\ LET k == Head(queue["input"]).key
     IN  IF ~Recorded THEN UNCHANGED <<keyboard, ghosts>>
         ELSE IF Head(queue["input"]).make
         THEN /\ keyStates' = keyStates \cup {k}
              /\ wentDown' = IF k \in keyStates THEN wentDown ELSE wentDown \cup {k}
              /\ UNCHANGED <<holdStates, typed>>
         ELSE /\ keyStates' = keyStates \ {k}
              /\ wentDown' = wentDown \ {k}
              /\ typed' = [typed EXCEPT ![k] = 0]
              /\ UNCHANGED holdStates
  /\ queue' = Rest("input")
  /\ UNCHANGED <<user, tracking, posts, open, window, at>>

\* Faulty variant: the keys that are down stay recorded.
SleepKeepsKeys ==
  /\ isAwake' = FALSE
  /\ UNCHANGED <<keyboard, ghosts>>

\* Mouse::Sleep and Keyboard::Sleep.
Sleep ==
  /\ isAwake' = FALSE
  /\ keyStates' = {} /\ holdStates' = {}
  /\ wentDown' = {}
  /\ typed' = [k \in Keys |-> 0]

\* Faulty variant: only the pointer wakes the devices.
WakeNot == UNCHANGED <<isAwake, keyboard, ghosts>>

\* Mouse::Wake and Keyboard::Wake, on activation.
Wake == isAwake' = TRUE /\ UNCHANGED <<keyboard, ghosts>>

\* WM_ACTIVATE.
Activation ==
  /\ at = "pump" /\ queue["activation"] # <<>>
  /\ active' = Head(queue["activation"])
  /\ IF active' THEN Wake ELSE Sleep
  /\ queue' = Rest("activation")
  /\ UNCHANGED <<user, tracking, posts, open, mouseLeftWindow, forceQuit, at>>

\* WM_MOUSEMOVE: when the pointer has left meanwhile, TrackMouseEvent answers
\* with WM_MOUSELEAVE at once.
PointerMoved ==
  /\ at = "pump" /\ queue["pointer"] # <<>> /\ Head(queue["pointer"]) = "move"
  /\ tracking' = pointerIn
  /\ queue' = IF pointerIn \/ Contains(Rest("pointer")["pointer"], "leave")
              THEN Rest("pointer")
              ELSE [Rest("pointer") EXCEPT !["pointer"] = Append(@, "leave")]
  /\ mouseLeftWindow' = FALSE
  /\ IF mouseLeftWindow THEN isAwake' = TRUE ELSE UNCHANGED isAwake
  /\ UNCHANGED <<user, posts, open, active, forceQuit, keyboard, at, ghosts>>

\* WM_MOUSELEAVE.
PointerLeft ==
  /\ at = "pump" /\ queue["pointer"] # <<>> /\ Head(queue["pointer"]) = "leave"
  /\ mouseLeftWindow' = TRUE
  /\ Sleep
  /\ queue' = Rest("pointer")
  /\ UNCHANGED <<user, tracking, posts, open, active, forceQuit, at>>

\* Faulty variant: only the WM_QUIT of PostQuitMessage, which is never read once
\* the window is gone, would end the program.
QuitOnDestroyNot == UNCHANGED forceQuit

\* The last line of WM_DESTROY.
QuitOnDestroy == forceQuit' = TRUE

\* DestroyWindow deactivates the window, then sends WM_DESTROY; nothing is
\* delivered to the window any more.
Destroyed ==
  /\ at = "pump" /\ queue["pointer"] # <<>> /\ Head(queue["pointer"]) = "close"
  /\ open' = FALSE
  /\ QuitOnDestroy
  /\ active' = FALSE
  /\ Sleep
  /\ tracking' = FALSE
  /\ queue' = [s \in Stream |-> <<>>]
  /\ UNCHANGED <<user, posts, mouseLeftWindow, at>>

\* WM_QUIT and WM_CLOSE as CheckMessages sees them.
QuitRead ==
  /\ at = "pump" /\ queue["pointer"] # <<>> /\ Head(queue["pointer"]) = "quit"
  /\ forceQuit' = TRUE
  /\ queue' = Rest("pointer")
  /\ UNCHANGED <<user, tracking, posts, open, active, isAwake, mouseLeftWindow, keyboard, at, ghosts>>

ReadMessage ==
  ReadInput \/ Activation \/ PointerMoved \/ PointerLeft \/ Destroyed \/ QuitRead

\* PeekMessage finds nothing more: UpdateWindow returns !forceQuit.
EndUpdate ==
  /\ at = "pump"
  /\ \A s \in Stream : queue[s] = <<>>
  /\ at' = "frame"
  /\ typed' = [k \in Keys |->
                 IF KeyPressed(k) /\ typed[k] < 2 THEN typed[k] + 1 ELSE typed[k]]
  /\ UNCHANGED <<user, tracking, queue, posts, open, window, keyboard, wentDown>>

\* The caller uses the state of the frame and calls UpdateWindow again.
Frame ==
  /\ at = "frame"
  /\ at' = "update"
  /\ UNCHANGED <<user, tracking, queue, posts, open, window, keyboard, ghosts>>

InputNext == UserStep \/ BeginUpdate \/ ReadMessage \/ EndUpdate \/ Frame

InputSpec == InputInit /\ [][InputNext]_inputVars

-----------------------------------------------------------------------------
(* Properties.                                                              *)

\* No key stays recorded as down that the user has released, whatever went by
\* while the window was inactive or asleep: its release is still to be read
\* (Keyboard.cpp:20-24, Win32Keyboard.cpp:21-33).  The camera would drift for ever.
NoStuckKey ==
  \A k \in keyStates :
    k \in down \/ Contains(queue["input"], [key |-> k, make |-> FALSE])

\* While the window is inactive or the devices sleep no key is recorded as down or
\* as held, although raw input is delivered in the background (RIDEV_INPUTSINK)
\* and a moving pointer wakes the devices of an inactive window
\* (Win32Window.cpp:188, 219-275).  What counts is when a message is read: a key
\* typed into another window is recorded when its WM_INPUT is read only after the
\* window has been activated again (188-190, 229-233).
DeafWhenUnused ==
  ~active \/ ~isAwake => keyStates = {} /\ holdStates = {}

\* When all messages have been read and the user works in the window with the
\* pointer over it, the devices are awake, in whatever order the streams of
\* messages have been read: leaving and coming back never leaves the program deaf.
AwakeWhenUsed ==
  open /\ foreground /\ pointerIn /\ (\A s \in Stream : queue[s] = <<>>)
    => active /\ isAwake

\* One hold of a key is at most one press: the frames of a hold after the first do
\* not see it pressed, in spite of its repeats, so that a toggle changes no more
\* than once (Keyboard.h:180-182).  Only Sleep in between makes a second press of
\* it.  It may be none: UpdateRAW leaves holdStates alone when a key is released,
\* so that a key released and pressed again in one update is held, not pressed
\* (Win32Keyboard.cpp:31).
OnePressPerHold == \A k \in Keys : typed[k] <= 1
=============================================================================
