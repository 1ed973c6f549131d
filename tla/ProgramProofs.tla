---------------------------- MODULE ProgramProofs ----------------------------
(***************************************************************************)
(* What the keyboard guarantees for every set of keys, whatever the user   *)
(* does and however many messages an update reads, and what the program on *)
(* top of it makes of a key.                                               *)
(*                                                                         *)
(* NoStuckKey alone is not inductive.  A release that is read while the    *)
(* window is inactive or asleep is dropped: that is safe because nothing   *)
(* is recorded as down then (DeafWhenUnused).  A press that waits in the   *)
(* queue may be read after the user has released the key: that is safe     *)
(* because the release waits behind it (ReleaseFollows).                   *)
(*                                                                         *)
(* OnePressPerHold needs that a key that has been seen pressed is          *)
(* remembered as held when the next messages are read (HoldInv).           *)
(* AwakeWhenUsed is about empty queues: it needs what the messages that    *)
(* are still to be read will do (ActivationFollows, MoveFollows).          *)
(*                                                                         *)
(* Every step of the program is a step of the window or none               *)
(* (ProgramUsesWindow), so the program has all of this; a frame acts on    *)
(* presses only, and a press is of a key that has just gone down           *)
(* (PressIsNew).                                                           *)
(*                                                                         *)
(* Before its loop main reads the settings.  That each is the number of    *)
(* its own line follows from how many lines the stream has handed out, and *)
(* from what the string is left with when they are all gone (StreamInv).   *)
(***************************************************************************)
EXTENDS Program, SettingsLoader, TLAPS

Release(k) == [key |-> k, make |-> FALSE]

\* A press that is still to be read is of a key that is still held, or its
\* release comes after it in the queue.
ReleaseFollows ==
  LET q == queue["input"]
  IN  \A n \in 1 .. Len(q) :
        q[n].make => \/ q[n].key \in down
                     \/ \E i \in n + 1 .. Len(q) : q[i] = Release(q[n].key)

IInv == QueueOK /\ DeafWhenUnused /\ NoStuckKey /\ ReleaseFollows

\* Contains without the operator of the library.
LEMMA StuckDef ==
  NoStuckKey <=>
    \A k \in keyStates :
      k \in down \/ \E i \in 1 .. Len(queue["input"]) : queue["input"][i] = Release(k)
BY DEF NoStuckKey, Contains, Release

LEMMA StuckDefNext ==
  NoStuckKey' <=>
    \A k \in keyStates' :
      k \in down' \/ \E i \in 1 .. Len(queue'["input"]) : queue'["input"][i] = Release(k)
BY DEF NoStuckKey, Contains, Release

-----------------------------------------------------------------------------
(* What happens to the queue of raw input.                                  *)

\* A step that leaves the queue of raw input alone, releases no key and records
\* none preserves the two facts about keys.
LEMMA OthersKeepKeys ==
  ASSUME NoStuckKey, ReleaseFollows,
         queue'["input"] = queue["input"], down' = down, keyStates' \subseteq keyStates
  PROVE  NoStuckKey' /\ ReleaseFollows'
BY StuckDef, StuckDefNext DEF ReleaseFollows

\* Posting to a stream changes no other stream.
LEMMA PostOthers ==
  ASSUME QueueOK, NEW s \in Stream, NEW m, Post(s, m)
  PROVE  /\ DOMAIN queue' = Stream
         /\ queue'[s] = Append(queue[s], m)
         /\ \A t \in Stream \ {s} : queue'[t] = queue[t]
BY DEF QueueOK, Post

\* Reading from a stream changes no other stream.
LEMMA RestOthers ==
  ASSUME QueueOK, NEW s \in Stream
  PROVE  /\ DOMAIN Rest(s) = Stream
         /\ Rest(s)[s] = Tail(queue[s])
         /\ \A t \in Stream \ {s} : Rest(s)[t] = queue[t]
BY DEF QueueOK, Rest

\* A message appended to a stream keeps its type.
LEMMA PostKeepsType ==
  ASSUME QueueOK, NEW s \in Stream, NEW m, Post(s, m),
         \/ s = "input" /\ m \in KeyMessage
         \/ s = "activation" /\ m \in BOOLEAN
         \/ s = "pointer" /\ m \in PointerMessage
  PROVE  QueueOK'
<1>1. CASE s = "input"
  <2>1. Append(queue[s], m) \in Seq(KeyMessage)
    BY <1>1 DEF QueueOK
  <2> QED
    BY <1>1, <2>1, PostOthers DEF QueueOK, Stream
<1>2. CASE s = "activation"
  <2>1. Append(queue[s], m) \in Seq(BOOLEAN)
    BY <1>2 DEF QueueOK
  <2> QED
    BY <1>2, <2>1, PostOthers DEF QueueOK, Stream
<1>3. CASE s = "pointer"
  <2>1. Append(queue[s], m) \in Seq(PointerMessage)
    BY <1>3 DEF QueueOK
  <2> QED
    BY <1>3, <2>1, PostOthers DEF QueueOK, Stream
<1> QED
  BY <1>1, <1>2, <1>3 DEF Stream

\* A message read from a stream leaves the streams typed.
LEMMA RestKeepsType ==
  ASSUME QueueOK, NEW s \in Stream, queue[s] # <<>>, queue' = Rest(s)
  PROVE  QueueOK'
<1>1. CASE s = "input"
  <2>1. Tail(queue[s]) \in Seq(KeyMessage)
    BY <1>1 DEF QueueOK
  <2> QED
    BY <1>1, <2>1, RestOthers DEF QueueOK, Stream
<1>2. CASE s = "activation"
  <2>1. Tail(queue[s]) \in Seq(BOOLEAN)
    BY <1>2 DEF QueueOK
  <2> QED
    BY <1>2, <2>1, RestOthers DEF QueueOK, Stream
<1>3. CASE s = "pointer"
  <2>1. Tail(queue[s]) \in Seq(PointerMessage)
    BY <1>3 DEF QueueOK
  <2> QED
    BY <1>3, <2>1, RestOthers DEF QueueOK, Stream
<1> QED
  BY <1>1, <1>2, <1>3 DEF Stream

-----------------------------------------------------------------------------
(* The initial states, and the steps of the user.                           *)

LEMMA InitIInv == InputInit => IInv
BY DEF InputInit, IInv, QueueOK, DeafWhenUnused, NoStuckKey, ReleaseFollows, Stream

\* What the user does leaves the program's own state alone.
LEMMA UserKeepsDeaf ==
  ASSUME DeafWhenUnused, UserStep
  PROVE  DeafWhenUnused' /\ keyStates' = keyStates
BY DEF UserStep, PressKey, ReleaseKey, SwitchWindow, MovePointer, PointerLeaves,
       CloseWindow, userOnly, window, keyboard, DeafWhenUnused

LEMMA PressKeepsIInv ==
  ASSUME IInv, NEW k \in Keys, PressKey(k)
  PROVE  IInv'
<1> DEFINE q == queue["input"]
           m == [key |-> k, make |-> TRUE]
<1>1. Post("input", m) /\ down' = down \cup {k} /\ keyStates' = keyStates
  BY DEF PressKey, userOnly, keyboard
<1>2. q' = Append(q, m) /\ q \in Seq(KeyMessage) /\ m \in KeyMessage
  BY <1>1, PostOthers DEF IInv, QueueOK, Stream, KeyMessage
<1>3. QueueOK'
  BY <1>1, <1>2, PostKeepsType DEF IInv, Stream
<1>4. DeafWhenUnused'
  BY UserKeepsDeaf DEF IInv, UserStep
<1>5. /\ Len(q') = Len(q) + 1
      /\ Len(q) \in Nat
      /\ \A i \in 1 .. Len(q) : q'[i] = q[i]
      /\ q'[Len(q) + 1] = m
  BY <1>2
<1>6. NoStuckKey'
  <2> SUFFICES ASSUME NEW j \in keyStates', j \notin down'
               PROVE  \E i \in 1 .. Len(q') : q'[i] = Release(j)
    BY StuckDefNext
  <2>1. PICK i \in 1 .. Len(q) : q[i] = Release(j)
    BY <1>1, StuckDef DEF IInv
  <2>2. i \in 1 .. Len(q') /\ q'[i] = Release(j)
    BY <1>5, <2>1
  <2> QED
    BY <2>2
<1>7. ReleaseFollows'
  <2> SUFFICES ASSUME NEW n \in 1 .. Len(q'), q'[n].make, q'[n].key \notin down'
               PROVE  \E i \in n + 1 .. Len(q') : q'[i] = Release(q'[n].key)
    BY DEF ReleaseFollows
  <2>1. n \in 1 .. Len(q) /\ q'[n] = q[n]
    BY <1>1, <1>5
  <2>2. PICK i \in n + 1 .. Len(q) : q[i] = Release(q[n].key)
    BY <1>1, <2>1 DEF IInv, ReleaseFollows
  <2>3. i \in n + 1 .. Len(q') /\ q'[i] = Release(q'[n].key)
    BY <1>5, <2>1, <2>2
  <2> QED
    BY <2>3
<1> QED
  BY <1>3, <1>4, <1>6, <1>7 DEF IInv

LEMMA ReleaseKeepsIInv ==
  ASSUME IInv, NEW k \in Keys, ReleaseKey(k)
  PROVE  IInv'
<1> DEFINE q == queue["input"]
<1>1. Post("input", Release(k)) /\ down' = down \ {k} /\ keyStates' = keyStates
  BY DEF ReleaseKey, Release, userOnly, keyboard
<1>2. q' = Append(q, Release(k)) /\ q \in Seq(KeyMessage) /\ Release(k) \in KeyMessage
  BY <1>1, PostOthers DEF IInv, QueueOK, Stream, KeyMessage, Release
<1>3. QueueOK'
  BY <1>1, <1>2, PostKeepsType DEF IInv, Stream
<1>4. DeafWhenUnused'
  BY UserKeepsDeaf DEF IInv, UserStep
<1>5. /\ Len(q') = Len(q) + 1
      /\ Len(q) \in Nat
      /\ \A i \in 1 .. Len(q) : q'[i] = q[i]
      /\ q'[Len(q) + 1] = Release(k)
  BY <1>2
<1>6. NoStuckKey'
  <2> SUFFICES ASSUME NEW j \in keyStates', j \notin down'
               PROVE  \E i \in 1 .. Len(q') : q'[i] = Release(j)
    BY StuckDefNext
  <2>1. CASE j = k
    BY <1>5, <2>1
  <2>2. CASE j # k
    <3>1. PICK i \in 1 .. Len(q) : q[i] = Release(j)
      BY <1>1, <2>2, StuckDef DEF IInv
    <3>2. i \in 1 .. Len(q') /\ q'[i] = Release(j)
      BY <1>5, <3>1
    <3> QED
      BY <3>2
  <2> QED
    BY <2>1, <2>2
<1>7. ReleaseFollows'
  <2> SUFFICES ASSUME NEW n \in 1 .. Len(q'), q'[n].make, q'[n].key \notin down'
               PROVE  \E i \in n + 1 .. Len(q') : q'[i] = Release(q'[n].key)
    BY DEF ReleaseFollows
  <2>1. n \in 1 .. Len(q) /\ q'[n] = q[n]
    BY <1>5 DEF Release
  <2>2. CASE q[n].key = k
    <3>1. Len(q) + 1 \in n + 1 .. Len(q') /\ q'[Len(q) + 1] = Release(q'[n].key)
      BY <1>5, <2>1, <2>2
    <3> QED
      BY <3>1
  <2>3. CASE q[n].key # k
    <3>1. PICK i \in n + 1 .. Len(q) : q[i] = Release(q[n].key)
      BY <1>1, <2>1, <2>3 DEF IInv, ReleaseFollows
    <3>2. i \in n + 1 .. Len(q') /\ q'[i] = Release(q'[n].key)
      BY <1>5, <2>1, <3>1
    <3> QED
      BY <3>2
  <2> QED
    BY <2>2, <2>3
<1> QED
  BY <1>3, <1>4, <1>6, <1>7 DEF IInv

LEMMA UserKeepsIInv ==
  ASSUME IInv, UserStep
  PROVE  IInv'
<1> USE DEF IInv
<1> DEFINE Elsewhere == queue'["input"] = queue["input"] /\ down' = down
<1>1. CASE \E k \in Keys : PressKey(k) \/ ReleaseKey(k)
  BY <1>1, PressKeepsIInv, ReleaseKeepsIInv
<1>2. CASE SwitchWindow
  <2>1. Post("activation", foreground') /\ foreground' \in BOOLEAN /\ down' = down
    BY <1>2 DEF SwitchWindow
  <2>2. QueueOK' /\ Elsewhere
    BY <2>1, PostKeepsType, PostOthers DEF Stream
  <2> QED
    BY <2>2, UserKeepsDeaf, OthersKeepKeys
<1>3. CASE MovePointer
  <2>1. Post("pointer", "move") /\ down' = down
    BY <1>3 DEF MovePointer
  <2>2. QueueOK' /\ Elsewhere
    BY <2>1, PostKeepsType, PostOthers DEF Stream, PointerMessage
  <2> QED
    BY <2>2, UserKeepsDeaf, OthersKeepKeys
<1>4. CASE PointerLeaves
  <2>1. (Post("pointer", "leave") \/ queue' = queue) /\ down' = down
    BY <1>4 DEF PointerLeaves
  <2>2. QueueOK' /\ Elsewhere
    BY <2>1, PostKeepsType, PostOthers DEF Stream, PointerMessage, QueueOK
  <2> QED
    BY <2>2, UserKeepsDeaf, OthersKeepKeys
<1>5. CASE \E m \in {"close", "quit"} : CloseWindow(m)
  <2>1. PICK m \in {"close", "quit"} : Post("pointer", m) /\ down' = down
    BY <1>5 DEF CloseWindow, user
  <2>2. QueueOK' /\ Elsewhere
    BY <2>1, PostKeepsType, PostOthers DEF Stream, PointerMessage
  <2> QED
    BY <2>2, UserKeepsDeaf, OthersKeepKeys
<1> QED
  BY <1>1, <1>2, <1>3, <1>4, <1>5 DEF UserStep

-----------------------------------------------------------------------------
(* The steps of the pump.                                                   *)

LEMMA TailShifts ==
  ASSUME NEW S, NEW q \in Seq(S), q # <<>>
  PROVE  /\ Len(q) \in Nat \ {0}
         /\ Len(Tail(q)) = Len(q) - 1
         /\ \A i \in 1 .. Len(Tail(q)) : Tail(q)[i] = q[i + 1]
         /\ Head(q) = q[1]
         /\ q[1] \in S
<1>1. Len(q) \in Nat \ {0}
  OBVIOUS
<1>2. Len(Tail(q)) = Len(q) - 1 /\ \A i \in 1 .. Len(Tail(q)) : Tail(q)[i] = q[i + 1]
  BY <1>1
<1>3. Head(q) = q[1] /\ q[1] \in S
  BY <1>1
<1> QED
  BY <1>1, <1>2, <1>3

\* The first message of the input leaves the queue.
LEMMA TailOfInput ==
  ASSUME QueueOK, queue["input"] # <<>>, queue' = Rest("input")
  PROVE  /\ Len(queue["input"]) \in Nat \ {0}
         /\ Len(queue'["input"]) = Len(queue["input"]) - 1
         /\ \A i \in 1 .. Len(queue'["input"]) :
              queue'["input"][i] = queue["input"][i + 1]
         /\ Head(queue["input"]) = queue["input"][1]
         /\ queue["input"][1] \in KeyMessage
<1>1. queue'["input"] = Tail(queue["input"]) /\ queue["input"] \in Seq(KeyMessage)
  BY RestOthers DEF QueueOK, Stream
<1> QED
  BY <1>1, TailShifts

LEMMA ReadInputKeepsIInv ==
  ASSUME IInv, ReadInput
  PROVE  IInv'
<1> DEFINE q == queue["input"]
           k == q[1].key
<1>1. queue' = Rest("input") /\ q # <<>> /\ down' = down
  BY DEF ReadInput, user
<1>2. QueueOK'
  BY <1>1, RestKeepsType DEF IInv, Stream
<1>3. /\ Len(q) \in Nat \ {0}
      /\ Len(q') = Len(q) - 1
      /\ \A i \in 1 .. Len(q') : q'[i] = q[i + 1]
      /\ Head(q) = q[1]
      /\ q[1] \in KeyMessage
  BY <1>1, TailOfInput DEF IInv
<1>4. active' = active /\ isAwake' = isAwake
  BY DEF ReadInput, window
<1>5. \/ ~Recorded /\ keyStates' = keyStates /\ holdStates' = holdStates
      \/ Recorded /\ q[1].make /\ keyStates' = keyStates \cup {k}
      \/ Recorded /\ ~q[1].make /\ keyStates' = keyStates \ {k}
  BY <1>3 DEF ReadInput, keyboard
<1>6. DeafWhenUnused'
  BY <1>4, <1>5 DEF IInv, DeafWhenUnused, Recorded
<1>7. NoStuckKey'
  <2> SUFFICES ASSUME NEW j \in keyStates', j \notin down
               PROVE  \E i \in 1 .. Len(q') : q'[i] = Release(j)
    BY <1>1, StuckDefNext
  <2>1. Recorded
    BY <1>5 DEF IInv, DeafWhenUnused, Recorded
  <2>2. q[1] # Release(j) /\ \E i \in 1 .. Len(q) : q[i] = Release(j)
    <3>1. CASE q[1].make
      <4>1. q[1] # Release(j)
        BY <3>1 DEF Release
      <4>2. CASE j = k
        <5>1. PICK i \in 1 + 1 .. Len(q) : q[i] = Release(j)
          BY <1>3, <3>1, <4>2 DEF IInv, ReleaseFollows
        <5> QED
          BY <1>3, <4>1, <5>1
      <4>3. CASE j # k
        BY <1>5, <2>1, <3>1, <4>1, <4>3, StuckDef DEF IInv
      <4> QED
        BY <4>2, <4>3
    <3>2. CASE ~q[1].make
      <4>1. j \in keyStates /\ j # k
        BY <1>5, <2>1, <3>2
      <4>2. q[1] # Release(j)
        BY <4>1 DEF Release
      <4> QED
        BY <4>1, <4>2, StuckDef DEF IInv
    <3> QED
      BY <3>1, <3>2
  <2>3. PICK i \in 1 .. Len(q) : q[i] = Release(j)
    BY <2>2
  <2>4. i - 1 \in 1 .. Len(q') /\ q'[i - 1] = Release(j)
    BY <1>3, <2>2, <2>3
  <2> QED
    BY <2>4
<1>8. ReleaseFollows'
  <2> SUFFICES ASSUME NEW n \in 1 .. Len(q'), q'[n].make, q'[n].key \notin down
               PROVE  \E i \in n + 1 .. Len(q') : q'[i] = Release(q'[n].key)
    BY <1>1 DEF ReleaseFollows
  <2>1. n + 1 \in 1 .. Len(q) /\ q'[n] = q[n + 1]
    BY <1>3
  <2>2. PICK i \in n + 1 + 1 .. Len(q) : q[i] = Release(q[n + 1].key)
    BY <2>1 DEF IInv, ReleaseFollows
  <2>3. i - 1 \in n + 1 .. Len(q') /\ q'[i - 1] = Release(q'[n].key)
    BY <1>3, <2>1, <2>2
  <2> QED
    BY <2>3
<1> QED
  BY <1>2, <1>6, <1>7, <1>8 DEF IInv

\* The other messages record no key, and forget all keys where they put the
\* devices to sleep.
LEMMA OtherMessagesKeepIInv ==
  ASSUME IInv, Activation \/ PointerMoved \/ PointerLeft \/ Destroyed \/ QuitRead
  PROVE  IInv'
<1> USE DEF IInv
<1>1. CASE Activation
  <2>1. queue' = Rest("activation") /\ queue["activation"] # <<>> /\ down' = down
    BY <1>1 DEF Activation, user
  <2>2. QueueOK' /\ queue'["input"] = queue["input"]
    BY <2>1, RestKeepsType, RestOthers DEF Stream
  <2>3. DeafWhenUnused' /\ keyStates' \subseteq keyStates
    BY <1>1 DEF Activation, Wake, Sleep, keyboard, DeafWhenUnused
  <2> QED
    BY <2>1, <2>2, <2>3, OthersKeepKeys
<1>2. CASE PointerMoved
  <2>1. QueueOK' /\ queue'["input"] = queue["input"]
    <3>1. DOMAIN Rest("pointer") = Stream
          /\ Rest("pointer")["pointer"] \in Seq(PointerMessage)
          /\ \A t \in Stream \ {"pointer"} : Rest("pointer")[t] = queue[t]
      <4>1. queue["pointer"] # <<>> /\ queue["pointer"] \in Seq(PointerMessage)
        BY <1>2 DEF PointerMoved, QueueOK
      <4>2. Tail(queue["pointer"]) \in Seq(PointerMessage)
        BY <4>1
      <4> QED
        BY <4>2, RestOthers DEF Stream
    <3>2. Append(Rest("pointer")["pointer"], "leave") \in Seq(PointerMessage)
      BY <3>1 DEF PointerMessage
    <3>3. \/ queue' = Rest("pointer")
          \/ queue' = [Rest("pointer") EXCEPT
                         !["pointer"] = Append(Rest("pointer")["pointer"], "leave")]
      BY <1>2 DEF PointerMoved
    <3> QED
      BY <3>1, <3>2, <3>3 DEF QueueOK, Stream
  <2>2. DeafWhenUnused' /\ keyStates' = keyStates /\ down' = down
    BY <1>2 DEF PointerMoved, user, keyboard, DeafWhenUnused
  <2> QED
    BY <2>1, <2>2, OthersKeepKeys
<1>3. CASE PointerLeft
  <2>1. queue' = Rest("pointer") /\ queue["pointer"] # <<>> /\ down' = down
    BY <1>3 DEF PointerLeft, user
  <2>2. QueueOK' /\ queue'["input"] = queue["input"]
    BY <2>1, RestKeepsType, RestOthers DEF Stream
  <2>3. DeafWhenUnused' /\ keyStates' \subseteq keyStates
    BY <1>3 DEF PointerLeft, Sleep, DeafWhenUnused
  <2> QED
    BY <2>1, <2>2, <2>3, OthersKeepKeys
<1>4. CASE Destroyed
  <2>1. queue' = [s \in Stream |-> <<>>] /\ keyStates' = {} /\ holdStates' = {}
    BY <1>4 DEF Destroyed, Sleep
  <2>2. QueueOK' /\ queue'["input"] = <<>>
    BY <2>1 DEF QueueOK, Stream
  <2> QED
    BY <2>1, <2>2, StuckDefNext DEF DeafWhenUnused, ReleaseFollows
<1>5. CASE QuitRead
  <2>1. queue' = Rest("pointer") /\ queue["pointer"] # <<>> /\ down' = down
    BY <1>5 DEF QuitRead, user
  <2>2. QueueOK' /\ queue'["input"] = queue["input"]
    BY <2>1, RestKeepsType, RestOthers DEF Stream
  <2>3. DeafWhenUnused' /\ keyStates' \subseteq keyStates
    BY <1>5 DEF QuitRead, keyboard, DeafWhenUnused
  <2> QED
    BY <2>1, <2>2, <2>3, OthersKeepKeys
<1> QED
  BY <1>1, <1>2, <1>3, <1>4, <1>5

\* Beginning and ending an update.  While the devices sleep no key is recorded,
\* so that UpdateFrameState remembers none either.
LEMMA FrameKeepsIInv ==
  ASSUME IInv, BeginUpdate \/ EndUpdate \/ Frame \/ UNCHANGED inputVars
  PROVE  IInv'
<1>1. queue' = queue /\ down' = down /\ keyStates' = keyStates
  BY DEF BeginUpdate, EndUpdate, Frame, inputVars, user, keyboard
<1>2. DeafWhenUnused'
  BY DEF BeginUpdate, EndUpdate, Frame, inputVars, window, keyboard, UpdatedHold,
         IInv, DeafWhenUnused
<1>3. QueueOK'
  BY <1>1 DEF IInv, QueueOK
<1> QED
  BY <1>1, <1>2, <1>3, OthersKeepKeys DEF IInv

-----------------------------------------------------------------------------
(* What follows for the keys.                                               *)

LEMMA InputInvariant == InputSpec => []IInv
<1>1. InputInit => IInv
  BY InitIInv
<1>2. IInv /\ [InputNext]_inputVars => IInv'
  BY UserKeepsIInv, ReadInputKeepsIInv, OtherMessagesKeepIInv, FrameKeepsIInv
     DEF InputNext, ReadMessage
<1> QED
  BY <1>1, <1>2, PTL DEF InputSpec

\* A key that the user has released does not stay recorded as down: whatever
\* was dropped while the window was inactive or asleep, the release is still to
\* be read (Keyboard::Sleep, Win32Keyboard::UpdateRAW).
THEOREM KeysNeverStick == InputSpec => []NoStuckKey
BY InputInvariant, PTL DEF IInv

\* No key is recorded or remembered as held while the window is inactive or the
\* devices sleep (Win32Window::CheckMessages, Keyboard::UpdateFrameState).
THEOREM DeafAlways == InputSpec => []DeafWhenUnused
BY InputInvariant, PTL DEF IInv

-----------------------------------------------------------------------------
(* The types, and the press of a hold.                                      *)

Flags ==
  /\ foreground \in BOOLEAN /\ pointerIn \in BOOLEAN /\ tracking \in BOOLEAN
  /\ open \in BOOLEAN /\ active \in BOOLEAN /\ isAwake \in BOOLEAN
  /\ mouseLeftWindow \in BOOLEAN /\ forceQuit \in BOOLEAN

\* A window that has been destroyed gets no messages and ends the program.
Closed == ~open => forceQuit /\ ~active /\ \A s \in Stream : queue[s] = <<>>

KeysOK ==
  /\ down \subseteq Keys /\ keyStates \subseteq Keys /\ holdStates \subseteq Keys
  /\ wentDown \subseteq keyStates

\* A key has been seen pressed at most once since it went down; it is down since, and
\* when the next update reads its messages it is remembered as held.
HoldInv ==
  /\ typed \in [Keys -> 0 .. 1]
  /\ \A k \in Keys : typed[k] = 1 => k \in keyStates /\ (at = "pump" => k \in holdStates)

TypeInv ==
  /\ QueueOK /\ Flags /\ Closed /\ KeysOK /\ HoldInv
  /\ posts \in 0 .. MaxPosts
  /\ at \in {"update", "pump", "frame"}

LEMMA InvTypes == TypeInv => InputTypeOK /\ OnePressPerHold
<1> SUFFICES ASSUME TypeInv PROVE InputTypeOK /\ OnePressPerHold
  OBVIOUS
<1> USE DEF TypeInv
<1>1. typed \in [Keys -> 0 .. 2] /\ OnePressPerHold
  BY DEF HoldInv, OnePressPerHold
<1>2. {foreground, pointerIn, tracking, open, active, isAwake, mouseLeftWindow, forceQuit}
        \subseteq BOOLEAN
  BY DEF Flags
<1> QED
  BY <1>1, <1>2 DEF InputTypeOK, KeysOK, Closed

LEMMA InitTypes == InputInit => TypeInv
<1> SUFFICES ASSUME InputInit PROVE TypeInv
  OBVIOUS
<1>1. QueueOK
  BY InitIInv DEF IInv
<1>2. Flags
  BY DEF InputInit, Flags
<1>3. Closed /\ KeysOK
  BY DEF InputInit, Closed, KeysOK
<1>4. HoldInv
  BY DEF InputInit, HoldInv
<1>5. posts \in 0 .. MaxPosts
  BY InputAssumption DEF InputInit
<1>6. at \in {"update", "pump", "frame"}
  BY DEF InputInit
<1> QED
  BY <1>1, <1>2, <1>3, <1>4, <1>5, <1>6 DEF TypeInv

\* The user has a hand in nothing but the messages.
LEMMA UserKeepsTypes ==
  ASSUME TypeInv, IInv', UserStep
  PROVE  TypeInv'
<1> USE DEF TypeInv
<1>1. UNCHANGED userOnly
  BY DEF UserStep, PressKey, ReleaseKey, SwitchWindow, MovePointer, PointerLeaves, CloseWindow
<1>2. QueueOK'
  BY DEF IInv
<1>3. KeysOK' /\ HoldInv'
  <2>1. down' \subseteq Keys
    BY DEF UserStep, PressKey, ReleaseKey, SwitchWindow, MovePointer, PointerLeaves, CloseWindow,
           user, KeysOK
  <2> QED
    BY <1>1, <2>1 DEF KeysOK, HoldInv, userOnly, keyboard, ghosts
<1>4. posts' \in 0 .. MaxPosts /\ (open \/ queue' = queue)
  <2>1. ASSUME NEW s, NEW m, Post(s, m)
        PROVE  posts' \in 0 .. MaxPosts /\ open
    BY <2>1, InputAssumption DEF Post
  <2> QED
    BY <2>1 DEF UserStep, PressKey, ReleaseKey, SwitchWindow, MovePointer, PointerLeaves, CloseWindow
<1>5. foreground' \in BOOLEAN /\ pointerIn' \in BOOLEAN /\ tracking' \in BOOLEAN
  BY DEF UserStep, PressKey, ReleaseKey, SwitchWindow, MovePointer, PointerLeaves, CloseWindow,
         user, Flags
<1>6. Flags'
  BY <1>1, <1>5 DEF Flags, userOnly, window
<1>7. Closed' /\ at' \in {"update", "pump", "frame"}
  BY <1>1, <1>4 DEF Closed, userOnly, window
<1> QED
  BY <1>2, <1>3, <1>4, <1>6, <1>7

LEMMA ReadInputKeepsTypes ==
  ASSUME TypeInv, IInv', ReadInput
  PROVE  TypeInv'
<1> USE DEF TypeInv
<1> DEFINE q == queue["input"]
           k == Head(q).key
<1>1. /\ q # <<>> /\ q \in Seq(KeyMessage) /\ at = "pump"
      /\ UNCHANGED <<user, tracking, posts, open, window, at>>
  BY DEF ReadInput, QueueOK
<1>2. k \in Keys
  <2>1. Head(q) \in KeyMessage
    BY <1>1, TailShifts
  <2> QED
    BY <2>1 DEF KeyMessage
<1>3. open
  BY <1>1 DEF Closed, Stream
<1>4. Flags' /\ Closed' /\ at' \in {"update", "pump", "frame"} /\ posts' \in 0 .. MaxPosts
  BY <1>1, <1>3 DEF Flags, Closed, user, window
<1>5. KeysOK' /\ HoldInv'
  <2>1. \/ UNCHANGED <<keyboard, ghosts>>
        \/ /\ keyStates' = keyStates \cup {k} /\ UNCHANGED <<holdStates, typed>>
           /\ wentDown' = IF k \in keyStates THEN wentDown ELSE wentDown \cup {k}
        \/ /\ keyStates' = keyStates \ {k} /\ wentDown' = wentDown \ {k}
           /\ typed' = [typed EXCEPT ![k] = 0] /\ UNCHANGED holdStates
    BY DEF ReadInput
  <2> HIDE DEF k
  <2>2. KeysOK'
    BY <1>1, <1>2, <2>1 DEF KeysOK, keyboard, ghosts, user
  <2>3. HoldInv'
    BY <1>1, <1>2, <2>1 DEF HoldInv, keyboard, ghosts
  <2> QED
    BY <2>2, <2>3
<1>6. QueueOK'
  BY DEF IInv
<1> QED
  BY <1>4, <1>5, <1>6

LEMMA SleepKeepsKeysOK ==
  ASSUME TypeInv, Sleep, down' = down, at' = at
  PROVE  KeysOK' /\ HoldInv'
<1>1. KeysOK'
  BY DEF TypeInv, KeysOK, Sleep
<1>2. typed' = [k \in Keys |-> 0] /\ 0 \in 0 .. 1
  BY DEF Sleep
<1>3. HoldInv'
  BY <1>2 DEF HoldInv
<1> QED
  BY <1>1, <1>3

LEMMA OtherMessagesKeepTypes ==
  ASSUME TypeInv, IInv', Activation \/ PointerMoved \/ PointerLeft \/ Destroyed \/ QuitRead
  PROVE  TypeInv'
<1> USE DEF TypeInv
<1>1. /\ UNCHANGED <<user, posts, at>> /\ QueueOK'
      /\ \E s \in Stream : queue[s] # <<>>
  BY DEF Activation, PointerMoved, PointerLeft, Destroyed, QuitRead, IInv, Stream
<1>2. open
  BY <1>1 DEF Closed
<1>3. KeysOK' /\ HoldInv'
  <2>1. Sleep \/ UNCHANGED <<keyboard, ghosts>>
    BY DEF Activation, PointerMoved, PointerLeft, Destroyed, QuitRead, Wake
  <2>2. CASE UNCHANGED <<keyboard, ghosts>>
    BY <1>1, <2>2 DEF KeysOK, HoldInv, keyboard, ghosts, user
  <2> QED
    BY <1>1, <2>1, <2>2, SleepKeepsKeysOK DEF user
<1>4. active' \in BOOLEAN
  <2>1. queue["activation"] \in Seq(BOOLEAN)
    BY DEF QueueOK
  <2>2. queue["activation"] # <<>> => Head(queue["activation"]) \in BOOLEAN
    BY <2>1, TailShifts
  <2> QED
    BY <2>2 DEF Activation, PointerMoved, PointerLeft, Destroyed, QuitRead, Flags
<1>5. /\ open' \in BOOLEAN /\ isAwake' \in BOOLEAN /\ mouseLeftWindow' \in BOOLEAN
      /\ forceQuit' \in BOOLEAN /\ tracking' \in BOOLEAN
  BY DEF Activation, PointerMoved, PointerLeft, Destroyed, QuitRead, Wake, Sleep, QuitOnDestroy, Flags
<1>6. Flags'
  BY <1>1, <1>4, <1>5 DEF Flags, user
<1>7. Closed'
  BY <1>2 DEF Activation, PointerMoved, PointerLeft, Destroyed, QuitRead, QuitOnDestroy, Closed, Stream
<1> QED
  BY <1>1, <1>3, <1>6, <1>7

LEMMA FrameKeepsTypes ==
  ASSUME TypeInv, IInv', BeginUpdate \/ EndUpdate \/ Frame \/ UNCHANGED inputVars
  PROVE  TypeInv'
<1> USE DEF TypeInv
<1>1. /\ UNCHANGED <<user, tracking, queue, open, window, keyStates>> /\ QueueOK'
      /\ at' \in {"update", "pump", "frame"}
  BY DEF BeginUpdate, EndUpdate, Frame, inputVars, keyboard, IInv
<1>2. posts' \in 0 .. MaxPosts
  BY InputAssumption DEF BeginUpdate, EndUpdate, Frame, inputVars
<1>3. Flags' /\ Closed'
  BY <1>1 DEF Flags, Closed, user, window
<1>4. KeysOK'
  BY <1>1 DEF BeginUpdate, EndUpdate, Frame, inputVars, KeysOK, user, keyboard, ghosts, UpdatedHold
<1>5. HoldInv'
  <2>1. CASE EndUpdate
    <3>1. /\ at = "pump" /\ at' = "frame" /\ UNCHANGED <<keyStates, holdStates>>
          /\ typed' = [k \in Keys |-> IF KeyPressed(k) /\ typed[k] < 2 THEN typed[k] + 1 ELSE typed[k]]
      BY <2>1 DEF EndUpdate, keyboard
    <3>2. ASSUME NEW k \in Keys
          PROVE  typed'[k] \in 0 .. 1 /\ (typed'[k] = 1 => k \in keyStates)
      <4>1. typed'[k] = IF KeyPressed(k) /\ typed[k] < 2 THEN typed[k] + 1 ELSE typed[k]
        BY <3>1
      <4>2. typed[k] \in 0 .. 1 /\ (typed[k] = 1 => k \in keyStates /\ k \in holdStates)
        BY <3>1 DEF HoldInv
      <4>3. KeyPressed(k) <=> k \in keyStates /\ k \notin holdStates
        BY DEF KeyPressed, KeyHeld, KeyDown
      <4> QED
        BY <4>1, <4>2, <4>3
    <3>3. typed' \in [Keys -> 0 .. 1]
      BY <3>1, <3>2
    <3> QED
      BY <3>1, <3>2, <3>3 DEF HoldInv
  <2>2. CASE BeginUpdate
    BY <2>2 DEF BeginUpdate, HoldInv, UpdatedHold
  <2>3. CASE Frame \/ UNCHANGED inputVars
    BY <2>3 DEF Frame, inputVars, HoldInv, keyboard, ghosts
  <2> QED
    BY <2>1, <2>2, <2>3
<1> QED
  BY <1>1, <1>2, <1>3, <1>4, <1>5

LEMMA TypeInvariant == InputSpec => []TypeInv
<1>1. TypeInv /\ IInv' /\ [InputNext]_inputVars => TypeInv'
  BY UserKeepsTypes, ReadInputKeepsTypes, OtherMessagesKeepTypes, FrameKeepsTypes
     DEF InputNext, ReadMessage
<1> QED
  BY <1>1, InitTypes, InputInvariant, PTL DEF InputSpec

\* Every variable of window and keyboard keeps its type, a key that went down in this
\* update is down, and a window that was closed is inactive and ends the program
\* (Win32Window.cpp, WM_DESTROY).
THEOREM InputTypes == InputSpec => []InputTypeOK
BY InvTypes, TypeInvariant, PTL

\* One hold of a key is at most one press, for every number of messages in an update and
\* whatever is read in between (Keyboard.h:180-182, Keyboard.cpp:20-24).
THEOREM OnePressAlways == InputSpec => []OnePressPerHold
BY InvTypes, TypeInvariant, PTL

-----------------------------------------------------------------------------
(* Leaving the window and coming back.                                      *)

\* The last message about activation that is still to be read, or else the one read
\* last, is where the user works now.
ActivationFollows ==
  LET q == queue["activation"]
  IN  open => foreground = IF q = <<>> THEN active ELSE q[Len(q)]

\* While the pointer is over the window, a message that it moved is still to be read
\* after each message that it left, the one that was read last included.
MoveFollows ==
  LET q == queue["pointer"]
  IN  open /\ pointerIn =>
        /\ mouseLeftWindow => \E i \in 1 .. Len(q) : q[i] = "move"
        /\ \A n \in 1 .. Len(q) : q[n] = "leave" => \E i \in n + 1 .. Len(q) : q[i] = "move"

\* Only the pointer outside keeps an active window asleep.
AwakeInside == active /\ ~mouseLeftWindow => isAwake

AwakeInv == ActivationFollows /\ MoveFollows /\ AwakeInside

LEMMA InvAwake == AwakeInv => AwakeWhenUsed
<1> SUFFICES ASSUME AwakeInv, open, foreground, pointerIn, \A s \in Stream : queue[s] = <<>>
             PROVE  active /\ isAwake
  BY DEF AwakeWhenUsed
<1>1. queue["activation"] = <<>> /\ queue["pointer"] = <<>>
  BY DEF Stream
<1>2. active
  BY <1>1 DEF AwakeInv, ActivationFollows
<1>3. ~mouseLeftWindow
  BY <1>1 DEF AwakeInv, MoveFollows
<1> QED
  BY <1>2, <1>3 DEF AwakeInv, AwakeInside

LEMMA InitAwake == InputInit => AwakeInv
BY DEF InputInit, AwakeInv, ActivationFollows, MoveFollows, AwakeInside, Stream

LEMMA AppendFacts ==
  ASSUME NEW S, NEW q \in Seq(S), NEW m
  PROVE  /\ Len(q) \in Nat /\ Len(Append(q, m)) = Len(q) + 1 /\ Append(q, m) # <<>>
         /\ Append(q, m)[Len(q) + 1] = m
         /\ \A i \in 1 .. Len(q) : Append(q, m)[i] = q[i]
<1> DEFINE T == S \cup {m}
<1>1. q \in Seq(T) /\ m \in T
  OBVIOUS
<1> HIDE DEF T
<1>2. /\ Len(q) \in Nat /\ Len(Append(q, m)) = Len(q) + 1
      /\ Append(q, m)[Len(q) + 1] = m
      /\ \A i \in 1 .. Len(q) : Append(q, m)[i] = q[i]
  BY <1>1
<1>3. Append(q, m) # <<>>
  <2>1. Len(<<>>) = 0
    OBVIOUS
  <2> QED
    BY <1>2, <2>1
<1> QED
  BY <1>2, <1>3

\* A message that is posted is the last one.
LEMMA PostKeepsMove ==
  ASSUME QueueOK, MoveFollows, NEW m, Post("pointer", m), UNCHANGED <<open, mouseLeftWindow>>,
         m = "move" \/ ~pointerIn' \/ (m # "leave" /\ pointerIn' = pointerIn)
  PROVE  MoveFollows'
<1> DEFINE q == queue["pointer"]
<1>1. q' = Append(q, m) /\ q \in Seq(PointerMessage)
  BY PostOthers DEF QueueOK, Stream
<1>2. /\ Len(q) \in Nat /\ Len(q') = Len(q) + 1 /\ q'[Len(q) + 1] = m
      /\ \A i \in 1 .. Len(q) : q'[i] = q[i]
  BY <1>1, AppendFacts
<1> HIDE DEF q
<1>3. SUFFICES ASSUME open, pointerIn'
               PROVE  /\ mouseLeftWindow => \E i \in 1 .. Len(q') : q'[i] = "move"
                      /\ \A n \in 1 .. Len(q') : q'[n] = "leave" =>
                           \E i \in n + 1 .. Len(q') : q'[i] = "move"
  BY DEF MoveFollows, q
<1>4. CASE m = "move"
  <2>1. ASSUME NEW n \in 1 .. Len(q'), q'[n] = "leave"
        PROVE  Len(q) + 1 \in n + 1 .. Len(q')
    BY <1>2, <1>4, <2>1
  <2> QED
    BY <1>2, <1>4, <2>1
<1>5. CASE m # "leave" /\ pointerIn' = pointerIn
  <2>1. /\ mouseLeftWindow => \E i \in 1 .. Len(q) : q[i] = "move"
        /\ \A n \in 1 .. Len(q) : q[n] = "leave" => \E i \in n + 1 .. Len(q) : q[i] = "move"
    BY <1>3, <1>5 DEF MoveFollows, q
  <2>2. ASSUME NEW n \in 1 .. Len(q'), q'[n] = "leave"
        PROVE  \E i \in n + 1 .. Len(q') : q'[i] = "move"
    <3>1. n \in 1 .. Len(q) /\ q[n] = "leave"
      BY <1>2, <1>5, <2>2
    <3>2. PICK i \in n + 1 .. Len(q) : q[i] = "move"
      BY <2>1, <3>1
    <3>3. i \in n + 1 .. Len(q') /\ q'[i] = "move"
      BY <1>2, <3>1, <3>2
    <3> QED
      BY <3>3
  <2>3. mouseLeftWindow => \E i \in 1 .. Len(q') : q'[i] = "move"
    BY <1>2, <2>1
  <2> QED
    BY <2>2, <2>3
<1> QED
  BY <1>3, <1>4, <1>5

\* A message that is read was the first one.
LEMMA RestKeepsMove ==
  ASSUME QueueOK, MoveFollows, queue["pointer"] # <<>>,
         queue'["pointer"] = Tail(queue["pointer"]), UNCHANGED <<open, pointerIn>>,
         \/ ~mouseLeftWindow'
         \/ Head(queue["pointer"]) = "leave"
         \/ Head(queue["pointer"]) # "move" /\ mouseLeftWindow' = mouseLeftWindow
  PROVE  MoveFollows'
<1> DEFINE q == queue["pointer"]
<1>1. /\ Len(q) \in Nat \ {0} /\ Len(q') = Len(q) - 1 /\ Head(q) = q[1]
      /\ \A i \in 1 .. Len(q') : q'[i] = q[i + 1]
  BY TailShifts DEF QueueOK
<1>2. SUFFICES ASSUME open, pointerIn
               PROVE  /\ mouseLeftWindow' => \E i \in 1 .. Len(q') : q'[i] = "move"
                      /\ \A n \in 1 .. Len(q') : q'[n] = "leave" =>
                           \E i \in n + 1 .. Len(q') : q'[i] = "move"
  BY DEF MoveFollows
<1>3. /\ mouseLeftWindow => \E i \in 1 .. Len(q) : q[i] = "move"
      /\ \A n \in 1 .. Len(q) : q[n] = "leave" => \E i \in n + 1 .. Len(q) : q[i] = "move"
  BY <1>2 DEF MoveFollows
<1>4. ASSUME NEW n \in 1 .. Len(q'), q'[n] = "leave"
      PROVE  \E i \in n + 1 .. Len(q') : q'[i] = "move"
  <2>1. n + 1 \in 1 .. Len(q) /\ q[n + 1] = "leave"
    BY <1>1, <1>4
  <2>2. PICK i \in n + 1 + 1 .. Len(q) : q[i] = "move"
    BY <1>3, <2>1
  <2>3. i - 1 \in n + 1 .. Len(q') /\ q'[i - 1] = "move"
    BY <1>1, <2>1, <2>2
  <2> QED
    BY <2>3
<1>5. ASSUME mouseLeftWindow'
      PROVE  \E i \in 1 .. Len(q') : q'[i] = "move"
  <2>1. \E i \in 1 .. Len(q) : q[i] = "move" /\ i # 1
    <3>1. CASE q[1] = "leave"
      <4>1. 1 \in 1 .. Len(q)
        BY <1>1
      <4>2. PICK i \in 1 + 1 .. Len(q) : q[i] = "move"
        BY <1>3, <3>1, <4>1
      <4> QED
        BY <1>1, <4>2
    <3>2. CASE q[1] # "move" /\ mouseLeftWindow' = mouseLeftWindow
      BY <1>3, <1>5, <3>2
    <3> QED
      BY <1>1, <1>5, <3>1, <3>2
  <2>2. PICK i \in 1 .. Len(q) : q[i] = "move" /\ i # 1
    BY <2>1
  <2>3. i - 1 \in 1 .. Len(q') /\ q'[i - 1] = "move"
    BY <1>1, <2>2
  <2> QED
    BY <2>3
<1> QED
  BY <1>4, <1>5

LEMMA TailIsSequence ==
  ASSUME NEW S, NEW q \in Seq(S), q # <<>>
  PROVE  Tail(q) \in Seq(S)
OBVIOUS

LEMMA UserKeepsAwake ==
  ASSUME IInv, AwakeInv, UserStep
  PROVE  AwakeInv'
<1> USE DEF IInv, AwakeInv
<1>1. UNCHANGED <<open, active, isAwake, mouseLeftWindow>>
  BY DEF UserStep, PressKey, ReleaseKey, SwitchWindow, MovePointer, PointerLeaves, CloseWindow,
         userOnly, window
<1>2. AwakeInside'
  BY <1>1 DEF AwakeInside
<1>3. CASE \E k \in Keys : PressKey(k) \/ ReleaseKey(k)
  <2>1. PICK m : Post("input", m)
    BY <1>3 DEF PressKey, ReleaseKey
  <2>2. UNCHANGED <<foreground, pointerIn>>
    BY <1>3 DEF PressKey, ReleaseKey
  <2>3. queue'["activation"] = queue["activation"] /\ queue'["pointer"] = queue["pointer"]
    BY <2>1, PostOthers DEF Stream
  <2> QED
    BY <1>1, <1>2, <2>2, <2>3 DEF ActivationFollows, MoveFollows
<1>4. CASE SwitchWindow
  <2>1. Post("activation", foreground') /\ pointerIn' = pointerIn
    BY <1>4 DEF SwitchWindow
  <2>2. /\ queue'["activation"] = Append(queue["activation"], foreground')
        /\ queue'["pointer"] = queue["pointer"]
        /\ queue["activation"] \in Seq(BOOLEAN)
    BY <2>1, PostOthers DEF Stream, QueueOK
  <2>3. MoveFollows'
    BY <1>1, <2>1, <2>2 DEF MoveFollows
  <2> DEFINE q == queue["activation"]
  <2>4. q' # <<>> /\ q'[Len(q')] = foreground'
    <3> HIDE DEF q
    <3>1. q' = Append(q, foreground') /\ q \in Seq(BOOLEAN)
      BY <2>2 DEF q
    <3> QED
      BY <3>1, AppendFacts
  <2>5. ActivationFollows'
    BY <2>4 DEF ActivationFollows
  <2> QED
    BY <1>2, <2>3, <2>5
<1>5. CASE MovePointer \/ PointerLeaves \/ \E m \in {"close", "quit"} : CloseWindow(m)
  <2>1. queue'["activation"] = queue["activation"] /\ foreground' = foreground
    <3>1. (\E m : Post("pointer", m)) \/ queue' = queue
      BY <1>5 DEF MovePointer, PointerLeaves, CloseWindow
    <3>2. foreground' = foreground
      BY <1>5 DEF MovePointer, PointerLeaves, CloseWindow, user
    <3> QED
      BY <3>1, <3>2, PostOthers DEF Stream
  <2>2. MoveFollows'
    <3>1. CASE MovePointer
      BY <1>1, <3>1, PostKeepsMove DEF MovePointer
    <3>2. CASE PointerLeaves
      BY <3>2 DEF PointerLeaves, MoveFollows
    <3>3. CASE \E m \in {"close", "quit"} : CloseWindow(m)
      BY <1>1, <3>3, PostKeepsMove DEF CloseWindow, user
    <3> QED
      BY <1>5, <3>1, <3>2, <3>3
  <2> QED
    BY <1>1, <1>2, <2>1, <2>2 DEF ActivationFollows
<1> QED
  BY <1>3, <1>4, <1>5 DEF UserStep

LEMMA ActivationKeepsAwake ==
  ASSUME IInv, AwakeInv, Activation
  PROVE  AwakeInv'
<1> USE DEF IInv, AwakeInv
<1> DEFINE q == queue["activation"]
<1>1. /\ q # <<>> /\ queue' = Rest("activation") /\ active' = Head(q) /\ q \in Seq(BOOLEAN)
      /\ UNCHANGED <<foreground, pointerIn, open, mouseLeftWindow>>
      /\ active' => isAwake'
  BY DEF Activation, QueueOK, user, Wake
<1>2. q' = Tail(q) /\ queue'["pointer"] = queue["pointer"]
  BY <1>1, RestOthers DEF Stream
<1>3. /\ Len(q) \in Nat \ {0} /\ Len(Tail(q)) = Len(q) - 1 /\ Head(q) = q[1]
      /\ \A i \in 1 .. Len(Tail(q)) : Tail(q)[i] = q[i + 1]
  BY <1>1, TailShifts
<1>4. open => foreground = q[Len(q)]
  BY <1>1 DEF ActivationFollows
<1>5. IF Tail(q) = <<>> THEN Len(q) = 1 ELSE Tail(q)[Len(Tail(q))] = q[Len(q)]
  <2> HIDE DEF q
  <2>1. Len(<<>>) = 0
    OBVIOUS
  <2>2. CASE Tail(q) = <<>>
    BY <1>3, <2>1, <2>2
  <2>3. CASE Tail(q) # <<>>
    <3>1. Tail(q) \in Seq(BOOLEAN) /\ Len(Tail(q)) # 0
      BY <1>1, <2>3, TailIsSequence, TailShifts
    <3>2. Len(Tail(q)) \in 1 .. Len(Tail(q))
      BY <1>3, <3>1
    <3> QED
      BY <1>3, <2>3, <3>2
  <2> QED
    BY <2>2, <2>3
<1>6. ActivationFollows'
  BY <1>1, <1>2, <1>3, <1>4, <1>5 DEF ActivationFollows
<1>7. MoveFollows' /\ AwakeInside'
  BY <1>1, <1>2 DEF MoveFollows, AwakeInside
<1> QED
  BY <1>6, <1>7

LEMMA PointerKeepsAwake ==
  ASSUME IInv, AwakeInv, PointerMoved \/ PointerLeft \/ Destroyed \/ QuitRead
  PROVE  AwakeInv'
<1> USE DEF IInv, AwakeInv
<1>1. CASE Destroyed
  BY <1>1 DEF Destroyed, ActivationFollows, MoveFollows, AwakeInside
<1>2. CASE PointerMoved \/ PointerLeft \/ QuitRead
  <2>1. UNCHANGED <<foreground, pointerIn, open, active>> /\ queue["pointer"] # <<>>
    BY <1>2 DEF PointerMoved, PointerLeft, QuitRead, user
  <2>2. AwakeInside'
    BY <1>2 DEF PointerMoved, PointerLeft, QuitRead, AwakeInside
  <2>3. queue'["activation"] = queue["activation"]
    <3>1. /\ DOMAIN Rest("pointer") = Stream
          /\ \A s \in Stream \ {"pointer"} : Rest("pointer")[s] = queue[s]
      BY RestOthers DEF Stream
    <3>2. \/ queue' = Rest("pointer")
          \/ queue' = [Rest("pointer") EXCEPT
                         !["pointer"] = Append(Rest("pointer")["pointer"], "leave")]
      BY <1>2 DEF PointerMoved, PointerLeft, QuitRead
    <3> QED
      BY <3>1, <3>2 DEF Stream
  <2>4. MoveFollows'
    <3>1. CASE ~pointerIn
      BY <2>1, <3>1 DEF MoveFollows
    <3>2. CASE pointerIn
      <4>1. queue' = Rest("pointer")
        BY <1>2, <3>2 DEF PointerMoved, PointerLeft, QuitRead
      <4>2. queue'["pointer"] = Tail(queue["pointer"])
        BY <4>1, RestOthers DEF Stream
      <4>3. \/ ~mouseLeftWindow'
            \/ Head(queue["pointer"]) = "leave"
            \/ Head(queue["pointer"]) # "move" /\ mouseLeftWindow' = mouseLeftWindow
        BY <1>2 DEF PointerMoved, PointerLeft, QuitRead
      <4> QED
        BY <2>1, <4>2, <4>3, RestKeepsMove
    <3> QED
      BY <3>1, <3>2
  <2> QED
    BY <2>1, <2>2, <2>3, <2>4 DEF ActivationFollows
<1> QED
  BY <1>1, <1>2

LEMMA OthersKeepAwake ==
  ASSUME IInv, AwakeInv, ReadInput \/ BeginUpdate \/ EndUpdate \/ Frame \/ UNCHANGED inputVars
  PROVE  AwakeInv'
<1>1. UNCHANGED <<foreground, pointerIn, open, active, isAwake, mouseLeftWindow>>
  BY DEF ReadInput, BeginUpdate, EndUpdate, Frame, inputVars, user, window
<1>2. queue'["activation"] = queue["activation"] /\ queue'["pointer"] = queue["pointer"]
  <2>1. queue' = Rest("input") \/ queue' = queue
    BY DEF ReadInput, BeginUpdate, EndUpdate, Frame, inputVars
  <2> QED
    BY <2>1, RestOthers DEF IInv, Stream
<1> QED
  BY <1>1, <1>2 DEF AwakeInv, ActivationFollows, MoveFollows, AwakeInside

\* When all messages have been read and the user works in the window with the pointer
\* over it, the devices are awake, in whatever order the three streams of messages
\* were read before (Win32Window.cpp, WM_ACTIVATE, WM_MOUSEMOVE and WM_MOUSELEAVE).
THEOREM NeverDeafWhenUsed == InputSpec => []AwakeWhenUsed
<1>1. IInv /\ AwakeInv /\ [InputNext]_inputVars => AwakeInv'
  BY UserKeepsAwake, ActivationKeepsAwake, PointerKeepsAwake, OthersKeepAwake
     DEF InputNext, ReadMessage
<1>2. InputSpec => []AwakeInv
  BY <1>1, InitAwake, InputInvariant, PTL DEF InputSpec
<1> QED
  BY <1>2, InvAwake, PTL

-----------------------------------------------------------------------------
(* The program on top of the window.                                        *)

LEMMA ProgramStep == [Next]_vars => [InputNext]_inputVars
<1> SUFFICES ASSUME [Next]_vars PROVE [InputNext]_inputVars
  OBVIOUS
<1>1. CASE MenuFrame \/ SimFrame
  BY <1>1 DEF MenuFrame, SimFrame, InputNext
<1>2. CASE UpdateStep
  BY <1>2 DEF UpdateStep, InputNext
<1>3. CASE UserStep
  BY <1>3 DEF InputNext
<1>4. CASE UNCHANGED vars
  BY <1>4 DEF vars
<1> QED
  BY <1>1, <1>2, <1>3, <1>4 DEF Next, Ended

\* The menu and the loop of main only do what the window allows: the two call
\* UpdateWindow one after the other and change nothing of the window or the keyboard
\* themselves (Main.cpp:20-45, 80-95).
THEOREM ProgramUsesWindow == Spec => InputSpec
<1>1. Init => InputInit
  BY DEF Init
<1> QED
  BY <1>1, ProgramStep, PTL DEF Spec, InputSpec

\* A key that the frame sees pressed has gone down in the update before it, and has
\* not been seen pressed before in this hold.
PressIsNew ==
  /\ at # "update" => \A k \in Keys : KeyPressed(k) => k \in wentDown
  /\ at = "frame" => \A k \in Keys : KeyPressed(k) => typed[k] = 1

LEMMA PressIsNewStep ==
  ASSUME TypeInv, PressIsNew, [InputNext]_inputVars
  PROVE  PressIsNew'
<1>1. CASE UNCHANGED inputVars
  BY <1>1 DEF PressIsNew, KeyPressed, KeyHeld, KeyDown, inputVars, keyboard, ghosts
<1>2. CASE UserStep
  <2>1. UNCHANGED userOnly
    BY <1>2
       DEF UserStep, PressKey, ReleaseKey, SwitchWindow, MovePointer, PointerLeaves, CloseWindow
  <2> QED
    BY <2>1 DEF PressIsNew, KeyPressed, KeyHeld, KeyDown, userOnly, keyboard, ghosts
<1>3. CASE BeginUpdate
  BY <1>3 DEF BeginUpdate, UpdatedHold, PressIsNew, KeyPressed, KeyHeld, KeyDown
<1>4. CASE ReadInput
  <2>1. at = "pump" /\ at' = "pump" /\ holdStates' = holdStates
    BY <1>4 DEF ReadInput, keyboard
  <2>2. \A k \in Keys : k \in keyStates' /\ k \notin holdStates => k \in wentDown'
    BY <1>4, <2>1 DEF ReadInput, PressIsNew, KeyPressed, KeyHeld, KeyDown, keyboard, ghosts
  <2> QED
    BY <2>1, <2>2 DEF PressIsNew, KeyPressed, KeyHeld, KeyDown
<1>5. CASE PointerMoved \/ QuitRead \/ Frame
  BY <1>5 DEF PointerMoved, QuitRead, Frame, PressIsNew, KeyPressed, KeyHeld, KeyDown,
              keyboard, ghosts
<1>6. CASE Activation \/ PointerLeft \/ Destroyed
  <2>1. at = "pump" /\ at' = "pump"
    BY <1>6 DEF Activation, PointerLeft, Destroyed
  <2>2. \/ keyStates' = {}
        \/ UNCHANGED <<keyboard, ghosts>>
    BY <1>6 DEF Activation, PointerLeft, Destroyed, Sleep, Wake
  <2> QED
    BY <2>1, <2>2 DEF PressIsNew, KeyPressed, KeyHeld, KeyDown, keyboard, ghosts
<1>7. CASE EndUpdate
  <2>1. /\ at = "pump" /\ at' = "frame"
        /\ keyStates' = keyStates /\ holdStates' = holdStates /\ wentDown' = wentDown
    BY <1>7 DEF EndUpdate, keyboard
  <2>2. ASSUME NEW k \in Keys, KeyPressed(k) PROVE typed'[k] = 1
    <3>1. typed[k] = 0
      BY <2>1, <2>2 DEF TypeInv, HoldInv, KeyPressed, KeyHeld, KeyDown
    <3> QED
      BY <1>7, <2>2, <3>1 DEF EndUpdate
  <2> QED
    BY <2>1, <2>2 DEF PressIsNew, KeyPressed, KeyHeld, KeyDown
<1> QED
  BY <1>1, <1>2, <1>3, <1>4, <1>5, <1>6, <1>7 DEF InputNext, ReadMessage

LEMMA PressIsNewAlways == InputSpec => []PressIsNew
<1>1. InputInit => PressIsNew
  BY DEF InputInit, PressIsNew
<1> QED
  BY <1>1, PressIsNewStep, TypeInvariant, PTL DEF InputSpec

PausedOK == paused \in BOOLEAN

LEMMA PausedType == Spec => []PausedOK
<1> USE DEF PausedOK
<1>1. Init => PausedOK
  BY DEF Init
<1>2. PausedOK /\ [Next]_vars => PausedOK'
  <2>1. SimFrame => paused' \in BOOLEAN \/ paused' = paused
    BY DEF SimFrame
  <2> QED
    BY <2>1 DEF Next, UpdateStep, MenuFrame, Ended, programVars, vars
<1> HIDE DEF PausedOK
<1> QED
  BY <1>1, <1>2, PTL DEF Spec

\* One hold of the key toggles the simulation once: paused changes only in a frame that
\* is the first to see the key since it went down, and it went down in the update of
\* that frame (Main.cpp:34, Simulation.cpp:92-94).
THEOREM TogglesOncePerHold == Spec => PausedOncePerHold
<1>1. /\ PressIsNew /\ PausedOK /\ [Next]_vars
      => [paused' # paused => typed[Toggle] = 1 /\ Toggle \in wentDown]_vars
  <2> SUFFICES ASSUME PressIsNew, paused \in BOOLEAN, Next, paused' # paused
               PROVE  typed[Toggle] = 1 /\ Toggle \in wentDown
    BY DEF PausedOK
  <2>1. SimFrame
    BY DEF Next, UpdateStep, MenuFrame, Ended, programVars, vars
  <2>2. at = "frame" /\ (SimEnds => paused' = paused)
        /\ (~SimEnds => paused' = (paused # Toggles))
    BY <2>1 DEF SimFrame, Frame
  <2>3. Toggles
    <3>1. ASSUME ~Toggles PROVE (paused # Toggles) = paused
      <4>1. CASE paused = TRUE
        BY <3>1, <4>1 DEF Toggles, KeyPressed, KeyHeld, KeyDown
      <4>2. CASE paused = FALSE
        BY <3>1, <4>2 DEF Toggles, KeyPressed, KeyHeld, KeyDown
      <4> QED
        BY <4>1, <4>2
    <3> QED
      BY <2>2, <3>1
  <2> QED
    BY <2>2, <2>3, ProgramAssumption DEF PressIsNew, Toggles
<1> QED
  BY <1>1, PressIsNewAlways, PausedType, ProgramUsesWindow, PTL DEF Spec, PausedOncePerHold

-----------------------------------------------------------------------------
(* The settings.                                                            *)

\* Which lines the stream has handed out, and what the string holds once the end
\* has been found, while LoadSettingsFromFile is reading.
StreamInv ==
  LET n == Len(text.lines)
  IN  /\ done <= n => /\ Len(rest) = n - done
                      /\ \A k \in 1 .. Len(rest) : rest[k] = text.lines[done + k]
      /\ eof <=> n > 0 /\ ~text.newline /\ done >= n
      /\ done > n => eof
      /\ eof => data = text.lines[n]

\* A setting that has been read is that of its line.
ReadSoFar ==
  \A j \in 1 .. done :
    LineFor(j).number /\ settings[Setting[j]] = Parsed(Setting[j], LineFor(j).value)

LoaderInv ==
  /\ text \in Text /\ rest \in Seq([number : BOOLEAN, value : Int])
  /\ done \in Nat /\ done <= Len(Setting)
  /\ status \in {"opening", "reading", "loaded", "terminated"}
  /\ DOMAIN settings = {Setting[j] : j \in DOMAIN Setting}
  /\ status = "opening" => done = 0 /\ eof = FALSE /\ settings = Default
  /\ ~opens => settings = Default /\ status \in {"opening", "loaded"}
  /\ ReadSoFar
  /\ status = "reading" => done < Len(Setting) /\ StreamInv
  /\ status = "loaded" /\ opens => done = Len(Setting)
  /\ status = "terminated" => ~LineFor(done + 1).number

\* No setting is named twice.
LEMMA SettingsDiffer ==
  /\ Len(Setting) = 13 /\ DOMAIN Setting = 1 .. 13
  /\ \A j, k \in 1 .. 13 : Setting[j] = Setting[k] => j = k
<1>1. Len(Setting) = 13 /\ DOMAIN Setting = 1 .. 13
  BY DEF Setting
<1>2. ASSUME NEW j \in 1 .. 13, NEW k \in 1 .. 13, Setting[j] = Setting[k] PROVE j = k
  BY <1>2 DEF Setting
<1> QED
  BY <1>1, <1>2

LEMMA LoaderInvInit == LoaderInit => LoaderInv
<1> SUFFICES ASSUME LoaderInit PROVE LoaderInv
  OBVIOUS
<1>1. text \in Text
  BY SettingsAssumption DEF LoaderInit
<1>2. DOMAIN settings = {Setting[j] : j \in DOMAIN Setting}
  BY DEF LoaderInit, Default
<1>3. ReadSoFar
  BY DEF LoaderInit, ReadSoFar
<1> QED
  BY <1>1, <1>2, <1>3, SettingsDiffer DEF LoaderInit, LoaderInv

LEMMA OpenKeeps == ASSUME LoaderInv, Open PROVE LoaderInv'
<1>1. /\ status = "opening" /\ UNCHANGED <<choice, opens, text, eof, data, settings, done>>
      /\ text \in Text /\ done = 0 /\ eof = FALSE /\ settings = Default
  BY DEF Open, file, LoaderInv
<1>2. ReadSoFar'
  BY <1>1 DEF LoaderInv, ReadSoFar, LineFor
<1>3. CASE opens
  <2>1. rest' = text.lines /\ status' = "reading"
    BY <1>3 DEF Open
  <2>2. Len(text.lines) \in Nat /\ text.lines \in Seq([number : BOOLEAN, value : Int])
    BY <1>1 DEF Text
  <2>3. StreamInv'
    BY <1>1, <2>1, <2>2 DEF StreamInv
  <2> QED
    BY <1>1, <1>2, <1>3, <2>1, <2>2, <2>3, SettingsDiffer DEF LoaderInv
<1>4. CASE ~opens
  <2>1. rest' = rest /\ status' = "loaded"
    BY <1>4 DEF Open
  <2> QED
    BY <1>1, <1>2, <1>4, <2>1 DEF LoaderInv
<1> QED
  BY <1>3, <1>4

\* What getline leaves in the string is the line that the setting sees.
LEMMA GetLineGives ==
  ASSUME LoaderInv, status = "reading", GetLine, UNCHANGED text
  PROVE  /\ data' = LineFor(done + 1)
         /\ rest' \in Seq([number : BOOLEAN, value : Int])
         /\ data'.number /\ done' = done + 1 => StreamInv'
<1> DEFINE n == Len(text.lines)
           L == [number : BOOLEAN, value : Int]
<1>1. /\ n \in Nat /\ text.lines \in Seq(L) /\ rest \in Seq(L) /\ done \in Nat
      /\ text' = text /\ StreamInv
  BY DEF LoaderInv, Text
<1>2. /\ done <= n => /\ Len(rest) = n - done
                      /\ \A k \in 1 .. Len(rest) : rest[k] = text.lines[done + k]
      /\ eof <=> n > 0 /\ ~text.newline /\ done >= n
      /\ done > n => eof
      /\ eof => data = text.lines[n]
  BY <1>1 DEF StreamInv
<1>3. text.lines = <<>> <=> n = 0
  BY <1>1
<1> HIDE DEF n, L
<1>4. CASE eof
  <2>1. data' = data /\ rest' = rest /\ eof' = eof
    BY <1>4 DEF GetLine
  <2>2. n > 0 /\ ~text.newline /\ done + 1 > n /\ ~(done + 1 <= n)
    BY <1>1, <1>2, <1>4
  <2>3. LineFor(done + 1) = text.lines[n]
    BY <1>3, <2>2 DEF LineFor, n
  <2>4. ASSUME done' = done + 1 PROVE StreamInv'
    BY <1>1, <1>2, <1>4, <2>1, <2>2, <2>4 DEF StreamInv, n
  <2> QED
    BY <1>1, <1>2, <1>4, <2>1, <2>3, <2>4 DEF L
<1>5. CASE ~eof /\ rest = <<>>
  <2>1. data' = Nothing /\ rest' = rest
    BY <1>5 DEF GetLine
  <2>2. done = n /\ (text.newline \/ n = 0)
    BY <1>1, <1>2, <1>5
  <2>3. LineFor(done + 1) = Nothing
    BY <1>1, <1>3, <2>2 DEF LineFor, n
  <2> QED
    BY <1>1, <2>1, <2>3 DEF Nothing, L
<1>6. CASE ~eof /\ rest # <<>>
  <2>1. /\ data' = Head(rest) /\ rest' = Tail(rest)
        /\ eof' = (Len(rest) = 1 /\ ~text.newline)
    BY <1>6 DEF GetLine
  <2>2. done < n /\ Len(rest) = n - done /\ Len(rest) > 0
    BY <1>1, <1>2, <1>6
  <2>3. \A k \in 1 .. Len(rest) : rest[k] = text.lines[done + k]
    <3>1. done <= n
      BY <1>1, <2>2
    <3> QED
      BY <1>2, <3>1
  <2>4. data' = text.lines[done + 1]
    <3>1. Head(rest) = rest[1] /\ 1 \in 1 .. Len(rest)
      BY <1>1, <2>2
    <3>2. rest[1] = text.lines[done + 1]
      BY <2>3, <3>1
    <3> QED
      BY <2>1, <3>1, <3>2
  <2>5. data' = LineFor(done + 1)
    BY <1>1, <2>2, <2>4 DEF LineFor, n
  <2>6. /\ rest' \in Seq(L) /\ Len(rest') = n - (done + 1)
        /\ \A k \in 1 .. Len(rest') : rest'[k] = text.lines[(done + 1) + k]
    <3>1. /\ rest' \in Seq(L) /\ Len(rest') = Len(rest) - 1
          /\ \A k \in 1 .. Len(rest') : rest'[k] = rest[k + 1]
      BY <1>1, <1>6, <2>1
    <3>2. \A k \in 1 .. Len(rest') : k + 1 \in 1 .. Len(rest) /\ done + (k + 1) = (done + 1) + k
      BY <1>1, <2>2, <3>1
    <3>3. ASSUME NEW k \in 1 .. Len(rest')
          PROVE  rest'[k] = text.lines[(done + 1) + k]
      <4>1. k + 1 \in 1 .. Len(rest) /\ done + (k + 1) = (done + 1) + k
        BY <3>2
      <4> QED
        BY <2>3, <3>1, <4>1
    <3>4. Len(rest') = n - (done + 1)
      BY <1>1, <2>2, <3>1
    <3> QED
      BY <3>1, <3>3, <3>4
  <2>7. eof' <=> n > 0 /\ ~text.newline /\ done + 1 >= n
    <3>1. Len(rest) = 1 <=> done + 1 >= n
      BY <1>1, <2>2
    <3>2. n > 0
      BY <1>1, <2>2
    <3> QED
      BY <2>1, <3>1, <3>2
  <2>8. eof' => data' = text.lines[n]
    BY <1>1, <2>2, <2>4, <2>7
  <2>9. ASSUME done' = done + 1 PROVE StreamInv'
    <3>1. Len(text'.lines) = n /\ text'.lines = text.lines /\ text'.newline = text.newline
      BY <1>1 DEF n
    <3>2. ~(done + 1 > n)
      BY <1>1, <2>2
    <3> QED
      BY <2>6, <2>7, <2>8, <2>9, <3>1, <3>2 DEF StreamInv
  <2> QED
    BY <2>5, <2>6, <2>9 DEF L
<1> QED
  BY <1>4, <1>5, <1>6

LEMMA ReadSettingKeeps == ASSUME LoaderInv, ReadSetting PROVE LoaderInv'
<1>1. /\ status = "reading" /\ UNCHANGED <<choice, opens, text>> /\ GetLine
      /\ done \in Nat /\ done < 13 /\ opens
      /\ DOMAIN settings = {Setting[j] : j \in DOMAIN Setting} /\ ReadSoFar
  BY SettingsDiffer DEF ReadSetting, file, LoaderInv
<1>2. /\ data' = LineFor(done + 1)
      /\ rest' \in Seq([number : BOOLEAN, value : Int])
      /\ data'.number /\ done' = done + 1 => StreamInv'
  BY <1>1, GetLineGives
<1>3. \A j : LineFor(j)' = LineFor(j)
  BY <1>1 DEF LineFor
<1>4. text' \in Text /\ opens' = opens
  BY <1>1 DEF LoaderInv
<1>5. CASE data'.number
  <2> DEFINE s == Setting[done + 1]
             value == Parsed(s, data'.value)
  <2>1. /\ settings' = [settings EXCEPT ![s] = value]
        /\ done' = done + 1
        /\ status' = IF done' = Len(Setting) THEN "loaded" ELSE "reading"
    BY <1>5 DEF ReadSetting
  <2> HIDE DEF value
  <2>2. DOMAIN settings' = DOMAIN settings
    BY <2>1
  <2>3. ReadSoFar'
    <3> SUFFICES ASSUME NEW j \in 1 .. done + 1
                 PROVE  /\ LineFor(j).number
                        /\ settings'[Setting[j]] = Parsed(Setting[j], LineFor(j).value)
      BY <1>3, <2>1 DEF ReadSoFar
    <3>1. j \in DOMAIN Setting /\ done + 1 \in 1 .. 13 /\ j \in 1 .. 13
      BY <1>1, SettingsDiffer
    <3>2. CASE j = done + 1
      <4>1. settings'[s] = value
        BY <1>1, <2>1, <3>1, <3>2
      <4> QED
        BY <1>2, <1>5, <3>2, <4>1 DEF value
    <3>3. CASE j # done + 1
      <4>1. j \in 1 .. done /\ Setting[j] # s
        BY <1>1, <3>1, <3>3, SettingsDiffer
      <4>2. settings'[Setting[j]] = settings[Setting[j]]
        BY <1>1, <2>1, <3>1, <4>1
      <4> QED
        BY <1>1, <4>1, <4>2 DEF ReadSoFar
    <3> QED
      BY <3>2, <3>3
  <2>4. StreamInv'
    BY <1>2, <1>5, <2>1
  <2> QED
    BY <1>1, <1>2, <1>4, <2>1, <2>2, <2>3, <2>4, SettingsDiffer DEF LoaderInv
<1>6. CASE ~data'.number
  <2>1. status' = "terminated" /\ settings' = settings /\ done' = done
    BY <1>6 DEF ReadSetting
  <2>2. ReadSoFar'
    BY <1>1, <1>3, <2>1 DEF ReadSoFar
  <2>3. ~LineFor(done' + 1).number
    BY <1>2, <1>6, <2>1
  <2> QED
    BY <1>1, <1>2, <1>3, <1>4, <2>1, <2>2, <2>3, SettingsDiffer DEF LoaderInv
<1> QED
  BY <1>5, <1>6

\* SettingsLoader.cpp:22-67, for files of every length and content: LoadSettingsFromFile
\* takes each setting from its own line, from the last line if the file ends before
\* and without a newline, and no simulation begins with settings of which some were
\* read and others left at their defaults.
THEOREM SettingsAlwaysAsWritten == LoaderSpec => []SettingsAsWritten
<1>1. LoaderInv /\ [LoaderNext]_loaderVars => LoaderInv'
  <2> SUFFICES ASSUME LoaderInv, [LoaderNext]_loaderVars PROVE LoaderInv'
    OBVIOUS
  <2>1. CASE Open
    BY <2>1, OpenKeeps
  <2>2. CASE ReadSetting
    BY <2>2, ReadSettingKeeps
  <2>3. CASE UNCHANGED loaderVars
    BY <2>3 DEF loaderVars, file, LoaderInv, StreamInv, ReadSoFar, LineFor
  <2> QED
    BY <2>1, <2>2, <2>3 DEF LoaderNext, Stop
<1>2. LoaderInv => SettingsAsWritten
  <2> SUFFICES ASSUME LoaderInv PROVE SettingsAsWritten
    OBVIOUS
  <2>1. status = "loaded" /\ opens => DOMAIN Setting = 1 .. done
    BY SettingsDiffer DEF LoaderInv
  <2> QED
    BY <2>1 DEF LoaderInv, ReadSoFar, SettingsAsWritten
<1> QED
  BY <1>1, <1>2, LoaderInvInit, PTL DEF LoaderSpec
=============================================================================
