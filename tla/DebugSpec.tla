----------------------------- MODULE DebugSpec -----------------------------
(***************************************************************************)
(* What Debug promises about its lines: a line is drawn once in every      *)
(* frame until its time has run out, and then never again.                 *)
(***************************************************************************)
EXTENDS Integers

CONSTANTS
  Line,      \* names of lines
  Time,      \* for how long a line may be asked for
  Delta      \* how long a frame may take

VARIABLES
  live,      \* live[l]: the time line l has left, for the lines there are
  frames     \* frames[l]: how often l was drawn in the last frame

specVars == <<live, frames>>

SpecInit ==
  /\ live = [l \in {} |-> 0]
  /\ frames = [l \in Line |-> 0]

Add(l, t) ==
  /\ l \notin DOMAIN live
  /\ live' = [m \in DOMAIN live \cup {l} |-> IF m = l THEN t ELSE live[m]]
  /\ UNCHANGED frames

DrawFrame(dt) ==
  /\ frames' = [l \in Line |-> IF l \in DOMAIN live THEN 1 ELSE 0]
  /\ live' = [l \in {m \in DOMAIN live : live[m] >= dt} |-> live[l] - dt]

SpecNext ==
  \/ \E l \in Line, t \in Time : Add(l, t)
  \/ \E dt \in Delta : DrawFrame(dt)

DebugBehaviour == SpecInit /\ [][SpecNext]_specVars
=============================================================================
