----------------------------- MODULE DebugLines -----------------------------
(***************************************************************************)
(* Debug: the vector of lines to draw, and FlushRenderables, whose loop    *)
(* draws, ages and removes entries while it goes through the vector: the   *)
(* place of an entry that has run out is filled from the end.              *)
(*                                                                         *)
(* A line of the code has no identity; here its end points and colour are  *)
(* a name, and a name is used again only when its line is gone.  A vector  *)
(* is a function on 0 .. n - 1.  Strings, which are drawn once and         *)
(* cleared, are left out.                                                  *)
(***************************************************************************)
EXTENDS Integers, FiniteSets

CONSTANTS
  Line,      \* names of lines
  Time,      \* for how long a line may be asked for
  Delta      \* how long a frame may take

ASSUME DebugAssumption == Time \subseteq Nat /\ Delta \subseteq Nat

VARIABLES
  lineEntries,  \* Debug::lineEntries
  i,            \* loop variable of FlushRenderables
  trim,         \* its count of removed entries
  dt,           \* its parameter
  flushing,     \* FlushRenderables is in its loop
  renderer,     \* whether Debug::renderer has been set
  drawn,        \* drawn[l]: calls of renderer->DrawLine for l in this frame
  before        \* lineEntries and drawn when the flush began; for DebugSpec only

vars == <<lineEntries, i, trim, dt, flushing, renderer, drawn, before>>

Size(v) == Cardinality(DOMAIN v)
EmptyVector == [k \in {} |-> [line |-> CHOOSE l \in Line : TRUE, time |-> 0]]

Init ==
  /\ lineEntries = EmptyVector
  /\ i = 0 /\ trim = 0
  /\ dt \in Delta
  /\ flushing = FALSE
  /\ renderer = FALSE
  /\ drawn = [l \in Line |-> 0]
  /\ before = [entries |-> EmptyVector, drawn |-> drawn]

\* Debug::SetRenderer, by the constructor of the simulation.
SetRenderer ==
  /\ ~flushing
  /\ renderer' = TRUE
  /\ UNCHANGED <<lineEntries, i, trim, dt, flushing, drawn, before>>

LinesOf(v) == {v[k].line : k \in DOMAIN v}

\* Debug::DrawLine: emplace_back.
DrawLine(l, t) ==
  LET n == Size(lineEntries)
  IN  /\ ~flushing
      /\ l \notin LinesOf(lineEntries)
      /\ lineEntries' = [k \in 0 .. n |->
                           IF k = n THEN [line |-> l, time |-> t] ELSE lineEntries[k]]
      /\ UNCHANGED <<i, trim, dt, flushing, renderer, drawn, before>>


\* FlushRenderables up to its loop.
BeginFlush ==
  /\ ~flushing
  /\ renderer
  /\ dt' \in Delta
  /\ i' = 0 /\ trim' = 0
  /\ flushing' = TRUE
  /\ drawn' = [l \in Line |-> 0]
  /\ before' = [entries |-> lineEntries, drawn |-> drawn]
  /\ UNCHANGED <<lineEntries, renderer>>

\* The conditions at both ends of the loop.
More == i + trim < Size(lineEntries)

\* Faulty variant: the entry moved to the front counts as treated.
AdvanceAlways(expired) == i + 1

\* ++i in the else branch only: the entry moved here is next.
Advance(expired) == IF expired THEN i ELSE i + 1

\* lineEntries.size() - trim, after ++trim.
FillFrom(t) == Size(lineEntries) - t

\* The body of the loop.
FlushOne ==
  LET e == [lineEntries[i] EXCEPT !.time = @ - dt]
      expired == e.time < 0
      aged == [lineEntries EXCEPT ![i] = e]
  IN  /\ flushing
      /\ More
      /\ drawn' = [drawn EXCEPT ![e.line] = @ + 1]
      /\ trim' = IF expired THEN trim + 1 ELSE trim
      /\ lineEntries' = IF expired THEN [aged EXCEPT ![i] = aged[FillFrom(trim')]] ELSE aged
      /\ i' = Advance(expired)
      /\ UNCHANGED <<dt, flushing, renderer, before>>

\* The resize after the loop.
EndFlush ==
  /\ flushing
  /\ ~More
  /\ lineEntries' = [k \in 0 .. Size(lineEntries) - trim - 1 |-> lineEntries[k]]
  /\ i' = 0 /\ trim' = 0
  /\ flushing' = FALSE
  /\ UNCHANGED <<dt, renderer, drawn, before>>

Next ==
  \/ SetRenderer
  \/ \E l \in Line, t \in Time : DrawLine(l, t)
  \/ BeginFlush \/ FlushOne \/ EndFlush

Spec == Init /\ [][Next]_vars

-----------------------------------------------------------------------------
(* Properties.                                                              *)

\* The lines of a vector with the time they have left.
LiveOf(v) ==
  [l \in LinesOf(v) |-> v[CHOOSE k \in DOMAIN v : v[k].line = l].time]

Abstract ==
  INSTANCE DebugSpec
    WITH live <- LiveOf(IF flushing THEN before.entries ELSE lineEntries),
         frames <- IF flushing THEN before.drawn ELSE drawn

\* Each frame draws every line once and drops exactly those that have run out,
\* as if all lines were drawn and aged at the same time.
ImplementsDebug == Abstract!DebugBehaviour
=============================================================================
