----------------------------- MODULE GridCells -----------------------------
(***************************************************************************)
(* The uniform grid over the simulation space: which cell a position is    *)
(* in, which cells a kernel invocation visits, and how a position wraps.   *)
(*                                                                         *)
(* Lengths are whole numbers of a small unit; Unit of them make the 1.0 of *)
(* the code.  The side of a cell is 2 * gridDimension = maxRadius.         *)
(***************************************************************************)
EXTENDS Integers, FiniteSets

CONSTANTS
  MaxBound,   \* settings.maxBound: the space is -MaxBound .. MaxBound on each axis
  MaxRadius,  \* flock->maxRadius, the largest of the three flocking radii
  Unit        \* the length that a cast to int rounds to

Axis == 1 .. 3

\* "(int)flock->maxBound / gridDimension + 1": the cast binds to maxBound alone.
CellsPerAxis == (2 * ((MaxBound \div Unit) * Unit)) \div MaxRadius + 1

CellCount == CellsPerAxis * CellsPerAxis * CellsPerAxis

(***************************************************************************)
(* All presets have a whole maxBound, 50, and radii small enough for 29    *)
(* and more cells per axis.  With less than 3 the cells before and after   *)
(* an agent's own would be the same one and be visited twice.              *)
(***************************************************************************)
ASSUME GridAssumption ==
  /\ MaxBound \in Nat \ {0} /\ MaxRadius \in Nat \ {0} /\ Unit \in Nat \ {0}
  /\ MaxBound % Unit = 0
  /\ CellsPerAxis >= 3

InSpace(p) == p \in [Axis -> -MaxBound .. MaxBound]

\* uint((p + bound) * cellDimensionReciprocal), the reciprocal being 1 / maxRadius.
AxisCell(x) == (x + MaxBound) \div MaxRadius

\* Column, row and layer to cell number.
CellNumber(x, y, z) == x + y * CellsPerAxis + z * CellsPerAxis * CellsPerAxis

\* gridIndex of FlockGrid.glsl.
CellAt(p) == CellNumber(AxisCell(p[1]), AxisCell(p[2]), AxisCell(p[3]))

\* The cells that InitFlock gives to the agents: its reciprocal is
\* "1 / maxRadius * 0.5f", half the one the kernel uses.
InitialAxisCell(x) == (x + MaxBound) \div (2 * MaxRadius)

InitialCellAt(p) ==
  CellNumber(InitialAxisCell(p[1]), InitialAxisCell(p[2]), InitialAxisCell(p[3]))

\* Cell number back to layer, row and column, as main of FlockGrid.glsl does it.
LayerOf(c) == c \div (CellsPerAxis * CellsPerAxis)
RowOf(c) == (c - LayerOf(c) * (CellsPerAxis * CellsPerAxis)) \div CellsPerAxis
ColumnOf(c) ==
  (c - LayerOf(c) * (CellsPerAxis * CellsPerAxis)) - RowOf(c) * CellsPerAxis

\* Faulty variant: the cells before the agent's own are forgotten.
OffsetsForward == (0 .. 1) \X (0 .. 1) \X (0 .. 1)

\* xprev, x, xnext and the same for y and z.
Offsets == (-1 .. 1) \X (-1 .. 1) \X (-1 .. 1)

Around(x, o) == (x + o + CellsPerAxis) % CellsPerAxis

\* The cell that the call of traverseCell for the offsets o goes through.
VisitedCell(c, o) ==
  CellNumber(Around(ColumnOf(c), o[1]), Around(RowOf(c), o[2]), Around(LayerOf(c), o[3]))

\* How often an invocation whose agent is in cell c goes through cell d.
Visits(c, d) == Cardinality({o \in Offsets : VisitedCell(c, o) = d})

\* Faulty variant: only the lower bound wraps.
WrapLowerOnly(x) == IF x < -MaxBound THEN MaxBound ELSE x

\* wrap: past a bound an agent comes out at the opposite one.
Wrap(x) == IF x < -MaxBound THEN MaxBound
           ELSE IF x > MaxBound THEN -MaxBound ELSE x

Moved(p, d) == [a \in Axis |-> p[a] + d[a]]
Wrapped(p) == [a \in Axis |-> Wrap(p[a])]

Square(x) == x * x

\* sqrDist < maxRadiusSquared: close enough to matter to any of the three rules.
Near(p, q) ==
  Square(q[1] - p[1]) + Square(q[2] - p[2]) + Square(q[3] - p[3]) < Square(MaxRadius)
=============================================================================
