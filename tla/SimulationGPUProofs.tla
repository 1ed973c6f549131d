------------------------ MODULE SimulationGPUProofs ------------------------
(***************************************************************************)
(* What the frames of the GPU simulation keep true, for every number of    *)
(* agents, every grid and every displacement.                              *)
(*                                                                         *)
(* The agent buffer is a permutation, so a dispatch that fills its         *)
(* work-groups starts every agent (StartedAll) and each agent has one slot *)
(* (SlotOf).  The index is built for the cells the agents had then; the    *)
(* inductive invariant keeps those cells as a function f while a kernel    *)
(* gives the agents new ones (InFlight).                                   *)
(*                                                                         *)
(* The first part is about the grid alone: why visiting the 27 cells       *)
(* around an agent's own is enough, for every bound, radius and position.  *)
(* Per axis, two coordinates that differ by less than the side of a cell   *)
(* are in the same or in neighbouring cells (NearAxisCells); cell numbers  *)
(* can be taken apart again (CellDigits); so one of the 27 offsets leads   *)
(* to the other agent's cell, and only one.                                *)
(***************************************************************************)
EXTENDS SimulationGPU, FiniteSetTheorems, TLAPS

-----------------------------------------------------------------------------
(* The cells of the grid.                                                   *)

\* Division with remainder, the form in which the cells use it.
LEMMA DivRemainder ==
  ASSUME NEW a \in Nat, NEW b \in Nat \ {0}
  PROVE  /\ a \div b \in Nat
         /\ b * (a \div b) <= a /\ a < b * (a \div b) + b
  OBVIOUS

\* A quotient is determined by the interval the dividend is in.
LEMMA DivUnique ==
  ASSUME NEW a \in Nat, NEW b \in Nat \ {0}, NEW q \in Nat,
         b * q <= a, a < b * q + b
  PROVE  a \div b = q
  BY DivRemainder

\* The order of multiples is the order of the factors.
LEMMA FactorOrder ==
  ASSUME NEW b \in Nat \ {0}, NEW q \in Int, NEW r \in Int, b * q < b * r + b
  PROVE  q <= r
<1> SUFFICES ASSUME q >= r + 1 PROVE FALSE
  OBVIOUS
<1>1. q - r - 1 \in Nat
  OBVIOUS
<1>2. b * (q - r - 1) >= 0
  BY <1>1
<1>3. b * (q - r - 1) = b * q - b * r - b
  OBVIOUS
<1> QED
  BY <1>2, <1>3

\* The side of a cell, and the number of cells per axis without the cast.
LEMMA CellsPerAxisWhole ==
  /\ CellsPerAxis = (2 * MaxBound) \div MaxRadius + 1
  /\ CellsPerAxis \in Nat /\ CellsPerAxis >= 3
  BY GridAssumption DEF CellsPerAxis

\* A coordinate in space has a cell on its axis: no cell number is outside of
\* the index buffer (FlockGrid.glsl:103-107 with SimulationGPU.cpp:122).
LEMMA AxisCellInGrid ==
  ASSUME NEW x \in -MaxBound .. MaxBound
  PROVE  AxisCell(x) \in 0 .. CellsPerAxis - 1
<1> DEFINE q == AxisCell(x)
           m == (2 * MaxBound) \div MaxRadius
<1>1. /\ x + MaxBound \in Nat /\ x + MaxBound <= 2 * MaxBound
      /\ 2 * MaxBound \in Nat /\ MaxRadius \in Nat \ {0}
  BY GridAssumption
<1>2. q \in Nat /\ MaxRadius * q <= x + MaxBound
  BY <1>1, DivRemainder DEF AxisCell
<1>3. m \in Nat /\ 2 * MaxBound < MaxRadius * m + MaxRadius
  BY <1>1, DivRemainder
<1>4. MaxRadius * q < MaxRadius * m + MaxRadius
  <2>1. MaxRadius * q \in Int /\ MaxRadius * m \in Int
    BY <1>1, <1>2, <1>3
  <2> HIDE DEF q, m
  <2> QED
    BY <1>1, <1>2, <1>3, <2>1
<1>5. q <= m
  <2> HIDE DEF q, m
  <2> QED
    BY <1>1, <1>2, <1>3, <1>4, FactorOrder
<1>6. CellsPerAxis = m + 1
  BY CellsPerAxisWhole
<1> QED
  BY <1>2, <1>3, <1>5, <1>6

\* Coordinates less than a radius apart are at most one cell apart.
LEMMA NearAxisCells ==
  ASSUME NEW x \in -MaxBound .. MaxBound, NEW y \in -MaxBound .. MaxBound,
         y - x < MaxRadius
  PROVE  AxisCell(y) <= AxisCell(x) + 1
<1> DEFINE p == AxisCell(x)
           q == AxisCell(y)
           R == MaxRadius
<1>1. x + MaxBound \in Nat /\ y + MaxBound \in Nat /\ R \in Nat \ {0}
  BY GridAssumption
<1>0. y + MaxBound < x + MaxBound + R
  BY GridAssumption
<1>2. p \in Nat /\ x + MaxBound < R * p + R
  BY <1>1, DivRemainder DEF AxisCell
<1>3. q \in Nat /\ R * q <= y + MaxBound
  BY <1>1, DivRemainder DEF AxisCell
<1> HIDE DEF p, q, R
<1>4. R * (p + 1) = R * p + R
  BY <1>1, <1>2
<1>5. R * q \in Int /\ R * p \in Int
  BY <1>1, <1>2, <1>3
<1>6. R * q < R * (p + 1) + R
  BY <1>0, <1>1, <1>2, <1>3, <1>4, <1>5
<1>7. q <= p + 1
  BY <1>1, <1>2, <1>3, <1>6, FactorOrder
<1> QED
  BY <1>7 DEF p, q

\* A step of one cell, or none, on an axis, and the way back round: from cell u
\* exactly one of the three offsets leads to cell v.
LEMMA OneOffset ==
  ASSUME NEW u \in 0 .. CellsPerAxis - 1, NEW v \in 0 .. CellsPerAxis - 1,
         NEW o \in -1 .. 1, v <= u + 1, u <= v + 1
  PROVE  Around(u, o) = v <=> o = v - u
<1> DEFINE n == CellsPerAxis
<1>1. n \in Nat /\ n >= 3
  BY CellsPerAxisWhole
<1> HIDE DEF n
<1>2. u \in 0 .. n - 1 /\ v \in 0 .. n - 1
  BY DEF n
<1>3. Around(u, o) = (u + o + n) % n
  BY DEF Around, n
<1>4. CASE u + o < 0
  <2>1. u + o + n = n - 1
    BY <1>1, <1>2, <1>4
  <2>2. (n - 1) % n = n - 1
    BY <1>1
  <2> QED
    BY <1>1, <1>2, <1>3, <1>4, <2>1, <2>2
<1>5. CASE u + o >= n
  <2>1. u + o + n = 2 * n /\ u = n - 1 /\ o = 1
    BY <1>1, <1>2, <1>5
  <2>2. (2 * n) % n = 0
    BY <1>1
  <2> QED
    BY <1>1, <1>2, <1>3, <1>5, <2>1, <2>2
<1>6. CASE u + o \in 0 .. n - 1
  <2>1. (u + o + n) % n = u + o
    BY <1>1, <1>2, <1>6
  <2> QED
    BY <1>1, <1>2, <1>3, <2>1
<1> QED
  BY <1>1, <1>2, <1>4, <1>5, <1>6

-----------------------------------------------------------------------------
(* Cell numbers and their digits.                                           *)

Coordinate == 0 .. CellsPerAxis - 1

\* main of FlockGrid.glsl takes a cell number apart into the column, row and
\* layer it was made of (lines 165-173).
LEMMA CellDigits ==
  ASSUME NEW x \in Coordinate, NEW y \in Coordinate, NEW z \in Coordinate
  PROVE  /\ LayerOf(CellNumber(x, y, z)) = z
         /\ RowOf(CellNumber(x, y, z)) = y
         /\ ColumnOf(CellNumber(x, y, z)) = x
<1> DEFINE n == CellsPerAxis
           c == CellNumber(x, y, z)
<1>1. n \in Nat \ {0}
  BY CellsPerAxisWhole
<1>2. x \in 0 .. n - 1 /\ y \in 0 .. n - 1 /\ z \in 0 .. n - 1
  BY DEF Coordinate
<1>3. c = x + y * n + z * n * n
  BY DEF CellNumber
<1>4. LayerOf(c) = c \div (n * n) /\ RowOf(c) = (c - LayerOf(c) * (n * n)) \div n
      /\ ColumnOf(c) = (c - LayerOf(c) * (n * n)) - RowOf(c) * n
  BY DEF LayerOf, RowOf, ColumnOf
<1> HIDE DEF n, c
<1>5. n * n \in Nat \ {0} /\ z * n * n = (n * n) * z /\ (n * n) * z \in Nat
  BY <1>1, <1>2
<1>6. y * n \in Nat /\ x + y * n \in Nat /\ x + y * n < n * n
  <2>1. y * n \in Nat
    BY <1>1, <1>2
  <2>2. y * n <= (n - 1) * n
    BY <1>1, <1>2
  <2>3. (n - 1) * n = n * n - n
    BY <1>1
  <2> QED
    BY <1>1, <1>2, <1>5, <2>1, <2>2, <2>3
<1>7. c \in Nat /\ (n * n) * z <= c /\ c < (n * n) * z + n * n
  BY <1>3, <1>5, <1>6
<1>8. LayerOf(c) = z
  <2>1. z \in Nat
    BY <1>1, <1>2
  <2> QED
    BY <1>4, <1>5, <1>7, <2>1, DivUnique
<1>9. c - LayerOf(c) * (n * n) = x + y * n
  <2> DEFINE m == x + y * n
             s == (n * n) * z
  <2>1. c = m + s /\ m \in Nat /\ s \in Nat /\ LayerOf(c) * (n * n) = s
    BY <1>1, <1>2, <1>3, <1>5, <1>6, <1>8
  <2> HIDE DEF m, s
  <2>2. c - s = m
    BY <2>1
  <2> QED
    BY <2>1, <2>2 DEF m
<1>10. RowOf(c) = y
  <2>1. y \in Nat /\ n * y <= x + y * n /\ x + y * n < n * y + n
    BY <1>1, <1>2, <1>6
  <2> QED
    BY <1>1, <1>4, <1>6, <1>9, <2>1, DivUnique
<1>11. ColumnOf(c) = x
  <2>1. ColumnOf(c) = (x + y * n) - RowOf(c) * n
    BY <1>4, <1>9
  <2>2. ColumnOf(c) = (x + y * n) - y * n
    BY <1>10, <2>1
  <2> DEFINE m == y * n
  <2>3. m \in Nat
    BY <1>6
  <2>4. ColumnOf(c) = (x + m) - m
    BY <2>2
  <2>5. x \in Int
    BY <1>1, <1>2
  <2> HIDE DEF m
  <2> QED
    BY <2>3, <2>4, <2>5
<1> QED
  BY <1>8, <1>10, <1>11 DEF c

\* Different coordinates have different cell numbers.
LEMMA CellNumberInjective ==
  ASSUME NEW x \in Coordinate, NEW y \in Coordinate, NEW z \in Coordinate,
         NEW u \in Coordinate, NEW v \in Coordinate, NEW w \in Coordinate,
         CellNumber(x, y, z) = CellNumber(u, v, w)
  PROVE  x = u /\ y = v /\ z = w
<1> DEFINE c == CellNumber(x, y, z)
           d == CellNumber(u, v, w)
<1>1. LayerOf(c) = z /\ RowOf(c) = y /\ ColumnOf(c) = x
  BY CellDigits
<1>2. LayerOf(d) = w /\ RowOf(d) = v /\ ColumnOf(d) = u
  BY CellDigits
<1>3. c = d
  OBVIOUS
<1> HIDE DEF c, d
<1> QED
  BY <1>1, <1>2, <1>3

\* Cell numbers stay within the index buffer.
LEMMA CellNumberInBuffer ==
  ASSUME NEW x \in Coordinate, NEW y \in Coordinate, NEW z \in Coordinate
  PROVE  CellNumber(x, y, z) \in 0 .. CellCount - 1
<1> DEFINE n == CellsPerAxis
<1>1. n \in Nat \ {0}
  BY CellsPerAxisWhole
<1>2. x \in 0 .. n - 1 /\ y \in 0 .. n - 1 /\ z \in 0 .. n - 1
  BY DEF Coordinate
<1>3. CellNumber(x, y, z) = x + y * n + z * n * n /\ CellCount = n * n * n
  BY DEF CellNumber, CellCount
<1> HIDE DEF n
<1>4. y * n \in Nat /\ y * n <= n * n - n
  <2>1. y * n \in Nat /\ y * n <= (n - 1) * n
    BY <1>1, <1>2
  <2>2. (n - 1) * n = n * n - n
    BY <1>1
  <2> QED
    BY <2>1, <2>2
<1>5. z * n * n \in Nat /\ z * n * n <= n * n * n - n * n
  <2> DEFINE s == n * n
  <2>1. s \in Nat /\ z * n * n = z * s /\ n * n * n = n * s
    BY <1>1, <1>2
  <2> HIDE DEF s
  <2>2. z * s \in Nat /\ z * s <= (n - 1) * s
    BY <1>1, <1>2, <2>1
  <2>3. (n - 1) * s = n * s - s
    BY <1>1, <2>1
  <2>4. s = n * n
    BY DEF s
  <2> QED
    BY <2>1, <2>2, <2>3, <2>4
<1>6. n * n \in Nat /\ n * n * n \in Nat
  BY <1>1
<1> QED
  BY <1>1, <1>2, <1>3, <1>4, <1>5, <1>6

-----------------------------------------------------------------------------
(* The theorem.                                                             *)

\* A square bounds its root.
LEMMA SquareOrder ==
  ASSUME NEW a \in Int, NEW b \in Nat, NEW r \in Nat, b + a * a < r * r
  PROVE  a < r /\ -a < r
  OBVIOUS

\* Agents within the largest radius of each other differ by less than it on
\* every axis.
LEMMA NearOnAxes ==
  ASSUME NEW p \in [Axis -> -MaxBound .. MaxBound],
         NEW q \in [Axis -> -MaxBound .. MaxBound], Near(p, q), NEW a \in Axis
  PROVE  q[a] - p[a] < MaxRadius /\ p[a] - q[a] < MaxRadius
<1> DEFINE d1 == q[1] - p[1]
           d2 == q[2] - p[2]
           d3 == q[3] - p[3]
           R == MaxRadius
<1>1. /\ d1 \in Int /\ d2 \in Int /\ d3 \in Int /\ R \in Nat
  BY GridAssumption DEF Axis
<1>2. d1 * d1 + d2 * d2 + d3 * d3 < R * R
  BY DEF Near, Square
<1>3. CASE a = 1
  <2> HIDE DEF d1, d2, d3, R
  <2>1. d2 * d2 + d3 * d3 \in Nat
    BY <1>1
  <2>2. (d2 * d2 + d3 * d3) + d1 * d1 < R * R
    BY <1>1, <1>2
  <2>3. d1 < R /\ -d1 < R
    BY <1>1, <2>1, <2>2, SquareOrder
  <2> QED
    BY <1>3, <2>3, GridAssumption DEF d1, R, Axis
<1>4. CASE a = 2
  <2> HIDE DEF d1, d2, d3, R
  <2>1. d1 * d1 + d3 * d3 \in Nat
    BY <1>1
  <2>2. (d1 * d1 + d3 * d3) + d2 * d2 < R * R
    BY <1>1, <1>2
  <2>3. d2 < R /\ -d2 < R
    BY <1>1, <2>1, <2>2, SquareOrder
  <2> QED
    BY <1>4, <2>3, GridAssumption DEF d2, R, Axis
<1>5. CASE a = 3
  <2> HIDE DEF d1, d2, d3, R
  <2>1. d1 * d1 + d2 * d2 \in Nat
    BY <1>1
  <2>2. (d1 * d1 + d2 * d2) + d3 * d3 < R * R
    BY <1>1, <1>2
  <2>3. d3 < R /\ -d3 < R
    BY <1>1, <2>1, <2>2, SquareOrder
  <2> QED
    BY <1>5, <2>3, GridAssumption DEF d3, R, Axis
<1> QED
  BY <1>3, <1>4, <1>5 DEF Axis

InSpacePosition == [Axis -> -MaxBound .. MaxBound]

\* Every agent closer than the largest radius is in one of the cells that
\* FlockGrid.glsl visits, and in the range of only one of its 27 calls of
\* traverseCell (lines 165-211): none is missed and none is counted twice.
THEOREM NearCellVisitedOnce ==
  ASSUME NEW p \in InSpacePosition, NEW q \in InSpacePosition, Near(p, q)
  PROVE  \E o \in Offsets : \A r \in Offsets :
           VisitedCell(CellAt(p), r) = CellAt(q) <=> r = o
<1> DEFINE x(a) == AxisCell(p[a])
           y(a) == AxisCell(q[a])
           o == <<y(1) - x(1), y(2) - x(2), y(3) - x(3)>>
<1>1. \A a \in Axis : p[a] \in -MaxBound .. MaxBound /\ q[a] \in -MaxBound .. MaxBound
  BY DEF InSpacePosition
<1>2. \A a \in Axis : x(a) \in Coordinate /\ y(a) \in Coordinate
  BY <1>1, AxisCellInGrid DEF Coordinate
<1>3. \A a \in Axis : y(a) <= x(a) + 1 /\ x(a) <= y(a) + 1
  <2> SUFFICES ASSUME NEW a \in Axis PROVE y(a) <= x(a) + 1 /\ x(a) <= y(a) + 1
    OBVIOUS
  <2>1. q[a] - p[a] < MaxRadius /\ p[a] - q[a] < MaxRadius
    BY NearOnAxes DEF InSpacePosition
  <2> QED
    BY <1>1, <2>1, NearAxisCells
<1>4. CellAt(p) = CellNumber(x(1), x(2), x(3)) /\ CellAt(q) = CellNumber(y(1), y(2), y(3))
  BY DEF CellAt
<1>5. /\ 1 \in Axis /\ 2 \in Axis /\ 3 \in Axis
      /\ CellsPerAxis \in Nat \ {0}
  BY CellsPerAxisWhole DEF Axis
<1>6. /\ ColumnOf(CellAt(p)) = x(1) /\ RowOf(CellAt(p)) = x(2) /\ LayerOf(CellAt(p)) = x(3)
  BY <1>2, <1>4, <1>5, CellDigits
<1> HIDE DEF x, y
<1>7. o \in Offsets
  BY <1>2, <1>3, <1>5 DEF Offsets, Coordinate
<1>8. ASSUME NEW r \in Offsets
      PROVE  VisitedCell(CellAt(p), r) = CellAt(q) <=> r = o
  <2>1. r[1] \in -1 .. 1 /\ r[2] \in -1 .. 1 /\ r[3] \in -1 .. 1
        /\ r = <<r[1], r[2], r[3]>>
    BY DEF Offsets
  <2>2. /\ Around(x(1), r[1]) = y(1) <=> r[1] = y(1) - x(1)
        /\ Around(x(2), r[2]) = y(2) <=> r[2] = y(2) - x(2)
        /\ Around(x(3), r[3]) = y(3) <=> r[3] = y(3) - x(3)
    BY <1>2, <1>3, <1>5, <2>1, OneOffset DEF Coordinate
  <2>3. /\ Around(x(1), r[1]) \in Coordinate
        /\ Around(x(2), r[2]) \in Coordinate
        /\ Around(x(3), r[3]) \in Coordinate
    BY <1>2, <1>5, <2>1 DEF Around, Coordinate
  <2>4. VisitedCell(CellAt(p), r)
          = CellNumber(Around(x(1), r[1]), Around(x(2), r[2]), Around(x(3), r[3]))
    BY <1>6 DEF VisitedCell
  <2>5. VisitedCell(CellAt(p), r) = CellAt(q)
          <=> Around(x(1), r[1]) = y(1) /\ Around(x(2), r[2]) = y(2) /\ Around(x(3), r[3]) = y(3)
    <3>1. y(1) \in Coordinate /\ y(2) \in Coordinate /\ y(3) \in Coordinate
      BY <1>2, <1>5
    <3>2. ASSUME VisitedCell(CellAt(p), r) = CellAt(q)
          PROVE  Around(x(1), r[1]) = y(1) /\ Around(x(2), r[2]) = y(2) /\ Around(x(3), r[3]) = y(3)
      <4>1. CellNumber(Around(x(1), r[1]), Around(x(2), r[2]), Around(x(3), r[3]))
              = CellNumber(y(1), y(2), y(3))
        BY <1>4, <2>4, <3>2
      <4> QED
        BY <2>3, <3>1, <4>1, CellNumberInjective
    <3>3. ASSUME Around(x(1), r[1]) = y(1), Around(x(2), r[2]) = y(2), Around(x(3), r[3]) = y(3)
          PROVE  VisitedCell(CellAt(p), r) = CellAt(q)
      BY <1>4, <2>4, <3>3
    <3> QED
      BY <3>2, <3>3
  <2>6. r = o <=> /\ r[1] = y(1) - x(1) /\ r[2] = y(2) - x(2) /\ r[3] = y(3) - x(3)
    <3>1. /\ o[1] = y(1) - x(1) /\ o[2] = y(2) - x(2) /\ o[3] = y(3) - x(3)
      OBVIOUS
    <3>2. ASSUME /\ r[1] = y(1) - x(1) /\ r[2] = y(2) - x(2) /\ r[3] = y(3) - x(3)
          PROVE  r = o
      BY <2>1, <3>2
    <3> QED
      BY <3>1, <3>2
  <2> HIDE DEF o
  <2> QED
    BY <2>2, <2>5, <2>6
<1> QED
  BY <1>7, <1>8

-----------------------------------------------------------------------------
(* The frames.                                                              *)

\* Every agent is in a work-group that is dispatched.
Full == NumAgents % Invocations = 0

CellNumbers == 0 .. CellCount - 1

CellsExact == \A a \in Agent : cell[a] = CellAt(pos[a])

\* The index has been built when the agents had the cells f.
IndexBuiltFor(f) ==
  /\ f \in [Agent -> CellNumbers]
  /\ \A k \in Indexing!Entry :
       k < CellCount \/ backed => Indexing!Delimits(indices, [s \in Agent |-> f[order[s]]], k)

\* While a grid kernel runs: the agents that have flown have the cell of their new
\* place, the others that of their old one, for which the index was built if the
\* frame before was a grid frame.
InFlight ==
  phase = "kernel" /\ useGrid =>
    /\ \A a \in flown : cell[a] = CellAt(pos[a])
    /\ lastKernel = "grid" =>
         \E f : IndexBuiltFor(f) /\ \A a \in Agent \ flown : f[a] = cell[a] /\ cell[a] = CellAt(pos[a])

\* After it: the cells are those of the positions, then the slots follow.
BeingSorted ==
  /\ phase \in {"sort", "index"} => lastKernel = "grid" /\ CellsExact
  /\ phase = "index" => Sorting!InCellOrder(order, cell)

FrameInv ==
  /\ TypeOK
  /\ useGrid \/ lastKernel = "grid" => Full
  /\ InFlight /\ BeingSorted
  /\ FreshAfterGridKernel

-----------------------------------------------------------------------------
(* Slots.                                                                   *)

LEMMA SortingSlots ==
  ASSUME NEW o
  PROVE  /\ Sorting!IsPermutation(o) <=>
              o \in [Agent -> Agent] /\ \A s, u \in Agent : s # u => o[s] # o[u]
         /\ Sorting!Slot = Agent
BY DEF Sorting!IsPermutation, Sorting!Slot, Agent

\* Every agent is in some slot.
LEMMA SlotOf ==
  ASSUME NEW o, Sorting!IsPermutation(o), NEW a \in Agent
  PROVE  \E s \in Agent : o[s] = a
<1>1. o \in [Agent -> Agent] /\ \A s, u \in Agent : o[s] = o[u] => s = u
  BY SortingSlots
<1>2. o \in Injection(Agent, Agent)
  BY <1>1 DEF Injection, IsInjective
<1>3. IsFiniteSet(Agent)
  BY FrameAssumption, FS_Interval DEF Agent
<1>4. o \in Surjection(Agent, Agent)
  BY <1>2, <1>3, FS_Injection
<1> QED
  BY <1>4 DEF Surjection

\* Full work-groups start the invocations of all agents (SimulationGPU.cpp:28, 160).
LEMMA StartedAll ==
  ASSUME Full, NEW o, Sorting!IsPermutation(o)
  PROVE  {o[s] : s \in Dispatched} = Agent
<1>1. Dispatched = Agent
  <2> DEFINE q == NumAgents \div Invocations
  <2>1. NumAgents \in Nat \ {0} /\ Invocations \in Nat \ {0}
    BY FrameAssumption
  <2>2. NumAgents = Invocations * q + (NumAgents % Invocations) /\ q \in Nat
    BY <2>1
  <2>3. NumAgents = Invocations * q
    BY <2>1, <2>2 DEF Full
  <2> HIDE DEF q
  <2>4. q # 0
    BY <2>1, <2>3
  <2>5. WorkGroups = q
    BY <2>2, <2>4 DEF WorkGroups, Max1, q
  <2>6. WorkGroups * Invocations = NumAgents
    BY <2>1, <2>2, <2>3, <2>5
  <2> QED
    BY <2>1, <2>6 DEF Dispatched, Agent
<1>2. o \in [Agent -> Agent]
  BY SortingSlots
<1>3. \A a \in Agent : \E s \in Agent : o[s] = a
  BY SlotOf
<1> QED
  BY <1>1, <1>2, <1>3

LEMMA CellCountType == CellCount \in Nat \ {0} /\ CellsPerAxis \in Nat /\ CellsPerAxis >= 3
<1> DEFINE n == CellsPerAxis
<1>1. n \in Nat /\ n >= 3
  BY CellsPerAxisWhole
<1> HIDE DEF n
<1>2. n * n \in Nat /\ n * n > 0
  BY <1>1
<1>3. n * n * n \in Nat /\ n * n * n > 0
  BY <1>1, <1>2
<1> QED
  BY <1>1, <1>3 DEF CellCount, n

-----------------------------------------------------------------------------
(* Order and index.                                                         *)

\* Slots that never decrease from one to the next never decrease at all.
LEMMA OrderedFromNeighbours ==
  ASSUME NEW cs \in [Agent -> Nat], \A s \in 1 .. NumAgents - 1 : cs[s - 1] <= cs[s],
         NEW s \in Agent, NEW u \in Agent, s < u
  PROVE  cs[s] <= cs[u]
<1> DEFINE T == {v \in Agent : s < v /\ ~(cs[s] <= cs[v])}
<1>1. SUFFICES ASSUME T # {} PROVE FALSE
  OBVIOUS
<1>2. T \subseteq Nat
  BY FrameAssumption DEF Agent
<1>3. PICK m \in T : \A y \in T : ~(<<y, m>> \in OpToRel(<, Nat))
  <2> HIDE DEF T
  <2> QED
    BY <1>1, <1>2, WFMin, NatLessThanWellFounded
<1>4. m \in Agent /\ s < m /\ ~(cs[s] <= cs[m])
  BY <1>3
<1>5. m \in 1 .. NumAgents - 1 /\ m - 1 \in Agent /\ m - 1 < m /\ m - 1 \in Nat /\ m \in Nat
  BY <1>4, FrameAssumption DEF Agent
<1>6. cs[m - 1] <= cs[m] /\ cs[m - 1] \in Nat /\ cs[m] \in Nat /\ cs[s] \in Nat
  BY <1>4, <1>5
<1>7. ~(cs[s] <= cs[m - 1])
  BY <1>4, <1>6
<1>8. s # m - 1
  BY <1>6, <1>7
<1>9. s < m - 1
  BY <1>4, <1>5, <1>8, FrameAssumption DEF Agent
<1>10. m - 1 \in T
  BY <1>5, <1>7, <1>9
<1> QED
  BY <1>3, <1>5, <1>10 DEF OpToRel

\* For ordered slots there is a number of agents before each cell.
LEMMA EntryExists ==
  ASSUME NEW cs \in [Agent -> Nat], \A s, u \in Agent : s < u => cs[s] <= cs[u],
         NEW k \in Nat
  PROVE  \E n \in 0 .. NumAgents : \A s \in Agent : s < n <=> cs[s] < k
<1> DEFINE T == {v \in Agent : ~(cs[v] < k)}
<1>1. CASE T = {}
  <2>1. NumAgents \in 0 .. NumAgents /\ \A s \in Agent : s < NumAgents
    BY FrameAssumption DEF Agent
  <2> QED
    BY <1>1, <2>1
<1>2. CASE T # {}
  <2>1. T \subseteq Nat
    BY FrameAssumption DEF Agent
  <2>2. PICK m \in T : \A y \in T : ~(<<y, m>> \in OpToRel(<, Nat))
    <3> HIDE DEF T
    <3> QED
      BY <1>2, <2>1, WFMin, NatLessThanWellFounded
  <2>3. m \in Agent /\ m \in Nat /\ ~(cs[m] < k) /\ m \in 0 .. NumAgents
    <3>1. m \in Agent /\ ~(cs[m] < k)
      BY <2>2
    <3> QED
      BY <3>1, FrameAssumption DEF Agent
  <2>4. ASSUME NEW s \in Agent, s < m
        PROVE  cs[s] < k
    <3>1. s \in Nat
      BY FrameAssumption DEF Agent
    <3> QED
      BY <2>2, <2>3, <2>4, <3>1 DEF OpToRel
  <2>5. ASSUME NEW s \in Agent, ~(s < m)
        PROVE  ~(cs[s] < k)
    <3>1. s = m \/ m < s
      BY <2>3, <2>5, FrameAssumption DEF Agent
    <3>2. cs[m] <= cs[s]
      BY <2>3, <3>1
    <3> QED
      BY <2>3, <3>2
  <2> QED
    BY <2>3, <2>4, <2>5
<1> QED
  BY <1>1, <1>2

\* What BitonicSort and the index pass leave is an index for the cells of the agents.
LEMMA IndexBuilt ==
  ASSUME TypeOK, Sorting!InCellOrder(order, cell), NEW k \in Indexing!Entry
  PROVE  /\ Indexing!EntryFor(SlotCells, k) \in 0 .. NumAgents
         /\ \A s \in Agent : s < Indexing!EntryFor(SlotCells, k) <=> SlotCells[s] < k
<1>1. SlotCells \in [Agent -> Nat]
  <2>1. \A s \in Agent : order[s] \in Agent
    BY SortingSlots DEF TypeOK
  <2>2. \A a \in Agent : cell[a] \in Nat
    BY CellCountType DEF TypeOK
  <2> QED
    BY <2>1, <2>2 DEF SlotCells
<1>2. \A s \in 1 .. NumAgents - 1 : SlotCells[s - 1] <= SlotCells[s]
  <2> SUFFICES ASSUME NEW s \in 1 .. NumAgents - 1
               PROVE  SlotCells[s - 1] <= SlotCells[s]
    OBVIOUS
  <2>1. s \in Agent /\ s - 1 \in Agent
    BY FrameAssumption DEF Agent
  <2> QED
    BY <2>1 DEF Sorting!InCellOrder, SlotCells
<1>3. k \in Nat
  BY CellCountType DEF Indexing!Entry
<1>4. \A s, u \in Agent : s < u => SlotCells[s] <= SlotCells[u]
  BY <1>1, <1>2, OrderedFromNeighbours
<1>5. \E n \in 0 .. NumAgents : \A s \in Agent : s < n <=> SlotCells[s] < k
  <2> HIDE DEF SlotCells
  <2> QED
    BY <1>1, <1>3, <1>4, EntryExists
<1> QED
  BY <1>5 DEF Indexing!EntryFor, Indexing!AgentSlot, Agent
-----------------------------------------------------------------------------
(* The reads of a kernel.                                                   *)

LEMMA CellAtType ==
  ASSUME NEW p \in InSpacePosition
  PROVE  /\ AxisCell(p[1]) \in Coordinate /\ AxisCell(p[2]) \in Coordinate
         /\ AxisCell(p[3]) \in Coordinate
         /\ ColumnOf(CellAt(p)) = AxisCell(p[1])
         /\ RowOf(CellAt(p)) = AxisCell(p[2])
         /\ LayerOf(CellAt(p)) = AxisCell(p[3])
         /\ CellAt(p) \in CellNumbers
<1>1. p[1] \in -MaxBound .. MaxBound /\ p[2] \in -MaxBound .. MaxBound
      /\ p[3] \in -MaxBound .. MaxBound
  BY DEF InSpacePosition, Axis
<1>2. /\ AxisCell(p[1]) \in Coordinate /\ AxisCell(p[2]) \in Coordinate
      /\ AxisCell(p[3]) \in Coordinate
  BY <1>1, AxisCellInGrid DEF Coordinate
<1> QED
  BY <1>2, CellDigits, CellNumberInBuffer DEF CellAt, CellNumbers

\* With three or more cells per axis the cells before, at and after a coordinate
\* are three different ones.
LEMMA AroundInjective ==
  ASSUME NEW u \in Coordinate, NEW o \in -1 .. 1, NEW r \in -1 .. 1, Around(u, o) = Around(u, r)
  PROVE  o = r
<1> DEFINE n == CellsPerAxis
<1>1. n \in Nat /\ n >= 3 /\ u \in 0 .. n - 1
  BY CellCountType DEF Coordinate
<1>2. Around(u, o) = (u + o + n) % n /\ Around(u, r) = (u + r + n) % n
  BY DEF Around
<1> HIDE DEF n
<1>3. ASSUME NEW x \in -1 .. 1
      PROVE  (u + x + n) % n = IF u + x < 0 THEN n - 1 ELSE IF u + x >= n THEN 0 ELSE u + x
  <2>1. CASE u + x < 0
    <3>1. u + x + n = n - 1 /\ (n - 1) % n = n - 1
      BY <1>1, <2>1
    <3> QED
      BY <2>1, <3>1
  <2>2. CASE u + x >= n
    <3>1. u + x + n = 2 * n /\ (2 * n) % n = 0
      BY <1>1, <2>2
    <3> QED
      BY <1>1, <2>2, <3>1
  <2>3. CASE ~(u + x < 0) /\ ~(u + x >= n)
    <3>1. u + x \in 0 .. n - 1
      BY <1>1, <2>3
    <3>2. (u + x + n) % n = u + x
      BY <1>1, <3>1
    <3> QED
      BY <2>3, <3>2
  <2> QED
    BY <2>1, <2>2, <2>3
<1> DEFINE Value(x) == IF u + x < 0 THEN n - 1 ELSE IF u + x >= n THEN 0 ELSE u + x
<1>4. Value(o) = Value(r)
  BY <1>2, <1>3
<1>5. u \in Int /\ o \in {-1, 0, 1} /\ r \in {-1, 0, 1}
  BY <1>1
<1> QED
  BY <1>1, <1>4, <1>5

\* The 27 calls of traverseCell go through 27 different cells.
LEMMA VisitedCellInjective ==
  ASSUME NEW p \in InSpacePosition, NEW o \in Offsets, NEW r \in Offsets,
         VisitedCell(CellAt(p), o) = VisitedCell(CellAt(p), r)
  PROVE  o = r
<1> DEFINE x == AxisCell(p[1])
           y == AxisCell(p[2])
           z == AxisCell(p[3])
<1>1. x \in Coordinate /\ y \in Coordinate /\ z \in Coordinate
  BY CellAtType
<1>2. \A q \in Offsets : VisitedCell(CellAt(p), q)
                           = CellNumber(Around(x, q[1]), Around(y, q[2]), Around(z, q[3]))
  BY CellAtType DEF VisitedCell
<1> HIDE DEF x, y, z
<1>3. \A q \in Offsets : q[1] \in -1 .. 1 /\ q[2] \in -1 .. 1 /\ q[3] \in -1 .. 1
                         /\ q = <<q[1], q[2], q[3]>>
  BY DEF Offsets
<1>4. \A u \in Coordinate, v \in -1 .. 1 : Around(u, v) \in Coordinate
  BY CellCountType DEF Around, Coordinate
<1>5. /\ Around(x, o[1]) = Around(x, r[1])
      /\ Around(y, o[2]) = Around(y, r[2])
      /\ Around(z, o[3]) = Around(z, r[3])
  <2>1. CellNumber(Around(x, o[1]), Around(y, o[2]), Around(z, o[3]))
          = CellNumber(Around(x, r[1]), Around(y, r[2]), Around(z, r[3]))
    BY <1>2
  <2>2. /\ Around(x, o[1]) \in Coordinate /\ Around(y, o[2]) \in Coordinate
        /\ Around(z, o[3]) \in Coordinate /\ Around(x, r[1]) \in Coordinate
        /\ Around(y, r[2]) \in Coordinate /\ Around(z, r[3]) \in Coordinate
    BY <1>1, <1>3, <1>4
  <2> QED
    BY <2>1, <2>2, CellNumberInjective
<1>6. o[1] = r[1] /\ o[2] = r[2] /\ o[3] = r[3]
  BY <1>1, <1>3, <1>5, AroundInjective
<1> QED
  BY <1>3, <1>6

LEMMA VisitedCellType ==
  ASSUME NEW p \in InSpacePosition, NEW o \in Offsets
  PROVE  VisitedCell(CellAt(p), o) \in CellNumbers
<1>1. \A u \in Coordinate, v \in -1 .. 1 : Around(u, v) \in Coordinate
  BY CellCountType DEF Around, Coordinate
<1>2. o[1] \in -1 .. 1 /\ o[2] \in -1 .. 1 /\ o[3] \in -1 .. 1
  BY DEF Offsets
<1> QED
  BY <1>1, <1>2, CellAtType, CellNumberInBuffer DEF VisitedCell, CellNumbers

\* The slot of agent b is in the range of cell d only if the index was built when b
\* was in d, and if so it is there, unless the entry behind the range is lost.
LEMMA RangeHolds ==
  ASSUME TypeOK, NEW f, IndexBuiltFor(f), NEW d \in CellNumbers, NEW s \in Agent
  PROVE  /\ s \in Indexing!CellRange(indices, d) => f[order[s]] = d
         /\ f[order[s]] = d /\ (backed \/ d # CellCount - 1)
              => s \in Indexing!CellRange(indices, d)
<1> DEFINE cs == [u \in Agent |-> f[order[u]]]
           c == f[order[s]]
<1>1. CellCount \in Nat \ {0} /\ d \in 0 .. CellCount - 1
  BY CellCountType DEF CellNumbers
<1>2. c \in 0 .. CellCount - 1 /\ cs[s] = c
  BY SortingSlots DEF TypeOK, IndexBuiltFor, CellNumbers
<1>3. d \in Indexing!Entry /\ d + 1 \in Indexing!Entry /\ d < CellCount
  BY <1>1 DEF Indexing!Entry
<1>4. indices[d] \in Nat /\ indices[d + 1] \in Nat /\ s \in Nat
  BY <1>3, FrameAssumption DEF TypeOK, Agent
<1>5. s < indices[d] <=> c < d
  BY <1>2, <1>3 DEF IndexBuiltFor, Indexing!Delimits, Indexing!AgentSlot, Agent
<1>6. d + 1 < CellCount \/ backed => (s < indices[d + 1] <=> c < d + 1)
  BY <1>2, <1>3 DEF IndexBuiltFor, Indexing!Delimits, Indexing!AgentSlot, Agent
<1> HIDE DEF c, cs
<1>7. s \in Indexing!CellRange(indices, d) <=> ~(s < indices[d]) /\ s < indices[d + 1]
  BY <1>4 DEF Indexing!CellRange
<1>8. c = d \/ ~(s \in Indexing!CellRange(indices, d))
  <2>1. CASE d + 1 < CellCount \/ backed
    BY <1>1, <1>2, <1>5, <1>6, <1>7, <2>1
  <2>2. CASE ~(d + 1 < CellCount)
    BY <1>1, <1>2, <1>5, <1>7, <2>2
  <2> QED
    BY <2>1, <2>2
<1>9. c = d /\ (backed \/ d # CellCount - 1) => s \in Indexing!CellRange(indices, d)
  <2>1. ASSUME c = d, backed \/ d # CellCount - 1
        PROVE  s \in Indexing!CellRange(indices, d)
    <3>1. d + 1 < CellCount \/ backed
      BY <1>1, <2>1
    <3> QED
      BY <1>1, <1>2, <1>5, <1>6, <1>7, <2>1, <3>1
  <2> QED
    BY <2>1
<1> QED
  BY <1>8, <1>9 DEF c

\* No invocation reads an agent twice, and it reads those that are near and have
\* not flown yet.
LEMMA ReadOnce == FrameInv => NearAgentsReadOnce
<1> SUFFICES ASSUME FrameInv, phase = "kernel", useGrid, lastKernel = "grid",
                    NEW a \in Started \ flown, NEW b \in Agent \ {a}
             PROVE  /\ Reads(a, b) <= 1
                    /\ b \notin flown /\ Near(pos[a], pos[b]) /\ Indexed(b) => Reads(a, b) = 1
  BY DEF NearAgentsReadOnce
<1> USE DEF FrameInv
<1>1. PICK f : IndexBuiltFor(f) /\ \A e \in Agent \ flown : f[e] = cell[e] /\ cell[e] = CellAt(pos[e])
  BY DEF InFlight
<1>2. a \in Agent /\ a \notin flown /\ pos[a] \in InSpacePosition /\ pos[b] \in InSpacePosition
  <2>1. Started = Agent
    BY StartedAll DEF TypeOK, Started
  <2> QED
    BY <2>1 DEF TypeOK, InSpace, InSpacePosition
<1>3. cell[a] = CellAt(pos[a])
  BY <1>1, <1>2
<1>4. PICK t \in Agent : order[t] = b
  BY SlotOf DEF TypeOK
<1>5. \A s \in Agent : order[s] = b <=> s = t
  BY <1>4, SortingSlots DEF TypeOK
<1> DEFINE R == {o \in Offsets : \E s \in Indexing!CellRange(indices, VisitedCell(cell[a], o)) :
                                   s \in Agent /\ order[s] = b}
<1>6. Reads(a, b) = Cardinality(R)
  BY DEF Reads
<1>7. \A o \in Offsets : o \in R <=> t \in Indexing!CellRange(indices, VisitedCell(CellAt(pos[a]), o))
  BY <1>3, <1>4, <1>5
<1> HIDE DEF R
<1>8. R \subseteq Offsets
  BY DEF R
<1>9. \A o \in R : VisitedCell(CellAt(pos[a]), o) = f[b]
  <2> SUFFICES ASSUME NEW o \in R PROVE VisitedCell(CellAt(pos[a]), o) = f[b]
    OBVIOUS
  <2>1. VisitedCell(CellAt(pos[a]), o) \in CellNumbers
    BY <1>2, <1>8, VisitedCellType
  <2> QED
    BY <1>1, <1>4, <1>7, <1>8, <2>1, RangeHolds
<1>10. \A o, r \in R : o = r
  BY <1>2, <1>8, <1>9, VisitedCellInjective
<1>11. Reads(a, b) <= 1
  <2>1. CASE R = {}
    BY <1>6, <2>1, FS_EmptySet
  <2>2. CASE R # {}
    <3>1. PICK o : R = {o}
      BY <1>10, <2>2
    <3> QED
      BY <1>6, <3>1, FS_Singleton
  <2> QED
    BY <2>1, <2>2
<1>12. ASSUME b \notin flown, Near(pos[a], pos[b]), Indexed(b)
       PROVE  Reads(a, b) = 1
  <2>1. f[b] = cell[b] /\ cell[b] = CellAt(pos[b])
    BY <1>1, <1>12
  <2>2. PICK o \in Offsets : VisitedCell(CellAt(pos[a]), o) = CellAt(pos[b])
    BY <1>2, <1>12, NearCellVisitedOnce
  <2>3. f[order[t]] = VisitedCell(CellAt(pos[a]), o) /\ VisitedCell(CellAt(pos[a]), o) \in CellNumbers
    BY <1>2, <1>4, <2>1, <2>2, VisitedCellType
  <2>4. backed \/ VisitedCell(CellAt(pos[a]), o) # CellCount - 1
    BY <1>12, <2>1, <2>2 DEF Indexed
  <2>5. t \in Indexing!CellRange(indices, VisitedCell(CellAt(pos[a]), o))
    BY <1>1, <2>3, <2>4, RangeHolds
  <2>6. R = {o}
    BY <1>7, <1>10, <2>5
  <2> QED
    BY <1>6, <2>6, FS_Singleton
<1> QED
  BY <1>11, <1>12
-----------------------------------------------------------------------------
(* The initial states, and the steps.                                       *)

\* The cells of InitFlock are wrong, but in the grid.
LEMMA InitialCellType ==
  ASSUME NEW p \in StartSpace
  PROVE  InitialCellAt(p) \in CellNumbers
<1>1. ASSUME NEW x \in -MaxBound .. MaxBound + Overshoot
      PROVE  InitialAxisCell(x) \in Coordinate
  <2> DEFINE w == x + MaxBound
             q == w \div (2 * MaxRadius)
             m == (2 * MaxBound) \div MaxRadius
             R == MaxRadius
  <2>1. R \in Nat \ {0} /\ 2 * R \in Nat \ {0} /\ w \in Nat /\ w < 2 * MaxBound + R
        /\ 2 * MaxBound \in Nat
    BY GridAssumption, FrameAssumption
  <2>2. m \in Nat /\ 2 * MaxBound < R * m + R
    BY <2>1, DivRemainder
  <2>3. m >= 2 /\ CellsPerAxis = m + 1
    BY <2>2, CellsPerAxisWhole
  <2>4. q \in Nat /\ (2 * R) * q <= w
    BY <2>1, DivRemainder
  <2>5. InitialAxisCell(x) = q
    BY DEF InitialAxisCell
  <2> HIDE DEF w, q, m, R
  <2>6. R * (2 * q) = (2 * R) * q /\ R * (m + 1) = R * m + R
    BY <2>1, <2>2, <2>4
  <2>7. R * (2 * q) \in Nat /\ R * m \in Nat
    BY <2>1, <2>2, <2>4
  <2>8. R * (2 * q) < R * (m + 1) + R
    BY <2>1, <2>2, <2>4, <2>6, <2>7
  <2>9. 2 * q <= m + 1
    BY <2>1, <2>2, <2>4, <2>8, FactorOrder
  <2> QED
    BY <2>2, <2>3, <2>4, <2>5, <2>9 DEF Coordinate
<1>2. /\ p[1] \in -MaxBound .. MaxBound + Overshoot
      /\ p[2] \in -MaxBound .. MaxBound + Overshoot
      /\ p[3] \in -MaxBound .. MaxBound + Overshoot
  BY DEF StartSpace, Axis
<1> QED
  BY <1>1, <1>2, CellNumberInBuffer DEF InitialCellAt, CellNumbers

LEMMA FrameInvInit == Init => FrameInv
<1> SUFFICES ASSUME Init PROVE FrameInv
  OBVIOUS
<1> USE DEF Init
<1>1. pos \in [Agent -> StartSpace]
  BY FrameAssumption
<1>2. cell \in [Agent -> CellNumbers]
  BY <1>1, InitialCellType
<1>3. Sorting!IsPermutation(order)
  BY SortingSlots
<1>4. indices \in [Indexing!Entry -> Nat]
  BY FrameAssumption
<1>5. useGrid \in BOOLEAN /\ (useGrid => Full)
  BY FrameAssumption DEF Full
<1>6. /\ mouse \subseteq Buttons /\ flown \subseteq Agent
      /\ mouseState \in [Program -> 0 .. 2]
      /\ backed \in BOOLEAN /\ paused \in BOOLEAN
      /\ phase = "input" /\ lastKernel = "none"
  <2>1. mouseState = [p \in Program |-> 0] /\ 0 \in 0 .. 2
    OBVIOUS
  <2>2. mouseState \in [Program -> 0 .. 2]
    BY <2>1
  <2>3. mouse \subseteq Buttons /\ flown \subseteq Agent /\ backed \in BOOLEAN
    OBVIOUS
  <2>4. paused \in BOOLEAN /\ phase = "input" /\ lastKernel = "none"
    OBVIOUS
  <2> QED
    BY <2>2, <2>3, <2>4
<1>7. TypeOK
  BY <1>1, <1>2, <1>3, <1>4, <1>5, <1>6 DEF TypeOK, CellNumbers
<1> QED
  BY <1>5, <1>7 DEF FrameInv, InFlight, BeingSorted, FreshAfterGridKernel

LEMMA InputKeeps == FrameInv /\ Input => FrameInv'
<1> SUFFICES ASSUME FrameInv, Input PROVE FrameInv'
  OBVIOUS
<1> USE DEF FrameInv
<1>1. /\ phase = "input" /\ phase' \in {"input", "flock"} /\ mouse' \subseteq Buttons
      /\ UNCHANGED <<pos, cell, order, indices, backed, mouseState, flown, lastKernel>>
  BY DEF Input, buffers
<1>2. PICK pressed \in SUBSET Keys : /\ paused' = (paused # ("SPACE" \in pressed))
                                     /\ useGrid' = (useGrid # ("P" \in pressed))
  BY DEF Input
<1>3. useGrid' \in BOOLEAN /\ paused' \in BOOLEAN
  BY <1>2
<1>4. useGrid' \/ lastKernel' = "grid" => Full
  <2>1. CASE "P" \in Keys
    BY <2>1, FrameAssumption DEF Full
  <2>2. CASE "P" \notin Keys
    <3>1. "P" \notin pressed /\ useGrid \in BOOLEAN
      BY <2>2 DEF TypeOK
    <3>2. useGrid' = useGrid
      BY <1>2, <3>1
    <3> QED
      BY <1>1, <3>2
  <2> QED
    BY <2>1, <2>2
<1>5. TypeOK'
  BY <1>1, <1>3 DEF TypeOK, Started, Sorting!IsPermutation, Sorting!Slot
<1>6. InFlight' /\ BeingSorted'
  BY <1>1 DEF InFlight, BeingSorted
<1>7. FreshAfterGridKernel'
  BY <1>1 DEF FreshAfterGridKernel, Consistent, SlotCells, Sorting!InCellOrder, Indexing!Delimits
<1> QED
  BY <1>4, <1>5, <1>6, <1>7

LEMMA DispatchKeeps == FrameInv /\ Dispatch => FrameInv'
<1> SUFFICES ASSUME FrameInv, Dispatch PROVE FrameInv'
  OBVIOUS
<1> USE DEF FrameInv
<1> DEFINE bound == IF useGrid THEN "grid" ELSE "brute"
<1>1. /\ phase = "flock" /\ phase' = "kernel" /\ flown' = {}
      /\ UNCHANGED <<pos, cell, order, indices, backed, useGrid, paused, mouse, lastKernel>>
      /\ mouseState' = [mouseState EXCEPT ![bound] = MouseUniform]
  BY DEF Dispatch, buffers, CastAvoidanceRay
<1>3. MouseUniform \in 0 .. 2
  BY DEF MouseUniform
<1>4. TypeOK'
  BY <1>1, <1>3 DEF TypeOK, Started, Sorting!IsPermutation, Sorting!Slot
<1>6. InFlight'
  <2> SUFFICES ASSUME lastKernel = "grid"
               PROVE  (\E f : IndexBuiltFor(f) /\ \A a \in Agent \ flown :
                                                    f[a] = cell[a] /\ cell[a] = CellAt(pos[a]))'
    BY <1>1 DEF InFlight
  <2>1. Consistent
    BY <1>1 DEF FreshAfterGridKernel
  <2>2. cell \in [Agent -> CellNumbers]
    BY DEF TypeOK, CellNumbers
  <2>3. IndexBuiltFor(cell)
    BY <2>1, <2>2 DEF Consistent, IndexBuiltFor, SlotCells
  <2>4. IndexBuiltFor(cell)'
    BY <1>1, <2>3 DEF IndexBuiltFor, Indexing!Delimits
  <2>5. \A a \in Agent \ flown' : cell'[a] = CellAt(pos'[a])
    BY <1>1, <2>1 DEF Consistent
  <2> QED
    BY <2>4, <2>5
<1>7. BeingSorted' /\ FreshAfterGridKernel'
  BY <1>1 DEF BeingSorted, FreshAfterGridKernel
<1> QED
  BY <1>1, <1>4, <1>6, <1>7

\* An agent that moves is in space, wherever it was and whatever it moves.
LEMMA WrappedInSpace ==
  ASSUME NEW p \in StartSpace, NEW d \in Steps
  PROVE  Wrapped(Moved(p, d)) \in InSpacePosition
<1>1. MaxBound \in Nat /\ d \in [Axis -> Int]
  BY GridAssumption, FrameAssumption
<1>2. \A a \in Axis : Moved(p, d)[a] \in Int
  BY <1>1, FrameAssumption DEF StartSpace, Moved
<1>3. \A a \in Axis : Wrap(Moved(p, d)[a]) \in -MaxBound .. MaxBound
  BY <1>1, <1>2 DEF Wrap
<1> QED
  BY <1>3 DEF Wrapped, InSpacePosition

LEMMA SpaceInStartSpace == InSpacePosition \subseteq StartSpace
BY GridAssumption, FrameAssumption DEF InSpacePosition, StartSpace

LEMMA InvocationKeeps ==
  ASSUME FrameInv, NEW a \in Agent, Invocation(a)
  PROVE  FrameInv'
<1> USE DEF FrameInv
<1>1. /\ phase = "kernel" /\ a \in Agent \ flown
      /\ cell' = IF useGrid THEN [cell EXCEPT ![a] = NewCell(a)] ELSE cell
      /\ flown' = flown \cup {a}
      /\ UNCHANGED <<order, indices, backed, useGrid, paused, mouse, mouseState, phase, lastKernel>>
  BY DEF Invocation
<1>2. PICK step \in Steps : pos' = [pos EXCEPT ![a] = Wrapped(Moved(pos[a], step))]
  BY DEF Invocation
<1>3. pos \in [Agent -> StartSpace] /\ cell \in [Agent -> CellNumbers]
  BY DEF TypeOK, CellNumbers
<1>4. /\ pos' \in [Agent -> StartSpace] /\ pos'[a] \in InSpacePosition
      /\ \A b \in Agent \ {a} : pos'[b] = pos[b]
  BY <1>2, <1>3, WrappedInSpace, SpaceInStartSpace
<1>5. NewCell(a) = CellAt(pos'[a]) /\ CellAt(pos'[a]) \in CellNumbers
  BY <1>4, CellAtType DEF NewCell
<1>6. /\ cell' \in [Agent -> CellNumbers]
      /\ \A b \in Agent \ {a} : cell'[b] = cell[b]
      /\ useGrid => cell'[a] = CellAt(pos'[a])
  BY <1>1, <1>3, <1>5
<1>7. TypeOK'
  <2>1. /\ \A b \in flown' : InSpace(pos'[b])
        /\ lastKernel' # "none" => \A b \in Started' : InSpace(pos'[b])
    <3>1. Started' = Started /\ Started \subseteq Agent
      BY <1>1, SortingSlots DEF TypeOK, Started, Dispatched, Agent
    <3>2. InSpace(pos'[a]) /\ flown \subseteq Agent
      BY <1>4 DEF TypeOK, InSpace, InSpacePosition
    <3>3. \A b \in Agent \ {a} : InSpace(pos[b]) => InSpace(pos'[b])
      BY <1>4
    <3> QED
      BY <1>1, <3>1, <3>2, <3>3 DEF TypeOK
  <2> QED
    BY <1>1, <1>4, <1>6, <2>1 DEF TypeOK, CellNumbers, Sorting!IsPermutation, Sorting!Slot
<1>8. InFlight'
  <2> SUFFICES ASSUME useGrid
               PROVE  /\ \A b \in flown' : cell'[b] = CellAt(pos'[b])
                      /\ lastKernel = "grid" =>
                           (\E f : IndexBuiltFor(f) /\ \A b \in Agent \ flown :
                                                         f[b] = cell[b] /\ cell[b] = CellAt(pos[b]))'
    BY <1>1 DEF InFlight
  <2>1. \A b \in flown' : cell'[b] = CellAt(pos'[b])
    BY <1>1, <1>4, <1>6 DEF InFlight, TypeOK
  <2>2. ASSUME lastKernel = "grid"
        PROVE  (\E f : IndexBuiltFor(f) /\ \A b \in Agent \ flown :
                                             f[b] = cell[b] /\ cell[b] = CellAt(pos[b]))'
    <3>1. PICK f : IndexBuiltFor(f) /\ \A b \in Agent \ flown :
                                         f[b] = cell[b] /\ cell[b] = CellAt(pos[b])
      BY <1>1, <2>2 DEF InFlight
    <3>2. IndexBuiltFor(f)'
      BY <1>1, <3>1 DEF IndexBuiltFor, Indexing!Delimits
    <3>3. \A b \in Agent \ flown' : f[b] = cell'[b] /\ cell'[b] = CellAt(pos'[b])
      BY <1>1, <1>4, <1>6, <3>1
    <3> QED
      BY <3>2, <3>3
  <2> QED
    BY <2>1, <2>2
<1>9. BeingSorted' /\ FreshAfterGridKernel'
  BY <1>1 DEF BeingSorted, FreshAfterGridKernel
<1> QED
  BY <1>1, <1>7, <1>8, <1>9

LEMMA KernelDoneKeeps == FrameInv /\ KernelDone => FrameInv'
<1> SUFFICES ASSUME FrameInv, KernelDone PROVE FrameInv'
  OBVIOUS
<1> USE DEF FrameInv
<1>1. /\ phase = "kernel" /\ flown = Started
      /\ UNCHANGED <<pos, cell, order, indices, backed, useGrid, paused, mouse, mouseState, flown>>
      /\ useGrid => phase' = "sort" /\ lastKernel' = "grid"
      /\ ~useGrid => phase' = "input" /\ lastKernel' = "brute"
  BY DEF KernelDone, buffers
<1>2. useGrid => CellsExact
  BY <1>1, StartedAll DEF InFlight, CellsExact, TypeOK, Started
<1>3. TypeOK'
  BY <1>1 DEF TypeOK, Program, Started, Sorting!IsPermutation, Sorting!Slot
<1>4. BeingSorted'
  BY <1>1, <1>2 DEF BeingSorted, CellsExact
<1>5. InFlight' /\ FreshAfterGridKernel'
  BY <1>1 DEF InFlight, FreshAfterGridKernel
<1> QED
  BY <1>1, <1>3, <1>4, <1>5

LEMMA BitonicSortKeeps == FrameInv /\ BitonicSort => FrameInv'
<1> SUFFICES ASSUME FrameInv, BitonicSort PROVE FrameInv'
  OBVIOUS
<1> USE DEF FrameInv
<1>1. /\ phase = "sort" /\ phase' = "index"
      /\ UNCHANGED <<pos, cell, indices, backed, useGrid, paused, mouse, mouseState, flown, lastKernel>>
      /\ Sorting!IsPermutation(order') /\ Sorting!InCellOrder(order', cell)
  BY DEF BitonicSort, Sorted
<1>2. TypeOK'
  <2>1. Started = Agent /\ Started' = Agent
    BY <1>1, StartedAll DEF BeingSorted, TypeOK, Started
  <2> QED
    BY <1>1, <2>1 DEF TypeOK, Sorting!IsPermutation, Sorting!Slot
<1>3. BeingSorted'
  BY <1>1 DEF BeingSorted, CellsExact, Sorting!InCellOrder
<1>4. InFlight' /\ FreshAfterGridKernel'
  BY <1>1 DEF InFlight, FreshAfterGridKernel
<1> QED
  BY <1>1, <1>2, <1>3, <1>4

LEMMA IndexPassKeeps == FrameInv /\ IndexPass => FrameInv'
<1> SUFFICES ASSUME FrameInv, IndexPass PROVE FrameInv'
  OBVIOUS
<1> USE DEF FrameInv
<1>1. /\ phase = "index" /\ phase' = "input"
      /\ UNCHANGED <<pos, cell, order, backed, useGrid, paused, mouse, mouseState, flown, lastKernel>>
      /\ indices' = [k \in Indexing!Entry |-> NewEntry(k)]
  BY DEF IndexPass
<1>2. Sorting!InCellOrder(order, cell) /\ CellsExact
  BY <1>1 DEF BeingSorted
<1>3. \A k \in Indexing!Entry : NewEntry(k) \in Nat
  BY <1>2, IndexBuilt, FrameAssumption DEF NewEntry, TypeOK
<1>4. TypeOK'
  BY <1>1, <1>3 DEF TypeOK, Started, Sorting!IsPermutation, Sorting!Slot
<1>5. Consistent'
  <2>1. \A a \in Agent : cell'[a] = CellAt(pos'[a])
    BY <1>1, <1>2 DEF CellsExact
  <2>2. Sorting!InCellOrder(order, cell)'
    BY <1>1, <1>2 DEF Sorting!InCellOrder
  <2>3. ASSUME NEW k \in Indexing!Entry, k < CellCount \/ backed
        PROVE  Indexing!Delimits(indices', SlotCells, k)
    <3>1. indices'[k] = Indexing!EntryFor(SlotCells, k)
      BY <1>1, <2>3, CellCountType DEF NewEntry
    <3> QED
      BY <1>2, <3>1, IndexBuilt DEF Indexing!Delimits, Indexing!AgentSlot, Agent
  <2>4. SlotCells' = SlotCells
    BY <1>1 DEF SlotCells
  <2> QED
    BY <1>1, <2>1, <2>2, <2>3, <2>4 DEF Consistent
<1>6. FreshAfterGridKernel'
  BY <1>5 DEF FreshAfterGridKernel
<1>7. InFlight' /\ BeingSorted'
  BY <1>1 DEF InFlight, BeingSorted
<1> QED
  BY <1>1, <1>4, <1>6, <1>7

LEMMA FrameInvNext == FrameInv /\ [Next]_vars => FrameInv'
<1> SUFFICES ASSUME FrameInv, [Next]_vars PROVE FrameInv'
  OBVIOUS
<1>1. CASE Input
  BY <1>1, InputKeeps
<1>2. CASE Dispatch
  BY <1>2, DispatchKeeps
<1>3. CASE \E a \in Agent : Invocation(a)
  BY <1>3, InvocationKeeps
<1>4. CASE KernelDone
  BY <1>4, KernelDoneKeeps
<1>5. CASE BitonicSort
  BY <1>5, BitonicSortKeeps
<1>6. CASE IndexPass
  BY <1>6, IndexPassKeeps
<1>7. CASE UNCHANGED vars
  <2>1. UNCHANGED <<pos, cell, order, indices, backed, useGrid, paused, mouse, mouseState, phase,
                    flown, lastKernel>>
    BY <1>7 DEF vars, buffers
  <2>2. TypeOK'
    BY <2>1 DEF FrameInv, TypeOK, Started, Sorting!IsPermutation, Sorting!Slot
  <2>3. BeingSorted'
    BY <2>1 DEF FrameInv, BeingSorted, CellsExact, Sorting!InCellOrder
  <2>4. FreshAfterGridKernel'
    BY <2>1 DEF FrameInv, FreshAfterGridKernel, Consistent, SlotCells, Sorting!InCellOrder,
                Indexing!Delimits
  <2>5. InFlight'
    BY <2>1 DEF FrameInv, InFlight, IndexBuiltFor, Indexing!Delimits
  <2> QED
    BY <2>1, <2>2, <2>3, <2>4, <2>5 DEF FrameInv
<1> QED
  BY <1>1, <1>2, <1>3, <1>4, <1>5, <1>6, <1>7 DEF Next

LEMMA FrameInvAlways == Spec => []FrameInv
BY FrameInvInit, FrameInvNext, PTL DEF Spec

-----------------------------------------------------------------------------
(* The theorems.                                                            *)

\* Every value of the frame keeps its type.  An agent is in space from its first
\* invocation on, whatever distance it moves in a frame; before that it is at most
\* Overshoot above the bound, where InitFlock may have put it.  Every cell number is
\* an entry of the index buffer, that of InitFlock for such an agent too
\* (FlockGrid.glsl:94-107, SimulationGPU.cpp:122, Simulation.cpp:40-45).
THEOREM FrameTypes == Spec => []TypeOK
BY FrameInvAlways, PTL DEF FrameInv

\* Between frames the buffers agree whenever the last kernel was the grid's: cells
\* with positions, slots with cells and the index with the slots, after any
\* sequence of pauses and changes of mode (SimulationGPU.cpp:70-77, 149-180).
THEOREM BuffersAgree == Spec => []FreshAfterGridKernel
BY FrameInvAlways, PTL DEF FrameInv

\* In a grid frame that follows a grid frame every invocation reads each other agent
\* that is near exactly once, and none twice, in whatever order the invocations run
\* (FlockGrid.glsl:119, 138-149, 177-211).
THEOREM NearReadOnceAlways == Spec => []NearAgentsReadOnce
BY FrameInvAlways, ReadOnce, PTL
=============================================================================
