-------------------------- MODULE FlockSortProofs --------------------------
(***************************************************************************)
(* What FlockSort.glsl and its host loop guarantee in every pass, for      *)
(* every number of agents and every size of work-group: values keep their  *)
(* types, no two invocations touch the same agent, nobody reaches beyond   *)
(* the buffer and no agent is lost; and why it sorts, for every assignment *)
(* of cells and every interleaving.                                        *)
(*                                                                         *)
(* A merge is followed at the places themselves.  The key of a place is    *)
(* the cell of its agent, negated where the segment is to be sorted        *)
(* downwards, so that every exchange puts the smaller key lower.  A run of *)
(* h invocations that exchange at distance h owns a block of 2h places.    *)
(* When the run begins its block is bitonic: no four places of it go up    *)
(* and down alternately.  While some of the run have exchanged and others  *)
(* have not, the smaller and the larger key of each pair already say how   *)
(* it will end: Batcher's lemma about the half-cleaner.                    *)
(***************************************************************************)
EXTENDS FlockSort, FiniteSetTheorems, TLAPS

-----------------------------------------------------------------------------
(* Division, and powers of two as IsPowerOfTwo defines them.                *)

LEMMA DivisionBounds ==
  ASSUME NEW a \in Nat, NEW b \in Nat \ {0}
  PROVE  /\ a \div b \in Nat /\ b * (a \div b) \in Nat
         /\ b * (a \div b) <= a /\ a < b * (a \div b) + b
         /\ a % b = a - b * (a \div b)
OBVIOUS

\* Multiples of b are in the order of the factors, and at least b apart.
LEMMA MultiplesOrder ==
  ASSUME NEW b \in Nat \ {0}, NEW q \in Int, NEW r \in Int
  PROVE  /\ b * q \in Int /\ b * r \in Int
         /\ b * q < b * r + b => q <= r
         /\ q < r => b * q + b <= b * r
         /\ q <= r => b * q <= b * r
<1>1. b * q \in Int /\ b * r \in Int
  OBVIOUS
<1>2. ASSUME NEW x \in Int, NEW y \in Int, x < y
      PROVE  b * x + b <= b * y
  <2>1. y - x - 1 \in Nat
    BY <1>2
  <2>2. b * (y - x - 1) >= 0
    BY <2>1
  <2>3. b * (y - x - 1) = b * y - b * x - b
    OBVIOUS
  <2> QED
    BY <2>2, <2>3
<1>3. q < r => b * q + b <= b * r
  BY <1>2
<1>4. ASSUME b * q < b * r + b, ~(q <= r)
      PROVE  FALSE
  <2>1. b * r + b <= b * q
    BY <1>2, <1>4
  <2> QED
    BY <1>1, <1>4, <2>1
<1>5. ASSUME q <= r
      PROVE  b * q <= b * r
  <2>1. CASE q = r
    BY <2>1
  <2>2. CASE q < r
    BY <1>1, <1>3, <2>2
  <2> QED
    BY <1>5, <2>1, <2>2
<1> QED
  BY <1>1, <1>3, <1>4, <1>5

LEMMA DivisionUnique ==
  ASSUME NEW a \in Nat, NEW b \in Nat \ {0}, NEW q \in Nat, b * q <= a, a < b * q + b
  PROVE  a \div b = q
BY DivisionBounds

LEMMA MultipleHasNoRemainder ==
  ASSUME NEW d \in Nat \ {0}, NEW x \in Nat, NEW n, n = d * x
  PROVE  n % d = 0 /\ n \div d = x
<1>1. n \in Nat /\ d * x <= n /\ n < d * x + d
  OBVIOUS
<1>2. n \div d = x
  BY <1>1, DivisionUnique
<1> QED
  BY <1>1, <1>2, DivisionBounds

\* A factor of a power of two other than 1 is even.
LEMMA PowerFactorEven ==
  ASSUME NEW n \in Nat \ {0}, IsPowerOfTwo(n), NEW a \in Nat, NEW m \in Nat,
         n = a * m, m # 1
  PROVE  \E k \in Nat \ {0} : m = 2 * k
<1>1. m # 0 /\ a # 0
  OBVIOUS
<1>2. m <= n
  <2>1. a - 1 \in Nat
    BY <1>1
  <2>2. m * (a - 1) >= 0 /\ m * (a - 1) = a * m - m
    BY <2>1
  <2> QED
    BY <2>2
<1>3. n % m = 0
  BY <1>1
<1>4. m % 2 # 1
  BY <1>1, <1>2, <1>3 DEF IsPowerOfTwo
<1>5. m = 2 * (m \div 2) /\ m \div 2 \in Nat
  BY <1>4
<1> QED
  BY <1>1, <1>5

LEMMA PowerEven ==
  ASSUME NEW n \in Nat \ {0}, IsPowerOfTwo(n), n # 1
  PROVE  n = 2 * (n \div 2) /\ n \div 2 \in Nat \ {0}
<1>1. n = 1 * n
  OBVIOUS
<1>2. PICK k \in Nat \ {0} : n = 2 * k
  BY <1>1, PowerFactorEven
<1> QED
  BY <1>2

LEMMA PowerHalf ==
  ASSUME NEW k \in Nat \ {0}, IsPowerOfTwo(2 * k)
  PROVE  IsPowerOfTwo(k)
<1> SUFFICES ASSUME NEW d \in 1 .. k, k % d = 0, d % 2 = 1
             PROVE  d = 1
  BY DEF IsPowerOfTwo
<1>1. d * (k \div d) = k /\ k \div d \in Nat
  OBVIOUS
<1>2. 2 * k = d * (2 * (k \div d)) /\ 2 * (k \div d) \in Nat
  BY <1>1
<1>3. (2 * k) % d = 0
  <2> DEFINE n == 2 * k
             x == 2 * (k \div d)
  <2>1. n = d * x /\ x \in Nat /\ d \in Nat \ {0}
    BY <1>2
  <2> HIDE DEF n, x
  <2>2. n % d = 0
    BY <2>1, MultipleHasNoRemainder
  <2> QED
    BY <2>2 DEF n
<1>4. d \in 1 .. 2 * k
  OBVIOUS
<1> QED
  BY <1>3, <1>4 DEF IsPowerOfTwo

LEMMA PowerDouble ==
  ASSUME NEW k \in Nat \ {0}, IsPowerOfTwo(k)
  PROVE  IsPowerOfTwo(2 * k)
<1> SUFFICES ASSUME NEW d \in 1 .. 2 * k, (2 * k) % d = 0, d % 2 = 1
             PROVE  d = 1
  BY DEF IsPowerOfTwo
<1> DEFINE e == (2 * k) \div d
           c == d \div 2
           f == e \div 2
<1>1. d * e = 2 * k /\ e \in Nat
  OBVIOUS
<1>2. d = 2 * c + 1 /\ c \in Nat
  OBVIOUS
<1> HIDE DEF e, c
<1>3. e = 2 * (k - c * e) /\ k - c * e \in Int
  <2> DEFINE w == c * e
  <2>1. w \in Int
    BY <1>1, <1>2
  <2>2. d * e = 2 * w + e
    BY <1>1, <1>2
  <2> HIDE DEF w
  <2>3. e = 2 * (k - w) /\ k - w \in Int
    BY <1>1, <2>1, <2>2
  <2> QED
    BY <2>3 DEF w
<1>4. f \in Nat /\ e = 2 * f
  BY <1>1, <1>3
<1> HIDE DEF f
<1>5. k = d * f
  <2>1. d * e = 2 * (d * f) /\ d * f \in Int
    BY <1>4
  <2> QED
    BY <1>1, <2>1
<1>6. k % d = 0 /\ d <= k
  <2>1. f # 0
    BY <1>5
  <2>2. f - 1 \in Nat /\ d * (f - 1) >= 0 /\ d * (f - 1) = d * f - d
    BY <1>4, <2>1
  <2>3. k % d = 0
    <3>1. d \in Nat \ {0}
      OBVIOUS
    <3> QED
      BY <1>4, <1>5, <3>1, MultipleHasNoRemainder
  <2> DEFINE w == d * f
             v == d * (f - 1)
  <2>4. v >= 0 /\ v = w - d /\ k = w /\ v \in Int
    BY <1>5, <2>2
  <2> HIDE DEF v, w
  <2>5. d <= k
    BY <2>4
  <2> QED
    BY <2>3, <2>5
<1> QED
  BY <1>6 DEF IsPowerOfTwo

\* Of two powers of two the smaller divides the larger.
LEMMA PowerDivides ==
  ASSUME NEW a \in Nat \ {0}, NEW b \in Nat \ {0}, IsPowerOfTwo(a), IsPowerOfTwo(b), a <= b
  PROVE  \E m \in Nat \ {0} : b = a * m
<1> DEFINE Bad(x) == \E y \in Nat \ {0} : /\ IsPowerOfTwo(x) /\ IsPowerOfTwo(y) /\ x <= y
                                          /\ \A m \in Nat \ {0} : y # x * m
           T == {x \in Nat \ {0} : Bad(x)}
<1>1. SUFFICES ASSUME T # {} PROVE FALSE
  OBVIOUS
<1>2. PICK x \in T : \A z \in T : ~(<<z, x>> \in OpToRel(<, Nat))
  <2>1. T \subseteq Nat
    OBVIOUS
  <2> HIDE DEF T
  <2> QED
    BY <1>1, <2>1, WFMin, NatLessThanWellFounded
<1>3. PICK y \in Nat \ {0} : /\ IsPowerOfTwo(x) /\ IsPowerOfTwo(y) /\ x <= y
                             /\ \A m \in Nat \ {0} : y # x * m
  BY <1>2
<1>4. x \in Nat \ {0}
  BY <1>2
<1>5. x # 1
  BY <1>3
<1> DEFINE u == x \div 2
           v == y \div 2
<1>6. x = 2 * u /\ u \in Nat \ {0} /\ y = 2 * v /\ v \in Nat \ {0}
  BY <1>3, <1>4, <1>5, PowerEven
<1> HIDE DEF u, v
<1>7. IsPowerOfTwo(u) /\ IsPowerOfTwo(v) /\ u <= v
  BY <1>3, <1>6, PowerHalf
<1>8. \A m \in Nat \ {0} : v # u * m
  <2> SUFFICES ASSUME NEW m \in Nat \ {0}, v = u * m PROVE FALSE
    OBVIOUS
  <2>1. y = x * m
    BY <1>6
  <2> QED
    BY <1>3, <2>1
<1>9. u \in T
  BY <1>6, <1>7, <1>8
<1>10. u < x /\ u \in Nat /\ x \in Nat
  BY <1>6
<1> QED
  BY <1>2, <1>9, <1>10 DEF OpToRel

\* ... and if they differ it does so an even number of times.
LEMMA PowerDoubleDivides ==
  ASSUME NEW a \in Nat \ {0}, NEW b \in Nat \ {0}, IsPowerOfTwo(a), IsPowerOfTwo(b), a < b
  PROVE  2 * a <= b /\ \E m \in Nat \ {0} : b = 2 * a * m
<1>1. PICK m \in Nat \ {0} : b = a * m
  BY PowerDivides
<1>2. m # 1
  BY <1>1
<1>3. PICK k \in Nat \ {0} : m = 2 * k
  BY <1>1, <1>2, PowerFactorEven
<1>4. b = 2 * a * k
  BY <1>1, <1>3
<1>5. a * k >= a
  <2>1. k - 1 \in Nat /\ a * (k - 1) >= 0 /\ a * (k - 1) = a * k - a
    OBVIOUS
  <2> QED
    BY <2>1
<1>6. 2 * a <= b
  <2>1. b = 2 * (a * k) /\ a * k \in Nat
    BY <1>4
  <2> QED
    BY <1>5, <2>1
<1> QED
  BY <1>4, <1>6

-----------------------------------------------------------------------------
(* The pair of places of an invocation at a distance.                       *)

\* The start of the run of h invocations that t belongs to.
Start(t, h) == h * (t \div h)

LEMMA PairPlaces ==
  ASSUME NEW t \in Nat, NEW h \in Nat \ {0}
  PROVE  /\ Start(t, h) \in Nat /\ Start(t, h) <= t /\ t < Start(t, h) + h
         /\ Low(t, h) = t + Start(t, h) /\ High(t, h) = t + Start(t, h) + h
<1>1. (t \div h) * h = h * (t \div h)
  BY DivisionBounds
<1> QED
  BY <1>1, DivisionBounds DEF Start, Low, High

\* Invocations of different runs start at least a run apart.
LEMMA StartOrder ==
  ASSUME NEW t \in Nat, NEW u \in Nat, NEW h \in Nat \ {0}, t < u
  PROVE  Start(t, h) = Start(u, h) \/ Start(t, h) + h <= Start(u, h)
<1> DEFINE q == t \div h
           r == u \div h
<1>1. q \in Int /\ r \in Int /\ h * q <= t /\ u < h * r + h /\ h * q \in Nat /\ h * r \in Nat
  BY DivisionBounds
<1> HIDE DEF q, r
<1>2. q <= r
  BY <1>1, MultiplesOrder
<1>3. q = r \/ h * q + h <= h * r
  BY <1>1, <1>2, MultiplesOrder
<1> QED
  BY <1>3 DEF Start, q, r

\* No place is in the pairs of two invocations.
LEMMA PairsDisjoint ==
  ASSUME NEW t \in Nat, NEW u \in Nat, NEW h \in Nat \ {0}, t # u
  PROVE  {Low(t, h), High(t, h)} \cap {Low(u, h), High(u, h)} = {}
<1>1. ASSUME NEW x \in Nat, NEW y \in Nat, x < y
      PROVE  {Low(x, h), High(x, h)} \cap {Low(y, h), High(y, h)} = {}
  BY <1>1, PairPlaces, StartOrder
<1> QED
  BY <1>1

\* The runs of h invocations fill a multiple of h.
LEMMA RunFits ==
  ASSUME NEW t \in Nat, NEW h \in Nat \ {0}, NEW m \in Nat, NEW n, n = h * m, t < n
  PROVE  n \in Nat /\ Start(t, h) + h <= n
<1>1. n \in Nat /\ t \div h \in Nat /\ h * (t \div h) <= t /\ h * (t \div h) \in Nat
  BY DivisionBounds
<1> DEFINE q == t \div h
<1>2. q < m
  <2>1. ~(m <= q)
    <3> SUFFICES ASSUME m <= q PROVE FALSE
      OBVIOUS
    <3>1. h * m <= h * q
      BY <1>1, MultiplesOrder
    <3> QED
      BY <1>1, <3>1
  <2> QED
    BY <1>1, <2>1
<1> HIDE DEF q
<1>3. h * q + h <= h * m
  BY <1>1, <1>2, MultiplesOrder DEF q
<1> QED
  BY <1>1, <1>3 DEF Start, q

\* Invocations below a multiple of the distance have their places below twice that.
LEMMA PairWithin ==
  ASSUME NEW t \in Nat, NEW h \in Nat \ {0}, NEW m \in Nat, NEW n, n = h * m, t < n
  PROVE  /\ Low(t, h) \in 0 .. 2 * n - 1 /\ High(t, h) \in 0 .. 2 * n - 1
         /\ Low(t, h) # High(t, h)
<1> DEFINE p == Start(t, h)
<1>1. p \in Nat /\ p <= t /\ t < p + h /\ Low(t, h) = t + p /\ High(t, h) = t + p + h
  BY PairPlaces
<1>2. p + h <= n /\ n \in Nat
  BY RunFits
<1> HIDE DEF p
<1>3. t + p + h < 2 * n /\ t + p \in Nat /\ t + p + h \in Nat /\ t + p < t + p + h
  BY <1>1, <1>2
<1> QED
  BY <1>1, <1>2, <1>3

\* The places in shared memory are the places in the buffer, counted from the
\* work-group's first.
LEMMA PairShift ==
  ASSUME NEW x \in Nat, NEW h \in Nat \ {0}, NEW m \in Nat, NEW l, l = h * m, NEW g \in Nat
  PROVE  /\ Start(l * g + x, h) = l * g + Start(x, h)
         /\ Low(l * g + x, h) = 2 * (l * g) + Low(x, h)
         /\ High(l * g + x, h) = 2 * (l * g) + High(x, h)
<1> DEFINE q == x \div h
           k == m * g
           b == l * g
           hq == h * q
<1>1. q \in Nat /\ hq \in Nat /\ hq <= x /\ x < hq + h
  BY DivisionBounds
<1>2. k \in Nat /\ b \in Nat /\ b = h * k /\ l \in Nat
  OBVIOUS
<1>3. h * (k + q) = b + hq /\ k + q \in Nat
  BY <1>1, <1>2
<1>4. b + x \in Nat /\ Start(x, h) = hq
  BY <1>2 DEF Start
<1> HIDE DEF q, k, b, hq
<1>5. (b + x) \div h = k + q
  <2>1. h * (k + q) <= b + x /\ b + x < h * (k + q) + h
    BY <1>1, <1>2, <1>3
  <2> HIDE <1>2
  <2> QED
    BY <1>3, <1>4, <2>1, DivisionUnique
<1>6. Start(b + x, h) = b + Start(x, h)
  BY <1>3, <1>4, <1>5 DEF Start
<1>7. Low(b + x, h) = 2 * b + Low(x, h) /\ High(b + x, h) = 2 * b + High(x, h)
  BY <1>1, <1>2, <1>4, <1>6, PairPlaces
<1> QED
  BY <1>6, <1>7 DEF b

-----------------------------------------------------------------------------
(* The buffer, the work-groups and their invocations.                       *)

LEMMA Geometry ==
  ASSUME <<size, localSize>> \in Sizes
  PROVE  /\ size \in Nat \ {0} /\ localSize \in Nat \ {0}
         /\ WorkGroups \in Nat \ {0} /\ WorkGroups * localSize \in Nat \ {0}
         /\ Dispatched = 2 * (WorkGroups * localSize) /\ Dispatched \in Nat \ {0}
         /\ 2 * localSize <= Dispatched /\ Dispatched <= size /\ size < 2 * Dispatched
         /\ IsPowerOfTwo(localSize) /\ IsPowerOfTwo(2 * localSize)
         /\ IsPowerOfTwo(WorkGroups * localSize) /\ IsPowerOfTwo(Dispatched)
<1> DEFINE n == size
           l == localSize
           g == WorkGroups
           d == 2 * l
           q == n \div d
           w == g * l
<1>1. /\ n \in Nat \ {0} /\ l \in Nat \ {0} /\ n >= 2 * l
      /\ IsPowerOfTwo(2 * l) /\ IsPowerOfTwo(2 * l * g)
  BY SortAssumption DEF WorkGroups
<1>2. q \in Nat /\ d * q <= n /\ n < d * q + d /\ d * q \in Nat
  <2>1. d \in Nat \ {0}
    BY <1>1
  <2> HIDE DEF d, n
  <2> QED
    BY <1>1, <2>1, DivisionBounds
<1>3. g = IF q > 1 THEN q ELSE 1
  BY DEF WorkGroups, Groups
<1>4. g \in Nat \ {0}
  BY <1>2, <1>3
<1>5. w \in Nat \ {0} /\ d * g = 2 * w /\ 2 * l * g = 2 * w /\ Dispatched = 2 * w
  BY <1>1, <1>4 DEF Dispatched, Invocations
<1>6. d * g <= n /\ n < 2 * (d * g) /\ d <= d * g
  <2>1. CASE q > 1
    <3>1. d * q >= d * 1 + d
      BY <1>1, <1>2, <2>1, MultiplesOrder
    <3> QED
      BY <1>1, <1>2, <1>3, <2>1, <3>1
  <2>2. CASE ~(q > 1)
    <3>1. d * q <= d * 1
      BY <1>1, <1>2, <2>2, MultiplesOrder
    <3> QED
      BY <1>1, <1>2, <1>3, <2>2, <3>1
  <2> QED
    BY <2>1, <2>2
<1> HIDE DEF w
<1>7. IsPowerOfTwo(l) /\ IsPowerOfTwo(w)
  BY <1>1, <1>5, PowerHalf
<1> QED
  BY <1>1, <1>4, <1>5, <1>6, <1>7 DEF w

\* Invocation t has the places 2t and 2t + 1 of the buffer, and in shared memory
\* the same two counted from the first of its work-group.
LEMMA ThreadPlaces ==
  ASSUME <<size, localSize>> \in Sizes, NEW t \in Thread
  PROVE  /\ t \in Nat /\ t < WorkGroups * localSize /\ t < size \div 2
         /\ GroupOf(t) \in Group /\ LocalID(t) \in Nat /\ LocalID(t) < localSize
         /\ t = localSize * GroupOf(t) + LocalID(t)
         /\ 2 * t \in Slot /\ 2 * t + 1 \in Slot /\ 2 * t + 1 < Dispatched
         /\ 2 * LocalID(t) \in LocalSlot /\ 2 * LocalID(t) + 1 \in LocalSlot
<1> DEFINE w == WorkGroups * localSize
           g == GroupOf(t)
<1>1. /\ size \in Nat \ {0} /\ localSize \in Nat \ {0} /\ WorkGroups \in Nat \ {0}
      /\ w \in Nat \ {0} /\ Dispatched = 2 * w /\ Dispatched <= size
  BY Geometry
<1>2. t \in Nat /\ t < w
  BY <1>1 DEF Thread
<1>3. /\ g \in Nat /\ localSize * g \in Nat /\ localSize * g <= t /\ t < localSize * g + localSize
      /\ LocalID(t) = t - localSize * g
  BY <1>1, <1>2, DivisionBounds DEF GroupOf, LocalID
<1>4. g < WorkGroups
  <2>1. w = localSize * WorkGroups
    BY <1>1
  <2>2. CASE WorkGroups <= g
    <3>1. localSize * WorkGroups <= localSize * g
      BY <1>1, <1>3, <2>2, MultiplesOrder
    <3> QED
      BY <1>1, <1>2, <1>3, <2>1, <3>1
  <2> QED
    BY <1>1, <1>3, <2>2
<1> HIDE DEF w, g
<1>5. t < size \div 2 /\ 2 * t + 1 < Dispatched /\ 2 * t \in Slot /\ 2 * t + 1 \in Slot
  BY <1>1, <1>2 DEF Slot
<1>6. /\ LocalID(t) \in Nat /\ LocalID(t) < localSize
      /\ 2 * LocalID(t) \in LocalSlot /\ 2 * LocalID(t) + 1 \in LocalSlot
  BY <1>1, <1>2, <1>3 DEF LocalSlot
<1>7. g \in Group
  BY <1>1, <1>3, <1>4 DEF Group
<1> QED
  BY <1>2, <1>3, <1>5, <1>6, <1>7 DEF w, g

\* The invocation of a slot, and the place of the slot in shared memory.
LEMMA SlotThread ==
  ASSUME <<size, localSize>> \in Sizes, NEW s \in Slot, s < Dispatched
  PROVE  /\ s \div 2 \in Thread
         /\ \/ s = 2 * (s \div 2) /\ s % (2 * localSize) = 2 * LocalID(s \div 2)
            \/ s = 2 * (s \div 2) + 1 /\ s % (2 * localSize) = 2 * LocalID(s \div 2) + 1
<1> DEFINE t == s \div 2
           b == localSize * GroupOf(t)
           d == 2 * localSize
<1>1. s \in Nat /\ t \in Nat /\ (s = 2 * t \/ s = 2 * t + 1) /\ t < WorkGroups * localSize
  BY Geometry DEF Slot
<1>2. t \in Thread
  BY <1>1, Geometry DEF Thread
<1>3. /\ GroupOf(t) \in Nat /\ b \in Nat /\ t = b + LocalID(t)
      /\ LocalID(t) \in Nat /\ LocalID(t) < localSize /\ localSize \in Nat \ {0}
  BY <1>2, ThreadPlaces, Geometry DEF Group
<1> HIDE DEF t
<1>4. d * GroupOf(t) = 2 * b /\ d \in Nat \ {0}
  BY <1>3
<1> HIDE DEF b
<1>5. 2 * b <= s /\ s < 2 * b + d
  BY <1>1, <1>3
<1> HIDE DEF d
<1>6. s \div d = GroupOf(t)
  BY <1>1, <1>3, <1>4, <1>5, DivisionUnique
<1>7. s % d = s - 2 * b
  <2>1. s % d = s - d * (s \div d)
    BY <1>1, <1>4, DivisionBounds
  <2> QED
    BY <1>4, <1>6, <2>1
<1>8. \/ s = 2 * t /\ s % d = 2 * LocalID(t)
      \/ s = 2 * t + 1 /\ s % d = 2 * LocalID(t) + 1
  BY <1>1, <1>3, <1>7
<1> QED
  BY <1>2, <1>8 DEF t, d

\* Two invocations of a work-group differ in their local identifiers.
LEMMA LocalIDsDiffer ==
  ASSUME <<size, localSize>> \in Sizes, NEW t \in Thread, NEW u \in Thread,
         t # u, GroupOf(t) = GroupOf(u)
  PROVE  LocalID(t) # LocalID(u)
BY ThreadPlaces

-----------------------------------------------------------------------------
(* The inductive invariant.                                                 *)

\* The passes of a merge whose partners lie further apart than a work-group.
Far == FirstStep > localSize

\* The host's variables: segments and blocks are powers of two, the loop ends in time,
\* and a dispatch has ended before the host goes on.
HostInv ==
  /\ IsPowerOfTwo(segmentSize) /\ IsPowerOfTwo(block)
  /\ host # "done" => segmentSize <= Dispatched
  /\ host = "done" => segmentSize = 2 * Dispatched
  /\ host # "waiting" => \A t \in Thread : pc[t] = "done"

\* An invocation of a far pass is before or after its one exchange ...
FarInv(t) == pc[t] \in {"global", "done"} /\ hstep[t] = FirstStep

\* ... and one of a near pass has a distance that halves from FirstStep to zero.
NearInv(t) ==
  /\ pc[t] # "global"
  /\ hstep[t] <= FirstStep
  /\ hstep[t] > 0 => IsPowerOfTwo(hstep[t])
  /\ pc[t] = "load" => hstep[t] = FirstStep
  /\ pc[t] = "exchange" => hstep[t] > 0
  /\ pc[t] \in {"store", "done"} => hstep[t] = 0

ThreadInv ==
  host = "waiting" => \A t \in Thread : IF Far THEN FarInv(t) ELSE NearInv(t)

\* What the barriers do for two invocations of a work-group: they are in the same
\* round, and only those that wait at the barrier can be ahead.
InStep(t, u) ==
  /\ pc[t] = "load" => pc[u] \in {"load", "barrier"} /\ hstep[u] = hstep[t]
  /\ pc[t] = "exchange" =>
       \/ pc[u] = "exchange" /\ hstep[u] = hstep[t]
       \/ pc[u] = "barrier" /\ hstep[u] = hstep[t] \div 2
  /\ pc[t] = "barrier" =>
       /\ pc[u] \in {"load", "exchange", "barrier"}
       /\ pc[u] = "barrier" => hstep[u] = hstep[t]
  /\ pc[t] \in {"store", "done"} => pc[u] \in {"store", "done"}

GroupInv ==
  host = "waiting" /\ ~Far =>
    \A t, u \in Thread : GroupOf(t) = GroupOf(u) => InStep(t, u)

\* Every agent is in one slot, and those without an invocation are where they were.
ContentInv ==
  /\ \A s \in Slot : Content(s) \in Slot
  /\ \A s, r \in Slot : Content(s) = Content(r) => s = r
  /\ \A s \in Slot : s >= Dispatched => agents[s] = s

SortInv == TypeOK /\ HostInv /\ ThreadInv /\ GroupInv /\ ContentInv

\* The place x of the shared memory of work-group g stands for one slot, and a
\* dispatched slot for one place.
LEMMA SlotOfPlace ==
  ASSUME <<size, localSize>> \in Sizes, NEW g \in Group, NEW x \in LocalSlot,
         NEW s, s = 2 * (localSize * g) + x
  PROVE  /\ s \in Slot /\ s < Dispatched
         /\ GroupOf(s \div 2) = g /\ s % (2 * localSize) = x
<1> DEFINE l == localSize
           b == l * g
           y == x \div 2
           w == WorkGroups * l
           t == s \div 2
<1>1. /\ l \in Nat \ {0} /\ WorkGroups \in Nat \ {0} /\ w \in Nat \ {0}
      /\ Dispatched = 2 * w /\ Dispatched <= size /\ size \in Nat \ {0}
      /\ w = l * WorkGroups
  BY Geometry
<1>2. g \in Nat /\ g < WorkGroups /\ b \in Nat
  BY <1>1 DEF Group
<1>3. x \in Nat /\ x < 2 * l /\ y \in Nat /\ y < l /\ (x = 2 * y \/ x = 2 * y + 1)
  BY <1>1 DEF LocalSlot
<1>4. b + l <= w
  BY <1>1, <1>2, MultiplesOrder
<1> HIDE DEF b, w, y
<1>5. s = 2 * b + x
  BY DEF b
<1>6. t = b + y /\ s \in Nat /\ s < 2 * w /\ t \in Nat /\ t < w
  BY <1>1, <1>2, <1>3, <1>4, <1>5
<1>7. s \in Slot /\ s < Dispatched
  BY <1>1, <1>6 DEF Slot
<1>8. GroupOf(t) = g
  <2>1. l * g <= t /\ t < l * g + l
    BY <1>1, <1>2, <1>3, <1>6 DEF b
  <2> HIDE DEF t
  <2> QED
    BY <1>1, <1>2, <1>6, <2>1, DivisionUnique DEF GroupOf
<1>9. t \in Thread
  BY <1>1, <1>6 DEF Thread, w
<1>10. t = b + LocalID(t)
  BY <1>8, <1>9, ThreadPlaces DEF b
<1>11. s % (2 * l) = x
  <2>1. \/ s = 2 * t /\ s % (2 * l) = 2 * LocalID(t)
        \/ s = 2 * t + 1 /\ s % (2 * l) = 2 * LocalID(t) + 1
    BY <1>7, SlotThread
  <2>2. LocalID(t) \in Nat
    BY <1>9, ThreadPlaces
  <2> HIDE DEF t
  <2> QED
    BY <1>2, <1>3, <1>5, <1>6, <1>10, <2>1, <2>2
<1> QED
  BY <1>7, <1>8, <1>11

LEMMA PlaceOfSlot ==
  ASSUME <<size, localSize>> \in Sizes, NEW s \in Slot, s < Dispatched
  PROVE  /\ GroupOf(s \div 2) \in Group /\ s % (2 * localSize) \in LocalSlot
         /\ s = 2 * (localSize * GroupOf(s \div 2)) + (s % (2 * localSize))
<1> DEFINE t == s \div 2
           b == localSize * GroupOf(t)
<1>1. t \in Thread
  BY SlotThread
<1> HIDE DEF t
<1>2. /\ GroupOf(t) \in Group /\ t = b + LocalID(t) /\ LocalID(t) \in Nat /\ b \in Nat
      /\ 2 * LocalID(t) \in LocalSlot /\ 2 * LocalID(t) + 1 \in LocalSlot
  BY <1>1, ThreadPlaces, Geometry DEF Group
<1>3. \/ s = 2 * t /\ s % (2 * localSize) = 2 * LocalID(t)
      \/ s = 2 * t + 1 /\ s % (2 * localSize) = 2 * LocalID(t) + 1
  BY SlotThread DEF t
<1> HIDE DEF b
<1>4. s % (2 * localSize) \in LocalSlot /\ s = 2 * b + (s % (2 * localSize))
  BY <1>2, <1>3
<1> QED
  BY <1>2, <1>4 DEF t, b

-----------------------------------------------------------------------------
(* Distances.                                                               *)

\* The pass that is next or running halves a power of two that divides what is
\* dispatched.
LEMMA PassDistance ==
  ASSUME TypeOK, HostInv, host # "done"
  PROVE  /\ FirstStep \in Nat \ {0} /\ block = 2 * FirstStep /\ IsPowerOfTwo(FirstStep)
         /\ FirstStep <= WorkGroups * localSize
<1> DEFINE w == WorkGroups * localSize
<1>1. /\ block \in Nat \ {0} /\ block # 1 /\ block <= segmentSize /\ segmentSize \in Nat
      /\ IsPowerOfTwo(block) /\ segmentSize <= Dispatched
  BY Geometry DEF TypeOK, HostInv
<1>2. w \in Nat /\ Dispatched = 2 * w
  BY Geometry DEF TypeOK
<1>3. block = 2 * FirstStep /\ FirstStep \in Nat \ {0}
  BY <1>1, PowerEven DEF FirstStep
<1> HIDE DEF w
<1>4. IsPowerOfTwo(FirstStep)
  BY <1>1, <1>3, PowerHalf
<1>5. FirstStep <= w
  BY <1>1, <1>2, <1>3
<1> QED
  BY <1>3, <1>4, <1>5 DEF w

\* Whoever is about to exchange does it at a power of two that divides the
\* invocations, so that both places exist and differ; in shared memory it divides
\* the invocations of the work-group, and the places are those of the slots.
LEMMA ExchangeDistance ==
  ASSUME TypeOK, HostInv, ThreadInv, NEW t \in Thread, NEW h, h = hstep[t],
         pc[t] \in {"global", "exchange"}
  PROVE  /\ host = "waiting" /\ (pc[t] = "global" <=> Far)
         /\ h \in Nat \ {0} /\ IsPowerOfTwo(h) /\ h <= FirstStep
         /\ Low(t, h) \in Slot /\ Low(t, h) < Dispatched
         /\ High(t, h) \in Slot /\ High(t, h) < Dispatched
         /\ Low(t, h) # High(t, h)
         /\ pc[t] = "exchange" =>
              /\ h <= localSize
              /\ Low(LocalID(t), h) \in LocalSlot /\ High(LocalID(t), h) \in LocalSlot
              /\ Low(LocalID(t), h) # High(LocalID(t), h)
              /\ Low(t, h) = 2 * (localSize * GroupOf(t)) + Low(LocalID(t), h)
              /\ High(t, h) = 2 * (localSize * GroupOf(t)) + High(LocalID(t), h)
<1> DEFINE w == WorkGroups * localSize
<1>1. host = "waiting" /\ host # "done"
  BY DEF HostInv
<1>2. /\ <<size, localSize>> \in Sizes
      /\ size \in Nat \ {0} /\ localSize \in Nat \ {0} /\ w \in Nat \ {0}
      /\ Dispatched = 2 * w /\ Dispatched <= size
      /\ IsPowerOfTwo(localSize) /\ IsPowerOfTwo(w)
  BY Geometry DEF TypeOK
<1>3. FirstStep \in Nat \ {0} /\ IsPowerOfTwo(FirstStep) /\ FirstStep <= w
  BY <1>1, PassDistance
<1> HIDE DEF w
<1>4. h \in Nat
  BY <1>2 DEF TypeOK
<1>5. /\ h \in Nat \ {0} /\ IsPowerOfTwo(h) /\ h <= FirstStep /\ (pc[t] = "global" <=> Far)
      /\ (pc[t] = "exchange" => h <= localSize)
  <2>1. CASE Far
    BY <1>1, <1>3, <2>1 DEF ThreadInv, FarInv
  <2>2. CASE ~Far
    BY <1>1, <1>2, <1>3, <1>4, <2>2 DEF ThreadInv, NearInv, Far
  <2> QED
    BY <2>1, <2>2
<1>6. PICK m \in Nat \ {0} : w = h * m
  <2>1. h <= w
    BY <1>2, <1>3, <1>5
  <2> QED
    BY <1>2, <1>5, <2>1, PowerDivides
<1>7. /\ t \in Nat /\ t < w /\ GroupOf(t) \in Nat /\ LocalID(t) \in Nat
      /\ LocalID(t) < localSize /\ t = localSize * GroupOf(t) + LocalID(t)
  BY <1>2, ThreadPlaces DEF w, Group
<1>8. /\ Low(t, h) \in 0 .. 2 * w - 1 /\ High(t, h) \in 0 .. 2 * w - 1
      /\ Low(t, h) # High(t, h)
  BY <1>5, <1>6, <1>7, PairWithin
<1>9. /\ Low(t, h) \in Slot /\ Low(t, h) < Dispatched
      /\ High(t, h) \in Slot /\ High(t, h) < Dispatched
  BY <1>2, <1>8 DEF Slot
<1>10. ASSUME pc[t] = "exchange"
       PROVE  /\ Low(LocalID(t), h) \in LocalSlot /\ High(LocalID(t), h) \in LocalSlot
              /\ Low(LocalID(t), h) # High(LocalID(t), h)
              /\ Low(t, h) = 2 * (localSize * GroupOf(t)) + Low(LocalID(t), h)
              /\ High(t, h) = 2 * (localSize * GroupOf(t)) + High(LocalID(t), h)
  <2>1. PICK k \in Nat \ {0} : localSize = h * k
    BY <1>2, <1>5, <1>10, PowerDivides
  <2>2. /\ Low(LocalID(t), h) \in 0 .. 2 * localSize - 1
        /\ High(LocalID(t), h) \in 0 .. 2 * localSize - 1
        /\ Low(LocalID(t), h) # High(LocalID(t), h)
    BY <1>5, <1>7, <2>1, PairWithin
  <2>3. /\ Low(localSize * GroupOf(t) + LocalID(t), h)
             = 2 * (localSize * GroupOf(t)) + Low(LocalID(t), h)
        /\ High(localSize * GroupOf(t) + LocalID(t), h)
             = 2 * (localSize * GroupOf(t)) + High(LocalID(t), h)
    <3> DEFINE l == localSize
               g == GroupOf(t)
               x == LocalID(t)
    <3>1. k \in Nat /\ h \in Nat \ {0} /\ l = h * k /\ g \in Nat /\ x \in Nat
      BY <1>5, <1>7, <2>1
    <3> HIDE DEF l, g, x
    <3>2. Low(l * g + x, h) = 2 * (l * g) + Low(x, h) /\ High(l * g + x, h) = 2 * (l * g) + High(x, h)
      BY <3>1, PairShift
    <3> QED
      BY <3>2 DEF l, g, x
  <2> QED
    BY <1>7, <2>2, <2>3 DEF LocalSlot
<1> QED
  BY <1>1, <1>5, <1>8, <1>9, <1>10

-----------------------------------------------------------------------------
(* What a step does to the content of the slots.                            *)

\* The invocations that have their pair of agents in shared memory.
Held == {"barrier", "exchange", "store"}

LEMMA InputsKept ==
  ASSUME [Next]_vars
  PROVE  /\ size' = size /\ localSize' = localSize /\ cell' = cell
         /\ Thread' = Thread /\ Slot' = Slot /\ Group' = Group /\ LocalSlot' = LocalSlot
         /\ WorkGroups' = WorkGroups /\ Dispatched' = Dispatched
<1>1. UNCHANGED inputs
  <2>1. CASE UNCHANGED vars
    BY <2>1 DEF vars
  <2>2. CASE Next
    BY <2>2 DEF Next, Dispatch, CompletePass, GlobalExchange, Load, LocalExchange, Store,
       PassBarrier, Done, vars
  <2> QED
    BY <2>1, <2>2
<1>2. size' = size /\ localSize' = localSize /\ cell' = cell
  BY <1>1 DEF inputs
<1> QED
  BY <1>2 DEF Thread, Slot, Group, LocalSlot, WorkGroups, Groups, Dispatched, Invocations

LEMMA ContentNow ==
  ASSUME NEW s \in Slot
  PROVE  Content(s) = IF s < Dispatched /\ pc[s \div 2] \in Held
                      THEN localAgents[GroupOf(s \div 2)][s % (2 * localSize)] ELSE agents[s]
BY DEF Content, Held

LEMMA ContentNext ==
  ASSUME [Next]_vars, NEW s \in Slot
  PROVE  Content(s)' = IF s < Dispatched /\ pc'[s \div 2] \in Held
                       THEN localAgents'[GroupOf(s \div 2)][s % (2 * localSize)] ELSE agents'[s]
BY InputsKept DEF Content, Held, GroupOf

\* Copying to shared memory and back, the barrier and the host move no agent.
LEMMA LoadKeepsContent ==
  ASSUME TypeOK, NEW t \in Thread, Load(t), NEW s \in Slot
  PROVE  Content(s)' = Content(s)
<1> DEFINE g == GroupOf(t)
           i == 2 * LocalID(t)
           u == s \div 2
           x == s % (2 * localSize)
<1>1. /\ pc[t] = "load" /\ pc' = [pc EXCEPT ![t] = "barrier"] /\ agents' = agents
      /\ localAgents' = [localAgents EXCEPT ![g][i] = agents[2 * t],
                                            ![g][i + 1] = agents[2 * t + 1]]
  BY DEF Load
<1>2. [Next]_vars
  BY DEF Next
<1>3. <<size, localSize>> \in Sizes /\ g \in Group /\ i \in LocalSlot /\ i + 1 \in LocalSlot
      /\ LocalID(t) \in Nat
  BY ThreadPlaces DEF TypeOK
<1>4. localAgents \in [Group -> [LocalSlot -> Slot \cup {NoAgent}]] /\ t \in DOMAIN pc
  BY DEF TypeOK
<1>5. CASE ~(s < Dispatched)
  BY <1>1, <1>2, <1>5, ContentNow, ContentNext
<1>6. CASE s < Dispatched /\ u = t
  <2>1. (s = 2 * t /\ x = i) \/ (s = 2 * t + 1 /\ x = i + 1)
    BY <1>3, <1>6, SlotThread
  <2>2. localAgents'[g][x] = agents[s]
    BY <1>1, <1>3, <1>4, <2>1
  <2>3. pc'[u] \in Held /\ pc[u] \notin Held
    BY <1>1, <1>4, <1>6 DEF Held
  <2>4. Content(s) = agents[s]
    BY <2>3, ContentNow
  <2>5. Content(s)' = localAgents'[g][x]
    BY <1>2, <1>6, <2>3, ContentNext
  <2> QED
    BY <2>2, <2>4, <2>5
<1>7. CASE s < Dispatched /\ u # t
  <2>1. /\ u \in Thread /\ LocalID(u) \in Nat /\ GroupOf(u) \in Group
        /\ (x = 2 * LocalID(u) \/ x = 2 * LocalID(u) + 1) /\ x \in LocalSlot
    <3>1. u \in Thread /\ (x = 2 * LocalID(u) \/ x = 2 * LocalID(u) + 1)
      BY <1>3, <1>7, SlotThread
    <3> HIDE DEF u, x
    <3> QED
      BY <1>3, <3>1, ThreadPlaces
  <2>2. pc'[u] = pc[u]
    BY <1>1, <1>4, <1>7, <2>1 DEF TypeOK
  <2>3. GroupOf(u) = g => x # i /\ x # i + 1
    <3>1. GroupOf(u) = g => LocalID(u) # LocalID(t)
      BY <1>3, <1>7, <2>1, LocalIDsDiffer
    <3> HIDE DEF u, x
    <3> QED
      BY <1>3, <2>1, <3>1
  <2>4. localAgents'[GroupOf(u)][x] = localAgents[GroupOf(u)][x]
    BY <1>1, <1>3, <1>4, <2>1, <2>3
  <2> QED
    BY <1>1, <1>2, <2>2, <2>4, ContentNow, ContentNext
<1> QED
  BY <1>5, <1>6, <1>7

LEMMA StoreKeepsContent ==
  ASSUME TypeOK, NEW t \in Thread, Store(t), NEW s \in Slot
  PROVE  /\ Content(s)' = Content(s)
         /\ s >= Dispatched => agents'[s] = agents[s]
<1> DEFINE g == GroupOf(t)
           i == 2 * LocalID(t)
           u == s \div 2
           x == s % (2 * localSize)
<1>1. /\ pc[t] = "store" /\ pc' = [pc EXCEPT ![t] = "done"] /\ localAgents' = localAgents
      /\ agents' = [agents EXCEPT ![2 * t] = localAgents[g][i], ![2 * t + 1] = localAgents[g][i + 1]]
  BY DEF Store
<1>2. [Next]_vars
  BY DEF Next
<1>3. /\ <<size, localSize>> \in Sizes /\ t \in Nat /\ 2 * t \in Slot /\ 2 * t + 1 \in Slot
      /\ 2 * t + 1 < Dispatched /\ Dispatched \in Nat /\ s \in Nat
  BY ThreadPlaces, Geometry DEF TypeOK, Slot
<1>4. agents \in [Slot -> Slot] /\ t \in DOMAIN pc
  BY DEF TypeOK
<1>5. CASE ~(s < Dispatched)
  <2>1. agents'[s] = agents[s]
    BY <1>1, <1>3, <1>4, <1>5
  <2> QED
    BY <1>2, <1>5, <2>1, ContentNow, ContentNext
<1>6. CASE s < Dispatched /\ u = t
  <2>1. (s = 2 * t /\ x = i) \/ (s = 2 * t + 1 /\ x = i + 1)
    BY <1>3, <1>6, SlotThread
  <2>2. localAgents[g][x] = agents'[s]
    BY <1>1, <1>3, <1>4, <2>1
  <2>3. pc[u] \in Held /\ pc'[u] \notin Held
    BY <1>1, <1>4, <1>6 DEF Held
  <2>4. Content(s)' = agents'[s]
    BY <1>2, <2>3, ContentNext
  <2>5. Content(s) = localAgents[g][x]
    BY <1>6, <2>3, ContentNow
  <2> QED
    BY <1>3, <1>6, <2>2, <2>4, <2>5
<1>7. CASE s < Dispatched /\ u # t
  <2>1. u \in Thread /\ (s = 2 * u \/ s = 2 * u + 1)
    BY <1>3, <1>7, SlotThread
  <2>2. pc'[u] = pc[u]
    BY <1>1, <1>4, <1>7, <2>1 DEF TypeOK
  <2>3. u \in Nat
    BY <1>3, <2>1, ThreadPlaces
  <2>4. s # 2 * t /\ s # 2 * t + 1
    BY <1>3, <1>7, <2>1, <2>3
  <2>5. agents'[s] = agents[s]
    BY <1>1, <1>3, <1>4, <2>4
  <2>6. Content(s)' = Content(s)
    BY <1>1, <1>2, <2>2, <2>5, ContentNow, ContentNext
  <2> QED
    BY <1>3, <1>7, <2>6
<1> QED
  BY <1>3, <1>5, <1>6, <1>7

LEMMA BarrierKeepsContent ==
  ASSUME TypeOK, NEW g \in Group, PassBarrier(g), NEW s \in Slot
  PROVE  Content(s)' = Content(s)
<1>1. [Next]_vars /\ localAgents' = localAgents /\ agents' = agents
  BY DEF PassBarrier, Next
<1>2. s < Dispatched => (pc'[s \div 2] \in Held <=> pc[s \div 2] \in Held)
  <2> SUFFICES ASSUME s < Dispatched PROVE pc'[s \div 2] \in Held <=> pc[s \div 2] \in Held
    OBVIOUS
  <2>1. s \div 2 \in Thread
    BY SlotThread DEF TypeOK
  <2> QED
    BY <2>1 DEF PassBarrier, Held
<1> QED
  BY <1>1, <1>2, ContentNow, ContentNext

LEMMA HostKeepsContent ==
  ASSUME TypeOK, HostInv, Dispatch \/ CompletePass \/ UNCHANGED vars, NEW s \in Slot
  PROVE  Content(s)' = Content(s)
<1>1. [Next]_vars /\ localAgents' = localAgents /\ agents' = agents
  BY DEF Dispatch, CompletePass, Next, vars
<1>2. s < Dispatched => (pc'[s \div 2] \in Held <=> pc[s \div 2] \in Held)
  <2> SUFFICES ASSUME s < Dispatched PROVE pc'[s \div 2] \in Held <=> pc[s \div 2] \in Held
    OBVIOUS
  <2>1. s \div 2 \in Thread
    BY SlotThread DEF TypeOK
  <2>2. CASE Dispatch
    <3>1. pc[s \div 2] = "done"
      BY <2>1, <2>2 DEF Dispatch, HostInv
    <3>2. pc'[s \div 2] \in {"done", "global", "load"}
      BY <2>1, <2>2 DEF Dispatch, Entry
    <3> QED
      BY <3>1, <3>2 DEF Held
  <2>3. CASE CompletePass \/ UNCHANGED vars
    BY <2>3 DEF CompletePass, vars
  <2> QED
    BY <2>2, <2>3
<1> QED
  BY <1>1, <1>2, ContentNow, ContentNext

\* An exchange, in the buffer or in shared memory, is one of the comparator's two
\* slots, and of nothing else.
LEMMA SwappedAt ==
  ASSUME NEW S, NEW V, NEW f \in [S -> V], NEW i \in S, NEW j \in S, i # j
  PROVE  /\ Swapped(f, i, j) \in [S -> V]
         /\ \A s \in S : Swapped(f, i, j)[s] = IF s = i THEN f[j] ELSE IF s = j THEN f[i] ELSE f[s]
BY DEF Swapped

Exchanged(t, i, j, s) ==
  IF ~MustSwap(t, Content(i), Content(j)) THEN Content(s)
  ELSE IF s = i THEN Content(j)
  ELSE IF s = j THEN Content(i) ELSE Content(s)

LEMMA GlobalExchangeContent ==
  ASSUME TypeOK, HostInv, ThreadInv, NEW t \in Thread, GlobalExchange(t), NEW s \in Slot
  PROVE  /\ Content(s)' = Exchanged(t, Low(t, hstep[t]), High(t, hstep[t]), s)
         /\ s >= Dispatched => agents'[s] = agents[s]
         /\ agents' \in [Slot -> Slot]
<1> DEFINE i == Low(t, hstep[t])
           j == High(t, hstep[t])
<1>1. /\ pc[t] = "global" /\ pc' = [pc EXCEPT ![t] = "done"]
      /\ agents' = IF MustSwap(t, agents[i], agents[j]) THEN Swapped(agents, i, j) ELSE agents
  BY DEF GlobalExchange
<1>2. [Next]_vars
  BY DEF Next
<1>3. /\ host = "waiting" /\ Far
      /\ i \in Slot /\ i < Dispatched /\ j \in Slot /\ j < Dispatched /\ i # j
  BY <1>1, ExchangeDistance
<1>4. \A u \in Thread : pc[u] \notin Held /\ pc'[u] \notin Held
  <2> SUFFICES ASSUME NEW u \in Thread PROVE pc[u] \notin Held /\ pc'[u] \notin Held
    OBVIOUS
  <2>1. pc[u] \in {"global", "done"}
    BY <1>3 DEF ThreadInv, FarInv
  <2>2. pc'[u] \in {pc[u], "done"}
    BY <1>1 DEF TypeOK
  <2> QED
    BY <2>1, <2>2 DEF Held
<1>5. ASSUME NEW r \in Slot
      PROVE  Content(r) = agents[r] /\ Content(r)' = agents'[r]
  <2>1. r < Dispatched => r \div 2 \in Thread
    BY SlotThread DEF TypeOK
  <2> QED
    BY <1>2, <1>4, <2>1, ContentNow, ContentNext
<1>6. agents \in [Slot -> Slot]
  BY DEF TypeOK
<1> HIDE DEF i, j
<1>7. /\ Swapped(agents, i, j) \in [Slot -> Slot]
      /\ Swapped(agents, i, j)[s] = IF s = i THEN agents[j] ELSE IF s = j THEN agents[i] ELSE agents[s]
  BY <1>3, <1>6, SwappedAt
<1>8. Content(i) = agents[i] /\ Content(j) = agents[j] /\ Content(s) = agents[s]
      /\ Content(s)' = agents'[s]
  BY <1>3, <1>5
<1>9. Content(s)' = Exchanged(t, i, j, s)
  BY <1>1, <1>7, <1>8 DEF Exchanged
<1>10. s \in Nat /\ Dispatched \in Nat /\ i \in Nat /\ j \in Nat
  BY <1>3, Geometry DEF TypeOK, Slot
<1>11. s >= Dispatched => s # i /\ s # j
  BY <1>3, <1>10
<1> QED
  BY <1>1, <1>6, <1>7, <1>9, <1>11 DEF i, j

LEMMA LocalExchangeContent ==
  ASSUME TypeOK, HostInv, ThreadInv, GroupInv, NEW t \in Thread, LocalExchange(t), NEW s \in Slot
  PROVE  /\ Content(s)' = Exchanged(t, Low(t, hstep[t]), High(t, hstep[t]), s)
         /\ localAgents' \in [Group -> [LocalSlot -> Slot \cup {NoAgent}]]
<1> DEFINE g == GroupOf(t)
           lo == Low(LocalID(t), hstep[t])
           hi == High(LocalID(t), hstep[t])
           i == Low(t, hstep[t])
           j == High(t, hstep[t])
           mem == localAgents[g]
           Place(r) == r % (2 * localSize)
           Mine(r) == r < Dispatched /\ GroupOf(r \div 2) = g
<1>1. /\ pc[t] = "exchange" /\ pc' = [pc EXCEPT ![t] = "barrier"] /\ agents' = agents
      /\ localAgents' = [localAgents EXCEPT ![g] =
                           IF MustSwap(t, mem[lo], mem[hi]) THEN Swapped(mem, lo, hi) ELSE mem]
  BY DEF LocalExchange
<1>2. [Next]_vars
  BY DEF Next
<1>3. /\ <<size, localSize>> \in Sizes /\ g \in Group
      /\ localAgents \in [Group -> [LocalSlot -> Slot \cup {NoAgent}]]
  BY ThreadPlaces DEF TypeOK
<1>4. /\ host = "waiting" /\ ~Far
      /\ i \in Slot /\ i < Dispatched /\ j \in Slot /\ j < Dispatched /\ i # j
      /\ lo \in LocalSlot /\ hi \in LocalSlot /\ lo # hi
      /\ i = 2 * (localSize * g) + lo /\ j = 2 * (localSize * g) + hi
  BY <1>1, ExchangeDistance
<1>5. Mine(i) /\ Place(i) = lo /\ Mine(j) /\ Place(j) = hi
  <2> HIDE DEF i, j, lo, hi, g
  <2> QED
    BY <1>3, <1>4, SlotOfPlace
<1>6. ASSUME NEW r \in Slot, Mine(r)
      PROVE  /\ Content(r) = mem[Place(r)] /\ Content(r)' = localAgents'[g][Place(r)]
             /\ Place(r) \in LocalSlot
  <2>1. r \div 2 \in Thread /\ Place(r) \in LocalSlot
    BY <1>3, <1>6, SlotThread, PlaceOfSlot
  <2>2. pc[r \div 2] \in {"exchange", "barrier"}
    BY <1>1, <1>4, <1>6, <2>1 DEF GroupInv, InStep
  <2>3. pc'[r \div 2] \in {"exchange", "barrier"}
    BY <1>1, <2>1, <2>2 DEF TypeOK
  <2> QED
    BY <1>2, <1>6, <2>1, <2>2, <2>3, ContentNow, ContentNext DEF Held
<1>7. ASSUME NEW r \in Slot, Mine(r)
      PROVE  (Place(r) = lo <=> r = i) /\ (Place(r) = hi <=> r = j)
  <2>1. r = 2 * (localSize * g) + Place(r)
    BY <1>3, <1>7, PlaceOfSlot
  <2> QED
    BY <1>4, <1>5, <2>1
<1>8. Content(i) = mem[lo] /\ Content(j) = mem[hi]
  BY <1>4, <1>5, <1>6
<1>9. mem \in [LocalSlot -> Slot \cup {NoAgent}]
  BY <1>3
<1> HIDE DEF lo, hi, i, j, g, mem, Place
<1>10. /\ Swapped(mem, lo, hi) \in [LocalSlot -> Slot \cup {NoAgent}]
       /\ \A x \in LocalSlot : Swapped(mem, lo, hi)[x] =
            IF x = lo THEN mem[hi] ELSE IF x = hi THEN mem[lo] ELSE mem[x]
  <2> DEFINE V == Slot \cup {NoAgent}
  <2>1. mem \in [LocalSlot -> V]
    BY <1>9
  <2> HIDE DEF V
  <2>2. /\ Swapped(mem, lo, hi) \in [LocalSlot -> V]
        /\ \A x \in LocalSlot : Swapped(mem, lo, hi)[x] =
             IF x = lo THEN mem[hi] ELSE IF x = hi THEN mem[lo] ELSE mem[x]
    <3>1. lo \in LocalSlot /\ hi \in LocalSlot /\ lo # hi
      BY <1>4
    <3> QED
      BY <2>1, <3>1, SwappedAt
  <2> QED
    BY <2>2 DEF V
<1>11. ASSUME Mine(s)
       PROVE  Content(s)' = Exchanged(t, i, j, s)
  <2>1. localAgents'[g] = IF MustSwap(t, mem[lo], mem[hi]) THEN Swapped(mem, lo, hi) ELSE mem
    BY <1>1, <1>3
  <2>2. Content(s) = mem[Place(s)] /\ Content(s)' = localAgents'[g][Place(s)] /\ Place(s) \in LocalSlot
    BY <1>6, <1>11
  <2>3. (Place(s) = lo <=> s = i) /\ (Place(s) = hi <=> s = j)
    BY <1>7, <1>11
  <2> QED
    BY <1>8, <1>10, <2>1, <2>2, <2>3 DEF Exchanged
<1>12. ASSUME ~Mine(s)
       PROVE  Content(s)' = Exchanged(t, i, j, s)
  <2>1. Content(s)' = Content(s)
    <3>1. CASE ~(s < Dispatched)
      BY <1>1, <1>2, <3>1, ContentNow, ContentNext
    <3>2. CASE s < Dispatched /\ GroupOf(s \div 2) # g
      <4>1. s \div 2 \in Thread /\ GroupOf(s \div 2) \in Group
        <5>1. s \div 2 \in Thread
          BY <1>3, <3>2, SlotThread
        <5> QED
          BY <1>3, <3>2, <5>1, PlaceOfSlot
      <4>2. localAgents'[GroupOf(s \div 2)] = localAgents[GroupOf(s \div 2)]
        BY <1>1, <1>3, <3>2, <4>1
      <4>3. s \div 2 # t
        BY <3>2 DEF g
      <4>4. pc'[s \div 2] = pc[s \div 2]
        BY <1>1, <4>1, <4>3 DEF TypeOK
      <4> QED
        BY <1>1, <1>2, <4>2, <4>4, ContentNow, ContentNext
    <3> QED
      BY <1>12, <3>1, <3>2
  <2>2. s # i /\ s # j
    BY <1>5, <1>12
  <2> QED
    BY <2>1, <2>2 DEF Exchanged
<1>13. localAgents' \in [Group -> [LocalSlot -> Slot \cup {NoAgent}]]
  BY <1>1, <1>3, <1>9, <1>10
<1> QED
  BY <1>11, <1>12, <1>13 DEF i, j

-----------------------------------------------------------------------------
(* The invariant is inductive.                                              *)

LEMMA SortInit == Init => SortInv
<1> SUFFICES ASSUME Init PROVE SortInv
  OBVIOUS
<1>1. <<size, localSize>> \in Sizes
  <2>1. PICK p \in Sizes : size = p[1] /\ localSize = p[2]
    BY DEF Init
  <2>2. p \in (Nat \ {0}) \X (Nat \ {0})
    BY SortAssumption
  <2>3. p = <<p[1], p[2]>>
    BY <2>2
  <2> QED
    BY <2>1, <2>3
<1>2. /\ size \in Nat \ {0} /\ localSize \in Nat \ {0} /\ Dispatched \in Nat
      /\ 2 * localSize <= Dispatched /\ Dispatched <= size
  BY <1>1, Geometry
<1>3. TypeOK
  BY <1>1, <1>2 DEF Init, TypeOK
<1>4. HostInv
  <2>1. IsPowerOfTwo(2)
    BY DEF IsPowerOfTwo
  <2> QED
    BY <1>2, <2>1 DEF Init, HostInv
<1>5. ThreadInv /\ GroupInv
  BY DEF Init, ThreadInv, GroupInv
<1>6. \A s \in Slot : Content(s) = s /\ agents[s] = s
  <2> SUFFICES ASSUME NEW s \in Slot PROVE Content(s) = s /\ agents[s] = s
    OBVIOUS
  <2>1. agents[s] = s
    BY DEF Init
  <2>2. ASSUME s < Dispatched PROVE pc[s \div 2] \notin Held
    <3>1. s \div 2 \in Thread
      BY <1>1, <2>2, SlotThread
    <3> QED
      BY <3>1 DEF Init, Held
  <2> QED
    BY <2>1, <2>2, ContentNow
<1> QED
  BY <1>3, <1>4, <1>5, <1>6 DEF SortInv, ContentInv

\* Everything the invocations and the host do is one of these.
LEMMA StepCases ==
  ASSUME [Next]_vars
  PROVE  \/ Dispatch \/ CompletePass \/ UNCHANGED vars
         \/ \E t \in Thread : GlobalExchange(t)
         \/ \E t \in Thread : Load(t)
         \/ \E t \in Thread : LocalExchange(t)
         \/ \E t \in Thread : Store(t)
         \/ \E g \in Group : PassBarrier(g)
BY DEF Next, Done

LEMMA ContentStep ==
  ASSUME SortInv, [Next]_vars
  PROVE  /\ \/ \A s \in Slot : Content(s)' = Content(s)
            \/ \E t \in Thread :
                 /\ pc[t] \in {"global", "exchange"}
                 /\ \A s \in Slot :
                      Content(s)' = Exchanged(t, Low(t, hstep[t]), High(t, hstep[t]), s)
         /\ \A s \in Slot : s >= Dispatched => agents'[s] = agents[s]
<1> USE DEF SortInv
<1>1. CASE Dispatch \/ CompletePass \/ UNCHANGED vars
  <2>1. agents' = agents
    BY <1>1 DEF Dispatch, CompletePass, vars
  <2>2. \A s \in Slot : Content(s)' = Content(s)
    BY <1>1, HostKeepsContent
  <2> QED
    BY <2>1, <2>2
<1>2. ASSUME NEW t \in Thread, GlobalExchange(t)
      PROVE  /\ pc[t] = "global"
             /\ \A s \in Slot :
                   /\ Content(s)' = Exchanged(t, Low(t, hstep[t]), High(t, hstep[t]), s)
                   /\ s >= Dispatched => agents'[s] = agents[s]
  <2>1. pc[t] = "global"
    BY <1>2 DEF GlobalExchange
  <2> QED
    BY <1>2, <2>1, GlobalExchangeContent
<1>3. ASSUME NEW t \in Thread, Load(t)
      PROVE  \A s \in Slot : Content(s)' = Content(s) /\ agents'[s] = agents[s]
  <2>1. agents' = agents
    BY <1>3 DEF Load
  <2> QED
    BY <1>3, <2>1, LoadKeepsContent
<1>4. ASSUME NEW t \in Thread, LocalExchange(t)
      PROVE  /\ pc[t] = "exchange"
             /\ \A s \in Slot :
                   /\ Content(s)' = Exchanged(t, Low(t, hstep[t]), High(t, hstep[t]), s)
                   /\ agents'[s] = agents[s]
  <2>1. pc[t] = "exchange" /\ agents' = agents
    BY <1>4 DEF LocalExchange
  <2> QED
    BY <1>4, <2>1, LocalExchangeContent
<1>5. ASSUME NEW t \in Thread, Store(t)
      PROVE  \A s \in Slot : /\ Content(s)' = Content(s)
                             /\ s >= Dispatched => agents'[s] = agents[s]
  BY <1>5, StoreKeepsContent
<1>6. ASSUME NEW g \in Group, PassBarrier(g)
      PROVE  \A s \in Slot : Content(s)' = Content(s) /\ agents'[s] = agents[s]
  <2>1. agents' = agents
    BY <1>6 DEF PassBarrier
  <2> QED
    BY <1>6, <2>1, BarrierKeepsContent
<1> HIDE DEF SortInv
<1> QED
  BY <1>1, <1>2, <1>3, <1>4, <1>5, <1>6, StepCases

LEMMA ContentInvNext ==
  ASSUME SortInv, [Next]_vars
  PROVE  ContentInv'
<1>1. Slot' = Slot /\ Dispatched' = Dispatched
  BY InputsKept
<1>2. /\ \A s \in Slot : Content(s) \in Slot
      /\ \A s, r \in Slot : Content(s) = Content(r) => s = r
      /\ \A s \in Slot : s >= Dispatched => agents[s] = s
  BY DEF SortInv, ContentInv
<1>3. /\ \A s \in Slot : Content(s)' \in Slot
      /\ \A s, r \in Slot : Content(s)' = Content(r)' => s = r
  <2>1. CASE \A s \in Slot : Content(s)' = Content(s)
    BY <1>2, <2>1
  <2>2. ASSUME NEW t \in Thread, pc[t] \in {"global", "exchange"},
               \A s \in Slot : Content(s)' = Exchanged(t, Low(t, hstep[t]), High(t, hstep[t]), s)
        PROVE  /\ \A s \in Slot : Content(s)' \in Slot
               /\ \A s, r \in Slot : Content(s)' = Content(r)' => s = r
    <3> DEFINE i == Low(t, hstep[t])
               j == High(t, hstep[t])
    <3>1. i \in Slot /\ j \in Slot /\ i # j
      BY <2>2, ExchangeDistance DEF SortInv
    <3>2. \A s \in Slot : Content(s)' = Exchanged(t, i, j, s)
      BY <2>2
    <3> HIDE DEF i, j
    <3> QED
      BY <1>2, <3>1, <3>2 DEF Exchanged
  <2> QED
    BY <2>1, <2>2, ContentStep
<1>4. \A s \in Slot : s >= Dispatched => agents'[s] = s
  BY <1>2, ContentStep
<1> QED
  BY <1>1, <1>3, <1>4 DEF ContentInv

LEMMA TypeNext ==
  ASSUME SortInv, [Next]_vars
  PROVE  TypeOK'
<1> USE DEF SortInv
<1>1. /\ size' = size /\ localSize' = localSize /\ cell' = cell
      /\ Thread' = Thread /\ Slot' = Slot /\ Group' = Group /\ LocalSlot' = LocalSlot
  BY InputsKept
<1>2. /\ <<size, localSize>> \in Sizes
      /\ size \in Nat \ {0} /\ localSize \in Nat \ {0} /\ Dispatched \in Nat
      /\ Dispatched <= size
  BY Geometry DEF TypeOK
<1>3. /\ agents \in [Slot -> Slot] /\ cell \in [Slot -> Cells]
      /\ segmentSize \in 2 .. 2 * size /\ block \in 2 .. segmentSize
      /\ host \in {"dispatch", "waiting", "done"}
      /\ pc \in [Thread -> {"global", "load", "exchange", "barrier", "store", "done"}]
      /\ hstep \in [Thread -> 0 .. size]
      /\ localAgents \in [Group -> [LocalSlot -> Slot \cup {NoAgent}]]
  BY DEF TypeOK
<1>4. CASE UNCHANGED vars
  BY <1>4 DEF TypeOK, vars, inputs, hostVars, Slot, Thread, Group, LocalSlot, WorkGroups, Groups
<1>5. CASE Dispatch
  <2>1. FirstStep \in 0 .. size
    <3>1. host # "done"
      BY <1>5 DEF Dispatch
    <3>2. FirstStep \in Nat /\ FirstStep <= WorkGroups * localSize
      BY <3>1, PassDistance
    <3>3. WorkGroups * localSize \in Nat /\ Dispatched = 2 * (WorkGroups * localSize)
      BY <1>2, Geometry
    <3> QED
      BY <1>2, <3>2, <3>3
  <2>2. hstep' \in [Thread -> 0 .. size]
    BY <1>5, <2>1 DEF Dispatch
  <2>3. pc' \in [Thread -> {"global", "load", "exchange", "barrier", "store", "done"}]
    BY <1>5 DEF Dispatch, Entry
  <2> QED
    BY <1>1, <1>2, <1>3, <1>5, <2>2, <2>3 DEF Dispatch, TypeOK
<1>6. CASE CompletePass
  <2>1. host # "done" /\ segmentSize <= size
    BY <1>2, <1>3, <1>6 DEF CompletePass, HostInv
  <2>2. block = 2 * FirstStep /\ FirstStep \in Nat
    BY <2>1, PassDistance
  <2>3. segmentSize' \in 2 .. 2 * size /\ block' \in 2 .. segmentSize'
    <3>1. CASE block > Invocations
      BY <1>2, <1>3, <1>6, <2>2, <3>1 DEF CompletePass, NextPass, HalveBlock, Invocations
    <3>2. CASE ~(block > Invocations)
      BY <1>2, <1>3, <1>6, <2>1, <3>2 DEF CompletePass, NextPass
    <3> QED
      BY <3>1, <3>2
  <2>4. host' \in {"dispatch", "waiting", "done"}
    BY <1>6 DEF CompletePass, NextPass, HalveBlock
  <2> QED
    BY <1>1, <1>2, <1>3, <1>6, <2>3, <2>4 DEF CompletePass, TypeOK
<1>7. ASSUME NEW t \in Thread, GlobalExchange(t)
      PROVE  TypeOK'
  <2>1. agents' \in [Slot -> Slot]
    <3>1. 2 * t \in Slot
      BY <1>2, ThreadPlaces
    <3> QED
      BY <1>7, <3>1, GlobalExchangeContent
  <2> QED
    BY <1>1, <1>2, <1>3, <1>7, <2>1 DEF GlobalExchange, TypeOK, hostVars
<1>8. ASSUME NEW t \in Thread, Load(t)
      PROVE  TypeOK'
  <2>1. /\ GroupOf(t) \in Group /\ 2 * t \in Slot /\ 2 * t + 1 \in Slot
        /\ 2 * LocalID(t) \in LocalSlot /\ 2 * LocalID(t) + 1 \in LocalSlot
    BY <1>2, ThreadPlaces
  <2>2. localAgents' \in [Group -> [LocalSlot -> Slot \cup {NoAgent}]]
    BY <1>3, <1>8, <2>1 DEF Load
  <2> QED
    BY <1>1, <1>2, <1>3, <1>8, <2>2 DEF Load, TypeOK, hostVars
<1>9. ASSUME NEW t \in Thread, LocalExchange(t)
      PROVE  TypeOK'
  <2>1. localAgents' \in [Group -> [LocalSlot -> Slot \cup {NoAgent}]]
    <3>1. 2 * t \in Slot
      BY <1>2, ThreadPlaces
    <3> QED
      BY <1>9, <3>1, LocalExchangeContent
  <2>2. hstep' \in [Thread -> 0 .. size]
    <3>1. hstep[t] \div 2 \in 0 .. size
      BY <1>2, <1>3
    <3> QED
      BY <1>3, <1>9, <3>1 DEF LocalExchange
  <2> QED
    BY <1>1, <1>2, <1>3, <1>9, <2>1, <2>2 DEF LocalExchange, TypeOK, hostVars
<1>10. ASSUME NEW t \in Thread, Store(t)
       PROVE  TypeOK'
  <2>1. 2 * t \in Slot /\ 2 * t + 1 \in Slot /\ 2 * t + 1 < Dispatched /\ t \in Nat
    BY <1>2, ThreadPlaces
  <2>2. /\ localAgents[GroupOf(t)][2 * LocalID(t)] = Content(2 * t)
        /\ localAgents[GroupOf(t)][2 * LocalID(t) + 1] = Content(2 * t + 1)
    <3>1. (2 * t) \div 2 = t /\ (2 * t + 1) \div 2 = t
      BY <2>1
    <3>2. /\ (2 * t) % (2 * localSize) = 2 * LocalID(t)
          /\ (2 * t + 1) % (2 * localSize) = 2 * LocalID(t) + 1
      <4> DEFINE a == 2 * t
                 b == 2 * t + 1
      <4>1. a \in Slot /\ b \in Slot /\ a < Dispatched /\ b < Dispatched
            /\ a \div 2 = t /\ b \div 2 = t /\ a # 2 * t + 1 /\ b # 2 * t
        BY <1>2, <2>1, <3>1
      <4> HIDE DEF a, b
      <4>2. a % (2 * localSize) = 2 * LocalID(t) /\ b % (2 * localSize) = 2 * LocalID(t) + 1
        BY <1>2, <4>1, SlotThread
      <4> QED
        BY <4>2 DEF a, b
    <3>3. pc[t] \in Held /\ 2 * t < Dispatched
      BY <1>2, <1>10, <2>1 DEF Store, Held
    <3> QED
      BY <2>1, <3>1, <3>2, <3>3, ContentNow
  <2>3. agents' \in [Slot -> Slot]
    <3>1. Content(2 * t) \in Slot /\ Content(2 * t + 1) \in Slot
      BY <2>1 DEF ContentInv
    <3> QED
      BY <1>3, <1>10, <2>1, <2>2, <3>1 DEF Store
  <2> QED
    BY <1>1, <1>2, <1>3, <1>10, <2>3 DEF Store, TypeOK, hostVars
<1>11. ASSUME NEW g \in Group, PassBarrier(g)
       PROVE  TypeOK'
  <2>1. pc' \in [Thread -> {"global", "load", "exchange", "barrier", "store", "done"}]
    BY <1>3, <1>11 DEF PassBarrier
  <2> QED
    BY <1>1, <1>2, <1>3, <1>11, <2>1 DEF PassBarrier, TypeOK, hostVars
<1> HIDE DEF SortInv
<1> QED
  BY <1>4, <1>5, <1>6, <1>7, <1>8, <1>9, <1>10, <1>11, StepCases

LEMMA HostNext ==
  ASSUME SortInv, [Next]_vars
  PROVE  HostInv'
<1> USE DEF SortInv
<1>1. /\ size' = size /\ localSize' = localSize /\ Thread' = Thread /\ Dispatched' = Dispatched
  BY InputsKept
<1>2. /\ size \in Nat \ {0} /\ localSize \in Nat \ {0} /\ Dispatched \in Nat \ {0}
      /\ Dispatched <= size /\ size < 2 * Dispatched /\ IsPowerOfTwo(Dispatched)
  BY Geometry DEF TypeOK
<1>3. CASE CompletePass
  <2>1. host = "waiting" /\ host # "done" /\ pc' = pc /\ \A t \in Thread : pc[t] = "done"
    BY <1>3 DEF CompletePass, DispatchComplete
  <2>2. /\ block = 2 * FirstStep /\ FirstStep \in Nat \ {0} /\ IsPowerOfTwo(FirstStep)
    BY <2>1, PassDistance
  <2>3. /\ segmentSize \in Nat \ {0} /\ IsPowerOfTwo(segmentSize) /\ segmentSize <= Dispatched
    BY <2>1 DEF TypeOK, HostInv
  <2>4. CASE block > Invocations
    <3>1. block' = FirstStep /\ segmentSize' = segmentSize /\ host' = "dispatch"
      BY <1>3, <2>4 DEF CompletePass, NextPass, HalveBlock, FirstStep
    <3> QED
      BY <1>1, <2>1, <2>2, <2>3, <3>1 DEF HostInv
  <2>5. CASE ~(block > Invocations)
    <3>1. /\ segmentSize' = 2 * segmentSize /\ block' = segmentSize'
          /\ host' = IF segmentSize' <= size THEN "dispatch" ELSE "done"
      BY <1>3, <2>5 DEF CompletePass, NextPass
    <3>2. IsPowerOfTwo(2 * segmentSize)
      BY <2>3, PowerDouble
    <3>3. segmentSize = Dispatched \/ 2 * segmentSize <= Dispatched
      BY <1>2, <2>3, PowerDoubleDivides
    <3>4. host' # "done" => segmentSize' <= Dispatched
      BY <1>2, <2>3, <3>1, <3>3
    <3>5. host' = "done" => segmentSize' = 2 * Dispatched
      BY <1>2, <2>3, <3>1, <3>3
    <3> QED
      BY <1>1, <2>1, <3>1, <3>2, <3>4, <3>5 DEF HostInv
  <2> QED
    BY <2>4, <2>5
<1>4. CASE Dispatch
  BY <1>1, <1>4 DEF Dispatch, HostInv
<1>5. ASSUME NEW t \in Thread, pc[t] # "done", UNCHANGED hostVars
      PROVE  HostInv'
  <2>1. host = "waiting"
    BY <1>5 DEF HostInv
  <2> QED
    BY <1>1, <1>5, <2>1 DEF HostInv, hostVars
<1>6. CASE UNCHANGED vars
  BY <1>1, <1>6 DEF HostInv, vars, hostVars
<1>7. \/ Dispatch \/ CompletePass \/ UNCHANGED vars
      \/ \E t \in Thread : pc[t] # "done" /\ UNCHANGED hostVars
  <2>1. ASSUME NEW g \in Group, PassBarrier(g)
        PROVE  \E t \in Thread : pc[t] # "done" /\ UNCHANGED hostVars
    <3>1. PICK t \in Thread : pc[t] = "barrier"
      BY <2>1 DEF PassBarrier
    <3> QED
      BY <2>1, <3>1 DEF PassBarrier
  <2>2. ASSUME NEW t \in Thread, GlobalExchange(t) \/ Load(t) \/ LocalExchange(t) \/ Store(t)
        PROVE  pc[t] # "done" /\ UNCHANGED hostVars
    BY <2>2 DEF GlobalExchange, Load, LocalExchange, Store
  <2> QED
    BY <2>1, <2>2, StepCases
<1> QED
  BY <1>3, <1>4, <1>5, <1>6, <1>7

\* ThreadInv and GroupInv for the conditions of one dispatch, with the primes where
\* a step puts them.
LEMMA PhaseDispatch ==
  ASSUME SortInv, Dispatch
  PROVE  ThreadInv' /\ GroupInv'
<1> USE DEF SortInv
<1>1. Thread' = Thread /\ localSize' = localSize /\ [Next]_vars
  BY InputsKept DEF Next
<1>2. host # "done"
  BY DEF Dispatch
<1>3. FirstStep \in Nat \ {0} /\ IsPowerOfTwo(FirstStep) /\ FirstStep' = FirstStep
  BY <1>2, PassDistance DEF Dispatch, FirstStep
<1>4. Far' <=> Far
  BY <1>1, <1>3 DEF Far
<1>5. ASSUME NEW t \in Thread
      PROVE  pc'[t] = (IF Far THEN "global" ELSE "load") /\ hstep'[t] = FirstStep
  <2>1. t < size \div 2
    BY ThreadPlaces DEF TypeOK
  <2> QED
    BY <2>1 DEF Dispatch, Entry, Far
<1>6. ThreadInv'
  BY <1>1, <1>3, <1>4, <1>5 DEF ThreadInv, FarInv, NearInv
<1>7. GroupInv'
  BY <1>1, <1>3, <1>4, <1>5 DEF GroupInv, InStep
<1> QED
  BY <1>6, <1>7

LEMMA PhaseKept ==
  ASSUME SortInv, [Next]_vars, UNCHANGED hostVars
  PROVE  /\ Thread' = Thread /\ FirstStep' = FirstStep /\ (Far' <=> Far) /\ host' = host
         /\ \A t : GroupOf(t)' = GroupOf(t)
BY InputsKept DEF hostVars, FirstStep, Far, GroupOf

LEMMA PhaseGlobal ==
  ASSUME SortInv, NEW t \in Thread, GlobalExchange(t)
  PROVE  ThreadInv' /\ GroupInv'
<1> USE DEF SortInv
<1>1. [Next]_vars /\ UNCHANGED hostVars
  BY DEF Next, GlobalExchange
<1>2. host = "waiting" /\ Far
  <2>1. pc[t] = "global"
    BY DEF GlobalExchange
  <2> QED
    BY <2>1, ExchangeDistance
<1>3. \A u \in Thread : pc'[u] \in {pc[u], "done"} /\ hstep'[u] = hstep[u]
  BY DEF GlobalExchange, TypeOK
<1>4. \A u \in Thread : FarInv(u)
  BY <1>2 DEF ThreadInv
<1>5. /\ Thread' = Thread /\ FirstStep' = FirstStep /\ (Far' <=> Far) /\ host' = host
  BY <1>1, PhaseKept
<1> QED
  BY <1>2, <1>3, <1>4, <1>5 DEF ThreadInv, GroupInv, FarInv

\* A step of one invocation of a near pass: what has to be shown of it.
LEMMA PhaseNear ==
  ASSUME SortInv, [Next]_vars, UNCHANGED hostVars, NEW t \in Thread, host = "waiting", ~Far,
         \A u \in Thread : u # t => pc'[u] = pc[u] /\ hstep'[u] = hstep[u],
         NearInv(t)',
         \A u \in Thread : GroupOf(u) = GroupOf(t) => InStep(t, u)' /\ InStep(u, t)'
  PROVE  ThreadInv' /\ GroupInv'
<1>1. /\ Thread' = Thread /\ FirstStep' = FirstStep /\ (Far' <=> Far) /\ host' = host
      /\ \A u : GroupOf(u)' = GroupOf(u)
  BY PhaseKept
<1>2. \A u \in Thread : NearInv(u)
  BY DEF SortInv, ThreadInv
<1>3. \A u \in Thread : NearInv(u)'
  <2> SUFFICES ASSUME NEW u \in Thread, u # t PROVE NearInv(u)'
    OBVIOUS
  <2> QED
    BY <1>1, <1>2 DEF NearInv
<1>4. \A u, v \in Thread : GroupOf(u) = GroupOf(v) => InStep(u, v)'
  <2> SUFFICES ASSUME NEW u \in Thread, NEW v \in Thread, GroupOf(u) = GroupOf(v), u # t, v # t
               PROVE  InStep(u, v)'
    OBVIOUS
  <2>1. InStep(u, v)
    BY DEF SortInv, GroupInv
  <2> QED
    BY <2>1 DEF InStep
<1> QED
  BY <1>1, <1>3, <1>4 DEF ThreadInv, GroupInv

LEMMA PhaseLoad ==
  ASSUME SortInv, NEW t \in Thread, Load(t)
  PROVE  ThreadInv' /\ GroupInv'
<1> USE DEF SortInv
<1>1. [Next]_vars /\ UNCHANGED hostVars /\ pc[t] = "load"
  BY DEF Next, Load
<1>2. host = "waiting" /\ ~Far /\ NearInv(t)
  <2>1. host = "waiting"
    BY <1>1 DEF HostInv
  <2> QED
    BY <1>1, <2>1 DEF ThreadInv, FarInv
<1>3. /\ pc'[t] = "barrier" /\ hstep' = hstep
      /\ \A u \in Thread : u # t => pc'[u] = pc[u]
  BY DEF Load, TypeOK
<1>4. FirstStep' = FirstStep
  BY <1>1, PhaseKept
<1>5. NearInv(t)'
  BY <1>1, <1>2, <1>3, <1>4 DEF NearInv
<1>6. ASSUME NEW u \in Thread, GroupOf(u) = GroupOf(t)
      PROVE  InStep(t, u)' /\ InStep(u, t)'
  <2>1. InStep(t, u) /\ InStep(u, t)
    BY <1>2, <1>6 DEF GroupInv
  <2>2. pc[u] \in {"load", "barrier"} /\ hstep[u] = hstep[t]
    BY <1>1, <2>1 DEF InStep
  <2>3. pc'[u] \in {"load", "barrier"} /\ hstep'[u] = hstep'[t]
    BY <1>3, <2>2
  <2> QED
    BY <1>3, <2>3 DEF InStep
<1> QED
  BY <1>1, <1>2, <1>3, <1>5, <1>6, PhaseNear

LEMMA PhaseLocal ==
  ASSUME SortInv, NEW t \in Thread, LocalExchange(t)
  PROVE  ThreadInv' /\ GroupInv'
<1> USE DEF SortInv
<1>1. [Next]_vars /\ UNCHANGED hostVars /\ pc[t] = "exchange"
  BY DEF Next, LocalExchange
<1>2. /\ host = "waiting" /\ ~Far /\ NearInv(t)
      /\ hstep[t] \in Nat \ {0} /\ IsPowerOfTwo(hstep[t]) /\ hstep[t] <= FirstStep
      /\ FirstStep \in Nat
  <2>1. host = "waiting" /\ host # "done"
    BY <1>1 DEF HostInv
  <2>2. ~Far /\ NearInv(t)
    BY <1>1, <2>1 DEF ThreadInv, FarInv
  <2> QED
    BY <1>1, <2>1, <2>2, ExchangeDistance, PassDistance
<1>3. /\ pc'[t] = "barrier" /\ hstep'[t] = hstep[t] \div 2
      /\ \A u \in Thread : u # t => pc'[u] = pc[u] /\ hstep'[u] = hstep[u]
  BY DEF LocalExchange, TypeOK
<1>4. FirstStep' = FirstStep
  BY <1>1, PhaseKept
<1>5. NearInv(t)'
  <2>1. hstep[t] \div 2 > 0 => IsPowerOfTwo(hstep[t] \div 2)
    <3>1. CASE hstep[t] = 1
      BY <3>1
    <3>2. CASE hstep[t] # 1
      <4>1. hstep[t] = 2 * (hstep[t] \div 2) /\ hstep[t] \div 2 \in Nat \ {0}
        BY <1>2, <3>2, PowerEven
      <4> QED
        BY <1>2, <4>1, PowerHalf
    <3> QED
      BY <3>1, <3>2
  <2>2. hstep[t] \div 2 <= FirstStep
    BY <1>2
  <2> QED
    BY <1>3, <1>4, <2>1, <2>2 DEF NearInv
<1>6. ASSUME NEW u \in Thread, GroupOf(u) = GroupOf(t)
      PROVE  InStep(t, u)' /\ InStep(u, t)'
  <2>1. InStep(t, u) /\ InStep(u, t)
    BY <1>2, <1>6 DEF GroupInv
  <2>2. \/ pc[u] = "exchange" /\ hstep[u] = hstep[t]
        \/ pc[u] = "barrier" /\ hstep[u] = hstep[t] \div 2
    BY <1>1, <2>1 DEF InStep
  <2>3. \/ pc'[u] = "exchange" /\ hstep'[t] = hstep'[u] \div 2
        \/ pc'[u] = "barrier" /\ hstep'[u] = hstep'[t]
    BY <1>3, <2>2
  <2> QED
    BY <1>3, <2>3 DEF InStep
<1> QED
  BY <1>1, <1>2, <1>3, <1>5, <1>6, PhaseNear

LEMMA PhaseStore ==
  ASSUME SortInv, NEW t \in Thread, Store(t)
  PROVE  ThreadInv' /\ GroupInv'
<1> USE DEF SortInv
<1>1. [Next]_vars /\ UNCHANGED hostVars /\ pc[t] = "store"
  BY DEF Next, Store
<1>2. host = "waiting" /\ ~Far /\ NearInv(t)
  <2>1. host = "waiting"
    BY <1>1 DEF HostInv
  <2> QED
    BY <1>1, <2>1 DEF ThreadInv, FarInv
<1>3. /\ pc'[t] = "done" /\ hstep' = hstep
      /\ \A u \in Thread : u # t => pc'[u] = pc[u]
  BY DEF Store, TypeOK
<1>4. FirstStep' = FirstStep
  BY <1>1, PhaseKept
<1>5. NearInv(t)'
  BY <1>1, <1>2, <1>3, <1>4 DEF NearInv
<1>6. ASSUME NEW u \in Thread, GroupOf(u) = GroupOf(t)
      PROVE  InStep(t, u)' /\ InStep(u, t)'
  <2>1. InStep(t, u) /\ InStep(u, t)
    BY <1>2, <1>6 DEF GroupInv
  <2>2. pc[u] \in {"store", "done"}
    BY <1>1, <2>1 DEF InStep
  <2>3. pc'[u] \in {"store", "done"}
    BY <1>3, <2>2
  <2> QED
    BY <1>3, <2>3 DEF InStep
<1> QED
  BY <1>1, <1>2, <1>3, <1>5, <1>6, PhaseNear

LEMMA PhaseBarrier ==
  ASSUME SortInv, NEW g \in Group, PassBarrier(g)
  PROVE  ThreadInv' /\ GroupInv'
<1> USE DEF SortInv
<1>1. [Next]_vars /\ UNCHANGED hostVars /\ hstep' = hstep
  BY DEF Next, PassBarrier
<1>2. PICK w \in Thread : GroupOf(w) = g /\ pc[w] = "barrier"
  BY DEF PassBarrier
<1>3. host = "waiting" /\ ~Far
  <2>1. host = "waiting"
    BY <1>2 DEF HostInv
  <2> QED
    BY <1>2, <2>1 DEF ThreadInv, FarInv
<1>4. /\ Thread' = Thread /\ FirstStep' = FirstStep /\ (Far' <=> Far) /\ host' = host
      /\ \A u : GroupOf(u)' = GroupOf(u)
  BY <1>1, PhaseKept
<1>5. \A u \in Thread : GroupOf(u) = g => pc[u] = "barrier"
  BY DEF PassBarrier, BarrierOpen
<1>6. /\ \A u \in Thread : GroupOf(u) # g => pc'[u] = pc[u]
      /\ \A u \in Thread : GroupOf(u) = g => pc'[u] = IF hstep[u] > 0 THEN "exchange" ELSE "store"
  BY <1>5 DEF PassBarrier
<1>7. \A u \in Thread : NearInv(u) /\ hstep[u] \in Nat
  BY <1>3, Geometry DEF ThreadInv, TypeOK
<1>8. \A u \in Thread : NearInv(u)'
  <2> SUFFICES ASSUME NEW u \in Thread PROVE NearInv(u)'
    OBVIOUS
  <2>1. CASE GroupOf(u) = g
    BY <1>1, <1>4, <1>6, <1>7, <2>1 DEF NearInv
  <2>2. CASE GroupOf(u) # g
    BY <1>1, <1>4, <1>6, <1>7, <2>2 DEF NearInv
  <2> QED
    BY <2>1, <2>2
<1>9. \A u, v \in Thread : GroupOf(u) = GroupOf(v) => InStep(u, v)'
  <2> SUFFICES ASSUME NEW u \in Thread, NEW v \in Thread, GroupOf(u) = GroupOf(v)
               PROVE  InStep(u, v)'
    OBVIOUS
  <2>1. InStep(u, v)
    BY <1>3 DEF GroupInv
  <2>2. CASE GroupOf(u) = g
    <3>1. hstep[u] = hstep[v]
      BY <1>5, <2>1, <2>2 DEF InStep
    <3> QED
      BY <1>1, <1>6, <2>2, <3>1 DEF InStep
  <2>3. CASE GroupOf(u) # g
    BY <1>1, <1>6, <2>1, <2>3 DEF InStep
  <2> QED
    BY <2>2, <2>3
<1> QED
  BY <1>3, <1>4, <1>8, <1>9 DEF ThreadInv, GroupInv

LEMMA SortInvNext ==
  ASSUME SortInv, [Next]_vars
  PROVE  SortInv'
<1>1. ASSUME UNCHANGED vars
      PROVE  ThreadInv' /\ GroupInv'
  BY <1>1 DEF SortInv, ThreadInv, GroupInv, FarInv, NearInv, InStep, Far, FirstStep, Thread,
     GroupOf, WorkGroups, Groups, vars, inputs, hostVars
<1>2. ASSUME CompletePass
      PROVE  ThreadInv' /\ GroupInv'
  <2>1. host' # "waiting"
    BY <1>2 DEF CompletePass, NextPass, HalveBlock
  <2> QED
    BY <2>1 DEF ThreadInv, GroupInv
<1>3. ThreadInv' /\ GroupInv'
  BY <1>1, <1>2, PhaseDispatch, PhaseGlobal, PhaseLoad, PhaseLocal, PhaseStore, PhaseBarrier, StepCases
<1> QED
  BY <1>3, TypeNext, HostNext, ContentInvNext DEF SortInv

THEOREM SortInvAlways == Spec => []SortInv
<1>1. SortInv /\ [Next]_vars => SortInv'
  BY SortInvNext
<1> QED
  BY <1>1, SortInit, PTL DEF Spec

-----------------------------------------------------------------------------
(* What follows from it.                                                    *)

\* Every variable of the host and of the invocations keeps its type: segments stay
\* within twice the buffer, distances within it, and what is copied back from
\* shared memory is an agent (FlockSort.glsl:43-89, SimulationGPU.cpp:149-172).
THEOREM SortTypes == Spec => []TypeOK
<1>1. SortInv => TypeOK
  BY DEF SortInv
<1> QED
  BY <1>1, SortInvAlways, PTL

LEMMA InvInBuffer == SortInv => InBuffer
<1> SUFFICES ASSUME SortInv, NEW t \in Thread
             PROVE  TouchesBuffer(t) \subseteq Slot
  BY DEF InBuffer
<1>1. pc[t] = "global" => Low(t, hstep[t]) \in Slot /\ High(t, hstep[t]) \in Slot
  BY ExchangeDistance DEF SortInv
<1>2. 2 * t \in Slot /\ 2 * t + 1 \in Slot
  BY ThreadPlaces DEF SortInv, TypeOK
<1>3. CASE pc[t] = "global"
  BY <1>1, <1>3 DEF TouchesBuffer
<1>4. CASE pc[t] \in {"load", "store"}
  BY <1>2, <1>4 DEF TouchesBuffer
<1>5. CASE pc[t] \notin {"global", "load", "store"}
  BY <1>5 DEF TouchesBuffer
<1> QED
  BY <1>3, <1>4, <1>5

\* No invocation of any pass reaches beyond the agents, whatever their number: the
\* host ends its loop in time for the distance of the shader (SimulationGPU.cpp:165-172,
\* FlockSort.glsl:51-52).
THEOREM SortStaysInBuffer == Spec => []InBuffer
BY InvInBuffer, SortInvAlways, PTL

LEMMA InvRaceFree == SortInv => RaceFree
<1> SUFFICES ASSUME SortInv, NEW t \in Thread, NEW u \in Thread, t # u
             PROVE  /\ TouchesBuffer(t) \cap TouchesBuffer(u) = {}
                    /\ GroupOf(t) = GroupOf(u) => Touches(t) \cap Touches(u) = {}
  BY DEF RaceFree
<1> USE DEF SortInv
<1>1. t \in Nat /\ u \in Nat /\ LocalID(t) \in Nat /\ LocalID(u) \in Nat
  BY ThreadPlaces DEF TypeOK
<1>2. GroupOf(t) = GroupOf(u) => LocalID(t) # LocalID(u)
  BY LocalIDsDiffer DEF TypeOK
<1>3. CASE host # "waiting"
  <2>1. pc[t] = "done" /\ pc[u] = "done"
    BY <1>3 DEF HostInv
  <2> QED
    BY <2>1 DEF Touches, TouchesBuffer
<1>4. CASE host = "waiting" /\ Far
  <2>1. /\ pc[t] \in {"global", "done"} /\ pc[u] \in {"global", "done"}
        /\ hstep[t] = hstep[u]
    BY <1>4 DEF ThreadInv, FarInv
  <2>2. CASE pc[t] = "global" /\ pc[u] = "global"
    <3>1. hstep[t] \in Nat \ {0}
      BY <2>2, ExchangeDistance
    <3>2. {Low(t, hstep[t]), High(t, hstep[t])} \cap {Low(u, hstep[t]), High(u, hstep[t])} = {}
      BY <1>1, <3>1, PairsDisjoint
    <3> QED
      BY <2>1, <2>2, <3>2 DEF Touches, TouchesBuffer
  <2>3. CASE pc[t] = "done" \/ pc[u] = "done"
    BY <2>1, <2>3 DEF Touches, TouchesBuffer
  <2> QED
    BY <2>1, <2>2, <2>3
<1>5. CASE host = "waiting" /\ ~Far
  <2>1. pc[t] # "global" /\ pc[u] # "global"
    BY <1>5 DEF ThreadInv, NearInv
  <2>2. TouchesBuffer(t) \subseteq {2 * t, 2 * t + 1} /\ TouchesBuffer(u) \subseteq {2 * u, 2 * u + 1}
    BY <2>1 DEF TouchesBuffer
  <2>3. TouchesBuffer(t) \cap TouchesBuffer(u) = {}
    BY <1>1, <2>2
  <2>4. ASSUME GroupOf(t) = GroupOf(u)
        PROVE  Touches(t) \cap Touches(u) = {}
    <3>1. InStep(t, u) /\ InStep(u, t)
      BY <1>5, <2>4 DEF GroupInv
    <3>2. CASE pc[t] = "exchange" /\ pc[u] = "exchange"
      <4>1. hstep[u] = hstep[t] /\ hstep[t] \in Nat \ {0}
        BY <3>1, <3>2, ExchangeDistance DEF InStep
      <4>2. {Low(LocalID(t), hstep[t]), High(LocalID(t), hstep[t])}
              \cap {Low(LocalID(u), hstep[t]), High(LocalID(u), hstep[t])} = {}
        BY <1>1, <1>2, <2>4, <4>1, PairsDisjoint
      <4> QED
        BY <3>2, <4>1, <4>2 DEF Touches
    <3>3. CASE pc[t] \in {"load", "store"} /\ pc[u] \in {"load", "store"}
      <4>1. /\ Touches(t) = {2 * LocalID(t), 2 * LocalID(t) + 1}
            /\ Touches(u) = {2 * LocalID(u), 2 * LocalID(u) + 1}
        BY <3>3 DEF Touches
      <4> QED
        BY <1>1, <1>2, <2>4, <4>1
    <3>4. CASE pc[t] \notin {"exchange", "load", "store"} \/ pc[u] \notin {"exchange", "load", "store"}
      BY <3>4 DEF Touches
    <3> QED
      BY <3>1, <3>2, <3>3, <3>4 DEF InStep
  <2> QED
    BY <2>3, <2>4
<1> QED
  BY <1>3, <1>4, <1>5

\* Two invocations that may run at the same time never touch the same agent, in
\* any pass and for every size of buffer and work-group: the barriers keep a
\* work-group in one round, the pairing keeps its invocations apart
\* (FlockSort.glsl:51-88).
THEOREM SortRaceFree == Spec => []RaceFree
BY InvRaceFree, SortInvAlways, PTL

LEMMA InvNoAgentLost == SortInv => NoAgentLost
<1> SUFFICES ASSUME SortInv PROVE NoAgentLost
  OBVIOUS
<1> DEFINE f == [s \in Slot |-> Content(s)]
           T == {Content(s) : s \in Slot}
<1>1. f \in [Slot -> T] /\ (\A s, r \in Slot : f[s] = f[r] => s = r)
      /\ \A x \in T : \E s \in Slot : f[s] = x
  BY DEF SortInv, ContentInv
<1>2. f \in Bijection(Slot, T)
  <2> HIDE DEF f, T
  <2> QED
    BY <1>1 DEF Bijection, Injection, Surjection, IsInjective
<1>3. IsFiniteSet(Slot) /\ Cardinality(Slot) = size
  <2>1. size \in Nat \ {0}
    BY Geometry DEF SortInv, TypeOK
  <2> QED
    BY <2>1, FS_Interval DEF Slot
<1>4. Cardinality(T) = Cardinality(Slot)
  <2>1. ExistsBijection(Slot, T)
    BY <1>2 DEF ExistsBijection
  <2> QED
    BY <1>3, <2>1, FS_Bijection
<1> QED
  BY <1>3, <1>4 DEF NoAgentLost

\* In the middle of every pass, too, each agent is in exactly one slot
\* (FlockSort.glsl:23-33 and 63-88).
THEOREM SortLosesNoAgent == Spec => []NoAgentLost
BY InvNoAgentLost, SortInvAlways, PTL

-----------------------------------------------------------------------------
(* Runs of invocations and blocks of places.                                *)

SameRun(t, u, h) == Start(t, h) = Start(u, h)

\* The invocations of a run are consecutive.
LEMMA RunInterval ==
  ASSUME NEW t \in Nat, NEW u \in Nat, NEW h \in Nat \ {0}
  PROVE  SameRun(t, u, h) <=> Start(u, h) <= t /\ t < Start(u, h) + h
<1> DEFINE p == Start(t, h)
           q == Start(u, h)
<1>1. p \in Nat /\ p <= t /\ t < p + h /\ q \in Nat /\ q <= u /\ u < q + h
  BY PairPlaces
<1>2. /\ t < u => p = q \/ p + h <= q
      /\ u < t => q = p \/ q + h <= p
      /\ t = u => p = q
  BY StartOrder
<1> HIDE DEF p, q
<1>3. p = q <=> q <= t /\ t < q + h
  BY <1>1, <1>2
<1> QED
  BY <1>3 DEF SameRun, p, q

\* The places of a block are consecutive, twice as many as its invocations.
LEMMA BlockInterval ==
  ASSUME NEW x \in Nat, NEW u \in Nat, NEW h \in Nat \ {0}
  PROVE  SameRun(x \div 2, u, h) <=> 2 * Start(u, h) <= x /\ x < 2 * Start(u, h) + 2 * h
<1> DEFINE y == x \div 2
           p == Start(u, h)
<1>1. y \in Nat /\ (x = 2 * y \/ x = 2 * y + 1) /\ p \in Nat
  <2>1. p \in Nat
    BY PairPlaces
  <2>2. y \in Nat /\ (x = 2 * y \/ x = 2 * y + 1)
    OBVIOUS
  <2> QED
    BY <2>1, <2>2
<1>2. SameRun(y, u, h) <=> p <= y /\ y < p + h
  BY <1>1, RunInterval
<1> HIDE DEF y, p
<1>3. (p <= y /\ y < p + h) <=> 2 * p <= x /\ x < 2 * p + 2 * h
  BY <1>1
<1> QED
  BY <1>2, <1>3 DEF y, p

\* A run lies within each run of a multiple of its length.
LEMMA RunWithin ==
  ASSUME NEW t \in Nat, NEW u \in Nat, NEW h \in Nat \ {0}, NEW m \in Nat \ {0}, NEW k, k = h * m,
         SameRun(t, u, h)
  PROVE  SameRun(t, u, k)
<1> DEFINE p == Start(u, h)
           q == u \div h
           r == u \div k
           c == m * r
           hq == h * q
           kr == k * r
<1>1. /\ k \in Nat \ {0} /\ q \in Nat /\ r \in Nat /\ c \in Nat /\ hq \in Nat /\ kr \in Nat
      /\ hq <= u /\ u < hq + h /\ kr <= u /\ u < kr + k
  <2>1. k \in Nat \ {0}
    OBVIOUS
  <2>2. q \in Nat /\ hq \in Nat /\ hq <= u /\ u < hq + h
    BY DivisionBounds
  <2>3. r \in Nat /\ kr \in Nat /\ kr <= u /\ u < kr + k
    BY <2>1, DivisionBounds
  <2>4. c \in Nat
    BY <2>3
  <2> QED
    BY <2>1, <2>2, <2>3, <2>4
<1>2. kr = h * c /\ kr + k = h * (c + m) /\ c + m \in Nat
  <2> HIDE DEF r
  <2>1. h * (m * r) = (h * m) * r
    BY <1>1
  <2>2. h * (c + m) = h * c + h * m /\ c + m \in Nat
    BY <1>1
  <2> QED
    BY <2>1, <2>2
<1>3. h * q = hq /\ Start(u, h) = hq /\ Start(u, k) = kr
  BY DEF Start
<1> HIDE DEF p, q, r, c, hq, kr
<1>4. c <= q
  BY <1>1, <1>2, <1>3, MultiplesOrder
<1>5. q < c + m
  BY <1>1, <1>2, <1>3, MultiplesOrder
<1>6. kr <= hq /\ hq + h <= kr + k
  BY <1>1, <1>2, <1>3, <1>4, <1>5, MultiplesOrder
<1>7. hq <= t /\ t < hq + h
  BY <1>3, RunInterval
<1> QED
  BY <1>1, <1>3, <1>6, <1>7, RunInterval

\* A run of even length has two halves.
LEMMA HalfRuns ==
  ASSUME NEW t \in Nat, NEW k \in Nat \ {0}
  PROVE  Start(t, k) = Start(t, 2 * k) \/ Start(t, k) = Start(t, 2 * k) + k
<1> DEFINE p == Start(t, 2 * k)
           q == t \div (2 * k)
           s == k * q
<1>1. 2 * k \in Nat \ {0}
  OBVIOUS
<1>2. p = 2 * s /\ q \in Nat /\ s \in Nat /\ p <= t /\ t < p + 2 * k
  <2>1. q \in Nat
    BY <1>1
  <2>2. p <= t /\ t < p + 2 * k
    BY <1>1, PairPlaces
  <2> HIDE DEF q
  <2>3. 2 * k * q = 2 * (k * q) /\ k * q \in Nat
    BY <2>1
  <2> QED
    BY <2>1, <2>2, <2>3 DEF Start, q
<1>3. k * (2 * q) = 2 * s /\ k * (2 * q + 1) = 2 * s + k /\ 2 * q \in Nat /\ 2 * q + 1 \in Nat
  BY <1>2
<1> HIDE DEF p, q, s
<1>4. CASE t < p + k
  <2>1. t \div k = 2 * q
    BY <1>2, <1>3, <1>4, DivisionUnique
  <2> QED
    BY <1>2, <1>3, <2>1 DEF Start, p
<1>5. CASE ~(t < p + k)
  <2>1. t \div k = 2 * q + 1
    BY <1>2, <1>3, <1>5, DivisionUnique
  <2> QED
    BY <1>2, <1>3, <2>1 DEF Start, p
<1> QED
  BY <1>4, <1>5

\* The pair of an invocation is in the block of its run.
LEMMA PairInBlock ==
  ASSUME NEW t \in Nat, NEW h \in Nat \ {0}
  PROVE  SameRun(Low(t, h) \div 2, t, h) /\ SameRun(High(t, h) \div 2, t, h)
<1> DEFINE p == Start(t, h)
           lo == Low(t, h)
           hi == High(t, h)
<1>1. p \in Nat /\ p <= t /\ t < p + h /\ lo = t + p /\ hi = t + p + h
  BY PairPlaces
<1>2. lo \in Nat /\ hi \in Nat
  BY <1>1
<1> HIDE DEF p, lo, hi
<1>3. 2 * p <= lo /\ lo < 2 * p + 2 * h /\ 2 * p <= hi /\ hi < 2 * p + 2 * h
  BY <1>1
<1>4. SameRun(lo \div 2, t, h) /\ SameRun(hi \div 2, t, h)
  BY <1>2, <1>3, BlockInterval DEF p
<1> QED
  BY <1>4 DEF lo, hi

-----------------------------------------------------------------------------
(* The half-cleaner, on keys a of the places of w invocations.              *)

Places(w) == 0 .. 2 * w - 1

Runs(w) == 0 .. w - 1

\* Four keys go up and down alternately.
Alternate(p, q, r, s) ==
  \/ p > q /\ p > s /\ r > q /\ r > s
  \/ p < q /\ p < s /\ r < q /\ r < s

\* The block of the run of t is bitonic, in any rotation.
Bitonic(a, w, h, t) ==
  \A i, j, k, l \in Places(w) :
    /\ i < j /\ j < k /\ k < l
    /\ SameRun(i \div 2, t, h) /\ SameRun(j \div 2, t, h)
    /\ SameRun(k \div 2, t, h) /\ SameRun(l \div 2, t, h)
    => ~Alternate(a[i], a[j], a[k], a[l])

\* The smaller and the larger key of a pair.
Lower(a, t, h) ==
  IF a[Low(t, h)] <= a[High(t, h)] THEN a[Low(t, h)] ELSE a[High(t, h)]

Upper(a, t, h) ==
  IF a[Low(t, h)] <= a[High(t, h)] THEN a[High(t, h)] ELSE a[Low(t, h)]

\* What the run of t makes of its block: none of the smaller keys is above one of
\* the larger ones, and both halves are bitonic again.
HalfCleaned(a, w, h, t) ==
  /\ \A u, v \in Runs(w) :
       SameRun(u, t, h) /\ SameRun(v, t, h) => Lower(a, u, h) <= Upper(a, v, h)
  /\ \A u, v, x, y \in Runs(w) :
       /\ u < v /\ v < x /\ x < y
       /\ SameRun(u, t, h) /\ SameRun(v, t, h) /\ SameRun(x, t, h) /\ SameRun(y, t, h)
       => /\ ~Alternate(Lower(a, u, h), Lower(a, v, h), Lower(a, x, h), Lower(a, y, h))
          /\ ~Alternate(Upper(a, u, h), Upper(a, v, h), Upper(a, x, h), Upper(a, y, h))

\* The runs of h invocations fill w.
Fill(w, h) == h \in Nat \ {0} /\ w \in Nat \ {0} /\ \E m \in Nat \ {0} : w = h * m

LEMMA FillFacts ==
  ASSUME NEW w, NEW h, Fill(w, h), NEW t \in Runs(w)
  PROVE  /\ t \in Nat /\ h \in Nat \ {0} /\ w \in Nat \ {0} /\ Start(t, h) \in Nat
         /\ Start(t, h) <= t /\ t < Start(t, h) + h /\ Start(t, h) + h <= w
         /\ Low(t, h) = t + Start(t, h) /\ High(t, h) = t + Start(t, h) + h
         /\ Low(t, h) \in Places(w) /\ High(t, h) \in Places(w)
<1>1. t \in Nat /\ t < w /\ h \in Nat \ {0} /\ w \in Nat \ {0}
  BY DEF Runs, Fill
<1>2. PICK m \in Nat \ {0} : w = h * m
  BY DEF Fill
<1>3. Start(t, h) + h <= w
  BY <1>1, <1>2, RunFits
<1>4. Low(t, h) \in Places(w) /\ High(t, h) \in Places(w)
  BY <1>1, <1>2, PairWithin DEF Places
<1> QED
  BY <1>1, <1>3, <1>4, PairPlaces

LEMMA BitonicAt ==
  ASSUME NEW w, NEW h, Fill(w, h), NEW t \in Runs(w), NEW a, Bitonic(a, w, h, t),
         NEW i \in Nat, NEW j \in Nat, NEW k \in Nat, NEW l \in Nat,
         2 * Start(t, h) <= i, i < j, j < k, k < l, l < 2 * Start(t, h) + 2 * h
  PROVE  ~Alternate(a[i], a[j], a[k], a[l])
<1> DEFINE p == Start(t, h)
<1>1. t \in Nat /\ h \in Nat \ {0} /\ w \in Nat \ {0} /\ p \in Nat /\ p + h <= w
  BY FillFacts
<1> HIDE DEF p
<1>2. /\ i \in Places(w) /\ j \in Places(w) /\ k \in Places(w) /\ l \in Places(w)
      /\ 2 * p <= j /\ 2 * p <= k /\ 2 * p <= l
      /\ i < 2 * p + 2 * h /\ j < 2 * p + 2 * h /\ k < 2 * p + 2 * h
  BY <1>1 DEF Places, p
<1>3. SameRun(i \div 2, t, h) /\ SameRun(j \div 2, t, h)
      /\ SameRun(k \div 2, t, h) /\ SameRun(l \div 2, t, h)
  BY <1>1, <1>2, BlockInterval DEF p
<1> QED
  BY <1>2, <1>3 DEF Bitonic

\* Batcher's lemma: a bitonic block is half-cleaned by comparing at half its length.
LEMMA HalfCleaner ==
  ASSUME NEW w, NEW h, Fill(w, h), NEW t \in Runs(w), NEW a \in [Places(w) -> Int],
         Bitonic(a, w, h, t)
  PROVE  HalfCleaned(a, w, h, t)
<1> DEFINE p == Start(t, h)
           lo(u) == a[u + p]
           hi(u) == a[u + p + h]
<1>1. t \in Nat /\ h \in Nat \ {0} /\ w \in Nat \ {0} /\ p \in Nat /\ p + h <= w
  BY FillFacts
<1>2. ASSUME NEW u \in Runs(w), SameRun(u, t, h)
      PROVE  /\ u \in Nat /\ p <= u /\ u < p + h
             /\ lo(u) \in Int /\ hi(u) \in Int
             /\ Lower(a, u, h) = IF lo(u) <= hi(u) THEN lo(u) ELSE hi(u)
             /\ Upper(a, u, h) = IF lo(u) <= hi(u) THEN hi(u) ELSE lo(u)
  <2>1. /\ u \in Nat /\ p <= u /\ u < p + h
        /\ Low(u, h) = u + p /\ High(u, h) = u + p + h
        /\ Low(u, h) \in Places(w) /\ High(u, h) \in Places(w)
    BY <1>2, FillFacts DEF SameRun
  <2> QED
    BY <2>1 DEF Lower, Upper
<1>3. ASSUME NEW i \in Nat, NEW j \in Nat, NEW k \in Nat, NEW l \in Nat,
             2 * p <= i, i < j, j < k, k < l, l < 2 * p + 2 * h
      PROVE  ~Alternate(a[i], a[j], a[k], a[l])
  BY <1>3, BitonicAt
<1> HIDE DEF p
<1>4. ASSUME NEW u \in Runs(w), NEW v \in Runs(w), SameRun(u, t, h), SameRun(v, t, h)
      PROVE  Lower(a, u, h) <= Upper(a, v, h)
  <2>1. /\ u \in Nat /\ p <= u /\ u < p + h
        /\ v \in Nat /\ p <= v /\ v < p + h
    BY <1>2, <1>4
  <2>2. u < v => ~Alternate(lo(u), lo(v), hi(u), hi(v))
    BY <1>1, <1>3, <2>1
  <2>3. v < u => ~Alternate(lo(v), lo(u), hi(v), hi(u))
    BY <1>1, <1>3, <2>1
  <2>4. /\ lo(u) \in Int /\ hi(u) \in Int /\ lo(v) \in Int /\ hi(v) \in Int
        /\ Lower(a, u, h) = IF lo(u) <= hi(u) THEN lo(u) ELSE hi(u)
        /\ Upper(a, v, h) = IF lo(v) <= hi(v) THEN hi(v) ELSE lo(v)
    BY <1>2, <1>4
  <2> HIDE DEF lo, hi
  <2>5. CASE u < v
    BY <2>2, <2>4, <2>5 DEF Alternate
  <2>6. CASE v < u
    BY <2>3, <2>4, <2>6 DEF Alternate
  <2>7. CASE u = v
    BY <2>4, <2>7
  <2> QED
    BY <2>1, <2>5, <2>6, <2>7
<1>5. ASSUME NEW u \in Runs(w), NEW v \in Runs(w), NEW x \in Runs(w), NEW y \in Runs(w),
             u < v, v < x, x < y,
             SameRun(u, t, h), SameRun(v, t, h), SameRun(x, t, h), SameRun(y, t, h)
      PROVE  /\ ~Alternate(Lower(a, u, h), Lower(a, v, h), Lower(a, x, h), Lower(a, y, h))
             /\ ~Alternate(Upper(a, u, h), Upper(a, v, h), Upper(a, x, h), Upper(a, y, h))
  <2>1. /\ u \in Nat /\ p <= u /\ u < p + h /\ v \in Nat /\ p <= v /\ v < p + h
        /\ x \in Nat /\ p <= x /\ x < p + h /\ y \in Nat /\ p <= y /\ y < p + h
    BY <1>2, <1>5
  <2>2. ~Alternate(lo(u), lo(v), lo(x), lo(y)) /\ ~Alternate(hi(u), hi(v), hi(x), hi(y))
    BY <1>1, <1>3, <1>5, <2>1
  <2>3. ~Alternate(lo(u), lo(v), lo(x), hi(y)) /\ ~Alternate(lo(y), hi(u), hi(v), hi(x))
    BY <1>1, <1>3, <1>5, <2>1
  <2>4. ~Alternate(lo(u), lo(v), hi(x), hi(y)) /\ ~Alternate(lo(x), lo(y), hi(u), hi(v))
    BY <1>1, <1>3, <1>5, <2>1
  <2>5. ~Alternate(lo(u), hi(v), hi(x), hi(y)) /\ ~Alternate(lo(v), lo(x), lo(y), hi(u))
    BY <1>1, <1>3, <1>5, <2>1
  <2>6. /\ lo(u) \in Int /\ hi(u) \in Int /\ lo(v) \in Int /\ hi(v) \in Int
        /\ lo(x) \in Int /\ hi(x) \in Int /\ lo(y) \in Int /\ hi(y) \in Int
        /\ Lower(a, u, h) = IF lo(u) <= hi(u) THEN lo(u) ELSE hi(u)
        /\ Upper(a, u, h) = IF lo(u) <= hi(u) THEN hi(u) ELSE lo(u)
        /\ Lower(a, v, h) = IF lo(v) <= hi(v) THEN lo(v) ELSE hi(v)
        /\ Upper(a, v, h) = IF lo(v) <= hi(v) THEN hi(v) ELSE lo(v)
        /\ Lower(a, x, h) = IF lo(x) <= hi(x) THEN lo(x) ELSE hi(x)
        /\ Upper(a, x, h) = IF lo(x) <= hi(x) THEN hi(x) ELSE lo(x)
        /\ Lower(a, y, h) = IF lo(y) <= hi(y) THEN lo(y) ELSE hi(y)
        /\ Upper(a, y, h) = IF lo(y) <= hi(y) THEN hi(y) ELSE lo(y)
    BY <1>2, <1>5
  <2> HIDE DEF lo, hi
  <2>7. ~Alternate(Lower(a, u, h), Lower(a, v, h), Lower(a, x, h), Lower(a, y, h))
    BY <2>2, <2>3, <2>4, <2>5, <2>6 DEF Alternate
  <2>8. ~Alternate(Upper(a, u, h), Upper(a, v, h), Upper(a, x, h), Upper(a, y, h))
    BY <2>2, <2>3, <2>4, <2>5, <2>6 DEF Alternate
  <2> QED
    BY <2>7, <2>8
<1> QED
  BY <1>4, <1>5 DEF HalfCleaned

\* Each place of a block is the lower or the higher one of a pair of its run.
LEMMA PairOfPlace ==
  ASSUME NEW w, NEW h, Fill(w, h), NEW t \in Runs(w), NEW x \in Places(w), SameRun(x \div 2, t, h),
         NEW p, p = Start(t, h)
  PROVE  /\ x \in Nat /\ 2 * p <= x /\ x < 2 * p + 2 * h
         /\ x < 2 * p + h => x - p \in Runs(w) /\ SameRun(x - p, t, h) /\ Low(x - p, h) = x
         /\ x >= 2 * p + h =>
              x - p - h \in Runs(w) /\ SameRun(x - p - h, t, h) /\ High(x - p - h, h) = x
<1>1. t \in Nat /\ h \in Nat \ {0} /\ w \in Nat \ {0} /\ p \in Nat /\ p + h <= w
  BY FillFacts
<1>2. x \in Nat
  BY <1>1 DEF Places
<1>3. 2 * p <= x /\ x < 2 * p + 2 * h
  BY <1>1, <1>2, BlockInterval
<1>4. ASSUME NEW u \in Nat, p <= u, u < p + h
      PROVE  u \in Runs(w) /\ SameRun(u, t, h) /\ Low(u, h) = u + p /\ High(u, h) = u + p + h
  <2>1. u \in Runs(w)
    BY <1>1, <1>4 DEF Runs
  <2>2. SameRun(u, t, h)
    BY <1>1, <1>4, RunInterval
  <2>3. Low(u, h) = u + p /\ High(u, h) = u + p + h
    BY <1>1, <2>2, PairPlaces DEF SameRun
  <2> QED
    BY <2>1, <2>2, <2>3
<1>5. ASSUME x < 2 * p + h
      PROVE  x - p \in Runs(w) /\ SameRun(x - p, t, h) /\ Low(x - p, h) = x
  <2> DEFINE u == x - p
  <2>1. u \in Nat /\ p <= u /\ u < p + h /\ u + p = x
    BY <1>1, <1>2, <1>3, <1>5
  <2> HIDE DEF u
  <2>2. u \in Runs(w) /\ SameRun(u, t, h) /\ Low(u, h) = x
    BY <1>4, <2>1
  <2> QED
    BY <2>2 DEF u
<1>6. ASSUME x >= 2 * p + h
      PROVE  x - p - h \in Runs(w) /\ SameRun(x - p - h, t, h) /\ High(x - p - h, h) = x
  <2> DEFINE u == x - p - h
  <2>1. u \in Nat /\ p <= u /\ u < p + h /\ u + p + h = x
    BY <1>1, <1>2, <1>3, <1>6
  <2> HIDE DEF u
  <2>2. u \in Runs(w) /\ SameRun(u, t, h) /\ High(u, h) = x
    BY <1>4, <2>1
  <2> QED
    BY <2>2 DEF u
<1> QED
  BY <1>2, <1>3, <1>5, <1>6

\* When every pair of the run has been exchanged the block has a lower and an upper
\* half: no key of the first is above one of the second ...
LEMMA CleanedOrder ==
  ASSUME NEW w, NEW h, Fill(w, h), NEW t \in Runs(w), NEW a \in [Places(w) -> Int],
         HalfCleaned(a, w, h, t),
         \A u \in Runs(w) : SameRun(u, t, h) => a[Low(u, h)] <= a[High(u, h)],
         NEW x \in Places(w), SameRun(x \div 2, t, h), NEW y \in Places(w), SameRun(y \div 2, t, h),
         x < 2 * Start(t, h) + h, 2 * Start(t, h) + h <= y
  PROVE  a[x] <= a[y]
<1> DEFINE p == Start(t, h)
           u == x - p
           v == y - p - h
<1>1. /\ u \in Runs(w) /\ SameRun(u, t, h) /\ Low(u, h) = x
      /\ v \in Runs(w) /\ SameRun(v, t, h) /\ High(v, h) = y
  <2> HIDE DEF p
  <2>1. y >= 2 * p + h
    <3>1. p \in Nat /\ h \in Nat /\ y \in Int
      BY FillFacts DEF p, Places
    <3> QED
      BY <3>1 DEF p
  <2> QED
    BY <2>1, PairOfPlace DEF p
<1> HIDE DEF u, v
<1>2. Lower(a, u, h) = a[x] /\ Upper(a, v, h) = a[y]
  BY <1>1 DEF Lower, Upper
<1>3. Lower(a, u, h) <= Upper(a, v, h)
  BY <1>1 DEF HalfCleaned
<1> QED
  BY <1>2, <1>3

\* ... and each half is bitonic for the runs of half the length.
LEMMA CleanedBitonic ==
  ASSUME NEW w, NEW h, Fill(w, h), NEW t \in Runs(w), NEW a \in [Places(w) -> Int],
         HalfCleaned(a, w, h, t),
         \A u \in Runs(w) : SameRun(u, t, h) => a[Low(u, h)] <= a[High(u, h)],
         NEW k \in Nat \ {0}, h = 2 * k, NEW s \in Runs(w), SameRun(s, t, h)
  PROVE  Bitonic(a, w, k, s)
<1> DEFINE p == Start(t, h)
<1>1. /\ t \in Nat /\ h \in Nat \ {0} /\ w \in Nat \ {0} /\ p \in Nat /\ p + h <= w
      /\ s \in Nat
  BY FillFacts
<1>2. Start(s, k) = p \/ Start(s, k) = p + k
  BY <1>1, HalfRuns DEF SameRun
<1>3. SUFFICES ASSUME NEW i \in Places(w), NEW j \in Places(w), NEW m \in Places(w), NEW l \in Places(w),
                      i < j, j < m, m < l,
                      SameRun(i \div 2, s, k), SameRun(j \div 2, s, k),
                      SameRun(m \div 2, s, k), SameRun(l \div 2, s, k)
               PROVE  ~Alternate(a[i], a[j], a[m], a[l])
  BY DEF Bitonic
<1>4. ASSUME NEW x \in Places(w), SameRun(x \div 2, s, k)
      PROVE  /\ x \in Nat /\ SameRun(x \div 2, t, h)
             /\ Start(s, k) = p => x < 2 * p + h
             /\ Start(s, k) = p + k => x >= 2 * p + h
  <2>1. x \in Nat
    BY <1>1 DEF Places
  <2>2. 2 * Start(s, k) <= x /\ x < 2 * Start(s, k) + 2 * k
    BY <1>1, <1>4, <2>1, BlockInterval
  <2> HIDE DEF p
  <2>3. 2 * p <= x /\ x < 2 * p + 2 * h
    BY <1>1, <1>2, <2>1, <2>2
  <2>4. SameRun(x \div 2, t, h)
    BY <1>1, <2>1, <2>3, BlockInterval DEF p
  <2> QED
    BY <1>1, <2>1, <2>2, <2>4
<1> HIDE DEF p
<1>5. CASE Start(s, k) = p
  <2> DEFINE u(x) == x - p
  <2>1. ASSUME NEW x \in Places(w), SameRun(x \div 2, s, k)
        PROVE  u(x) \in Runs(w) /\ SameRun(u(x), t, h) /\ Lower(a, u(x), h) = a[x] /\ x \in Nat
    <3>1. u(x) \in Runs(w) /\ SameRun(u(x), t, h) /\ Low(u(x), h) = x /\ x \in Nat
      BY <1>4, <1>5, <2>1, PairOfPlace DEF p
    <3> HIDE DEF u
    <3> QED
      BY <3>1 DEF Lower
  <2>2. u(i) < u(j) /\ u(j) < u(m) /\ u(m) < u(l)
    BY <1>1, <1>3, <2>1
  <2> HIDE DEF u
  <2>3. ~Alternate(Lower(a, u(i), h), Lower(a, u(j), h), Lower(a, u(m), h), Lower(a, u(l), h))
    BY <1>3, <2>1, <2>2 DEF HalfCleaned
  <2> QED
    BY <1>3, <2>1, <2>3
<1>6. CASE Start(s, k) = p + k
  <2> DEFINE u(x) == x - p - h
  <2>1. ASSUME NEW x \in Places(w), SameRun(x \div 2, s, k)
        PROVE  u(x) \in Runs(w) /\ SameRun(u(x), t, h) /\ Upper(a, u(x), h) = a[x] /\ x \in Nat
    <3>1. u(x) \in Runs(w) /\ SameRun(u(x), t, h) /\ High(u(x), h) = x /\ x \in Nat
      BY <1>4, <1>6, <2>1, PairOfPlace DEF p
    <3> HIDE DEF u
    <3> QED
      BY <3>1 DEF Upper
  <2>2. u(i) < u(j) /\ u(j) < u(m) /\ u(m) < u(l)
    BY <1>1, <1>3, <2>1
  <2> HIDE DEF u
  <2>3. ~Alternate(Upper(a, u(i), h), Upper(a, u(j), h), Upper(a, u(m), h), Upper(a, u(l), h))
    BY <1>3, <2>1, <2>2 DEF HalfCleaned
  <2> QED
    BY <1>3, <2>1, <2>3
<1> QED
  BY <1>2, <1>5, <1>6 DEF p

-----------------------------------------------------------------------------
(* A merge.  R[t] is the distance of the next exchange of invocation t, zero *)
(* when it has made the last one; segments of 2H places are merged.          *)

\* The run of u, of R[u] invocations, is the one at work: nobody in the two runs
\* that came from the same block still has the distance before.
Leads(R, w, u) ==
  R[u] > 0 /\ \A v \in Runs(w) : SameRun(v, u, 2 * R[u]) => R[v] <= R[u]

MergeType(a, R, w, H) ==
  /\ w \in Nat \ {0} /\ IsPowerOfTwo(w)
  /\ H \in Nat \ {0} /\ IsPowerOfTwo(H) /\ H <= w
  /\ R \in [Runs(w) -> Nat] /\ a \in [Places(w) -> Int]

\* Distances halve from H, and in a run they are at most one step apart.
Distances(R, w, H) ==
  /\ \A t \in Runs(w) : R[t] > 0 => IsPowerOfTwo(R[t]) /\ R[t] <= H
  /\ \A t, u \in Runs(w) :
       R[u] > 0 /\ SameRun(t, u, R[u]) => R[t] \in {2 * R[u], R[u], R[u] \div 2}

\* A run at work half-cleans its block.
AtWork(a, R, w) ==
  \A u \in Runs(w) : Leads(R, w, u) =>
    /\ HalfCleaned(a, w, R[u], u)
    /\ \A v \in Runs(w) : SameRun(v, u, R[u]) /\ R[v] # R[u] =>
         a[Low(v, R[u])] <= a[High(v, R[u])]

\* Two places of a segment are in order, or in the block of a run at work.
Settled(a, R, w, H) ==
  \A x, y \in Places(w) : x < y /\ SameRun(x \div 2, y \div 2, H) =>
    \/ a[x] <= a[y]
    \/ \E u \in Runs(w) : /\ Leads(R, w, u)
                          /\ SameRun(x \div 2, u, R[u]) /\ SameRun(y \div 2, u, R[u])

Merging(a, R, w, H) ==
  MergeType(a, R, w, H) /\ Distances(R, w, H) /\ AtWork(a, R, w) /\ Settled(a, R, w, H)

\* Invocation t exchanges: its run is at work, and b and Q are what becomes of the
\* keys and the distances.
Exchanges(a, R, w, t, b, Q) ==
  /\ t \in Runs(w) /\ Leads(R, w, t)
  /\ \A v \in Runs(w) : SameRun(v, t, R[t]) => R[v] \in {R[t], R[t] \div 2}
  /\ Q = [R EXCEPT ![t] = R[t] \div 2]
  /\ b = [x \in Places(w) |-> IF x = Low(t, R[t]) THEN Lower(a, t, R[t])
                              ELSE IF x = High(t, R[t]) THEN Upper(a, t, R[t]) ELSE a[x]]

LEMMA DistanceFacts ==
  ASSUME NEW a, NEW R, NEW w, NEW H, MergeType(a, R, w, H), Distances(R, w, H),
         NEW t \in Runs(w), R[t] > 0
  PROVE  /\ t \in Nat /\ R[t] \in Nat \ {0} /\ IsPowerOfTwo(R[t]) /\ R[t] <= H
         /\ Fill(w, R[t]) /\ \E m \in Nat \ {0} : H = R[t] * m
         /\ R[t] # 1 => R[t] = 2 * (R[t] \div 2) /\ R[t] \div 2 \in Nat \ {0}
<1>1. t \in Nat /\ R[t] \in Nat \ {0} /\ IsPowerOfTwo(R[t]) /\ R[t] <= H /\ R[t] <= w
  BY DEF MergeType, Distances, Runs
<1>2. \E m \in Nat \ {0} : H = R[t] * m
  BY <1>1, PowerDivides DEF MergeType
<1>3. \E m \in Nat \ {0} : w = R[t] * m
  BY <1>1, PowerDivides DEF MergeType
<1>4. R[t] # 1 => R[t] = 2 * (R[t] \div 2) /\ R[t] \div 2 \in Nat \ {0}
  BY <1>1, PowerEven
<1> QED
  BY <1>1, <1>2, <1>3, <1>4 DEF Fill, MergeType

\* The run that works on a block is the only one.
LEMMA LeadersApart ==
  ASSUME NEW a, NEW R, NEW w, NEW H, MergeType(a, R, w, H), Distances(R, w, H),
         NEW t \in Runs(w), Leads(R, w, t),
         \A v \in Runs(w) : SameRun(v, t, R[t]) => R[v] \in {R[t], R[t] \div 2},
         NEW u \in Runs(w), Leads(R, w, u),
         NEW z \in Nat, SameRun(z, u, R[u]), SameRun(z, t, R[t])
  PROVE  R[u] = R[t] /\ SameRun(u, t, R[t])
<1> DEFINE h == R[t]
           r == R[u]
<1>1. /\ t \in Nat /\ h \in Nat \ {0} /\ IsPowerOfTwo(h)
      /\ u \in Nat /\ r \in Nat \ {0} /\ IsPowerOfTwo(r)
      /\ h # 1 => h = 2 * (h \div 2)
      /\ r # 1 => r = 2 * (r \div 2)
  BY DistanceFacts DEF Leads
<1>2. CASE r < h
  <2>1. PICK m \in Nat \ {0} : h = r * m
    <3>1. r <= h
      BY <1>1, <1>2
    <3> HIDE DEF h, r
    <3> QED
      BY <1>1, <3>1, PowerDivides
  <2>2. SameRun(z, u, h)
    BY <1>1, <2>1, RunWithin
  <2>3. SameRun(u, t, h) /\ SameRun(t, u, h)
    BY <2>2 DEF SameRun
  <2>4. r = h \div 2 /\ h = 2 * r
    BY <1>1, <1>2, <2>3
  <2>5. h <= r
    BY <2>3, <2>4 DEF Leads
  <2> QED
    BY <1>1, <1>2, <2>5
<1>3. CASE h < r
  <2>1. PICK m \in Nat \ {0} : r = h * m
    <3>1. h <= r
      BY <1>1, <1>3
    <3> HIDE DEF h, r
    <3> QED
      BY <1>1, <3>1, PowerDivides
  <2>2. SameRun(z, t, r)
    BY <1>1, <2>1, RunWithin
  <2>3. SameRun(u, t, r) /\ SameRun(t, u, r)
    BY <2>2 DEF SameRun
  <2>4. h \in {2 * r, r, r \div 2}
    BY <1>1, <2>3 DEF Distances
  <2>5. r = 2 * h
    BY <1>1, <1>3, <2>4
  <2>6. r <= h
    BY <2>3, <2>5 DEF Leads
  <2> QED
    BY <1>1, <1>3, <2>6
<1>4. CASE r = h
  BY <1>4 DEF SameRun
<1> QED
  BY <1>1, <1>2, <1>3, <1>4

LEMMA SamePairsClean ==
  ASSUME NEW a, NEW b, NEW w, NEW h, NEW t, HalfCleaned(a, w, h, t),
         \A v \in Runs(w) : SameRun(v, t, h) =>
           Lower(b, v, h) = Lower(a, v, h) /\ Upper(b, v, h) = Upper(a, v, h)
  PROVE  HalfCleaned(b, w, h, t)
BY DEF HalfCleaned

\* What an exchange does to the pairs of its run, and that it leaves others alone.
LEMMA ExchangeKeys ==
  ASSUME NEW a, NEW R, NEW w, NEW H, MergeType(a, R, w, H), Distances(R, w, H),
         NEW t, NEW b, NEW Q, Exchanges(a, R, w, t, b, Q), NEW h, h = R[t]
  PROVE  /\ b \in [Places(w) -> Int]
         /\ \A x \in Places(w) : ~SameRun(x \div 2, t, h) => b[x] = a[x]
         /\ b[Low(t, h)] <= b[High(t, h)]
         /\ \A v \in Runs(w) : SameRun(v, t, h) =>
              Lower(b, v, h) = Lower(a, v, h) /\ Upper(b, v, h) = Upper(a, v, h)
         /\ \A v \in Runs(w) : v # t => b[Low(v, h)] = a[Low(v, h)] /\ b[High(v, h)] = a[High(v, h)]
         /\ \A x \in Places(w) : b[x] \in {a[x], a[Low(t, h)], a[High(t, h)]}
<1> DEFINE lo == Low(t, h)
           hi == High(t, h)
<1>1. t \in Runs(w) /\ t \in Nat /\ h \in Nat \ {0} /\ Fill(w, h)
  BY DistanceFacts DEF Exchanges, Leads
<1>2. lo \in Places(w) /\ hi \in Places(w) /\ lo # hi
  <2>1. lo \in Places(w) /\ hi \in Places(w) /\ lo = t + Start(t, h) /\ hi = t + Start(t, h) + h
        /\ Start(t, h) \in Nat
    BY <1>1, FillFacts
  <2> QED
    BY <1>1, <2>1
<1>3. a \in [Places(w) -> Int]
  BY DEF MergeType
<1>4. b = [x \in Places(w) |-> IF x = lo THEN Lower(a, t, h)
                               ELSE IF x = hi THEN Upper(a, t, h) ELSE a[x]]
  BY DEF Exchanges
<1>5. SameRun(lo \div 2, t, h) /\ SameRun(hi \div 2, t, h)
  BY <1>1, PairInBlock
<1>6. /\ Lower(a, t, h) = IF a[lo] <= a[hi] THEN a[lo] ELSE a[hi]
      /\ Upper(a, t, h) = IF a[lo] <= a[hi] THEN a[hi] ELSE a[lo]
      /\ Lower(b, t, h) = IF b[lo] <= b[hi] THEN b[lo] ELSE b[hi]
      /\ Upper(b, t, h) = IF b[lo] <= b[hi] THEN b[hi] ELSE b[lo]
  BY DEF Lower, Upper
<1> HIDE DEF lo, hi
<1>7. /\ b \in [Places(w) -> Int] /\ b[lo] = Lower(a, t, h) /\ b[hi] = Upper(a, t, h)
      /\ b[lo] <= b[hi] /\ Lower(b, t, h) = Lower(a, t, h) /\ Upper(b, t, h) = Upper(a, t, h)
      /\ \A x \in Places(w) : b[x] \in {a[x], a[lo], a[hi]}
  BY <1>2, <1>3, <1>4, <1>6
<1>8. \A x \in Places(w) : ~SameRun(x \div 2, t, h) => b[x] = a[x]
  BY <1>4, <1>5
<1>9. ASSUME NEW v \in Runs(w), v # t
      PROVE  /\ b[Low(v, h)] = a[Low(v, h)] /\ b[High(v, h)] = a[High(v, h)]
             /\ Lower(b, v, h) = Lower(a, v, h) /\ Upper(b, v, h) = Upper(a, v, h)
  <2>1. v \in Nat /\ Low(v, h) \in Places(w) /\ High(v, h) \in Places(w)
    BY <1>1, FillFacts
  <2>2. Low(v, h) \notin {lo, hi} /\ High(v, h) \notin {lo, hi}
    BY <1>1, <1>9, <2>1, PairsDisjoint DEF lo, hi
  <2>3. b[Low(v, h)] = a[Low(v, h)] /\ b[High(v, h)] = a[High(v, h)]
    BY <1>4, <2>1, <2>2
  <2> QED
    BY <2>3 DEF Lower, Upper
<1> QED
  BY <1>7, <1>8, <1>9 DEF lo, hi

\* When the whole run has exchanged, the runs of half its length work on.
LEMMA RunComplete ==
  ASSUME NEW a, NEW R, NEW w, NEW H, MergeType(a, R, w, H), Distances(R, w, H), AtWork(a, R, w),
         NEW t, NEW b, NEW Q, Exchanges(a, R, w, t, b, Q), NEW h, h = R[t],
         \A v \in Runs(w) : SameRun(v, t, h) => Q[v] = h \div 2
  PROVE  /\ HalfCleaned(b, w, h, t)
         /\ \A v \in Runs(w) : SameRun(v, t, h) => b[Low(v, h)] <= b[High(v, h)]
         /\ \A u \in Runs(w) : SameRun(u, t, h) /\ h \div 2 > 0 =>
              Leads(Q, w, u) /\ HalfCleaned(b, w, h \div 2, u)
<1>1. /\ t \in Runs(w) /\ t \in Nat /\ h \in Nat \ {0} /\ Fill(w, h) /\ IsPowerOfTwo(h)
      /\ h # 1 => h = 2 * (h \div 2) /\ h \div 2 \in Nat \ {0}
  BY DistanceFacts DEF Exchanges, Leads
<1>2. HalfCleaned(b, w, h, t)
  <2>1. HalfCleaned(a, w, h, t)
    BY DEF AtWork, Exchanges
  <2> QED
    BY <2>1, ExchangeKeys, SamePairsClean
<1>3. ASSUME NEW v \in Runs(w), SameRun(v, t, h)
      PROVE  b[Low(v, h)] <= b[High(v, h)]
  <2>1. CASE v = t
    BY <2>1, ExchangeKeys
  <2>2. CASE v # t
    <3>1. Q[v] = R[v] /\ R[v] = h \div 2
      BY <1>1, <1>3, <2>2 DEF Exchanges, MergeType
    <3>2. R[v] # h
      BY <1>1, <3>1
    <3>3. a[Low(v, h)] <= a[High(v, h)]
      BY <1>1, <1>3, <3>2 DEF AtWork, Exchanges
    <3> QED
      BY <2>2, <3>3, ExchangeKeys
  <2> QED
    BY <2>1, <2>2
<1>4. ASSUME NEW u \in Runs(w), SameRun(u, t, h), h \div 2 > 0
      PROVE  Leads(Q, w, u) /\ HalfCleaned(b, w, h \div 2, u)
  <2> DEFINE k == h \div 2
  <2>1. h # 1
    BY <1>4
  <2>2. h = 2 * k /\ k \in Nat \ {0} /\ Q[u] = k
    BY <1>1, <1>4, <2>1
  <2>3. Leads(Q, w, u)
    <3> SUFFICES ASSUME NEW v \in Runs(w), SameRun(v, u, h)
                 PROVE  Q[v] <= k
      BY <2>2 DEF Leads
    <3>1. SameRun(v, t, h)
      BY <1>4 DEF SameRun
    <3> QED
      BY <2>2, <3>1
  <2>4. Fill(w, k)
    <3>1. w \in Nat \ {0} /\ IsPowerOfTwo(w) /\ IsPowerOfTwo(k)
      BY <1>1, <2>2, PowerHalf DEF MergeType
    <3>2. h <= w
      BY <1>1 DEF MergeType, Distances, Exchanges, Leads
    <3>3. k <= w
      BY <2>2, <3>1, <3>2
    <3> HIDE DEF k
    <3> QED
      BY <2>2, <3>1, <3>3, PowerDivides DEF Fill
  <2>5. b \in [Places(w) -> Int]
    BY ExchangeKeys
  <2> HIDE DEF k
  <2>6. Bitonic(b, w, k, u)
    BY <1>1, <1>2, <1>3, <1>4, <2>2, <2>5, CleanedBitonic
  <2>7. HalfCleaned(b, w, k, u)
    BY <2>4, <2>5, <2>6, HalfCleaner
  <2> QED
    BY <2>3, <2>7 DEF k
<1> QED
  BY <1>2, <1>3, <1>4

LEMMA DistancesKept ==
  ASSUME NEW a, NEW R, NEW w, NEW H, MergeType(a, R, w, H), Distances(R, w, H),
         NEW t, NEW b, NEW Q, Exchanges(a, R, w, t, b, Q)
  PROVE  MergeType(b, Q, w, H) /\ Distances(Q, w, H)
<1> DEFINE h == R[t]
           k == h \div 2
<1>1. /\ t \in Runs(w) /\ t \in Nat /\ h \in Nat \ {0} /\ IsPowerOfTwo(h) /\ h <= H
      /\ h # 1 => h = 2 * k /\ k \in Nat \ {0}
      /\ H \in Nat
  BY DistanceFacts DEF Exchanges, Leads, MergeType
<1>2. k \in Nat /\ (k > 0 => h = 2 * k /\ IsPowerOfTwo(k) /\ k <= H)
  <2>1. k \in Nat /\ (k > 0 => h # 1)
    BY <1>1
  <2>2. k > 0 => h = 2 * k /\ k \in Nat \ {0} /\ k <= H
    BY <1>1, <2>1
  <2> HIDE DEF h, k
  <2>3. k > 0 => IsPowerOfTwo(k)
    BY <1>1, <2>2, PowerHalf
  <2> QED
    BY <2>1, <2>2, <2>3
<1>3. Q = [R EXCEPT ![t] = k] /\ R \in [Runs(w) -> Nat]
  BY DEF Exchanges, MergeType
<1>4. MergeType(b, Q, w, H)
  BY <1>1, <1>2, <1>3, ExchangeKeys DEF MergeType
<1>5. \A v \in Runs(w) : Q[v] = (IF v = t THEN k ELSE R[v]) /\ R[v] \in Nat
  BY <1>1, <1>3
<1>6. /\ \A v \in Runs(w) : SameRun(v, t, h) => R[v] \in {h, k}
      /\ \A v \in Runs(w) : SameRun(v, t, 2 * h) => R[v] <= h
  BY DEF Exchanges, Leads
<1> HIDE DEF k, h
<1>7. \A v \in Runs(w) : Q[v] > 0 => IsPowerOfTwo(Q[v]) /\ Q[v] <= H
  BY <1>2, <1>5 DEF Distances
<1>8. ASSUME NEW v \in Runs(w), NEW u \in Runs(w), Q[u] > 0, SameRun(v, u, Q[u])
      PROVE  Q[v] \in {2 * Q[u], Q[u], Q[u] \div 2}
  <2>1. CASE u = t
    <3>1. Q[u] = k /\ h = 2 * k /\ k \in Nat \ {0}
      BY <1>2, <1>5, <1>8, <2>1
    <3>2. SameRun(v, t, h)
      <4>1. v \in Nat
        BY DEF Runs
      <4>2. SameRun(v, t, k) /\ h = k * 2
        BY <1>8, <2>1, <3>1
      <4> QED
        BY <1>1, <3>1, <4>1, <4>2, RunWithin
    <3>3. Q[v] \in {h, k}
      BY <1>5, <1>6, <3>2
    <3> QED
      BY <3>1, <3>3
  <2>2. CASE u # t /\ v # t
    BY <1>5, <1>8, <2>2 DEF Distances
  <2>3. CASE u # t /\ v = t
    <3>1. Q[u] = R[u] /\ R[u] \in Nat \ {0} /\ SameRun(t, u, R[u]) /\ Q[v] = k
      BY <1>5, <1>8, <2>3
    <3>2. h \in {2 * R[u], R[u], R[u] \div 2}
      BY <1>1, <3>1 DEF Distances, h
    <3>3. CASE h = 2 * R[u] \/ h = R[u]
      BY <3>1, <3>3 DEF k
    <3>4. CASE h = R[u] \div 2
      <4>1. R[u] # 1 => R[u] = 2 * (R[u] \div 2)
        BY <3>1, DistanceFacts
      <4>2. R[u] = 2 * h
        BY <1>1, <3>1, <3>4, <4>1
      <4>3. SameRun(u, t, 2 * h)
        BY <3>1, <4>2 DEF SameRun
      <4>4. R[u] <= h
        BY <1>6, <4>3
      <4> QED
        BY <1>1, <4>2, <4>4
    <3> QED
      BY <3>2, <3>3, <3>4
  <2> QED
    BY <2>1, <2>2, <2>3
<1> QED
  BY <1>4, <1>7, <1>8 DEF Distances

LEMMA AtWorkKept ==
  ASSUME NEW a, NEW R, NEW w, NEW H, MergeType(a, R, w, H), Distances(R, w, H), AtWork(a, R, w),
         NEW t, NEW b, NEW Q, Exchanges(a, R, w, t, b, Q)
  PROVE  AtWork(b, Q, w)
<1> DEFINE h == R[t]
           k == h \div 2
<1>1. /\ t \in Runs(w) /\ t \in Nat /\ h \in Nat \ {0} /\ IsPowerOfTwo(h) /\ Fill(w, h)
      /\ h # 1 => h = 2 * k /\ k \in Nat \ {0}
  BY DistanceFacts DEF Exchanges, Leads
<1>2. /\ Leads(R, w, t) /\ k \in Nat /\ k < h
      /\ \A v \in Runs(w) : Q[v] = (IF v = t THEN k ELSE R[v]) /\ R[v] \in Nat
      /\ \A v \in Runs(w) : SameRun(v, t, h) => R[v] \in {h, k}
  BY <1>1 DEF Exchanges, MergeType
<1>3. SUFFICES ASSUME NEW u \in Runs(w), Leads(Q, w, u)
               PROVE  /\ HalfCleaned(b, w, Q[u], u)
                      /\ \A v \in Runs(w) : SameRun(v, u, Q[u]) /\ Q[v] # Q[u] =>
                           b[Low(v, Q[u])] <= b[High(v, Q[u])]
  BY DEF AtWork
<1>4. CASE u # t /\ Leads(R, w, u)
  <2> DEFINE r == R[u]
  <2>1. Q[u] = r /\ r \in Nat \ {0} /\ Fill(w, r)
    BY <1>2, <1>4, DistanceFacts DEF Leads
  <2>2. /\ HalfCleaned(a, w, r, u)
        /\ \A v \in Runs(w) : SameRun(v, u, r) /\ R[v] # r => a[Low(v, r)] <= a[High(v, r)]
    BY <1>4 DEF AtWork
  <2>3. CASE r = h /\ SameRun(u, t, h)
    <3>1. \A v \in Runs(w) : SameRun(v, u, r) => SameRun(v, t, h)
      BY <2>3 DEF SameRun
    <3>2. HalfCleaned(b, w, r, u)
      BY <2>2, <2>3, <3>1, ExchangeKeys, SamePairsClean
    <3>3. ASSUME NEW v \in Runs(w), SameRun(v, u, r), Q[v] # r
          PROVE  b[Low(v, r)] <= b[High(v, r)]
      <4>1. CASE v = t
        BY <2>3, <4>1, ExchangeKeys
      <4>2. CASE v # t
        <5>1. a[Low(v, r)] <= a[High(v, r)]
          BY <1>2, <2>2, <3>3, <4>2
        <5> QED
          BY <2>3, <4>2, <5>1, ExchangeKeys
      <4> QED
        BY <4>1, <4>2
    <3> QED
      BY <2>1, <3>2, <3>3
  <2>4. CASE ~(r = h /\ SameRun(u, t, h))
    <3>1. ASSUME NEW v \in Runs(w), SameRun(v, u, r)
          PROVE  /\ b[Low(v, r)] = a[Low(v, r)] /\ b[High(v, r)] = a[High(v, r)]
                 /\ v # t
      <4>1. /\ v \in Nat /\ Low(v, r) \in Places(w) /\ High(v, r) \in Places(w)
            /\ Low(v, r) \div 2 \in Nat /\ High(v, r) \div 2 \in Nat
        <5>1. v \in Nat /\ Low(v, r) \in Places(w) /\ High(v, r) \in Places(w) /\ w \in Nat
          BY <2>1, FillFacts
        <5> HIDE DEF r
        <5> QED
          BY <5>1 DEF Places
      <4>2. SameRun(Low(v, r) \div 2, u, r) /\ SameRun(High(v, r) \div 2, u, r)
        BY <2>1, <3>1, <4>1, PairInBlock DEF SameRun
      <4>3. ~SameRun(Low(v, r) \div 2, t, h) /\ ~SameRun(High(v, r) \div 2, t, h)
        BY <1>1, <1>2, <1>4, <2>4, <4>1, <4>2, LeadersApart
      <4>4. v # t
        BY <1>1, <1>2, <1>4, <2>4, <3>1, LeadersApart DEF SameRun
      <4> QED
        BY <4>1, <4>3, <4>4, ExchangeKeys
    <3>2. HalfCleaned(b, w, r, u)
      <4>1. \A v \in Runs(w) : SameRun(v, u, r) =>
               Lower(b, v, r) = Lower(a, v, r) /\ Upper(b, v, r) = Upper(a, v, r)
        BY <3>1 DEF Lower, Upper
      <4> QED
        BY <2>2, <4>1, SamePairsClean
    <3> QED
      BY <1>2, <2>1, <2>2, <3>1, <3>2
  <2> QED
    BY <2>3, <2>4
<1>5. CASE u = t \/ ~Leads(R, w, u)
  <2>1. Q[u] = k /\ k > 0 /\ SameRun(t, u, 2 * k)
    <3>1. CASE u = t
      BY <1>2, <1>3, <3>1 DEF Leads, SameRun
    <3>2. CASE u # t
      <4>1. Q[u] = R[u] /\ R[u] > 0 /\ R[u] \in Nat
        BY <1>2, <1>3, <3>2 DEF Leads
      <4>2. PICK v \in Runs(w) : SameRun(v, u, 2 * R[u]) /\ ~(R[v] <= R[u])
        BY <1>5, <3>2, <4>1 DEF Leads
      <4>3. Q[v] <= R[u]
        BY <1>3, <4>1, <4>2 DEF Leads
      <4>4. v = t /\ R[u] < h /\ k <= R[u]
        BY <1>1, <1>2, <4>1, <4>2, <4>3
      <4>5. h = 2 * k /\ k \in Nat \ {0}
        BY <1>1, <4>1, <4>4
      <4>6. R[u] = k
        <5> DEFINE r == R[u]
        <5>1. IsPowerOfTwo(r) /\ IsPowerOfTwo(k) /\ r \in Nat \ {0}
          BY <1>1, <4>1, <4>5, DistanceFacts, PowerHalf
        <5> HIDE DEF k, r, h
        <5>2. k < r => 2 * k <= r
          BY <4>5, <5>1, PowerDoubleDivides
        <5>3. r < h /\ k <= r
          BY <4>4 DEF r
        <5>4. r = k
          BY <4>5, <5>1, <5>2, <5>3
        <5> QED
          BY <5>4 DEF r
      <4> QED
        BY <4>1, <4>2, <4>4, <4>5, <4>6
    <3> QED
      BY <3>1, <3>2
  <2>2. h = 2 * k
    BY <1>1, <2>1
  <2>3. SameRun(u, t, h)
    BY <2>1, <2>2 DEF SameRun
  <2>4. ASSUME NEW v \in Runs(w), SameRun(v, t, h)
        PROVE  Q[v] = k
    <3>1. SameRun(v, u, 2 * k)
      BY <2>2, <2>3, <2>4 DEF SameRun
    <3>2. Q[v] <= k
      BY <1>3, <2>1, <3>1 DEF Leads
    <3>3. Q[v] \in {h, k}
      BY <1>2, <2>4
    <3> QED
      BY <1>2, <3>2, <3>3
  <2>5. HalfCleaned(b, w, k, u)
    BY <2>1, <2>3, <2>4, RunComplete
  <2>6. ASSUME NEW v \in Runs(w), SameRun(v, u, k)
        PROVE  Q[v] = k
    <3>1. v \in Nat /\ u \in Nat
      BY DEF Runs
    <3>2. SameRun(v, u, h)
      <4>1. h = k * 2 /\ k \in Nat \ {0}
        BY <1>2, <2>1, <2>2
      <4> HIDE DEF k, h
      <4> QED
        BY <2>6, <3>1, <4>1, RunWithin
    <3>3. SameRun(v, t, h)
      BY <2>3, <3>2 DEF SameRun
    <3> QED
      BY <2>4, <3>3
  <2> QED
    BY <2>1, <2>5, <2>6
<1> QED
  BY <1>4, <1>5

LEMMA SettledKept ==
  ASSUME NEW a, NEW R, NEW w, NEW H, Merging(a, R, w, H),
         NEW t, NEW b, NEW Q, Exchanges(a, R, w, t, b, Q)
  PROVE  Settled(b, Q, w, H)
<1> USE DEF Merging
<1> DEFINE h == R[t]
           k == h \div 2
           p == Start(t, h)
           In(x) == SameRun(x \div 2, t, h)
<1>1. /\ t \in Runs(w) /\ t \in Nat /\ h \in Nat \ {0} /\ Fill(w, h)
      /\ h # 1 => h = 2 * k /\ k \in Nat \ {0}
      /\ \E m \in Nat \ {0} : H = h * m
  BY DistanceFacts DEF Exchanges, Leads
<1>2. /\ Leads(R, w, t) /\ k \in Nat /\ k < h
      /\ \A v \in Runs(w) : Q[v] = (IF v = t THEN k ELSE R[v]) /\ R[v] \in Nat
      /\ \A v \in Runs(w) : SameRun(v, t, h) => R[v] \in {h, k}
  BY <1>1 DEF Exchanges, MergeType
<1>3. /\ b \in [Places(w) -> Int] /\ a \in [Places(w) -> Int]
      /\ \A x \in Places(w) : ~In(x) => b[x] = a[x]
      /\ \A x \in Places(w) : In(x) => b[x] \in {a[x], a[Low(t, h)], a[High(t, h)]}
  BY ExchangeKeys DEF MergeType
<1>4. /\ Low(t, h) \in Places(w) /\ High(t, h) \in Places(w) /\ In(Low(t, h)) /\ In(High(t, h))
  BY <1>1, FillFacts, PairInBlock
<1>5. ASSUME NEW x \in Places(w)
      PROVE  /\ x \in Nat /\ p \in Nat /\ x \div 2 \in Nat /\ x \div 2 \in Runs(w)
             /\ In(x) <=> 2 * p <= x /\ x < 2 * p + 2 * h
  <2>1. w \in Nat
    BY DEF MergeType
  <2>2. x \in Nat /\ x \div 2 \in Nat /\ x \div 2 \in Runs(w)
    BY <2>1 DEF Places, Runs
  <2>3. p \in Nat
    BY <1>1, FillFacts
  <2> QED
    BY <1>1, <2>2, <2>3, BlockInterval
<1>6. \A x, y \in Places(w) : In(x) /\ In(y) => SameRun(x \div 2, y \div 2, H)
  <2> SUFFICES ASSUME NEW x \in Places(w), NEW y \in Places(w), In(x), In(y)
               PROVE  SameRun(x \div 2, y \div 2, H)
    OBVIOUS
  <2>1. x \div 2 \in Nat /\ y \div 2 \in Nat
    BY <1>5
  <2>2. PICK m \in Nat \ {0} : H = h * m
    BY <1>1
  <2>3. SameRun(x \div 2, y \div 2, h)
    BY DEF SameRun
  <2> QED
    BY <1>1, <2>1, <2>2, <2>3, RunWithin
<1>7. SUFFICES ASSUME NEW x \in Places(w), NEW y \in Places(w), x < y, SameRun(x \div 2, y \div 2, H)
               PROVE  \/ b[x] <= b[y]
                      \/ \E u \in Runs(w) : /\ Leads(Q, w, u)
                                            /\ SameRun(x \div 2, u, Q[u]) /\ SameRun(y \div 2, u, Q[u])
  BY DEF Settled
<1> HIDE DEF k, p
<1>8. ASSUME NEW i \in Places(w), NEW j \in Places(w), i < j, SameRun(i \div 2, j \div 2, H),
             In(i) \/ In(j), ~(In(i) /\ In(j))
      PROVE  a[i] <= a[j]
  <2>1. SUFFICES ASSUME NEW u \in Runs(w), Leads(R, w, u),
                        SameRun(i \div 2, u, R[u]), SameRun(j \div 2, u, R[u])
                 PROVE  FALSE
    BY <1>8 DEF Settled
  <2>2. R[u] = h /\ SameRun(u, t, h)
    BY <1>1, <1>2, <1>5, <1>8, <2>1, LeadersApart
  <2>3. In(i) /\ In(j)
    BY <2>1, <2>2 DEF SameRun
  <2> QED
    BY <1>8, <2>3
<1>9. CASE In(x) /\ ~In(y)
  <2>1. \A i \in Places(w) : In(i) => i < y
    BY <1>1, <1>5, <1>7, <1>9
  <2>2. \A i \in Places(w) : In(i) => SameRun(i \div 2, y \div 2, H)
    BY <1>6, <1>7, <1>9 DEF SameRun
  <2>3. a[x] <= a[y] /\ a[Low(t, h)] <= a[y] /\ a[High(t, h)] <= a[y]
    BY <1>4, <1>8, <1>9, <2>1, <2>2
  <2> QED
    BY <1>3, <1>9, <2>3
<1>10. CASE ~In(x) /\ In(y)
  <2>1. \A i \in Places(w) : In(i) => x < i
    BY <1>1, <1>5, <1>7, <1>10
  <2>2. \A i \in Places(w) : In(i) => SameRun(x \div 2, i \div 2, H)
    BY <1>6, <1>7, <1>10 DEF SameRun
  <2>3. a[x] <= a[y] /\ a[x] <= a[Low(t, h)] /\ a[x] <= a[High(t, h)]
    BY <1>4, <1>8, <1>10, <2>1, <2>2
  <2> QED
    BY <1>3, <1>10, <2>3
<1>11. CASE ~In(x) /\ ~In(y)
  <2>1. CASE a[x] <= a[y]
    BY <1>3, <1>11, <2>1
  <2>2. ASSUME NEW u \in Runs(w), Leads(R, w, u),
               SameRun(x \div 2, u, R[u]), SameRun(y \div 2, u, R[u])
        PROVE  Leads(Q, w, u) /\ SameRun(x \div 2, u, Q[u]) /\ SameRun(y \div 2, u, Q[u])
    <3>1. u # t
      BY <1>11, <2>2
    <3>2. Q[u] = R[u]
      BY <1>2, <3>1
    <3>3. \A v \in Runs(w) : SameRun(v, u, 2 * R[u]) => Q[v] <= R[u]
      <4> SUFFICES ASSUME NEW v \in Runs(w), SameRun(v, u, 2 * R[u]) PROVE Q[v] <= R[u]
        OBVIOUS
      <4>1. R[v] <= R[u]
        BY <2>2 DEF Leads
      <4>2. Q[v] <= R[v] /\ Q[v] \in Nat /\ R[v] \in Nat /\ R[u] \in Nat
        BY <1>1, <1>2
      <4> QED
        BY <4>1, <4>2
    <3> QED
      BY <2>2, <3>2, <3>3 DEF Leads
  <2> QED
    BY <1>7, <2>1, <2>2 DEF Settled
<1>12. CASE In(x) /\ In(y)
  <2>1. CASE \E v \in Runs(w) : SameRun(v, t, h) /\ Q[v] # k
    <3>1. PICK v \in Runs(w) : SameRun(v, t, h) /\ Q[v] # k
      BY <2>1
    <3>2. v # t /\ Q[v] = h
      BY <1>2, <3>1
    <3>3. \A z \in Runs(w) : SameRun(z, v, 2 * h) => Q[z] <= h
      <4> SUFFICES ASSUME NEW z \in Runs(w), SameRun(z, v, 2 * h) PROVE Q[z] <= h
        OBVIOUS
      <4>1. SameRun(v, t, 2 * h)
        <5>1. v \in Nat /\ 2 * h = h * 2
          BY <1>1 DEF Runs
        <5> HIDE DEF h
        <5> QED
          BY <1>1, <3>1, <5>1, RunWithin
      <4>2. SameRun(z, t, 2 * h)
        BY <4>1 DEF SameRun
      <4>3. R[z] <= h
        BY <1>2, <4>2 DEF Leads
      <4> QED
        BY <1>1, <1>2, <4>3
    <3>4. Leads(Q, w, v)
      BY <1>1, <3>2, <3>3 DEF Leads
    <3>5. SameRun(x \div 2, v, h) /\ SameRun(y \div 2, v, h)
      BY <1>12, <3>1 DEF SameRun
    <3> QED
      BY <3>2, <3>4, <3>5
  <2>2. CASE \A v \in Runs(w) : SameRun(v, t, h) => Q[v] = k
    <3>1. /\ HalfCleaned(b, w, h, t)
          /\ \A v \in Runs(w) : SameRun(v, t, h) => b[Low(v, h)] <= b[High(v, h)]
          /\ \A u \in Runs(w) : SameRun(u, t, h) /\ k > 0 => Leads(Q, w, u)
      BY <2>2, RunComplete DEF k
    <3>2. CASE x < 2 * p + h /\ 2 * p + h <= y
      BY <1>1, <1>3, <1>12, <3>1, <3>2, CleanedOrder DEF p
    <3>3. CASE ~(x < 2 * p + h /\ 2 * p + h <= y)
      <4> DEFINE u == x \div 2
                 v == y \div 2
      <4>1. /\ u \in Runs(w) /\ u \in Nat /\ v \in Nat /\ x \in Nat /\ y \in Nat /\ p \in Nat
            /\ 2 * p <= x /\ y < 2 * p + 2 * h
            /\ SameRun(u, t, h) /\ SameRun(v, t, h)
        <5>1. p \in Nat
          BY <1>1, FillFacts DEF p
        <5> QED
          BY <1>5, <1>12, <5>1
      <4>2. h # 1
        BY <1>7, <3>3, <4>1
      <4>3. h = 2 * k /\ k \in Nat \ {0}
        BY <1>1, <4>2
      <4>4. Leads(Q, w, u) /\ Q[u] = k
        BY <2>2, <3>1, <4>1, <4>3
      <4>5. SameRun(v, u, k)
        <5> DEFINE q == Start(u, k)
        <5>1. q = p \/ q = p + k
          BY <4>1, <4>3, HalfRuns DEF SameRun, p
        <5>2. 2 * q <= x /\ x < 2 * q + 2 * k
          BY <4>1, <4>3, BlockInterval DEF SameRun
        <5> HIDE DEF q
        <5>3. 2 * q <= y /\ y < 2 * q + 2 * k
          BY <1>7, <3>3, <4>1, <4>3, <5>1, <5>2
        <5> QED
          BY <4>1, <4>3, <5>3, BlockInterval DEF q
      <4>6. SameRun(u, u, Q[u]) /\ SameRun(v, u, Q[u])
        BY <4>4, <4>5 DEF SameRun
      <4> QED
        BY <4>1, <4>4, <4>6
    <3> QED
      BY <3>2, <3>3
  <2> QED
    BY <2>1, <2>2
<1> QED
  BY <1>9, <1>10, <1>11, <1>12

\* An exchange keeps the merge going.
LEMMA MergeStep ==
  ASSUME NEW a, NEW R, NEW w, NEW H, Merging(a, R, w, H),
         NEW t, NEW b, NEW Q, Exchanges(a, R, w, t, b, Q)
  PROVE  Merging(b, Q, w, H)
BY DistancesKept, AtWorkKept, SettledKept DEF Merging

-----------------------------------------------------------------------------
(* Where a merge begins and what it leaves.                                 *)

LEMMA MergeStart ==
  ASSUME NEW a, NEW R, NEW w, NEW H, MergeType(a, R, w, H),
         \A t \in Runs(w) : R[t] = H /\ Bitonic(a, w, H, t)
  PROVE  Merging(a, R, w, H)
<1>1. /\ H \in Nat \ {0} /\ IsPowerOfTwo(H) /\ w \in Nat \ {0} /\ IsPowerOfTwo(w) /\ H <= w
      /\ a \in [Places(w) -> Int]
  BY DEF MergeType
<1>2. Fill(w, H)
  BY <1>1, PowerDivides DEF Fill
<1>3. Distances(R, w, H)
  BY <1>1 DEF Distances
<1>4. AtWork(a, R, w)
  <2> SUFFICES ASSUME NEW u \in Runs(w) PROVE HalfCleaned(a, w, H, u)
    BY DEF AtWork
  <2> QED
    BY <1>1, <1>2, HalfCleaner
<1>5. Settled(a, R, w, H)
  <2> SUFFICES ASSUME NEW x \in Places(w), NEW y \in Places(w), SameRun(x \div 2, y \div 2, H)
               PROVE  \E u \in Runs(w) : /\ Leads(R, w, u)
                                         /\ SameRun(x \div 2, u, R[u]) /\ SameRun(y \div 2, u, R[u])
    BY DEF Settled
  <2> DEFINE u == x \div 2
  <2>1. u \in Runs(w)
    BY <1>1 DEF Runs, Places
  <2>2. Leads(R, w, u)
    BY <1>1, <2>1 DEF Leads
  <2>3. SameRun(u, u, R[u]) /\ SameRun(y \div 2, u, R[u])
    BY <2>1 DEF SameRun
  <2> QED
    BY <2>1, <2>2, <2>3
<1> QED
  BY <1>3, <1>4, <1>5 DEF Merging

LEMMA MergeEnd ==
  ASSUME NEW a, NEW R, NEW w, NEW H, Merging(a, R, w, H), \A t \in Runs(w) : R[t] = 0
  PROVE  \A x, y \in Places(w) : x < y /\ SameRun(x \div 2, y \div 2, H) => a[x] <= a[y]
BY DEF Merging, Settled, Leads

\* The invocations of the lower half of each segment sort upwards.
Upwards(u, H) == u < Start(u, 2 * H) + H

LEMMA UpwardsByRun ==
  ASSUME NEW H \in Nat \ {0}, NEW u \in Nat, NEW v \in Nat, SameRun(u, v, H)
  PROVE  Upwards(u, H) <=> Upwards(v, H)
<1> DEFINE p == Start(u, 2 * H)
           q == Start(v, 2 * H)
           s == Start(u, H)
<1>1. /\ s \in Nat /\ s <= u /\ u < s + H /\ s <= v /\ v < s + H
      /\ p \in Nat /\ q \in Nat
  <2>1. 2 * H \in Nat \ {0}
    OBVIOUS
  <2> QED
    BY <2>1, PairPlaces DEF SameRun
<1>2. p = q
  <2>1. 2 * H = H * 2
    OBVIOUS
  <2> QED
    BY <2>1, RunWithin DEF SameRun
<1>3. s = p \/ s = p + H
  BY HalfRuns
<1> HIDE DEF p, q, s
<1>4. u < p + H <=> v < q + H
  BY <1>1, <1>2, <1>3
<1> QED
  BY <1>4 DEF Upwards, p, q

\* The keys of the places for segments of 2H places, c[x] being the cell at place x.
Keys(c, w, H) == [x \in Places(w) |-> IF Upwards(x \div 2, H) THEN c[x] ELSE -c[x]]

\* Two segments sorted in opposite directions are one bitonic block.
LEMMA SegmentsMakeBlock ==
  ASSUME NEW w, NEW H \in Nat \ {0}, Fill(w, 2 * H), NEW c \in [Places(w) -> Int],
         \A x, y \in Places(w) :
           x < y /\ SameRun(x \div 2, y \div 2, H) => Keys(c, w, H)[x] <= Keys(c, w, H)[y],
         NEW t \in Runs(w)
  PROVE  Bitonic(Keys(c, w, 2 * H), w, 2 * H, t)
<1> DEFINE h == 2 * H
           P == Start(t, h)
           In(x) == SameRun(x \div 2, t, h)
           Half(x) == x < 2 * P + h
<1>1. /\ t \in Nat /\ h \in Nat \ {0} /\ w \in Nat \ {0} /\ P \in Nat
  BY FillFacts
<1>2. ASSUME NEW x \in Places(w), In(x)
      PROVE  /\ x \in Nat /\ x \div 2 \in Nat /\ c[x] \in Int
             /\ Upwards(x \div 2, h) <=> Upwards(t, h)
             /\ Start(x \div 2, h) = P
             /\ Half(x) => Start(x \div 2, H) = P /\ Upwards(x \div 2, H)
             /\ ~Half(x) => Start(x \div 2, H) = P + H /\ ~Upwards(x \div 2, H)
  <2> DEFINE u == x \div 2
  <2>1. x \in Nat /\ u \in Nat /\ (x = 2 * u \/ x = 2 * u + 1)
    <3>1. x \in Nat
      BY <1>1 DEF Places
    <3> QED
      BY <3>1
  <2>2. Start(u, h) = P
    BY <1>2 DEF SameRun
  <2>3. Upwards(u, h) <=> Upwards(t, h)
    BY <1>1, <1>2, <2>1, UpwardsByRun
  <2>4. Start(u, H) = P \/ Start(u, H) = P + H
    BY <2>1, <2>2, HalfRuns
  <2>5. Start(u, H) <= u /\ u < Start(u, H) + H
    BY <2>1, PairPlaces
  <2> HIDE DEF u, P
  <2>6. Half(x) <=> u < P + H
    BY <1>1, <2>1
  <2>7. /\ Half(x) => Start(u, H) = P
        /\ ~Half(x) => Start(u, H) = P + H
    BY <1>1, <2>1, <2>4, <2>5, <2>6
  <2>8. Upwards(u, H) <=> u < P + H
    BY <2>2 DEF Upwards
  <2> QED
    BY <2>1, <2>2, <2>3, <2>6, <2>7, <2>8 DEF u
<1>3. SUFFICES ASSUME NEW i \in Places(w), NEW j \in Places(w), NEW m \in Places(w), NEW l \in Places(w),
                      i < j, j < m, m < l, In(i), In(j), In(m), In(l)
               PROVE  ~Alternate(Keys(c, w, h)[i], Keys(c, w, h)[j], Keys(c, w, h)[m], Keys(c, w, h)[l])
  BY DEF Bitonic
<1>4. ASSUME NEW x \in Places(w), NEW y \in Places(w), x < y, In(x), In(y)
      PROVE  /\ Half(y) => Half(x) /\ c[x] <= c[y]
             /\ ~Half(x) => ~Half(y) /\ c[y] <= c[x]
  <2> DEFINE kx == Keys(c, w, H)[x]
             ky == Keys(c, w, H)[y]
  <2>1. /\ kx = IF Upwards(x \div 2, H) THEN c[x] ELSE -c[x]
        /\ ky = IF Upwards(y \div 2, H) THEN c[y] ELSE -c[y]
    BY DEF Keys
  <2>2. SameRun(x \div 2, y \div 2, H) => kx <= ky
    BY <1>4
  <2>3. /\ x \in Nat /\ y \in Nat /\ c[x] \in Int /\ c[y] \in Int
        /\ Half(x) => Start(x \div 2, H) = P /\ Upwards(x \div 2, H)
        /\ ~Half(x) => Start(x \div 2, H) = P + H /\ ~Upwards(x \div 2, H)
        /\ Half(y) => Start(y \div 2, H) = P /\ Upwards(y \div 2, H)
        /\ ~Half(y) => Start(y \div 2, H) = P + H /\ ~Upwards(y \div 2, H)
    BY <1>2, <1>4
  <2> HIDE DEF kx, ky, P
  <2>4. Half(y) => Half(x)
    BY <1>1, <1>4, <2>3
  <2>5. (Half(x) <=> Half(y)) => SameRun(x \div 2, y \div 2, H)
    BY <2>3 DEF SameRun
  <2> HIDE DEF Half
  <2>6. Half(y) => c[x] <= c[y]
    BY <2>1, <2>2, <2>3, <2>4, <2>5
  <2>7. ~Half(x) => c[y] <= c[x]
    BY <2>1, <2>2, <2>3, <2>4, <2>5
  <2> QED
    BY <2>4, <2>6, <2>7
<1>5. /\ c[i] \in Int /\ c[j] \in Int /\ c[m] \in Int /\ c[l] \in Int
      /\ Half(j) => c[i] <= c[j]
      /\ ~Half(j) => c[m] <= c[j]
      /\ Half(m) => c[j] <= c[m]
      /\ ~Half(m) => c[l] <= c[m]
      /\ Half(m) => Half(j)
  BY <1>2, <1>3, <1>4
<1>6. \/ /\ Keys(c, w, h)[i] = c[i] /\ Keys(c, w, h)[j] = c[j]
         /\ Keys(c, w, h)[m] = c[m] /\ Keys(c, w, h)[l] = c[l]
      \/ /\ Keys(c, w, h)[i] = -c[i] /\ Keys(c, w, h)[j] = -c[j]
         /\ Keys(c, w, h)[m] = -c[m] /\ Keys(c, w, h)[l] = -c[l]
  BY <1>2, <1>3 DEF Keys
<1> HIDE DEF Half
<1> QED
  BY <1>5, <1>6 DEF Alternate

-----------------------------------------------------------------------------
(* The merge in the states of FlockSort.                                    *)

Width == WorkGroups * localSize

\* Half a segment.
Half == segmentSize \div 2

CellAt == [x \in Places(Width) |-> cell[Content(x)]]

Key == Keys(CellAt, Width, Half)

\* The distance of the next exchange of each invocation.
Remaining ==
  [t \in Runs(Width) |->
     IF host = "waiting" /\ ~(Far /\ pc[t] = "done") THEN hstep[t]
     ELSE IF host = "waiting" THEN FirstStep \div 2 ELSE FirstStep]

\* The dispatched slots in cell order.
InOrder ==
  \A x, y \in Places(Width) : x < y => cell[agents[x]] <= cell[agents[y]]

MergeInv ==
  /\ host # "done" => Merging(Key, Remaining, Width, Half)
  /\ host = "done" => InOrder

LEMMA WidthFacts ==
  ASSUME <<size, localSize>> \in Sizes
  PROVE  /\ Width \in Nat \ {0} /\ IsPowerOfTwo(Width) /\ Dispatched = 2 * Width
         /\ Runs(Width) = Thread /\ Places(Width) \subseteq Slot
         /\ \A x \in Places(Width) : x \in Nat /\ x < Dispatched /\ x \div 2 \in Thread
<1> DEFINE w == Width
<1>1. w \in Nat \ {0} /\ IsPowerOfTwo(w) /\ Dispatched = 2 * w /\ Dispatched <= size
      /\ size \in Nat \ {0}
  BY Geometry DEF Width
<1>2. Runs(w) = Thread
  BY DEF Runs, Thread, Width
<1> HIDE DEF w
<1>3. \A x \in Places(w) : x \in Slot /\ x \in Nat /\ x < Dispatched /\ x \div 2 \in Runs(w)
  BY <1>1 DEF Places, Slot, Runs
<1> QED
  BY <1>1, <1>2, <1>3 DEF w

\* The half segment and the distances, as long as the host has not finished.
LEMMA HalfFacts ==
  ASSUME TypeOK, HostInv, host # "done"
  PROVE  /\ Half \in Nat \ {0} /\ segmentSize = 2 * Half /\ IsPowerOfTwo(Half) /\ Half <= Width
         /\ FirstStep \in Nat \ {0} /\ FirstStep <= Half /\ block = 2 * FirstStep
<1>1. /\ segmentSize \in Nat \ {0} /\ segmentSize # 1 /\ IsPowerOfTwo(segmentSize)
      /\ segmentSize <= Dispatched /\ block <= segmentSize /\ block \in Nat
  BY Geometry DEF TypeOK, HostInv
<1>2. segmentSize = 2 * Half /\ Half \in Nat \ {0}
  BY <1>1, PowerEven DEF Half
<1>3. IsPowerOfTwo(Half)
  BY <1>1, <1>2, PowerHalf
<1>4. Width \in Nat /\ Dispatched = 2 * Width
  BY WidthFacts DEF TypeOK
<1>5. FirstStep \in Nat \ {0} /\ block = 2 * FirstStep
  BY PassDistance
<1> QED
  BY <1>1, <1>2, <1>3, <1>4, <1>5

LEMMA KeyTypes ==
  ASSUME SortInv, host # "done"
  PROVE  /\ CellAt \in [Places(Width) -> Int]
         /\ Key \in [Places(Width) -> Int]
         /\ Remaining \in [Runs(Width) -> Nat]
         /\ MergeType(Key, Remaining, Width, Half)
<1>1. CellAt \in [Places(Width) -> Int]
  <2> SUFFICES ASSUME NEW x \in Places(Width) PROVE cell[Content(x)] \in Int
    BY DEF CellAt
  <2>1. x \in Slot
    BY WidthFacts DEF SortInv, TypeOK
  <2>2. Content(x) \in Slot
    BY <2>1 DEF SortInv, ContentInv
  <2>3. Cells \subseteq Nat
    BY SortAssumption
  <2>4. cell \in [Slot -> Cells]
    BY DEF SortInv, TypeOK
  <2> DEFINE y == Content(x)
  <2> HIDE DEF y
  <2>5. y \in Slot
    BY <2>2 DEF y
  <2>6. cell[y] \in Cells
    BY <2>4, <2>5
  <2>7. cell[y] \in Nat
    BY <2>3, <2>6
  <2>8. cell[y] \in Int
    BY <2>7
  <2> QED
    BY <2>8 DEF y
<1>2. Key \in [Places(Width) -> Int]
  BY <1>1 DEF Key, Keys
<1>3. /\ Half \in Nat \ {0} /\ IsPowerOfTwo(Half) /\ Half <= Width /\ FirstStep \in Nat
      /\ Width \in Nat \ {0} /\ IsPowerOfTwo(Width) /\ Runs(Width) = Thread
      /\ FirstStep \div 2 \in Nat
  BY HalfFacts, WidthFacts DEF SortInv, TypeOK
<1>4. \A t \in Thread : hstep[t] \in Nat
  BY Geometry DEF SortInv, TypeOK
<1>5. Remaining \in [Runs(Width) -> Nat]
  BY <1>3, <1>4 DEF Remaining
<1> QED
  BY <1>1, <1>2, <1>3, <1>5 DEF MergeType

\* The direction of an invocation is that of the places of its block.
LEMMA DirectionOfBlock ==
  ASSUME TypeOK, HostInv, host # "done", NEW t \in Thread, NEW u \in Nat, SameRun(u, t, Half)
  PROVE  Ascending(t) <=> Upwards(u, Half)
<1>1. t \in Nat /\ Half \in Nat \ {0} /\ segmentSize = 2 * Half /\ segmentSize \div 2 = Half
  BY HalfFacts, ThreadPlaces DEF TypeOK, Half
<1>2. segmentSize \in Nat \ {0} /\ t % segmentSize = t - Start(t, segmentSize)
      /\ Start(t, segmentSize) \in Nat
  <2>1. segmentSize \in Nat \ {0}
    BY <1>1
  <2> QED
    BY <1>1, <2>1, DivisionBounds DEF Start
<1>3. Ascending(t) <=> Half > t - Start(t, 2 * Half)
  BY <1>1, <1>2 DEF Ascending
<1>4. Ascending(t) <=> Upwards(t, Half)
  <2>1. Start(t, 2 * Half) \in Nat
    BY <1>1, <1>2
  <2> QED
    BY <1>1, <1>3, <2>1 DEF Upwards
<1>5. Upwards(u, Half) <=> Upwards(t, Half)
  BY <1>1, UpwardsByRun
<1> QED
  BY <1>4, <1>5

\* Steps that move no agent and change no distance.
LEMMA MergeQuiet ==
  ASSUME SortInv, [Next]_vars, segmentSize' = segmentSize,
         \A s \in Slot : Content(s)' = Content(s), Remaining' = Remaining
  PROVE  Key' = Key /\ Remaining' = Remaining /\ Width' = Width /\ Half' = Half
<1>1. /\ Width' = Width /\ Half' = Half /\ cell' = cell
  BY InputsKept DEF Width, Half
<1>2. CellAt' = CellAt
  <2>1. \A x \in Places(Width) : x \in Slot
    BY WidthFacts DEF SortInv, TypeOK
  <2> QED
    BY <1>1, <2>1 DEF CellAt
<1> QED
  BY <1>1, <1>2 DEF Key

LEMMA SameGroup ==
  ASSUME TypeOK, NEW t \in Thread, NEW v \in Thread, NEW h \in Nat \ {0}, IsPowerOfTwo(h),
         h <= localSize, SameRun(v, t, h)
  PROVE  GroupOf(v) = GroupOf(t)
<1>1. /\ localSize \in Nat \ {0} /\ IsPowerOfTwo(localSize) /\ t \in Nat /\ v \in Nat
      /\ GroupOf(v) \in Nat /\ GroupOf(t) \in Nat
  BY Geometry, ThreadPlaces DEF TypeOK, Group
<1>2. PICK m \in Nat \ {0} : localSize = h * m
  BY <1>1, PowerDivides
<1>3. SameRun(v, t, localSize)
  BY <1>1, <1>2, RunWithin
<1>4. localSize * GroupOf(v) = localSize * GroupOf(t)
  BY <1>3 DEF SameRun, Start, GroupOf
<1> QED
  BY <1>1, <1>4, MultiplesOrder

\* Whoever exchanges is in a run at work.
LEMMA ExchangeGuard ==
  ASSUME SortInv, NEW t \in Thread, pc[t] \in {"global", "exchange"}
  PROVE  /\ Remaining[t] = hstep[t] /\ Leads(Remaining, Width, t)
         /\ \A v \in Runs(Width) : SameRun(v, t, hstep[t]) =>
              Remaining[v] \in {hstep[t], hstep[t] \div 2}
<1> USE DEF SortInv
<1> DEFINE h == hstep[t]
<1>1. /\ host = "waiting" /\ (pc[t] = "global" <=> Far) /\ h \in Nat \ {0} /\ IsPowerOfTwo(h)
      /\ h <= FirstStep /\ FirstStep \in Nat
      /\ pc[t] = "exchange" => h <= localSize
  BY ExchangeDistance, PassDistance
<1>2. Runs(Width) = Thread /\ localSize \in Nat \ {0} /\ IsPowerOfTwo(localSize)
  BY WidthFacts, Geometry DEF TypeOK
<1>3. \A v \in Thread : hstep[v] \in Nat /\ Remaining[v] = IF Far /\ pc[v] = "done"
                                                           THEN FirstStep \div 2 ELSE hstep[v]
  BY <1>1, <1>2, Geometry DEF Remaining, TypeOK
<1>4. CASE pc[t] = "global"
  <2>1. Far /\ h = FirstStep
    BY <1>1, <1>4 DEF ThreadInv, FarInv
  <2>2. \A v \in Thread : Remaining[v] \in {h, h \div 2} /\ Remaining[v] <= h
    BY <1>1, <1>3, <2>1 DEF ThreadInv, FarInv
  <2>3. Remaining[t] = h
    BY <1>3, <1>4
  <2> QED
    BY <1>1, <1>2, <2>2, <2>3 DEF Leads
<1>5. CASE pc[t] = "exchange"
  <2>1. ~Far /\ h <= localSize
    BY <1>1, <1>5
  <2>2. \A v \in Thread : Remaining[v] = hstep[v]
    BY <1>3, <2>1
  <2>3. ASSUME NEW v \in Thread, GroupOf(v) = GroupOf(t)
        PROVE  hstep[v] \in {h, h \div 2}
    BY <1>1, <1>5, <2>1, <2>3 DEF GroupInv, InStep
  <2>4. ASSUME NEW v \in Thread, SameRun(v, t, h)
        PROVE  Remaining[v] \in {h, h \div 2}
    BY <1>1, <2>1, <2>2, <2>3, <2>4, SameGroup
  <2>5. ASSUME NEW v \in Thread, SameRun(v, t, 2 * h)
        PROVE  Remaining[v] <= h
    <3>1. CASE h = localSize
      <4>1. hstep[v] <= FirstStep /\ FirstStep <= localSize
        BY <1>1, <1>2, <2>1 DEF ThreadInv, NearInv, Far
      <4> QED
        BY <1>1, <1>2, <1>3, <2>2, <3>1, <4>1
    <3>2. CASE h < localSize
      <4> HIDE DEF h
      <4>1. 2 * h <= localSize /\ 2 * h \in Nat \ {0}
        BY <1>1, <1>2, <3>2, PowerDoubleDivides
      <4>2. IsPowerOfTwo(2 * h)
        BY <1>1, PowerDouble
      <4>3. GroupOf(v) = GroupOf(t)
        BY <2>5, <4>1, <4>2, SameGroup
      <4> QED
        BY <1>1, <2>2, <2>3, <4>3
    <3> QED
      BY <1>1, <1>2, <2>1, <3>1, <3>2
  <2> QED
    BY <1>1, <1>2, <2>2, <2>4, <2>5 DEF Leads
<1> QED
  BY <1>4, <1>5

\* An exchange puts the smaller key of the pair lower, in both directions.
LEMMA ExchangeSorts ==
  ASSUME SortInv, NEW t \in Thread, GlobalExchange(t) \/ LocalExchange(t)
  PROVE  /\ Exchanges(Key, Remaining, Width, t, Key', Remaining')
         /\ Width' = Width /\ Half' = Half
<1> USE DEF SortInv
<1> DEFINE h == hstep[t]
           i == Low(t, h)
           j == High(t, h)
           ci == cell[Content(i)]
           cj == cell[Content(j)]
<1>1. pc[t] \in {"global", "exchange"} /\ [Next]_vars /\ UNCHANGED hostVars
  BY DEF GlobalExchange, LocalExchange, Next
<1>2. /\ host = "waiting" /\ host # "done" /\ (pc[t] = "global" <=> Far)
      /\ h \in Nat \ {0} /\ IsPowerOfTwo(h) /\ h <= FirstStep
      /\ i \in Slot /\ i < Dispatched /\ j \in Slot /\ j < Dispatched /\ i # j
  BY <1>1, ExchangeDistance
<1>3. /\ Width \in Nat \ {0} /\ Dispatched = 2 * Width /\ Runs(Width) = Thread
      /\ t \in Nat /\ i \in Places(Width) /\ j \in Places(Width)
      /\ \A x \in Places(Width) : x \in Slot /\ x \in Nat
  <2>1. /\ Width \in Nat \ {0} /\ Dispatched = 2 * Width /\ Runs(Width) = Thread
        /\ \A x \in Places(Width) : x \in Slot /\ x \in Nat
    BY WidthFacts DEF TypeOK
  <2>2. t \in Nat /\ size \in Nat
    BY ThreadPlaces, Geometry DEF TypeOK
  <2> HIDE DEF i, j
  <2>3. i \in Places(Width) /\ j \in Places(Width)
    BY <1>2, <2>1, <2>2 DEF Places, Slot
  <2> QED
    BY <2>1, <2>2, <2>3
<1>4. /\ cell' = cell /\ Width' = Width /\ Half' = Half /\ FirstStep' = FirstStep
      /\ (Far' <=> Far) /\ host' = host
  BY <1>1, InputsKept, PhaseKept DEF Width, Half, hostVars
<1>5. \A x \in Slot : Content(x)' = Exchanged(t, i, j, x)
  BY GlobalExchangeContent, LocalExchangeContent
<1>6. /\ CellAt \in [Places(Width) -> Int] /\ Key \in [Places(Width) -> Int]
  BY <1>2, KeyTypes
<1>7. /\ Upwards(i \div 2, Half) <=> Ascending(t)
      /\ Upwards(j \div 2, Half) <=> Ascending(t)
  <2>1. i \div 2 \in Nat /\ j \div 2 \in Nat
    <3>1. i \in Nat /\ j \in Nat
      BY <1>3
    <3> HIDE DEF i, j
    <3> QED
      BY <3>1
  <2>2. SameRun(i \div 2, t, h) /\ SameRun(j \div 2, t, h)
    BY <1>2, <1>3, PairInBlock
  <2>3. PICK m \in Nat \ {0} : Half = h * m
    <3>1. h <= Half /\ Half \in Nat \ {0} /\ IsPowerOfTwo(Half)
      <4>1. FirstStep <= Half /\ Half \in Nat \ {0} /\ IsPowerOfTwo(Half) /\ FirstStep \in Nat
        BY <1>2, HalfFacts
      <4> HIDE DEF h
      <4> QED
        BY <1>2, <4>1
    <3> HIDE DEF h
    <3> QED
      BY <1>2, <3>1, PowerDivides
  <2> HIDE DEF i, j, h
  <2>4. SameRun(i \div 2, t, Half) /\ SameRun(j \div 2, t, Half)
    BY <1>2, <1>3, <2>1, <2>2, <2>3, RunWithin
  <2> QED
    BY <1>2, <2>1, <2>4, DirectionOfBlock
<1> HIDE DEF h, i, j
<1>8. /\ Key[i] = IF Ascending(t) THEN ci ELSE -ci
      /\ Key[j] = IF Ascending(t) THEN cj ELSE -cj
      /\ ci \in Int /\ cj \in Int
  BY <1>3, <1>6, <1>7 DEF Key, Keys, CellAt
<1>9. MustSwap(t, Content(i), Content(j)) <=> IF Ascending(t) THEN ~(ci < cj) ELSE ci < cj
  BY DEF MustSwap
<1>10. ASSUME NEW x \in Places(Width)
       PROVE  Key'[x] = IF x = i THEN Lower(Key, t, h) ELSE IF x = j THEN Upper(Key, t, h) ELSE Key[x]
  <2>1. Key'[x] = IF Upwards(x \div 2, Half) THEN cell[Exchanged(t, i, j, x)]
                  ELSE -cell[Exchanged(t, i, j, x)]
    BY <1>3, <1>4, <1>5 DEF Key, Keys, CellAt
  <2>2. Key[x] = IF Upwards(x \div 2, Half) THEN cell[Content(x)] ELSE -cell[Content(x)]
    BY <1>3 DEF Key, Keys, CellAt
  <2>3. /\ Lower(Key, t, h) = IF Key[i] <= Key[j] THEN Key[i] ELSE Key[j]
        /\ Upper(Key, t, h) = IF Key[i] <= Key[j] THEN Key[j] ELSE Key[i]
    BY DEF Lower, Upper, i, j
  <2>4. CASE x = i
    <3>1. cell[Exchanged(t, i, j, x)] = IF MustSwap(t, Content(i), Content(j)) THEN cj ELSE ci
      BY <2>4 DEF Exchanged
    <3>2. Key'[x] = IF Ascending(t) THEN cell[Exchanged(t, i, j, x)] ELSE -cell[Exchanged(t, i, j, x)]
      BY <1>7, <2>1, <2>4
    <3> HIDE DEF ci, cj
    <3>3. Key'[x] = Lower(Key, t, h)
      BY <1>8, <1>9, <2>3, <3>1, <3>2
    <3> QED
      BY <2>4, <3>3
  <2>5. CASE x = j
    <3>1. cell[Exchanged(t, i, j, x)] = IF MustSwap(t, Content(i), Content(j)) THEN ci ELSE cj
      BY <1>2, <2>5 DEF Exchanged
    <3>2. Key'[x] = IF Ascending(t) THEN cell[Exchanged(t, i, j, x)] ELSE -cell[Exchanged(t, i, j, x)]
      BY <1>7, <2>1, <2>5
    <3> HIDE DEF ci, cj
    <3>3. Key'[x] = Upper(Key, t, h)
      BY <1>8, <1>9, <2>3, <3>1, <3>2
    <3> QED
      BY <1>2, <2>5, <3>3
  <2>6. CASE x # i /\ x # j
    BY <2>1, <2>2, <2>6 DEF Exchanged
  <2> QED
    BY <2>4, <2>5, <2>6
<1>11. Key' = [x \in Places(Width) |-> IF x = i THEN Lower(Key, t, h)
                                       ELSE IF x = j THEN Upper(Key, t, h) ELSE Key[x]]
  <2>1. Key' = [x \in Places(Width) |-> Key'[x]]
    BY <1>4 DEF Key, Keys
  <2> QED
    BY <1>10, <2>1
<1>12. Remaining' = [Remaining EXCEPT ![t] = h \div 2]
  <2> SUFFICES ASSUME NEW v \in Thread
               PROVE  Remaining'[v] = IF v = t THEN h \div 2 ELSE Remaining[v]
    BY <1>3, <1>4 DEF Remaining
  <2>1. Remaining'[v] = IF Far /\ pc'[v] = "done" THEN FirstStep \div 2 ELSE hstep'[v]
    BY <1>2, <1>3, <1>4 DEF Remaining
  <2>2. Remaining[v] = IF Far /\ pc[v] = "done" THEN FirstStep \div 2 ELSE hstep[v]
    BY <1>2, <1>3 DEF Remaining
  <2>3. CASE GlobalExchange(t)
    <3>1. Far /\ h = FirstStep
      BY <1>2, <2>3 DEF GlobalExchange, ThreadInv, FarInv, h
    <3>2. hstep' = hstep /\ pc'[t] = "done" /\ (v # t => pc'[v] = pc[v])
      BY <2>3 DEF GlobalExchange, TypeOK
    <3> QED
      BY <2>1, <2>2, <3>1, <3>2
  <2>4. CASE LocalExchange(t)
    <3>1. ~Far
      BY <1>2, <2>4 DEF LocalExchange
    <3>2. hstep'[t] = h \div 2 /\ (v # t => hstep'[v] = hstep[v])
      BY <2>4 DEF LocalExchange, TypeOK, h
    <3> QED
      BY <2>1, <2>2, <3>1, <3>2
  <2> QED
    BY <2>3, <2>4
<1>13. /\ Remaining[t] = h /\ Leads(Remaining, Width, t)
       /\ \A v \in Runs(Width) : SameRun(v, t, h) => Remaining[v] \in {h, h \div 2}
  BY <1>1, ExchangeGuard DEF h
<1> QED
  BY <1>3, <1>4, <1>11, <1>12, <1>13 DEF Exchanges, i, j


-----------------------------------------------------------------------------
(* The merge invariant is kept by every step.                               *)

LEMMA MergeInit == Init => SortInv /\ MergeInv
<1> SUFFICES ASSUME Init PROVE SortInv /\ MergeInv
  OBVIOUS
<1>1. SortInv /\ host = "dispatch" /\ segmentSize = 2 /\ block = 2
  BY SortInit DEF Init
<1>2. Half = 1 /\ FirstStep = 1
  BY <1>1 DEF Half, FirstStep
<1>3. MergeType(Key, Remaining, Width, Half)
  BY <1>1, KeyTypes
<1>4. \A t \in Runs(Width) : Remaining[t] = Half
  BY <1>1, <1>2 DEF Remaining
<1>5. ASSUME NEW t \in Runs(Width)
      PROVE  Bitonic(Key, Width, 1, t)
  <2> SUFFICES ASSUME NEW i \in Places(Width), NEW j \in Places(Width), NEW k \in Places(Width),
                      NEW l \in Places(Width), i < j, j < k, k < l,
                      SameRun(i \div 2, t, 1), SameRun(l \div 2, t, 1)
               PROVE  FALSE
    BY DEF Bitonic
  <2>1. i \in Nat /\ j \in Nat /\ k \in Nat /\ l \in Nat /\ t \in Nat
    BY <1>1, WidthFacts, ThreadPlaces DEF SortInv, TypeOK
  <2>2. Start(t, 1) \in Nat
    BY <2>1, PairPlaces
  <2>3. 2 * Start(t, 1) <= i /\ l < 2 * Start(t, 1) + 2 * 1
    BY <2>1, BlockInterval
  <2> QED
    BY <2>1, <2>2, <2>3
<1>6. Merging(Key, Remaining, Width, Half)
  BY <1>2, <1>3, <1>4, <1>5, MergeStart
<1> QED
  BY <1>1, <1>6 DEF MergeInv

\* A step within a merge that moves no agent and changes no distance.
LEMMA QuietNext ==
  ASSUME SortInv, MergeInv, [Next]_vars, host # "done", host' # "done",
         segmentSize' = segmentSize, \A s \in Slot : Content(s)' = Content(s),
         Remaining' = Remaining
  PROVE  MergeInv'
BY MergeQuiet DEF MergeInv

\* Shared memory is loaded and stored, and barriers open, in near passes only.
LEMMA NearStep ==
  ASSUME SortInv, NEW t \in Thread, pc[t] \in {"load", "barrier", "store"}
  PROVE  host = "waiting" /\ ~Far
BY DEF SortInv, HostInv, ThreadInv, FarInv

LEMMA MergeNear ==
  ASSUME SortInv, MergeInv, [Next]_vars, UNCHANGED <<hostVars, hstep>>,
         NEW t \in Thread, pc[t] \in {"load", "barrier", "store"},
         \A s \in Slot : Content(s)' = Content(s)
  PROVE  MergeInv'
<1>1. host = "waiting" /\ ~Far /\ host' = host /\ (Far' <=> Far) /\ segmentSize' = segmentSize
  BY NearStep, PhaseKept DEF hostVars
<1>2. Runs(Width)' = Runs(Width)
  BY InputsKept DEF Runs, Width
<1>3. Remaining' = Remaining
  BY <1>1, <1>2 DEF Remaining
<1> QED
  BY <1>1, <1>3, QuietNext

LEMMA MergeDispatch ==
  ASSUME SortInv, MergeInv, Dispatch
  PROVE  MergeInv'
<1>1. /\ host = "dispatch" /\ host' = "waiting" /\ segmentSize' = segmentSize /\ [Next]_vars
      /\ FirstStep' = FirstStep /\ Thread' = Thread
  BY InputsKept DEF Dispatch, FirstStep, Next
<1>2. \A s \in Slot : Content(s)' = Content(s)
  BY HostKeepsContent DEF SortInv
<1>3. Runs(Width) = Thread /\ Runs(Width)' = Thread
  BY <1>1, WidthFacts, InputsKept DEF Runs, Width, SortInv, TypeOK
<1>4. ASSUME NEW t \in Thread
      PROVE  pc'[t] # "done" /\ hstep'[t] = FirstStep
  <2>1. t < size \div 2
    BY ThreadPlaces DEF SortInv, TypeOK
  <2> QED
    BY <2>1 DEF Dispatch, Entry
<1>5. Remaining' = Remaining
  BY <1>1, <1>3, <1>4 DEF Remaining
<1> QED
  BY <1>1, <1>2, <1>5, QuietNext

\* A pass has ended: what the invocations have left to do.
LEMMA PassEnd ==
  ASSUME SortInv, CompletePass
  PROVE  /\ host = "waiting" /\ [Next]_vars /\ Runs(Width) = Thread
         /\ \A s \in Slot : Content(s)' = Content(s) /\ Content(s) = agents[s]
         /\ block > Invocations <=> Far
         /\ Far => \A t \in Thread : Remaining[t] = FirstStep \div 2
         /\ ~Far => \A t \in Thread : Remaining[t] = 0
<1> USE DEF SortInv
<1>1. host = "waiting" /\ host # "done" /\ [Next]_vars /\ \A t \in Thread : pc[t] = "done"
  BY DEF CompletePass, DispatchComplete, Next
<1>2. Runs(Width) = Thread
  BY WidthFacts DEF TypeOK
<1>3. \A s \in Slot : Content(s)' = Content(s)
  BY HostKeepsContent
<1>4. ASSUME NEW s \in Slot
      PROVE  Content(s) = agents[s]
  <2>1. s < Dispatched => s \div 2 \in Thread
    BY SlotThread DEF TypeOK
  <2> QED
    BY <1>1, <2>1, ContentNow DEF Held
<1>5. block > Invocations <=> Far
  <2>1. block = 2 * FirstStep /\ FirstStep \in Nat /\ localSize \in Nat
    BY <1>1, PassDistance, Geometry DEF TypeOK
  <2> QED
    BY <2>1 DEF Far, Invocations
<1>6. Far => \A t \in Thread : Remaining[t] = FirstStep \div 2
  BY <1>1, <1>2 DEF Remaining
<1>7. ASSUME ~Far, NEW t \in Thread
      PROVE  Remaining[t] = 0
  BY <1>1, <1>2, <1>7 DEF Remaining, ThreadInv, NearInv
<1> QED
  BY <1>1, <1>2, <1>3, <1>4, <1>5, <1>6, <1>7

LEMMA MergeHalve ==
  ASSUME SortInv, MergeInv, CompletePass, Far
  PROVE  MergeInv'
<1>1. /\ host = "waiting" /\ host' = "dispatch" /\ segmentSize' = segmentSize /\ [Next]_vars
      /\ FirstStep' = FirstStep \div 2
  BY PassEnd DEF CompletePass, NextPass, HalveBlock, FirstStep
<1>2. Runs(Width) = Thread /\ Runs(Width)' = Thread
  BY <1>1, PassEnd, InputsKept DEF Runs, Width
<1>3. Remaining' = [t \in Thread |-> FirstStep \div 2]
  BY <1>1, <1>2 DEF Remaining
<1>4. Remaining = [t \in Thread |-> FirstStep \div 2]
  <2>1. Remaining = [t \in Thread |-> Remaining[t]]
    BY <1>2 DEF Remaining
  <2> QED
    BY <2>1, PassEnd
<1> QED
  BY <1>1, <1>3, <1>4, PassEnd, QuietNext

\* The last pass of a merge has ended: each half segment is in order, and the next
\* segment is one of these.
LEMMA MergeDone ==
  ASSUME SortInv, MergeInv, CompletePass, ~Far
  PROVE  /\ Half \in Nat \ {0} /\ Half <= Width /\ segmentSize = 2 * Half
         /\ Half' = 2 * Half /\ FirstStep' = Half' /\ segmentSize' = 2 * segmentSize
         /\ block' = segmentSize' /\ host' \in {"dispatch", "done"}
         /\ host' # "done" => 2 * Half <= Width
         /\ host' = "done" => Half = Width
         /\ Width' = Width /\ CellAt' = CellAt /\ CellAt \in [Places(Width) -> Int]
         /\ \A x \in Places(Width) : CellAt[x] = cell'[agents'[x]]
         /\ \A x, y \in Places(Width) :
              x < y /\ SameRun(x \div 2, y \div 2, Half) => Key[x] <= Key[y]
<1>1. host = "waiting" /\ host # "done" /\ [Next]_vars /\ Runs(Width) = Thread
  BY PassEnd
<1>2. /\ Half \in Nat \ {0} /\ Half <= Width /\ segmentSize = 2 * Half
      /\ Width \in Nat /\ Dispatched = 2 * Width
  BY <1>1, HalfFacts, WidthFacts DEF SortInv, TypeOK
<1>3. ~(block > Invocations)
  BY PassEnd
<1>4. /\ segmentSize' = 2 * segmentSize /\ block' = segmentSize'
      /\ host' \in {"dispatch", "done"} /\ agents' = agents
  BY <1>3 DEF CompletePass, NextPass
<1>5. Half' = 2 * Half /\ FirstStep' = Half'
  BY <1>2, <1>4 DEF Half, FirstStep
<1>6. /\ host' # "done" => segmentSize' <= Dispatched
      /\ host' = "done" => segmentSize' = 2 * Dispatched
  BY <1>1, HostNext, InputsKept DEF HostInv
<1>7. /\ host' # "done" => 2 * Half <= Width
      /\ host' = "done" => Half = Width
  BY <1>2, <1>4, <1>6
<1>8. Width' = Width /\ cell' = cell
  BY <1>1, InputsKept DEF Width
<1>9. \A x \in Places(Width) : x \in Slot
  BY WidthFacts DEF SortInv, TypeOK
<1>10. CellAt' = CellAt /\ CellAt \in [Places(Width) -> Int]
  BY <1>1, <1>8, <1>9, PassEnd, KeyTypes DEF CellAt
<1>11. \A x \in Places(Width) : CellAt[x] = cell'[agents'[x]]
  BY <1>4, <1>8, <1>9, PassEnd DEF CellAt
<1>12. \A x, y \in Places(Width) :
         x < y /\ SameRun(x \div 2, y \div 2, Half) => Key[x] <= Key[y]
  BY <1>1, PassEnd, MergeEnd DEF MergeInv
<1> QED
  BY <1>2, <1>4, <1>5, <1>7, <1>8, <1>10, <1>11, <1>12

\* The next merge starts from bitonic blocks ...
LEMMA MergeNewSegment ==
  ASSUME SortInv, MergeInv, CompletePass, ~Far, host' # "done"
  PROVE  MergeInv'
<1> DEFINE W == Width
           H == Half
<1>1. /\ H \in Nat \ {0} /\ 2 * H \in Nat \ {0} /\ 2 * H <= W /\ host' = "dispatch"
      /\ CellAt \in [Places(W) -> Int] /\ W' = W /\ H' = 2 * H /\ FirstStep' = 2 * H
  BY MergeDone
<1>2. W \in Nat \ {0} /\ IsPowerOfTwo(W) /\ IsPowerOfTwo(2 * H)
  <2>1. W \in Nat \ {0} /\ IsPowerOfTwo(W)
    BY WidthFacts DEF SortInv, TypeOK
  <2>2. segmentSize = 2 * H /\ IsPowerOfTwo(segmentSize)
    BY MergeDone DEF SortInv, HostInv
  <2> QED
    BY <2>1, <2>2
<1>3. Fill(W, 2 * H)
  BY <1>1, <1>2, PowerDivides DEF Fill
<1>4. Key' = Keys(CellAt, W, 2 * H)
  BY <1>1, MergeDone DEF Key
<1>5. Remaining' = [t \in Runs(W) |-> 2 * H]
  BY <1>1 DEF Remaining
<1>6. \A x, y \in Places(W) :
        x < y /\ SameRun(x \div 2, y \div 2, H) => Keys(CellAt, W, H)[x] <= Keys(CellAt, W, H)[y]
  BY MergeDone DEF Key
<1> HIDE DEF W, H
<1>7. \A t \in Runs(W) : Bitonic(Keys(CellAt, W, 2 * H), W, 2 * H, t)
  BY <1>1, <1>3, <1>6, SegmentsMakeBlock
<1>8. Keys(CellAt, W, 2 * H) \in [Places(W) -> Int]
  BY <1>1 DEF Keys
<1>9. MergeType(Keys(CellAt, W, 2 * H), [t \in Runs(W) |-> 2 * H], W, 2 * H)
  BY <1>1, <1>2, <1>8 DEF MergeType
<1>10. Merging(Keys(CellAt, W, 2 * H), [t \in Runs(W) |-> 2 * H], W, 2 * H)
  BY <1>7, <1>9, MergeStart
<1>11. Merging(Key', Remaining', Width', Half')
  BY <1>1, <1>4, <1>5, <1>10 DEF W, H
<1> QED
  BY <1>1, <1>11 DEF MergeInv

\* ... and after the merge of a single segment all are in order.
LEMMA MergeLast ==
  ASSUME SortInv, MergeInv, CompletePass, ~Far, host' = "done"
  PROVE  MergeInv'
<1>1. /\ Width \in Nat \ {0} /\ 2 * Width \in Nat \ {0} /\ Half = Width /\ Width' = Width
      /\ \A x \in Places(Width) : x \in Nat /\ x \div 2 \in Nat /\ x \div 2 < Width
  <2>1. /\ Width \in Nat \ {0} /\ Runs(Width) = Thread
        /\ \A x \in Places(Width) : x \in Nat /\ x \div 2 \in Thread
    BY WidthFacts DEF SortInv, TypeOK
  <2> QED
    BY <2>1, MergeDone DEF Runs
<1>2. ASSUME NEW u \in Nat, u < Width, NEW k \in Nat \ {0}, Width <= k
      PROVE  Start(u, k) = 0
  <2>1. k * 0 = 0 /\ 0 <= u /\ u < k
    BY <1>1, <1>2
  <2>2. u \div k = 0
    BY <2>1, DivisionUnique
  <2> QED
    BY <2>1, <2>2 DEF Start
<1>3. \A u \in Nat : u < Width => Upwards(u, Width)
  BY <1>1, <1>2 DEF Upwards
<1>4. \A u, v \in Nat : u < Width /\ v < Width => SameRun(u, v, Width)
  BY <1>1, <1>2 DEF SameRun
<1>5. \A x \in Places(Width) : Key[x] = cell'[agents'[x]]
  BY <1>1, <1>3, MergeDone DEF Key, Keys
<1>6. \A x, y \in Places(Width) : x < y => cell'[agents'[x]] <= cell'[agents'[y]]
  BY <1>1, <1>4, <1>5, MergeDone
<1>7. InOrder'
  BY <1>1, <1>6 DEF InOrder
<1> QED
  BY <1>7 DEF MergeInv

LEMMA MergeNext ==
  ASSUME SortInv, MergeInv, [Next]_vars
  PROVE  MergeInv'
<1>1. CASE Dispatch
  BY <1>1, MergeDispatch
<1>2. CASE CompletePass
  BY <1>2, MergeHalve, MergeNewSegment, MergeLast
<1>3. CASE UNCHANGED vars
  <2>1. host' = host /\ segmentSize' = segmentSize /\ hstep' = hstep /\ pc' = pc
        /\ block' = block /\ agents' = agents /\ cell' = cell
    BY <1>3 DEF vars, inputs, hostVars
  <2>2. Width' = Width
    BY InputsKept DEF Width
  <2>3. \A s \in Slot : Content(s)' = Content(s)
    BY <1>3, HostKeepsContent DEF SortInv
  <2>4. CASE host = "done"
    BY <2>1, <2>2, <2>4 DEF MergeInv, InOrder
  <2>5. CASE host # "done"
    <3>1. FirstStep' = FirstStep /\ (Far' <=> Far)
      BY <2>1, InputsKept DEF FirstStep, Far
    <3>2. Remaining' = Remaining
      BY <2>1, <2>2, <3>1 DEF Remaining
    <3> QED
      BY <2>1, <2>3, <2>5, <3>2, QuietNext
  <2> QED
    BY <2>4, <2>5
<1>4. ASSUME NEW t \in Thread, GlobalExchange(t) \/ LocalExchange(t)
      PROVE  MergeInv'
  <2>1. host # "done" /\ host' # "done"
    BY <1>4, ExchangeDistance DEF SortInv, GlobalExchange, LocalExchange, hostVars
  <2>2. Exchanges(Key, Remaining, Width, t, Key', Remaining') /\ Width' = Width /\ Half' = Half
    BY <1>4, ExchangeSorts
  <2>3. Merging(Key', Remaining', Width, Half)
    BY <2>1, <2>2, MergeStep DEF MergeInv
  <2> QED
    BY <2>1, <2>2, <2>3 DEF MergeInv
<1>5. ASSUME NEW t \in Thread, Load(t)
      PROVE  MergeInv'
  BY <1>5, MergeNear, LoadKeepsContent DEF Load, SortInv
<1>6. ASSUME NEW t \in Thread, Store(t)
      PROVE  MergeInv'
  BY <1>6, MergeNear, StoreKeepsContent DEF Store, SortInv
<1>7. ASSUME NEW g \in Group, PassBarrier(g)
      PROVE  MergeInv'
  <2>1. PICK t \in Thread : pc[t] = "barrier"
    BY <1>7 DEF PassBarrier
  <2>2. \A s \in Slot : Content(s)' = Content(s)
    BY <1>7, BarrierKeepsContent DEF SortInv
  <2> QED
    BY <1>7, <2>1, <2>2, MergeNear DEF PassBarrier
<1> QED
  BY <1>1, <1>2, <1>3, <1>4, <1>5, <1>6, <1>7, StepCases


-----------------------------------------------------------------------------
(* The invariant of the host's loop.                                        *)

\* Two neighbours in the run b of w slots are places of one half segment, which is
\* sorted upwards exactly if b is even.
LEMMA RunOfSlots ==
  ASSUME NEW H \in Nat \ {0}, NEW b \in Nat, NEW s \in Nat,
         b * (2 * H) <= s, s + 1 <= b * (2 * H) + 2 * H - 1
  PROVE  /\ SameRun(s \div 2, (s + 1) \div 2, H)
         /\ Upwards(s \div 2, H) <=> b % 2 = 0
         /\ Upwards((s + 1) \div 2, H) <=> b % 2 = 0
<1> DEFINE p == H * b
           c == b \div 2
           q == H * c
<1>1. p \in Nat /\ c \in Nat /\ q \in Nat /\ b * (2 * H) = 2 * p
  <2>1. c \in Nat
    OBVIOUS
  <2> HIDE DEF c
  <2>2. p \in Nat /\ q \in Nat /\ b * (2 * H) = 2 * (H * b)
    BY <2>1
  <2> QED
    BY <2>1, <2>2
<1>2. /\ b % 2 = 0 => p = 2 * q
      /\ b % 2 # 0 => p = 2 * q + H
  <2>1. (b % 2 = 0 => b = 2 * c) /\ (b % 2 # 0 => b = 2 * c + 1)
    OBVIOUS
  <2> HIDE DEF c
  <2>2. H * (2 * c) = 2 * (H * c) /\ H * (2 * c + 1) = 2 * (H * c) + H
    BY <1>1
  <2> QED
    BY <2>1, <2>2
<1>3. (2 * H) * c = 2 * q
  <2> HIDE DEF c
  <2> QED
    BY <1>1
<1> HIDE DEF p, c, q
<1>4. ASSUME NEW x \in Nat, 2 * p <= x, x < 2 * p + 2 * H
      PROVE  /\ x \div 2 \in Nat /\ Start(x \div 2, H) = p
             /\ Upwards(x \div 2, H) <=> b % 2 = 0
  <2> DEFINE u == x \div 2
  <2>1. u \in Nat /\ p <= u /\ u < p + H
    BY <1>1, <1>4
  <2> HIDE DEF u
  <2>2. u \div H = b
    BY <2>1, DivisionUnique DEF p
  <2>3. Start(u, H) = p
    BY <2>2 DEF Start, p
  <2>4. 2 * q <= u /\ u < 2 * q + 2 * H
    BY <1>1, <1>2, <2>1
  <2>5. u \div (2 * H) = c
    BY <1>1, <1>3, <2>1, <2>4, DivisionUnique
  <2>6. Start(u, 2 * H) = 2 * q
    BY <1>3, <2>5 DEF Start
  <2>7. Upwards(u, H) <=> b % 2 = 0
    BY <1>1, <1>2, <2>1, <2>6 DEF Upwards
  <2> QED
    BY <2>1, <2>3, <2>7 DEF u
<1>5. 2 * p <= s /\ s + 1 < 2 * p + 2 * H /\ s + 1 \in Nat
  BY <1>1
<1>6. /\ Start(s \div 2, H) = p /\ Start((s + 1) \div 2, H) = p
      /\ Upwards(s \div 2, H) <=> b % 2 = 0
      /\ Upwards((s + 1) \div 2, H) <=> b % 2 = 0
  BY <1>1, <1>4, <1>5
<1> QED
  BY <1>6 DEF SameRun

LEMMA AlternatingNewSegment ==
  ASSUME SortInv, MergeInv, CompletePass, ~Far
  PROVE  AlternatingRuns'
<1> DEFINE H == Half
           w == 2 * H
<1>1. /\ H \in Nat \ {0} /\ Width \in Nat \ {0} /\ Dispatched = 2 * Width
      /\ Dispatched' = Dispatched /\ segmentSize' \div 2 = w
      /\ CellAt \in [Places(Width) -> Int]
      /\ \A x \in Places(Width) : CellAt[x] = cell'[agents'[x]]
  <2>1. H \in Nat \ {0} /\ segmentSize' \div 2 = w
    BY MergeDone DEF Half
  <2>2. Width \in Nat \ {0} /\ Dispatched = 2 * Width
    BY WidthFacts DEF SortInv, TypeOK
  <2> QED
    BY <2>1, <2>2, PassEnd, InputsKept, MergeDone
<1>2. SUFFICES ASSUME NEW b \in 0 .. (Dispatched \div w) - 1, NEW s \in b * w .. b * w + w - 2
               PROVE  IF b % 2 = 0 THEN cell'[agents'[s]] <= cell'[agents'[s + 1]]
                                   ELSE cell'[agents'[s]] >= cell'[agents'[s + 1]]
  BY <1>1 DEF AlternatingRuns, Monotone
<1>3. b \in Nat /\ b * w \in Nat /\ w \in Nat \ {0} /\ b * w + w <= 2 * Width
  <2> HIDE DEF H
  <2>1. w \in Nat \ {0} /\ 2 * Width \in Nat
    BY <1>1
  <2> HIDE DEF w
  <2> DEFINE d == Dispatched \div w
  <2>2. d \in Nat /\ w * d <= 2 * Width
    BY <1>1, <2>1, DivisionBounds
  <2>3. b \in Nat /\ b < d
    BY <2>2
  <2> HIDE DEF d
  <2>4. w * b + w <= w * d /\ w * d \in Int /\ w * b = b * w /\ b * w \in Nat
    BY <2>1, <2>2, <2>3, MultiplesOrder
  <2> QED
    BY <1>1, <2>1, <2>2, <2>3, <2>4
<1>4. /\ s \in Nat /\ b * w <= s /\ s + 1 <= b * w + w - 1
      /\ s \in Places(Width) /\ s + 1 \in Places(Width)
  BY <1>1, <1>3 DEF Places
<1> HIDE DEF H
<1>5. /\ SameRun(s \div 2, (s + 1) \div 2, H)
      /\ Upwards(s \div 2, H) <=> b % 2 = 0
      /\ Upwards((s + 1) \div 2, H) <=> b % 2 = 0
  BY <1>1, <1>3, <1>4, RunOfSlots
<1>6. Key[s] <= Key[s + 1]
  <2>1. s < s + 1
    BY <1>4
  <2> QED
    BY <1>4, <1>5, <2>1, MergeDone DEF H
<1>7. /\ Key[s] = IF b % 2 = 0 THEN CellAt[s] ELSE -CellAt[s]
      /\ Key[s + 1] = IF b % 2 = 0 THEN CellAt[s + 1] ELSE -CellAt[s + 1]
  BY <1>4, <1>5 DEF Key, Keys, H
<1>8. CellAt[s] \in Int /\ CellAt[s + 1] \in Int
  BY <1>1, <1>4
<1>9. IF b % 2 = 0 THEN CellAt[s] <= CellAt[s + 1] ELSE CellAt[s] >= CellAt[s + 1]
  BY <1>6, <1>7, <1>8
<1> QED
  BY <1>1, <1>4, <1>9

LEMMA AlternatingInit == Init => AlternatingRuns
<1> SUFFICES ASSUME Init, NEW b \in 0 .. (Dispatched \div 1) - 1, NEW s \in b * 1 .. b * 1 + 1 - 2
             PROVE  FALSE
  BY DEF Init, AlternatingRuns, Monotone
<1>1. <<size, localSize>> \in Sizes
  BY SortInit DEF SortInv, TypeOK
<1>2. Dispatched \in Nat
  BY <1>1, Geometry
<1>3. b \in Nat
  BY <1>2
<1> QED
  BY <1>3

LEMMA AlternatingNext ==
  ASSUME SortInv, MergeInv, AlternatingRuns, [Next]_vars
  PROVE  AlternatingRuns'
<1>1. CASE CompletePass
  <2>1. CASE Far
    <3>1. /\ host = "waiting" /\ block > Invocations /\ host # "done"
          /\ block \in Nat /\ segmentSize \in Nat /\ block <= segmentSize
      BY <1>1, <2>1, PassEnd DEF SortInv, TypeOK
    <3>2. block' = block \div 2 /\ segmentSize' = segmentSize
      BY <1>1, <3>1 DEF CompletePass, NextPass, HalveBlock
    <3>3. block = 2 * FirstStep /\ FirstStep \in Nat \ {0}
      BY <3>1, PassDistance DEF SortInv
    <3>4. block' # segmentSize'
      BY <3>1, <3>2, <3>3 DEF FirstStep
    <3> QED
      BY <3>4 DEF AlternatingRuns
  <2>2. CASE ~Far
    BY <1>1, <2>2, AlternatingNewSegment
  <2> QED
    BY <2>1, <2>2
<1>2. CASE UNCHANGED vars
  BY <1>2, InputsKept DEF vars, inputs, hostVars, AlternatingRuns, Monotone
<1>3. CASE ~CompletePass /\ ~UNCHANGED vars
  <2>1. host' # "dispatch"
    <3>1. ASSUME NEW t \in Thread, pc[t] # "done", UNCHANGED hostVars
          PROVE  host' # "dispatch"
      BY <3>1 DEF SortInv, HostInv, hostVars
    <3>2. ASSUME NEW g \in Group, PassBarrier(g)
          PROVE  \E t \in Thread : pc[t] # "done" /\ UNCHANGED hostVars
      <4>1. PICK t \in Thread : pc[t] = "barrier"
        BY <3>2 DEF PassBarrier
      <4> QED
        BY <3>2, <4>1 DEF PassBarrier
    <3>3. ASSUME NEW t \in Thread, GlobalExchange(t) \/ Load(t) \/ LocalExchange(t) \/ Store(t)
          PROVE  pc[t] # "done" /\ UNCHANGED hostVars
      BY <3>3 DEF GlobalExchange, Load, LocalExchange, Store
    <3>4. Dispatch => host' # "dispatch"
      BY DEF Dispatch
    <3> QED
      BY <1>3, <3>1, <3>2, <3>3, <3>4, StepCases
  <2> QED
    BY <2>1 DEF AlternatingRuns
<1> QED
  BY <1>1, <1>2, <1>3


-----------------------------------------------------------------------------
(* What follows from it.                                                    *)

LEMMA MergeInvAlways == Spec => [](SortInv /\ MergeInv /\ AlternatingRuns)
<1>1. Init => SortInv /\ MergeInv /\ AlternatingRuns
  BY MergeInit, AlternatingInit
<1>2. SortInv /\ MergeInv /\ AlternatingRuns /\ [Next]_vars
        => (SortInv /\ MergeInv /\ AlternatingRuns)'
  BY SortInvNext, MergeNext, AlternatingNext
<1> QED
  BY <1>1, <1>2, PTL DEF Spec

\* The invariant of the host's outer loop: when a merge begins the half segments are
\* sorted in alternating directions (SimulationGPU.cpp:156-172), whatever order the
\* invocations and the work-groups of all the dispatches before it ran in.
THEOREM SortKeepsRuns == Spec => []AlternatingRuns
BY MergeInvAlways, PTL

\* When the loop has ended, the slots hold a permutation of the agents in which the
\* dispatched ones are in cell order and each of the others is where it was.
SortedAtEnd ==
  host = "done" =>
    /\ \A s, u \in Slot : s # u => agents[s] # agents[u]
    /\ \A s \in 1 .. Dispatched - 1 : cell[agents[s - 1]] <= cell[agents[s]]
    /\ \A s \in Dispatched .. size - 1 : agents[s] = s

LEMMA InvSortedAtEnd ==
  ASSUME SortInv, MergeInv
  PROVE  SortedAtEnd
<1> SUFFICES ASSUME host = "done"
             PROVE  /\ \A s, u \in Slot : s # u => agents[s] # agents[u]
                    /\ \A s \in 1 .. Dispatched - 1 : cell[agents[s - 1]] <= cell[agents[s]]
                    /\ \A s \in Dispatched .. size - 1 : agents[s] = s
  BY DEF SortedAtEnd
<1>1. /\ Dispatched \in Nat \ {0} /\ Dispatched = 2 * Width /\ Width \in Nat \ {0}
      /\ size \in Nat \ {0}
  BY Geometry, WidthFacts DEF SortInv, TypeOK
<1>2. ASSUME NEW s \in Slot
      PROVE  Content(s) = agents[s]
  <2>1. s < Dispatched => s \div 2 \in Thread
    BY <1>2, SlotThread DEF SortInv, TypeOK
  <2> QED
    BY <1>2, <2>1, ContentNow DEF Held, SortInv, HostInv
<1>3. \A s, u \in Slot : s # u => agents[s] # agents[u]
  BY <1>2 DEF SortInv, ContentInv
<1>4. ASSUME NEW s \in 1 .. Dispatched - 1
      PROVE  cell[agents[s - 1]] <= cell[agents[s]]
  <2>1. s - 1 \in Places(Width) /\ s \in Places(Width) /\ s - 1 < s
    BY <1>1, <1>4 DEF Places
  <2> QED
    BY <2>1 DEF MergeInv, InOrder
<1>5. \A s \in Dispatched .. size - 1 : agents[s] = s
  BY <1>1 DEF SortInv, ContentInv, Slot
<1> QED
  BY <1>3, <1>4, <1>5

\* BitonicSort sorts, for every number of agents SortAssumption admits, every
\* assignment of cells and every interleaving (SimulationGPU.cpp:149-172,
\* FlockSort.glsl:43-89).
THEOREM SortSorts == Spec => []SortedAtEnd
<1>1. SortInv /\ MergeInv => SortedAtEnd
  BY InvSortedAtEnd
<1> QED
  BY <1>1, MergeInvAlways, PTL

-----------------------------------------------------------------------------
(* The abstract sort.                                                       *)

LEMMA AbstractInit == Init => Abstract!SortInit
<1> SUFFICES ASSUME Init PROVE Abstract!SortInit
  OBVIOUS
<1>1. cell \in [Slot -> Nat]
  BY SortAssumption DEF Init
<1> QED
  BY <1>1 DEF Init, Abstract!SortInit, Abstract!Slot, Slot

LEMMA AbstractStep ==
  ASSUME SortInv, SortInv', SortedAtEnd', [Next]_vars
  PROVE  [Abstract!DoSort]_(Abstract!sortVars)
<1> DEFINE before == IF host = "done" THEN agents ELSE [s \in Slot |-> s]
           after == IF host' = "done" THEN agents' ELSE [s \in Slot |-> s]
<1>1. /\ size' = size /\ Dispatched' = Dispatched /\ cell' = cell /\ Slot' = Slot
  BY InputsKept
<1>2. CASE host = "done"
  <2>1. host' = "done" /\ agents' = agents
    <3>1. UNCHANGED vars
      <4>1. \A t \in Thread : pc[t] = "done"
        BY <1>2 DEF SortInv, HostInv
      <4> QED
        BY <1>2, <4>1, StepCases DEF Dispatch, CompletePass, GlobalExchange, Load,
           LocalExchange, Store, PassBarrier
    <3> QED
      BY <1>2, <3>1 DEF vars, hostVars
  <2> QED
    BY <1>1, <1>2, <2>1 DEF Abstract!sortVars
<1>3. CASE host # "done" /\ host' # "done"
  BY <1>1, <1>3 DEF Abstract!sortVars
<1>4. CASE host # "done" /\ host' = "done"
  <2>1. /\ \A s, u \in Slot : s # u => agents'[s] # agents'[u]
        /\ \A s \in 1 .. Dispatched - 1 : cell[agents'[s - 1]] <= cell[agents'[s]]
        /\ \A s \in Dispatched .. size - 1 : agents'[s] = s
    BY <1>1, <1>4 DEF SortedAtEnd
  <2>2. agents' \in [Slot -> Slot]
    BY <1>1 DEF SortInv, TypeOK
  <2>3. \A s \in Dispatched .. size - 1 : s \in Slot
    <3>1. Dispatched \in Nat /\ size \in Nat
      BY Geometry DEF SortInv, TypeOK
    <3> QED
      BY <3>1 DEF Slot
  <2>4. Abstract!DoSort
    BY <1>1, <1>4, <2>1, <2>2, <2>3
    DEF Abstract!DoSort, Abstract!IsPermutation, Abstract!InCellOrder, Abstract!Slot, Slot
  <2> QED
    BY <2>4
<1> QED
  BY <1>2, <1>3, <1>4

\* The safety part of ImplementsSort: the dispatches of BitonicSort together are one
\* step of the abstract sort, and every other step leaves what the rest of the
\* frame relies on unchanged.
THEOREM SortImplements == Spec => Abstract!SortInit /\ [][Abstract!DoSort]_(Abstract!sortVars)
<1>1. SortInv /\ SortInv' /\ SortedAtEnd' /\ [Next]_vars => [Abstract!DoSort]_(Abstract!sortVars)
  BY AbstractStep
<1> QED
  BY <1>1, AbstractInit, SortInvAlways, SortSorts, PTL DEF Spec

\* A behaviour in which the host's loop ends is one of the abstract sort: that it ends
\* is the one part of ImplementsSort that is left to the runs.
THEOREM SortImplementsIfItEnds == Spec /\ <>(host = "done") => ImplementsSort
BY SortImplements, PTL DEF ImplementsSort, Abstract!SortBehaviour, Abstract!SortEventually
=============================================================================
