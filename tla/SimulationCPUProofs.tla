------------------------ MODULE SimulationCPUProofs ------------------------
(***************************************************************************)
(* What the frames of the CPU simulation and their octree guarantee for    *)
(* every number of agents, depth and size of nodes, radius and             *)
(* displacement, and wherever the agents are.                              *)
(*                                                                         *)
(* None of the properties of the tree is inductive: they speak of the tree *)
(* between two insertions.  Within one, an agent that a leaf is still to   *)
(* get has a call waiting for a node on the way to that leaf (Promised),   *)
(* and a call that waits puts nobody in twice (Once).                      *)
(***************************************************************************)
EXTENDS SimulationCPU, FiniteSetTheorems, TLAPS

-----------------------------------------------------------------------------
(* The inductive invariant.                                                 *)

HalfSide == CHOOSE h \in [0 .. MaxDepth -> 1 .. MaxBound] : IsHalfSides(h)

FrameOK ==
  /\ pos \in [Agent -> StartSpace] /\ treePos \in [Agent -> StartSpace]
  /\ next \in 0 .. NumAgents
  /\ phase \in {"input", "build", "flock"}
  /\ useOctree \in BOOLEAN /\ paused \in BOOLEAN
  /\ phase = "build" => useOctree /\ pos = treePos
  /\ phase # "build" => calls = <<>>
  /\ EachMovedOnce
  /\ flown \in BOOLEAN
  /\ flown => \A a \in Agent : pos[a] \in Space /\ (phase # "input" => treePos[a] \in Space)

NodeType ==
  [position : [Axis -> Int], size : Nat, contents : Seq(Agent), isLeaf : BOOLEAN]

TreeType ==
  /\ DOMAIN tree \subseteq Seq(Child) /\ <<>> \in DOMAIN tree
  /\ tree \in [DOMAIN tree -> NodeType]

CallType == calls \in Seq([node : DOMAIN tree, agent : Inserted])

\* The box of v is a part of the box of w.
Within(v, w) ==
  \A a \in Axis : /\ w.position[a] - w.size <= v.position[a] - v.size
                  /\ v.position[a] + v.size <= w.position[a] + w.size

\* Sides halve, nodes below a node are in its box, and there are none below a leaf.
Nested ==
  /\ \A n \in DOMAIN tree : Len(n) <= MaxDepth /\ tree[n].size = HalfSide[Len(n)]
  /\ \A n \in Inner : Len(n) < MaxDepth /\ Children(n) \subseteq DOMAIN tree
  /\ \A m, n \in DOMAIN tree :
       OnWay(m, n) => Within(tree[n], tree[m]) /\ (m \in Leaves => m = n)

In(p, v) == PointContained(p, v.position, v.size)

\* v is around p with room on the side of q, unless p is on the bound of the space there.
Toward(p, q, v) ==
  \A a \in Axis :
    /\ p[a] < q[a] /\ p[a] < MaxBound => p[a] < v.position[a] + v.size
    /\ q[a] < p[a] /\ -MaxBound < p[a] => v.position[a] - v.size < p[a]

\* No agent within the bounds is outside of all leaves, and seen from anywhere there is
\* one around it that reaches towards there: a face has a leaf on either side.
Covered ==
  \A a \in Agent, q \in StartSpace :
    treePos[a] \in Space =>
      \E l \in Leaves : In(treePos[a], tree[l]) /\ Toward(treePos[a], q, tree[l])

\* The plane of axis a through the middle of n is between v and w.
Between(v, w, n, a) ==
  \/ v.position[a] + v.size <= n.position[a] /\ n.position[a] <= w.position[a] - w.size
  \/ w.position[a] + w.size <= n.position[a] /\ n.position[a] <= v.position[a] - v.size

\* Two leaves meet in the middle of an inner node at most.
Separated ==
  \A l, k \in Leaves :
    l # k => \E n \in Inner : \E a \in Axis : Between(tree[l], tree[k], tree[n], a)

Holds(l, a) == \E k \in DOMAIN tree[l].contents : tree[l].contents[k] = a

\* A leaf has nobody twice, nobody from outside, and not too many.
ContentsOK ==
  /\ \A l \in Leaves :
       LET c == tree[l].contents
       IN  /\ \A j, k \in DOMAIN c : c[j] = c[k] => j = k
           /\ \A k \in DOMAIN c : c[k] \in InBox(l)
           /\ Len(c) <= MaxSize \/ DepthLeft(l) = 0
  /\ \A n \in Inner : Cardinality(InBox(n)) > MaxSize

Waiting(a, l) == \E j \in DOMAIN calls : calls[j].agent = a /\ OnWay(calls[j].node, l)

\* An agent in the box of a leaf is in the leaf or on its way there.
Promised == \A l \in Leaves : \A a \in InBox(l) : Holds(l, a) \/ Waiting(a, l)

\* A waiting call is for leaves that do not have its agent, and the only one that
\* is on the way to them.
Once ==
  /\ \A j \in DOMAIN calls : \A l \in Leaves :
       OnWay(calls[j].node, l) => ~Holds(l, calls[j].agent)
  /\ \A i, j \in DOMAIN calls :
       i # j /\ calls[i].agent = calls[j].agent => ~OnWay(calls[i].node, calls[j].node)

TreeOK ==
  TreeType /\ CallType /\ Nested /\ Covered /\ Separated /\ ContentsOK /\ Promised /\ Once

CPUInv == FrameOK /\ (phase # "input" => TreeOK)

-----------------------------------------------------------------------------
(* Ways from the root.                                                      *)

LEMMA FunctionIsSeq ==
  ASSUME NEW S, NEW n \in Nat, NEW f \in [1 .. n -> S]
  PROVE  f \in Seq(S) /\ Len(f) = n
OBVIOUS

LEMMA AppendedWay ==
  ASSUME NEW n \in Seq(Child), NEW i \in Child
  PROVE  /\ Append(n, i) \in Seq(Child) /\ Len(Append(n, i)) = Len(n) + 1 /\ Len(n) \in Nat
         /\ Append(n, i)[Len(n) + 1] = i /\ Append(n, i) # <<>>
         /\ \A j \in 1 .. Len(n) : Append(n, i)[j] = n[j]
OBVIOUS

LEMMA SameWay ==
  ASSUME NEW m \in Seq(Child), NEW n \in Seq(Child), Len(m) = Len(n),
         \A i \in 1 .. Len(m) : m[i] = n[i]
  PROVE  m = n
OBVIOUS

LEMMA OnWayOrder ==
  ASSUME NEW l \in Seq(Child), NEW m \in Seq(Child), NEW n \in Seq(Child)
  PROVE  /\ OnWay(<<>>, n) /\ OnWay(n, n)
         /\ OnWay(l, m) /\ OnWay(m, n) => OnWay(l, n)
         /\ OnWay(m, n) /\ OnWay(n, m) => m = n
         /\ OnWay(m, n) => m = n \/ Len(m) < Len(n)
<1>1. Len(l) \in Nat /\ Len(m) \in Nat /\ Len(n) \in Nat /\ Len(<<>>) = 0
  OBVIOUS
<1>2. OnWay(<<>>, n) /\ OnWay(n, n)
  BY <1>1 DEF OnWay
<1>3. OnWay(l, m) /\ OnWay(m, n) => OnWay(l, n)
  BY <1>1 DEF OnWay
<1>4. OnWay(m, n) => m = n \/ Len(m) < Len(n)
  BY <1>1, SameWay DEF OnWay
<1> QED
  BY <1>1, <1>2, <1>3, <1>4 DEF OnWay

\* On the way to a child are what is on the way to its parent, and itself.
LEMMA OnWayToChild ==
  ASSUME NEW m \in Seq(Child), NEW n \in Seq(Child), NEW i \in Child
  PROVE  OnWay(m, Append(n, i)) <=> OnWay(m, n) \/ m = Append(n, i)
<1> DEFINE c == Append(n, i)
<1>1. c \in Seq(Child) /\ Len(c) = Len(n) + 1 /\ Len(n) \in Nat /\ Len(m) \in Nat
      /\ \A j \in 1 .. Len(n) : c[j] = n[j]
  BY AppendedWay
<1> HIDE DEF c
<1>2. OnWay(m, n) => OnWay(m, c)
  BY <1>1 DEF OnWay
<1>3. m = c => OnWay(m, c)
  BY <1>1, OnWayOrder
<1>4. ASSUME OnWay(m, c), m # c PROVE OnWay(m, n)
  <2>1. Len(m) < Len(c)
    BY <1>1, <1>4, OnWayOrder
  <2> QED
    BY <1>1, <1>4, <2>1 DEF OnWay
<1> QED
  BY <1>2, <1>3, <1>4 DEF c

\* What lies below a node lies in one of its children.
LEMMA BelowInChild ==
  ASSUME NEW n \in Seq(Child), NEW l \in Seq(Child), OnWay(n, l), n # l
  PROVE  \E i \in Child : OnWay(Append(n, i), l)
<1>1. Len(n) < Len(l) /\ Len(n) \in Nat /\ Len(l) \in Nat
  BY OnWayOrder
<1> DEFINE i == l[Len(n) + 1]
<1>2. i \in Child
  BY <1>1
<1>3. /\ Len(Append(n, i)) = Len(n) + 1 /\ Append(n, i)[Len(n) + 1] = i
      /\ \A j \in 1 .. Len(n) : Append(n, i)[j] = n[j]
  BY <1>2, AppendedWay
<1>4. OnWay(Append(n, i), l)
  <2>1. ASSUME NEW j \in 1 .. Len(n) + 1 PROVE Append(n, i)[j] = l[j]
    <3>1. CASE j = Len(n) + 1
      BY <1>3, <3>1
    <3>2. CASE j # Len(n) + 1
      <4>1. j \in 1 .. Len(n)
        BY <1>1, <3>2
      <4> QED
        BY <1>3, <4>1 DEF OnWay
    <3> QED
      BY <3>1, <3>2
  <2> QED
    BY <1>1, <1>3, <2>1 DEF OnWay
<1> QED
  BY <1>2, <1>4

\* Neither a child and its parent nor two children have the one on the way to the other.
LEMMA ChildrenApart ==
  ASSUME NEW n \in Seq(Child), NEW i \in Child, NEW j \in Child
  PROVE  /\ ~OnWay(Append(n, i), n) /\ Append(n, i) # n
         /\ i # j => ~OnWay(Append(n, i), Append(n, j)) /\ Append(n, i) # Append(n, j)
<1>1. /\ Append(n, i) \in Seq(Child) /\ Len(Append(n, i)) = Len(n) + 1 /\ Len(n) \in Nat
      /\ Append(n, i)[Len(n) + 1] = i /\ Append(n, j)[Len(n) + 1] = j
  BY AppendedWay
<1>2. ~OnWay(Append(n, i), n)
  BY <1>1 DEF OnWay
<1>3. OnWay(n, n)
  BY OnWayOrder
<1>4. i # j => ~OnWay(Append(n, i), Append(n, j))
  BY <1>1 DEF OnWay
<1>5. OnWay(Append(n, j), Append(n, j))
  BY AppendedWay, OnWayOrder
<1> QED
  BY <1>1, <1>2, <1>3, <1>4

LEMMA ChildrenDef ==
  ASSUME NEW n, NEW c
  PROVE  c \in Children(n) <=> \E i \in Child : c = Append(n, i)
BY DEF Children

-----------------------------------------------------------------------------
(* The calls.                                                               *)

\* HandOn makes a call for each child and each agent, and each of them once.
LEMMA HandedOn ==
  ASSUME NEW n \in Seq(Child), NEW s \in Seq(Agent)
  PROVE  LET H == HandOn(n, s)
         IN  /\ H \in Seq([node : Children(n), agent : Agent]) /\ Len(H) = 8 * Len(s)
             /\ \A k \in 1 .. Len(H) :
                  \E i \in Child, j \in 1 .. Len(s) :
                    H[k].node = Append(n, i) /\ H[k].agent = s[j]
             /\ \A i \in Child, j \in 1 .. Len(s) :
                  \E k \in 1 .. Len(H) : H[k].node = Append(n, i) /\ H[k].agent = s[j]
             /\ (\A i, j \in DOMAIN s : s[i] = s[j] => i = j) =>
                  \A k, m \in 1 .. Len(H) :
                    k # m /\ H[k].agent = H[m].agent => ~OnWay(H[k].node, H[m].node)
<1> DEFINE H == HandOn(n, s)
           L == Len(s)
           I(k) == ((k - 1) % 8) + 1
           J(k) == (k - 1) \div 8 + 1
<1>1. L \in Nat /\ DOMAIN s = 1 .. L
  OBVIOUS
<1>2. H = [k \in 1 .. 8 * L |-> [node |-> Append(n, I(k)), agent |-> s[J(k)]]]
  BY DEF HandOn
<1> HIDE DEF H
<1>3. ASSUME NEW k \in 1 .. 8 * L PROVE I(k) \in Child /\ J(k) \in 1 .. L
  BY <1>1 DEF Child
<1>4. ASSUME NEW i \in Child, NEW j \in 1 .. L
      PROVE  \E k \in 1 .. 8 * L : I(k) = i /\ J(k) = j
  <2> DEFINE k == 8 * (j - 1) + i
  <2>1. k \in 1 .. 8 * L /\ I(k) = i /\ J(k) = j
    BY <1>1 DEF Child
  <2> QED
    BY <2>1
<1>5. ASSUME NEW k \in 1 .. 8 * L, NEW m \in 1 .. 8 * L, I(k) = I(m), J(k) = J(m)
      PROVE  k = m
  BY <1>1, <1>5
<1>6. ASSUME NEW k \in 1 .. 8 * L
      PROVE  H[k].node = Append(n, I(k)) /\ H[k].agent = s[J(k)] /\ H[k].agent \in Agent
             /\ H[k].node \in Children(n) /\ H[k] \in [node : Children(n), agent : Agent]
  <2>1. H[k] = [node |-> Append(n, I(k)), agent |-> s[J(k)]]
    BY <1>2
  <2>2. s[J(k)] \in Agent
    BY <1>1, <1>3
  <2>3. Append(n, I(k)) \in Children(n)
    BY <1>3 DEF Children
  <2> HIDE DEF I, J
  <2> QED
    BY <2>1, <2>2, <2>3
<1> HIDE DEF I, J
<1>7. H \in Seq([node : Children(n), agent : Agent]) /\ Len(H) = 8 * L
  <2>1. DOMAIN H = 1 .. 8 * L /\ 8 * L \in Nat
    BY <1>1, <1>2
  <2> DEFINE R == [node : Children(n), agent : Agent]
             m == 8 * L
  <2>2. m \in Nat /\ H \in [1 .. m -> R]
    BY <1>2, <1>6, <2>1
  <2> HIDE DEF R, m
  <2>3. H \in Seq(R) /\ Len(H) = m
    BY <2>2, FunctionIsSeq
  <2> QED
    BY <2>3 DEF R, m
<1>8. ASSUME \A i, j \in DOMAIN s : s[i] = s[j] => i = j,
             NEW k \in 1 .. 8 * L, NEW m \in 1 .. 8 * L,
             k # m, H[k].agent = H[m].agent
      PROVE  ~OnWay(H[k].node, H[m].node)
  <2>1. J(k) = J(m)
    BY <1>1, <1>3, <1>6, <1>8
  <2>2. I(k) # I(m)
    BY <1>5, <1>8, <2>1
  <2> QED
    BY <1>3, <1>6, <2>2, ChildrenApart
<1>9. /\ \A k \in 1 .. Len(H) : \E i \in Child, j \in 1 .. L :
           H[k].node = Append(n, i) /\ H[k].agent = s[j]
      /\ \A i \in Child, j \in 1 .. L : \E k \in 1 .. Len(H) :
           H[k].node = Append(n, i) /\ H[k].agent = s[j]
  <2>1. ASSUME NEW k \in 1 .. 8 * L
        PROVE  \E i \in Child, j \in 1 .. L : H[k].node = Append(n, i) /\ H[k].agent = s[j]
    <3>1. I(k) \in Child /\ J(k) \in 1 .. L
      BY <1>3
    <3>2. H[k].node = Append(n, I(k)) /\ H[k].agent = s[J(k)]
      BY <1>6
    <3> QED
      BY <3>1, <3>2
  <2>2. ASSUME NEW i \in Child, NEW j \in 1 .. L
        PROVE  \E k \in 1 .. 8 * L : H[k].node = Append(n, i) /\ H[k].agent = s[j]
    <3>1. PICK k \in 1 .. 8 * L : I(k) = i /\ J(k) = j
      BY <1>4
    <3>2. H[k].node = Append(n, I(k)) /\ H[k].agent = s[J(k)]
      BY <1>6
    <3> QED
      BY <3>1, <3>2
  <2> QED
    BY <1>7, <2>1, <2>2
<1> QED
  BY <1>7, <1>8, <1>9 DEF H

\* The stack after a call that makes the calls H.
LEMMA StackAfter ==
  ASSUME NEW S, NEW c \in Seq(S), c # <<>>, NEW H \in Seq(S)
  PROVE  LET r == H \o Tail(c)
         IN  /\ r \in Seq(S) /\ Len(r) = Len(H) + Len(c) - 1
             /\ Len(H) \in Nat /\ Len(c) \in Nat \ {0}
             /\ \A j \in 1 .. Len(H) : r[j] = H[j]
             /\ \A j \in Len(H) + 1 .. Len(r) : r[j] = c[j - Len(H) + 1]
             /\ Head(c) = c[1]
<1>1. Len(c) \in Nat \ {0} /\ Tail(c) \in Seq(S) /\ Len(Tail(c)) = Len(c) - 1 /\ Head(c) = c[1]
      /\ \A j \in 1 .. Len(c) - 1 : Tail(c)[j] = c[j + 1]
  OBVIOUS
<1> DEFINE t == Tail(c)
<1> HIDE DEF t
<1>2. LET r == H \o t
      IN  /\ r \in Seq(S) /\ Len(r) = Len(H) + Len(t)
          /\ \A j \in 1 .. Len(H) : r[j] = H[j]
          /\ \A j \in Len(H) + 1 .. Len(r) : r[j] = t[j - Len(H)]
          /\ Len(H) \in Nat
  BY <1>1 DEF t
<1> QED
  BY <1>1, <1>2 DEF t

-----------------------------------------------------------------------------
(* Boxes.                                                                   *)

LEMMA HalfSides ==
  /\ HalfSide \in [0 .. MaxDepth -> 1 .. MaxBound] /\ HalfSide[0] = MaxBound
  /\ \A d \in 1 .. MaxDepth : HalfSide[d - 1] = 2 * HalfSide[d]
  /\ MaxDepth \in Nat /\ MaxBound \in Nat \ {0} /\ MaxSize \in Nat \ {0}
  /\ NumAgents \in Nat \ {0} /\ Overshoot \in Nat
<1>1. \E h \in [0 .. MaxDepth -> 1 .. MaxBound] : IsHalfSides(h)
  BY OctreeAssumption
<1>2. HalfSide \in [0 .. MaxDepth -> 1 .. MaxBound] /\ IsHalfSides(HalfSide)
  BY <1>1 DEF HalfSide
<1> QED
  BY <1>2, OctreeAssumption, CPUAssumption DEF IsHalfSides

LEMMA SpaceInStartSpace == Space \subseteq StartSpace
<1> SUFFICES ASSUME NEW p \in Space PROVE p \in StartSpace
  OBVIOUS
<1>1. \A x \in -MaxBound .. MaxBound : x \in -MaxBound .. MaxBound + Overshoot
  BY HalfSides
<1> QED
  BY <1>1 DEF Space, StartSpace

\* The eight children go to all sides, each to another.
LEMMA AllSigns ==
  /\ \A i \in Child, a \in Axis : Signs[i][a] = 1 \/ Signs[i][a] = -1
  /\ \A i, j \in Child : i # j => \E a \in Axis : Signs[i][a] # Signs[j][a]
  /\ \A b \in [Axis -> {1, -1}] : \E i \in Child : \A a \in Axis : Signs[i][a] = b[a]
<1>1. \A i \in Child :
        i = 1 \/ i = 2 \/ i = 3 \/ i = 4 \/ i = 5 \/ i = 6 \/ i = 7 \/ i = 8
  BY DEF Child
<1>2. \A a \in Axis : a = 1 \/ a = 2 \/ a = 3
  BY DEF Axis
<1>3. /\ Signs[1][1] = -1 /\ Signs[1][2] = 1 /\ Signs[1][3] = 1
      /\ Signs[2][1] = 1 /\ Signs[2][2] = 1 /\ Signs[2][3] = 1
      /\ Signs[3][1] = -1 /\ Signs[3][2] = -1 /\ Signs[3][3] = 1
      /\ Signs[4][1] = 1 /\ Signs[4][2] = -1 /\ Signs[4][3] = 1
      /\ Signs[5][1] = -1 /\ Signs[5][2] = 1 /\ Signs[5][3] = -1
      /\ Signs[6][1] = 1 /\ Signs[6][2] = 1 /\ Signs[6][3] = -1
      /\ Signs[7][1] = -1 /\ Signs[7][2] = -1 /\ Signs[7][3] = -1
      /\ Signs[8][1] = 1 /\ Signs[8][2] = -1 /\ Signs[8][3] = -1
  BY DEF Signs
<1>4. 1 \in Axis /\ 2 \in Axis /\ 3 \in Axis /\ \A i \in 1 .. 8 : i \in Child
  BY DEF Axis, Child
<1>5. \A i \in Child, a \in Axis : Signs[i][a] = 1 \/ Signs[i][a] = -1
  BY <1>1, <1>2, <1>3
<1>6. \A i, j \in Child : i # j => \E a \in Axis : Signs[i][a] # Signs[j][a]
  BY <1>1, <1>3, <1>4
<1>7. ASSUME NEW b \in [Axis -> {1, -1}]
      PROVE  \E i \in Child : \A a \in Axis : Signs[i][a] = b[a]
  <2>1. (b[1] = 1 \/ b[1] = -1) /\ (b[2] = 1 \/ b[2] = -1) /\ (b[3] = 1 \/ b[3] = -1)
    BY <1>4
  <2> QED
    BY <1>2, <1>3, <1>4, <2>1
<1> QED
  BY <1>5, <1>6, <1>7

LEMMA ChildBox ==
  ASSUME NEW v \in NodeType, NEW h \in Nat \ {0}, v.size = 2 * h, NEW i \in Child
  PROVE  LET w == NewChild(v, i)
         IN  /\ w \in NodeType /\ w.size = h /\ w.contents = <<>> /\ w.isLeaf
             /\ \A a \in Axis : w.position[a] = v.position[a] + Signs[i][a] * h
             /\ Within(w, v)
<1> DEFINE w == NewChild(v, i)
<1>1. v.size \div 2 = h
  OBVIOUS
<1>2. w = [position |-> [a \in Axis |-> v.position[a] + Signs[i][a] * h], size |-> h,
           contents |-> <<>>, isLeaf |-> TRUE]
  BY <1>1 DEF NewChild, NewNode
<1>3. \A a \in Axis : v.position[a] \in Int
  BY DEF NodeType
<1>4. \A a \in Axis : Signs[i][a] \in Int /\ (Signs[i][a] * h = h \/ Signs[i][a] * h = -h)
  BY AllSigns
<1> HIDE DEF w
<1>5. /\ w.size = h /\ w.contents = <<>> /\ w.isLeaf
      /\ \A a \in Axis : w.position[a] = v.position[a] + Signs[i][a] * h
  BY <1>2
<1>6. w \in NodeType
  <2>1. [a \in Axis |-> v.position[a] + Signs[i][a] * h] \in [Axis -> Int]
    BY <1>3, <1>4
  <2>2. <<>> \in Seq(Agent)
    OBVIOUS
  <2> QED
    BY <1>2, <2>1, <2>2 DEF NodeType
<1>7. Within(w, v)
  <2> SUFFICES ASSUME NEW a \in Axis
               PROVE  /\ v.position[a] - v.size <= w.position[a] - w.size
                      /\ w.position[a] + w.size <= v.position[a] + v.size
    BY DEF Within
  <2>1. w.position[a] = v.position[a] + h \/ w.position[a] = v.position[a] + (-h)
    BY <1>4, <1>5
  <2> QED
    BY <1>3, <1>5, <2>1
<1> QED
  BY <1>5, <1>6, <1>7 DEF w

\* No point of a box is outside of all its children: on a face between them the child
\* on the side of q is around it.
LEMMA ChildrenCover ==
  ASSUME NEW v \in NodeType, NEW h \in Nat \ {0}, v.size = 2 * h,
         NEW p \in StartSpace, NEW q \in StartSpace, In(p, v), Toward(p, q, v)
  PROVE  \E i \in Child : In(p, NewChild(v, i)) /\ Toward(p, q, NewChild(v, i))
<1>1. \A a \in Axis : p[a] \in Int /\ q[a] \in Int /\ v.position[a] \in Int
  BY HalfSides DEF NodeType, StartSpace
<1>2. \A a \in Axis : v.position[a] - 2 * h <= p[a] /\ p[a] <= v.position[a] + 2 * h
  BY DEF In, PointContained
<1>3. \A a \in Axis :
        /\ p[a] < q[a] /\ p[a] < MaxBound => p[a] < v.position[a] + 2 * h
        /\ q[a] < p[a] /\ -MaxBound < p[a] => v.position[a] - 2 * h < p[a]
  BY DEF Toward
<1> DEFINE Above(a) == p[a] > v.position[a] \/ (p[a] = v.position[a] /\ q[a] >= p[a])
           b == [a \in Axis |-> IF Above(a) THEN 1 ELSE -1]
<1>4. PICK i \in Child : \A a \in Axis : Signs[i][a] = b[a]
  <2>1. b \in [Axis -> {1, -1}]
    OBVIOUS
  <2> HIDE DEF b
  <2> QED
    BY <2>1, AllSigns
<1> DEFINE w == NewChild(v, i)
<1>5. w.size = h /\ \A a \in Axis : w.position[a] = v.position[a] + Signs[i][a] * h
  BY ChildBox
<1> HIDE DEF w
<1>6. MaxBound \in Int
  BY HalfSides
<1>7. ASSUME NEW a \in Axis
      PROVE  /\ w.position[a] - w.size <= p[a] /\ p[a] <= w.position[a] + w.size
             /\ p[a] < q[a] /\ p[a] < MaxBound => p[a] < w.position[a] + w.size
             /\ q[a] < p[a] /\ -MaxBound < p[a] => w.position[a] - w.size < p[a]
  <2>1. CASE Above(a)
    <3>1. w.position[a] = v.position[a] + h
      BY <1>1, <1>4, <1>5, <2>1
    <3> QED
      BY <1>1, <1>2, <1>3, <1>5, <1>6, <2>1, <3>1
  <2>2. CASE ~Above(a)
    <3>1. w.position[a] = v.position[a] - h
      BY <1>1, <1>4, <1>5, <2>2
    <3> QED
      BY <1>1, <1>2, <1>3, <1>5, <1>6, <2>2, <3>1
  <2> QED
    BY <2>1, <2>2
<1>8. In(p, w) /\ Toward(p, q, w)
  BY <1>7 DEF In, PointContained, Toward
<1> QED
  BY <1>8 DEF w

\* Two children are on different sides of the middle of their parent.
LEMMA ChildrenBetween ==
  ASSUME NEW v \in NodeType, NEW h \in Nat \ {0}, v.size = 2 * h,
         NEW i \in Child, NEW j \in Child, i # j
  PROVE  \E a \in Axis : Between(NewChild(v, i), NewChild(v, j), v, a)
<1>1. PICK a \in Axis : Signs[i][a] # Signs[j][a]
  BY AllSigns
<1>2. (Signs[i][a] = 1 /\ Signs[j][a] = -1) \/ (Signs[i][a] = -1 /\ Signs[j][a] = 1)
  BY <1>1, AllSigns
<1> DEFINE w == NewChild(v, i)
           u == NewChild(v, j)
<1>3. /\ w.size = h /\ w.position[a] = v.position[a] + Signs[i][a] * h
      /\ u.size = h /\ u.position[a] = v.position[a] + Signs[j][a] * h
  BY ChildBox
<1>4. v.position[a] \in Int
  BY DEF NodeType
<1> HIDE DEF w, u
<1>5. Between(w, u, v, a)
  BY <1>2, <1>3, <1>4 DEF Between
<1> QED
  BY <1>5 DEF w, u

LEMMA PartOfBox ==
  ASSUME NEW u \in NodeType, NEW v \in NodeType, NEW w \in NodeType, Within(w, v)
  PROVE  /\ Within(v, u) => Within(w, u)
         /\ \A p \in StartSpace : In(p, w) => In(p, v)
         /\ \A n \in NodeType, a \in Axis : Between(v, u, n, a) => Between(w, u, n, a)
<1>1. \A a \in Axis : /\ u.position[a] \in Int /\ v.position[a] \in Int
                      /\ w.position[a] \in Int
  BY DEF NodeType
<1>2. u.size \in Int /\ v.size \in Int /\ w.size \in Int
  BY DEF NodeType
<1>3. \A a \in Axis : /\ v.position[a] - v.size <= w.position[a] - w.size
                      /\ w.position[a] + w.size <= v.position[a] + v.size
  BY DEF Within
<1>4. Within(v, u) => Within(w, u)
  BY <1>1, <1>2, <1>3 DEF Within
<1>5. \A p \in StartSpace : In(p, w) => In(p, v)
  <2>1. \A p \in StartSpace, a \in Axis : p[a] \in Int
    BY HalfSides DEF StartSpace
  <2> QED
    BY <1>1, <1>2, <1>3, <2>1 DEF In, PointContained
<1>6. \A n \in NodeType, a \in Axis : Between(v, u, n, a) => Between(w, u, n, a)
  <2>1. \A n \in NodeType, a \in Axis : n.position[a] \in Int
    BY DEF NodeType
  <2> QED
    BY <1>1, <1>2, <1>3, <2>1 DEF Between
<1> QED
  BY <1>4, <1>5, <1>6

\* A box is within itself.
LEMMA WithinItself == ASSUME NEW v \in NodeType PROVE Within(v, v)
<1>1. v.size \in Int /\ \A a \in Axis : v.position[a] \in Int
  BY DEF NodeType
<1> QED
  BY <1>1 DEF Within

LEMMA BetweenSym ==
  ASSUME NEW v, NEW w, NEW n, NEW a, Between(v, w, n, a)
  PROVE  Between(w, v, n, a)
BY DEF Between

-----------------------------------------------------------------------------
(* A split.                                                                 *)

LEMMA SplitShape ==
  ASSUME TreeType, Nested, NEW n \in Leaves, Len(n) < MaxDepth, tree' = Split(n)
  PROVE  /\ DOMAIN tree' = DOMAIN tree \cup Children(n)
         /\ \A i \in Child : Append(n, i) \notin DOMAIN tree
         /\ \A m \in DOMAIN tree : m # n => tree'[m] = tree[m]
         /\ tree'[n].position = tree[n].position /\ tree'[n].size = tree[n].size
         /\ tree'[n].contents = <<>> /\ ~tree'[n].isLeaf
         /\ \A i \in Child : tree'[Append(n, i)] = NewChild(tree[n], i)
         /\ TreeType'
         /\ Leaves' = (Leaves \ {n}) \cup Children(n) /\ Inner' = Inner \cup {n}
         /\ n \in Seq(Child) /\ n \in DOMAIN tree /\ Len(n) \in Nat
         /\ HalfSide[Len(n) + 1] \in Nat \ {0} /\ tree[n].size = 2 * HalfSide[Len(n) + 1]
<1> DEFINE h == HalfSide[Len(n) + 1]
<1>1. /\ n \in DOMAIN tree /\ n \in Seq(Child) /\ Len(n) \in Nat /\ tree[n] \in NodeType
      /\ tree[n].isLeaf
  BY DEF Leaves, TreeType
<1>2. h \in Nat \ {0} /\ tree[n].size = 2 * h
  <2>0. MaxDepth \in Nat
    BY HalfSides
  <2>1. Len(n) + 1 \in 1 .. MaxDepth
    BY <1>1, <2>0
  <2>2. HalfSide[(Len(n) + 1) - 1] = 2 * HalfSide[Len(n) + 1]
    BY <2>1, HalfSides
  <2>3. (Len(n) + 1) - 1 = Len(n)
    BY <1>1
  <2>4. HalfSide[Len(n)] = 2 * h
    BY <2>2, <2>3
  <2>5. h \in 1 .. MaxBound /\ tree[n].size = HalfSide[Len(n)]
    BY <1>1, <2>1, HalfSides DEF Nested
  <2> QED
    BY <2>4, <2>5, HalfSides
<1> HIDE DEF h
<1>3. ASSUME NEW i \in Child PROVE Append(n, i) \notin DOMAIN tree /\ Append(n, i) # n
  <2>1. OnWay(n, Append(n, i)) /\ Append(n, i) # n
    BY <1>1, OnWayToChild, OnWayOrder, ChildrenApart
  <2> QED
    BY <1>1, <2>1 DEF Nested
<1>4. \A c \in Children(n) : c \notin DOMAIN tree /\ c # n
  BY <1>3 DEF Children
<1>5. DOMAIN tree' = DOMAIN tree \cup Children(n)
  BY DEF Split
<1>6. \A m \in DOMAIN tree : m # n => tree'[m] = tree[m]
  BY <1>4 DEF Split
<1>7. tree'[n] = [tree[n] EXCEPT !.contents = <<>>, !.isLeaf = FALSE]
  BY <1>1 DEF Split
<1>8. /\ tree'[n].position = tree[n].position /\ tree'[n].size = tree[n].size
      /\ tree'[n].contents = <<>> /\ ~tree'[n].isLeaf /\ tree'[n] \in NodeType
  <2>1. <<>> \in Seq(Agent)
    OBVIOUS
  <2> QED
    BY <1>1, <1>7, <2>1 DEF NodeType
<1>9. ASSUME NEW i \in Child
      PROVE  /\ tree'[Append(n, i)] = NewChild(tree[n], i)
             /\ tree'[Append(n, i)] \in NodeType /\ tree'[Append(n, i)].isLeaf
  <2>1. Append(n, i) \in Children(n) /\ Append(n, i) # n
    BY <1>3 DEF Children
  <2>2. Append(n, i)[Len(Append(n, i))] = i
    BY <1>1, AppendedWay
  <2>3. tree'[Append(n, i)] = NewChild(tree[n], i)
    BY <2>1, <2>2 DEF Split
  <2> QED
    BY <1>1, <1>2, <2>3, ChildBox
<1>10. \A c \in Children(n) : tree'[c] \in NodeType /\ tree'[c].isLeaf /\ c \in Seq(Child)
  BY <1>1, <1>9, AppendedWay DEF Children
<1>11. TreeType'
  <2>1. tree' = [m \in DOMAIN tree' |-> tree'[m]]
    BY <1>5 DEF Split
  <2>2. \A m \in DOMAIN tree' : tree'[m] \in NodeType
    BY <1>5, <1>6, <1>8, <1>10 DEF TreeType
  <2>3. DOMAIN tree' \subseteq Seq(Child) /\ <<>> \in DOMAIN tree'
    BY <1>5, <1>10 DEF TreeType
  <2> QED
    BY <2>1, <2>2, <2>3 DEF TreeType
<1>12. Leaves' = (Leaves \ {n}) \cup Children(n)
  <2>1. \A m \in DOMAIN tree' : m \in DOMAIN tree \/ m \in Children(n)
    BY <1>5
  <2>2. \A m : m \in Leaves' <=> m \in DOMAIN tree' /\ tree'[m].isLeaf
    BY DEF Leaves
  <2>3. \A m : m \in Leaves <=> m \in DOMAIN tree /\ tree[m].isLeaf
    BY DEF Leaves
  <2> QED
    BY <1>4, <1>5, <1>6, <1>8, <1>10, <2>2, <2>3
<1>13. Inner' = Inner \cup {n}
  BY <1>1, <1>4, <1>5, <1>12 DEF Inner
<1> QED
  BY <1>1, <1>2, <1>3, <1>5, <1>6, <1>8, <1>9, <1>11, <1>12, <1>13 DEF h

\* The children of a split leaf keep the boxes in each other ...
LEMMA SplitNested ==
  ASSUME TreeType, Nested, NEW n \in Leaves, Len(n) < MaxDepth, tree' = Split(n)
  PROVE  Nested'
<1>1. /\ DOMAIN tree' = DOMAIN tree \cup Children(n)
      /\ \A m \in DOMAIN tree : m # n => tree'[m] = tree[m]
      /\ tree'[n].position = tree[n].position /\ tree'[n].size = tree[n].size
      /\ \A i \in Child : tree'[Append(n, i)] = NewChild(tree[n], i)
      /\ Leaves' = (Leaves \ {n}) \cup Children(n) /\ Inner' = Inner \cup {n}
      /\ n \in Seq(Child) /\ n \in DOMAIN tree /\ Len(n) \in Nat
      /\ HalfSide[Len(n) + 1] \in Nat \ {0} /\ tree[n].size = 2 * HalfSide[Len(n) + 1]
      /\ \A i \in Child : Append(n, i) \notin DOMAIN tree
  BY SplitShape
<1>2. \A m \in DOMAIN tree :
        tree'[m].position = tree[m].position /\ tree'[m].size = tree[m].size
  BY <1>1
<1>3. DOMAIN tree \subseteq Seq(Child) /\ tree[n] \in NodeType
      /\ \A m \in DOMAIN tree : tree[m] \in NodeType
  BY <1>1 DEF TreeType
<1>4. ASSUME NEW i \in Child
      PROVE  /\ Len(Append(n, i)) = Len(n) + 1
             /\ tree'[Append(n, i)].size = HalfSide[Len(n) + 1]
             /\ Within(tree'[Append(n, i)], tree[n]) /\ tree'[Append(n, i)] \in NodeType
  BY <1>1, <1>3, ChildBox, AppendedWay
<1> DEFINE IsChild(m) == \E i \in Child : m = Append(n, i)
<1>0. /\ \A m : m \in DOMAIN tree' <=> m \in DOMAIN tree \/ IsChild(m)
      /\ \A m : m \in Leaves' <=> (m \in Leaves /\ m # n) \/ IsChild(m)
      /\ \A m \in DOMAIN tree : ~IsChild(m)
  BY <1>1, ChildrenDef
<1>5. \A m \in DOMAIN tree' : Len(m) <= MaxDepth /\ tree'[m].size = HalfSide[Len(m)]
  <2>1. ASSUME NEW m \in DOMAIN tree
        PROVE  Len(m) <= MaxDepth /\ tree'[m].size = HalfSide[Len(m)]
    BY <1>2 DEF Nested
  <2>2. ASSUME NEW i \in Child
        PROVE  /\ Len(Append(n, i)) <= MaxDepth
               /\ tree'[Append(n, i)].size = HalfSide[Len(Append(n, i))]
    BY <1>1, <1>4, HalfSides
  <2> QED
    BY <1>0, <2>1, <2>2
<1>6. \A m \in Inner' : Len(m) < MaxDepth /\ Children(m) \subseteq DOMAIN tree'
  BY <1>1 DEF Nested
<1>7. ASSUME NEW m \in DOMAIN tree', NEW k \in DOMAIN tree', OnWay(m, k)
      PROVE  Within(tree'[k], tree'[m]) /\ (m \in Leaves' => m = k)
  <2>1. ASSUME NEW x \in DOMAIN tree, NEW y \in DOMAIN tree
        PROVE  Within(tree'[y], tree'[x]) <=> Within(tree[y], tree[x])
    BY <1>2 DEF Within
  <2>2. CASE m \in DOMAIN tree /\ k \in DOMAIN tree
    <3>1. Within(tree[k], tree[m]) /\ (m \in Leaves => m = k)
      BY <1>7, <2>2 DEF Nested
    <3>2. m \in Leaves' => m \in Leaves
      BY <1>0, <2>2
    <3> QED
      BY <2>1, <2>2, <3>1, <3>2
  <2>3. ASSUME NEW i \in Child, k = Append(n, i), m \in DOMAIN tree
        PROVE  Within(tree'[k], tree'[m]) /\ m \notin Leaves'
    <3>1. OnWay(m, n)
      BY <1>1, <1>3, <1>7, <2>3, OnWayToChild
    <3>2. Within(tree[n], tree[m]) /\ (m \in Leaves => m = n)
      BY <1>1, <2>3, <3>1 DEF Nested
    <3>3. Within(tree'[k], tree[m])
      BY <1>3, <1>4, <2>3, <3>2, PartOfBox
    <3>4. m \notin Leaves'
      BY <1>0, <2>3, <3>2
    <3> QED
      BY <1>2, <2>3, <3>3, <3>4 DEF Within
  <2>4. ASSUME NEW i \in Child, m = Append(n, i)
        PROVE  m = k
    <3>1. CASE k \in DOMAIN tree
      <4>1. OnWay(n, m) /\ m \in Seq(Child)
        BY <1>1, <2>4, OnWayToChild, OnWayOrder, AppendedWay
      <4>2. OnWay(n, k)
        BY <1>1, <1>3, <1>7, <3>1, <4>1, OnWayOrder
      <4>3. n = k
        BY <1>1, <3>1, <4>2 DEF Nested
      <4> QED
        BY <1>1, <1>7, <2>4, <4>3, ChildrenApart
    <3>2. ASSUME NEW j \in Child, k = Append(n, j)
          PROVE  m = k
      BY <1>1, <1>7, <2>4, <3>2, ChildrenApart
    <3> QED
      BY <1>0, <3>1, <3>2
  <2>5. m = k => Within(tree'[k], tree'[m])
    BY WithinItself, SplitShape DEF TreeType
  <2> QED
    BY <1>0, <2>2, <2>3, <2>4, <2>5
<1> QED
  BY <1>5, <1>6, <1>7 DEF Nested

\* ... leave no agent outside ...
LEMMA SplitCovered ==
  ASSUME TreeType, Nested, Covered, NEW n \in Leaves, Len(n) < MaxDepth, tree' = Split(n),
         treePos \in [Agent -> StartSpace], treePos' = treePos
  PROVE  Covered'
<1>1. /\ \A m \in DOMAIN tree : m # n => tree'[m] = tree[m]
      /\ \A i \in Child : tree'[Append(n, i)] = NewChild(tree[n], i)
      /\ Leaves' = (Leaves \ {n}) \cup Children(n) /\ n \in DOMAIN tree
      /\ HalfSide[Len(n) + 1] \in Nat \ {0} /\ tree[n].size = 2 * HalfSide[Len(n) + 1]
  BY SplitShape
<1>2. tree[n] \in NodeType
  BY <1>1 DEF TreeType
<1> DEFINE Around(a, q, v) == In(treePos[a], v) /\ Toward(treePos[a], q, v)
<1> SUFFICES ASSUME NEW a \in Agent, NEW q \in StartSpace, treePos[a] \in Space
             PROVE  \E l \in Leaves' : Around(a, q, tree'[l])
  BY DEF Covered
<1>3. treePos[a] \in StartSpace
  OBVIOUS
<1>4. PICK l \in Leaves : Around(a, q, tree[l])
  BY DEF Covered
<1>5. CASE l = n
  <2>1. PICK i \in Child : Around(a, q, NewChild(tree[n], i))
    BY <1>1, <1>2, <1>3, <1>4, <1>5, ChildrenCover
  <2>2. Append(n, i) \in Leaves'
    BY <1>1 DEF Children
  <2> QED
    BY <1>1, <2>1, <2>2
<1>6. CASE l # n
  <2>1. l \in Leaves' /\ l \in DOMAIN tree
    BY <1>1, <1>6 DEF Leaves
  <2>2. tree'[l] = tree[l]
    BY <1>1, <1>6, <2>1
  <2> QED
    BY <1>4, <2>1, <2>2
<1> QED
  BY <1>5, <1>6

\* ... and meet each other and the other leaves in the middle of inner nodes.
LEMMA SplitSeparated ==
  ASSUME TreeType, Nested, Separated, NEW n \in Leaves, Len(n) < MaxDepth, tree' = Split(n)
  PROVE  Separated'
<1> DEFINE IsChild(m) == \E i \in Child : m = Append(n, i)
<1>1. /\ \A m \in DOMAIN tree : m # n => tree'[m] = tree[m]
      /\ tree'[n].position = tree[n].position
      /\ \A i \in Child : tree'[Append(n, i)] = NewChild(tree[n], i)
      /\ Leaves' = (Leaves \ {n}) \cup Children(n) /\ Inner' = Inner \cup {n}
      /\ n \in DOMAIN tree
      /\ HalfSide[Len(n) + 1] \in Nat \ {0} /\ tree[n].size = 2 * HalfSide[Len(n) + 1]
  BY SplitShape
<1>2. tree[n] \in NodeType /\ \A m \in DOMAIN tree : tree[m] \in NodeType
  BY <1>1 DEF TreeType
<1>3. \A m : m \in Leaves' <=> (m \in Leaves /\ m # n) \/ IsChild(m)
  BY <1>1, ChildrenDef
<1>4. \A m \in Leaves : m \in DOMAIN tree
  BY DEF Leaves
<1>5. \A m \in Inner : m \in DOMAIN tree /\ m # n /\ tree'[m] = tree[m] /\ m \in Inner'
  BY <1>1 DEF Inner
<1>6. \A v, w, a : Between(v, w, tree'[n], a) <=> Between(v, w, tree[n], a)
  BY <1>1 DEF Between
<1> DEFINE Apart(l, k) == \E m \in Inner' : \E a \in Axis : Between(tree'[l], tree'[k], tree'[m], a)
<1>7. ASSUME NEW l \in Leaves, NEW k \in Leaves, l # n, k # n, l # k
      PROVE  Apart(l, k)
  <2>1. PICK m \in Inner, a \in Axis : Between(tree[l], tree[k], tree[m], a)
    BY <1>7 DEF Separated
  <2>2. tree'[l] = tree[l] /\ tree'[k] = tree[k] /\ tree'[m] = tree[m] /\ m \in Inner'
    BY <1>1, <1>4, <1>5, <1>7
  <2>3. Between(tree'[l], tree'[k], tree'[m], a)
    BY <2>1, <2>2
  <2> QED
    BY <2>2, <2>3
<1>8. ASSUME NEW i \in Child, NEW k \in Leaves, k # n
      PROVE  Apart(Append(n, i), k) /\ Apart(k, Append(n, i))
  <2>1. PICK m \in Inner, a \in Axis : Between(tree[n], tree[k], tree[m], a)
    BY <1>8 DEF Separated
  <2>2. Within(NewChild(tree[n], i), tree[n]) /\ NewChild(tree[n], i) \in NodeType
    BY <1>1, <1>2, ChildBox
  <2>3. Between(NewChild(tree[n], i), tree[k], tree[m], a)
    BY <1>2, <1>4, <1>5, <2>1, <2>2, PartOfBox
  <2>4. Between(tree'[Append(n, i)], tree'[k], tree'[m], a)
    BY <1>1, <1>4, <1>5, <1>8, <2>3
  <2> QED
    BY <1>5, <2>4, BetweenSym
<1>9. ASSUME NEW i \in Child, NEW j \in Child, i # j
      PROVE  Apart(Append(n, i), Append(n, j))
  <2>1. PICK a \in Axis : Between(NewChild(tree[n], i), NewChild(tree[n], j), tree[n], a)
    BY <1>1, <1>2, <1>9, ChildrenBetween
  <2>2. n \in Inner'
    BY <1>1
  <2> QED
    BY <1>1, <1>6, <2>1, <2>2
<1> HIDE DEF Apart
<1>10. ASSUME NEW l \in Leaves', NEW k \in Leaves', l # k PROVE Apart(l, k)
  <2>1. CASE IsChild(l) /\ IsChild(k)
    <3>1. PICK i \in Child, j \in Child : l = Append(n, i) /\ k = Append(n, j)
      BY <2>1
    <3>2. i # j
      BY <1>10, <3>1
    <3>3. Apart(Append(n, i), Append(n, j))
      BY <1>9, <3>2
    <3> QED
      BY <3>1, <3>3
  <2>2. CASE IsChild(l) /\ k \in Leaves /\ k # n
    BY <1>8, <2>2
  <2>3. CASE l \in Leaves /\ l # n /\ IsChild(k)
    BY <1>8, <2>3
  <2>4. CASE l \in Leaves /\ l # n /\ k \in Leaves /\ k # n
    BY <1>7, <1>10, <2>4
  <2> QED
    BY <1>3, <2>1, <2>2, <2>3, <2>4
<1> QED
  BY <1>10 DEF Separated, Apart

\* An agent that a leaf takes changes no box.
LEMMA SameBoxes ==
  ASSUME TreeType, Nested, Covered, Separated, treePos' = treePos,
         NEW n \in Leaves, NEW c \in Seq(Agent), tree' = [tree EXCEPT ![n].contents = c]
  PROVE  /\ TreeType' /\ Nested' /\ Covered' /\ Separated'
         /\ Leaves' = Leaves /\ Inner' = Inner /\ DOMAIN tree' = DOMAIN tree
         /\ \A m \in DOMAIN tree :
              /\ tree'[m].position = tree[m].position /\ tree'[m].size = tree[m].size
              /\ tree'[m].contents = IF m = n THEN c ELSE tree[m].contents
<1>1. n \in DOMAIN tree /\ DOMAIN tree' = DOMAIN tree
  BY DEF Leaves
<1>2. ASSUME NEW m \in DOMAIN tree
      PROVE  /\ tree'[m].position = tree[m].position /\ tree'[m].size = tree[m].size
             /\ tree'[m].contents = (IF m = n THEN c ELSE tree[m].contents)
             /\ tree'[m].isLeaf = tree[m].isLeaf /\ tree'[m] \in NodeType
  <2>1. tree[m] \in NodeType
    BY DEF TreeType
  <2>2. tree'[m] = IF m = n THEN [tree[m] EXCEPT !.contents = c] ELSE tree[m]
    OBVIOUS
  <2> QED
    BY <2>1, <2>2 DEF NodeType
<1>3. Leaves' = Leaves
  BY <1>1, <1>2 DEF Leaves
<1>4. Inner' = Inner
  BY <1>1, <1>3 DEF Inner
<1>5. TreeType'
  <2>1. tree' = [m \in DOMAIN tree |-> tree'[m]]
    OBVIOUS
  <2> QED
    BY <1>1, <1>2, <2>1 DEF TreeType
<1>6. \A k, l \in DOMAIN tree : Within(tree'[k], tree'[l]) <=> Within(tree[k], tree[l])
  BY <1>2 DEF Within
<1>7. Nested'
  <2>1. \A k \in DOMAIN tree' : Len(k) <= MaxDepth /\ tree'[k].size = HalfSide[Len(k)]
    BY <1>1, <1>2 DEF Nested
  <2>2. \A k \in Inner' : Len(k) < MaxDepth /\ Children(k) \subseteq DOMAIN tree'
    BY <1>1, <1>4 DEF Nested
  <2>3. \A l, k \in DOMAIN tree' :
          OnWay(l, k) => Within(tree'[k], tree'[l]) /\ (l \in Leaves' => l = k)
    BY <1>1, <1>3, <1>6 DEF Nested
  <2> QED
    BY <2>1, <2>2, <2>3 DEF Nested
<1>8. \A l \in Leaves : \A p, q :
        /\ In(p, tree'[l]) <=> In(p, tree[l])
        /\ Toward(p, q, tree'[l]) <=> Toward(p, q, tree[l])
  BY <1>2 DEF In, Toward, PointContained, Leaves
<1>9. Covered'
  BY <1>3, <1>8 DEF Covered
<1>10. \A l, k, m \in DOMAIN tree, a \in Axis :
         Between(tree'[l], tree'[k], tree'[m], a) <=> Between(tree[l], tree[k], tree[m], a)
  BY <1>2 DEF Between
<1>11. \A l \in Leaves : l \in DOMAIN tree
  BY DEF Leaves
<1>12. \A m \in Inner : m \in DOMAIN tree
  BY DEF Inner
<1>13. Separated'
  BY <1>3, <1>4, <1>10, <1>11, <1>12 DEF Separated
<1> QED
  BY <1>1, <1>2, <1>3, <1>4, <1>5, <1>7, <1>9, <1>13

-----------------------------------------------------------------------------
(* One call of Insert.                                                      *)

\* Where the calls of the new stack r come from, and where H and the old ones are.
Pushed(r, H, c) ==
  /\ \A j \in DOMAIN r :
       \/ j \in DOMAIN H /\ r[j] = H[j]
       \/ j - Len(H) + 1 \in DOMAIN c \ {1} /\ r[j] = c[j - Len(H) + 1]
  /\ \A k \in DOMAIN H : k \in DOMAIN r /\ r[k] = H[k]
  /\ \A k \in DOMAIN c \ {1} : k + Len(H) - 1 \in DOMAIN r /\ r[k + Len(H) - 1] = c[k]

LEMMA StackPlaces ==
  ASSUME NEW S, NEW c \in Seq(S), c # <<>>, NEW H \in Seq(S), NEW r, r = H \o Tail(c)
  PROVE  /\ r \in Seq(S) /\ Len(H) \in Nat /\ 1 \in DOMAIN c /\ Head(c) = c[1]
         /\ Pushed(r, H, c)
<1>1. /\ r \in Seq(S) /\ Len(r) = Len(H) + Len(c) - 1
      /\ Len(H) \in Nat /\ Len(c) \in Nat \ {0}
      /\ \A j \in 1 .. Len(H) : r[j] = H[j]
      /\ \A j \in Len(H) + 1 .. Len(r) : r[j] = c[j - Len(H) + 1]
      /\ Head(c) = c[1]
  BY StackAfter
<1>2. DOMAIN c = 1 .. Len(c) /\ DOMAIN H = 1 .. Len(H) /\ DOMAIN r = 1 .. Len(r)
  BY <1>1
<1>3. ASSUME NEW j \in DOMAIN r
      PROVE  \/ j \in DOMAIN H /\ r[j] = H[j]
             \/ j - Len(H) + 1 \in DOMAIN c \ {1} /\ r[j] = c[j - Len(H) + 1]
  BY <1>1, <1>2
<1>4. ASSUME NEW k \in DOMAIN H PROVE k \in DOMAIN r /\ r[k] = H[k]
  BY <1>1, <1>2
<1>5. ASSUME NEW k \in DOMAIN c \ {1}
      PROVE  k + Len(H) - 1 \in DOMAIN r /\ r[k + Len(H) - 1] = c[k]
  <2> DEFINE j == k + Len(H) - 1
  <2>1. j \in Len(H) + 1 .. Len(r) /\ j - Len(H) + 1 = k
    BY <1>1, <1>2
  <2>2. r[j] = c[j - Len(H) + 1]
    BY <1>1, <2>1
  <2> QED
    BY <1>1, <1>2, <2>1, <2>2
<1> QED
  BY <1>1, <1>2, <1>3, <1>4, <1>5 DEF Pushed

Call == [node : Seq(Child), agent : Agent]

\* No two calls for an agent are such that one is on the way to the other.
AllApart(c) ==
  \A i, j \in DOMAIN c : i # j /\ c[i].agent = c[j].agent => ~OnWay(c[i].node, c[j].node)

\* No call after the first one for an agent of H is on the way to n or from there.
OthersApart(n, H, c) ==
  \A k \in DOMAIN H, j \in DOMAIN c \ {1} :
    c[j].agent = H[k].agent => ~OnWay(n, c[j].node) /\ ~OnWay(c[j].node, n)

\* Calls handed on from n do not meet the waiting calls, if the call for n did not.
LEMMA ApartAfter ==
  ASSUME calls \in Seq(Call), calls # <<>>, NEW n \in Seq(Child),
         NEW H \in Seq([node : Children(n), agent : Agent]), calls' = H \o Tail(calls),
         AllApart(H), AllApart(calls), OthersApart(n, H, calls)
  PROVE  AllApart(calls')
<1> DEFINE L == Len(H)
           Old(j) == j - L + 1 \in DOMAIN calls \ {1} /\ calls'[j] = calls[j - L + 1]
           New(j) == j \in DOMAIN H /\ calls'[j] = H[j]
<1>0. Children(n) \subseteq Seq(Child)
  BY AppendedWay DEF Children
<1>1. H \in Seq(Call)
  BY <1>0 DEF Call
<1>2. /\ L \in Nat /\ \A j \in DOMAIN calls' : New(j) \/ Old(j)
      /\ calls' \in Seq(Call)
  BY <1>1, StackPlaces DEF Pushed
<1>3. ASSUME NEW k \in DOMAIN H
      PROVE  H[k].node \in Seq(Child) /\ \E i \in Child : H[k].node = Append(n, i)
  <2> DEFINE R == [node : Children(n), agent : Agent]
  <2>0. H \in Seq(R)
    OBVIOUS
  <2> HIDE DEF R
  <2>1. H[k] \in R
    BY <2>0
  <2>2. H[k].node \in Children(n)
    BY <2>1 DEF R
  <2> QED
    BY <1>0, <2>2, ChildrenDef
<1>4. ASSUME NEW j \in DOMAIN calls PROVE calls[j].node \in Seq(Child)
  <2>1. calls[j] \in Call
    OBVIOUS
  <2> QED
    BY <2>1 DEF Call
<1>5. ASSUME NEW k \in DOMAIN H, NEW j \in DOMAIN calls \ {1},
             calls[j].agent = H[k].agent
      PROVE  ~OnWay(H[k].node, calls[j].node) /\ ~OnWay(calls[j].node, H[k].node)
  <2>1. PICK i \in Child : H[k].node = Append(n, i)
    BY <1>3
  <2>2. ~OnWay(n, calls[j].node) /\ ~OnWay(calls[j].node, n)
    BY <1>5 DEF OthersApart
  <2>3. calls[j].node \in Seq(Child) /\ Append(n, i) \in Seq(Child)
    BY <1>4, AppendedWay
  <2>4. OnWay(n, Append(n, i))
    BY OnWayToChild, OnWayOrder
  <2>5. ~OnWay(Append(n, i), calls[j].node)
    <3> DEFINE c == Append(n, i)
               m == calls[j].node
    <3>1. c \in Seq(Child) /\ m \in Seq(Child) /\ OnWay(n, c) /\ ~OnWay(n, m)
      BY <2>2, <2>3, <2>4
    <3> HIDE DEF c, m
    <3>2. ~OnWay(c, m)
      BY <3>1, OnWayOrder
    <3> QED
      BY <3>2 DEF c, m
  <2>6. calls[j].node # Append(n, i)
    BY <2>2, <2>4
  <2>7. ~OnWay(calls[j].node, Append(n, i))
    BY <2>2, <2>3, <2>6, OnWayToChild
  <2> QED
    BY <2>1, <2>5, <2>7
<1>6. DOMAIN calls' \subseteq Int /\ DOMAIN calls \subseteq Int
  <2>1. DOMAIN calls' = 1 .. Len(calls') /\ DOMAIN calls = 1 .. Len(calls)
    BY <1>2
  <2> QED
    BY <2>1
<1> SUFFICES ASSUME NEW i \in DOMAIN calls', NEW j \in DOMAIN calls',
                    i # j, calls'[i].agent = calls'[j].agent
             PROVE  ~OnWay(calls'[i].node, calls'[j].node)
  BY DEF AllApart
<1>7. CASE New(i) /\ New(j)
  BY <1>7 DEF AllApart
<1>8. CASE New(i) /\ Old(j)
  BY <1>5, <1>8
<1>9. CASE Old(i) /\ New(j)
  BY <1>5, <1>9
<1>10. CASE Old(i) /\ Old(j)
  <2>1. i - L + 1 # j - L + 1
    BY <1>2, <1>6
  <2> QED
    BY <1>10, <2>1 DEF AllApart
<1> QED
  BY <1>2, <1>7, <1>8, <1>9, <1>10

LEMMA InsertedAgents ==
  ASSUME FrameOK
  PROVE  Inserted \subseteq Agent /\ IsFiniteSet(Agent)
         /\ \A n \in DOMAIN tree : InBox(n) \subseteq Inserted /\ IsFiniteSet(InBox(n))
<1>1. NumAgents \in Nat /\ next \in 0 .. NumAgents
  BY HalfSides DEF FrameOK
<1>2. Inserted \subseteq Agent
  BY <1>1 DEF Inserted, Agent
<1>3. IsFiniteSet(Agent)
  <2>1. 0 \in Int /\ NumAgents - 1 \in Int
    BY <1>1
  <2> QED
    BY <2>1, FS_Interval DEF Agent
<1>4. \A n \in DOMAIN tree : InBox(n) \subseteq Inserted
  BY DEF InBox
<1>5. \A n \in DOMAIN tree : InBox(n) \subseteq Agent
  BY <1>2, <1>4
<1>6. \A n \in DOMAIN tree : IsFiniteSet(InBox(n))
  BY <1>3, <1>5, FS_Subset
<1> QED
  BY <1>2, <1>3, <1>4, <1>6

\* What a call of Insert finds, and what it leaves alone.
InsertContext ==
  /\ FrameOK /\ TreeOK /\ phase = "build" /\ calls # <<>>
  /\ UNCHANGED <<pos, treePos, next, phase, keyVars>>

LEMMA CallFound ==
  ASSUME InsertContext
  PROVE  LET n == Head(calls).node
             a == Head(calls).agent
         IN  /\ calls \in Seq([node : DOMAIN tree, agent : Inserted])
             /\ calls \in Seq(Call) /\ 1 \in DOMAIN calls /\ Head(calls) = calls[1]
             /\ n \in DOMAIN tree /\ n \in Seq(Child) /\ a \in Inserted /\ a \in Agent
             /\ \A j \in DOMAIN calls :
                  /\ calls[j].node \in DOMAIN tree /\ calls[j].node \in Seq(Child)
                  /\ calls[j].agent \in Inserted
             /\ PointContained(pos[a], tree[n].position, tree[n].size) =
                  In(treePos[a], tree[n])
             /\ Inserted' = Inserted
             /\ \A m \in DOMAIN tree :
                  tree[m] \in NodeType /\ m \in Seq(Child) /\ Len(m) \in Nat
             /\ \A m : /\ m \in Leaves => m \in DOMAIN tree
                       /\ m \in Inner => m \in DOMAIN tree
                       /\ m \in DOMAIN tree => (m \in Leaves <=> tree[m].isLeaf)
                       /\ m \in DOMAIN tree => (m \in Inner <=> ~tree[m].isLeaf)
<1> USE DEF InsertContext
<1>1. /\ DOMAIN tree \subseteq Seq(Child) /\ tree \in [DOMAIN tree -> NodeType]
      /\ calls \in Seq([node : DOMAIN tree, agent : Inserted])
  BY DEF TreeOK, TreeType, CallType
<1>2. Inserted \subseteq Agent
  BY InsertedAgents
<1> DEFINE R == [node : DOMAIN tree, agent : Inserted]
<1>3. calls \in Seq(R) /\ calls # <<>>
  BY <1>1
<1>4. \A r \in R : r \in Call /\ r.node \in DOMAIN tree /\ r.agent \in Inserted
                   /\ r.node \in Seq(Child) /\ r.agent \in Agent
  BY <1>1, <1>2 DEF Call
<1> HIDE DEF R
<1>5. /\ 1 \in DOMAIN calls /\ Head(calls) = calls[1]
      /\ \A j \in DOMAIN calls : calls[j] \in R
  BY <1>3
<1>6. calls \in Seq(Call)
  BY <1>3, <1>4
<1>7. Inserted' = Inserted
  BY DEF Inserted, keyVars
<1>8. \A a, n : PointContained(pos[a], tree[n].position, tree[n].size) =
                  In(treePos[a], tree[n])
  BY DEF FrameOK, In
<1>9. \A m \in DOMAIN tree :
        tree[m] \in NodeType /\ m \in Seq(Child) /\ Len(m) \in Nat
  BY <1>1
<1>10. \A m : /\ m \in Leaves => m \in DOMAIN tree
              /\ m \in Inner => m \in DOMAIN tree
              /\ m \in DOMAIN tree => (m \in Leaves <=> tree[m].isLeaf)
              /\ m \in DOMAIN tree => (m \in Inner <=> ~tree[m].isLeaf)
  BY DEF Leaves, Inner
<1>11. /\ Head(calls).node \in DOMAIN tree /\ Head(calls).node \in Seq(Child)
       /\ Head(calls).agent \in Inserted /\ Head(calls).agent \in Agent
       /\ \A j \in DOMAIN calls :
            /\ calls[j].node \in DOMAIN tree /\ calls[j].node \in Seq(Child)
            /\ calls[j].agent \in Inserted
  BY <1>4, <1>5
<1> QED
  BY <1>1, <1>5, <1>6, <1>7, <1>8, <1>9, <1>10, <1>11

\* The agents in the box of a node stay while the box stays.
LEMMA SameInBox ==
  ASSUME InsertContext, NEW m, tree'[m].position = tree[m].position,
         tree'[m].size = tree[m].size
  PROVE  InBox(m)' = InBox(m)
BY CallFound DEF InsertContext, InBox

\* Outside of the box nothing happens.
LEMMA InsertOutside ==
  ASSUME InsertContext, ~In(treePos[Head(calls).agent], tree[Head(calls).node]),
         calls' = Tail(calls), UNCHANGED tree
  PROVE  TreeOK'
<1> DEFINE n == Head(calls).node
           a == Head(calls).agent
<1>1. /\ calls \in Seq([node : DOMAIN tree, agent : Inserted])
      /\ calls \in Seq(Call) /\ 1 \in DOMAIN calls /\ Head(calls) = calls[1]
      /\ n \in DOMAIN tree /\ a \in Agent /\ Inserted' = Inserted
      /\ \A m \in DOMAIN tree : tree[m] \in NodeType
      /\ \A m \in Leaves : m \in DOMAIN tree
      /\ calls # <<>> /\ Inserted \subseteq Agent
  BY CallFound, InsertedAgents DEF InsertContext
<1>2. TreeOK
  BY DEF InsertContext
<1>3. /\ calls' \in Seq([node : DOMAIN tree, agent : Inserted])
      /\ \A j \in DOMAIN calls' :
           j + 1 \in DOMAIN calls \ {1} /\ calls'[j] = calls[j + 1] /\ j \in Int
      /\ \A k \in DOMAIN calls \ {1} : k - 1 \in DOMAIN calls' /\ calls'[k - 1] = calls[k]
  <2> DEFINE R == [node : DOMAIN tree, agent : Inserted]
  <2>1. calls \in Seq(R) /\ calls # <<>>
    BY <1>1
  <2> HIDE DEF R
  <2>2. /\ calls' \in Seq(R)
        /\ \A j \in DOMAIN calls' :
             j + 1 \in DOMAIN calls \ {1} /\ calls'[j] = calls[j + 1] /\ j \in Int
        /\ \A k \in DOMAIN calls \ {1} :
             k - 1 \in DOMAIN calls' /\ calls'[k - 1] = calls[k]
    BY <2>1
  <2> QED
    BY <2>2 DEF R
<1>4. Leaves' = Leaves /\ Inner' = Inner
  BY DEF Leaves, Inner
<1>5. \A l : InBox(l)' = InBox(l) /\ \A b : Holds(l, b)' <=> Holds(l, b)
  BY SameInBox DEF Holds
<1>6. TreeType' /\ CallType' /\ Nested' /\ Covered' /\ Separated'
  <2>1. treePos' = treePos
    BY DEF InsertContext
  <2> QED
    BY <1>1, <1>2, <1>3, <1>4, <2>1
    DEF TreeOK, TreeType, CallType, Nested, Covered, Separated
<1>7. ContentsOK'
  BY <1>2, <1>4, <1>5 DEF TreeOK, ContentsOK, DepthLeft
<1>8. Promised'
  <2> SUFFICES ASSUME NEW l \in Leaves, NEW b \in InBox(l), ~Holds(l, b)
               PROVE  Waiting(b, l)'
    BY <1>4, <1>5 DEF Promised
  <2>1. PICK j \in DOMAIN calls : calls[j].agent = b /\ OnWay(calls[j].node, l)
    BY <1>2 DEF TreeOK, Promised, Waiting
  <2>2. j # 1
    <3>1. SUFFICES ASSUME j = 1 PROVE FALSE
      OBVIOUS
    <3>2. b = a /\ OnWay(n, l) /\ l \in DOMAIN tree
      BY <1>1, <2>1, <3>1
    <3>3. Within(tree[l], tree[n])
      BY <1>1, <1>2, <3>2 DEF TreeOK, Nested
    <3>4. In(treePos[a], tree[l])
      BY <3>2 DEF InBox, In
    <3>5. treePos[a] \in StartSpace
      BY <1>1 DEF InsertContext, FrameOK
    <3>6. In(treePos[a], tree[n])
      BY <1>1, <3>2, <3>3, <3>4, <3>5, PartOfBox
    <3> QED
      BY <3>6
  <2>3. j - 1 \in DOMAIN calls' /\ calls'[j - 1] = calls[j]
    BY <1>3, <2>2
  <2> QED
    BY <2>1, <2>3 DEF Waiting
<1>9. Once'
  <2>1. ASSUME NEW j \in DOMAIN calls', NEW l \in Leaves', OnWay(calls'[j].node, l),
               NEW k \in DOMAIN tree'[l].contents
        PROVE  tree'[l].contents[k] # calls'[j].agent
    <3>1. j + 1 \in DOMAIN calls /\ calls'[j] = calls[j + 1] /\ l \in Leaves
      BY <1>3, <1>4
    <3>2. ~Holds(l, calls[j + 1].agent)
      BY <1>2, <2>1, <3>1 DEF TreeOK, Once
    <3> QED
      BY <3>1, <3>2 DEF Holds
  <2>2. ASSUME NEW i \in DOMAIN calls', NEW j \in DOMAIN calls', i # j,
               calls'[i].agent = calls'[j].agent
        PROVE  ~OnWay(calls'[i].node, calls'[j].node)
    <3>1. i + 1 # j + 1 /\ i + 1 \in DOMAIN calls /\ j + 1 \in DOMAIN calls
          /\ calls'[i] = calls[i + 1] /\ calls'[j] = calls[j + 1]
      BY <1>3, <2>2
    <3> QED
      BY <1>2, <2>2, <3>1 DEF TreeOK, Once
  <2> QED
    BY <2>1, <2>2 DEF Once, Holds
<1> QED
  BY <1>6, <1>7, <1>8, <1>9 DEF TreeOK

\* A node with children hands the agent on to all of them.
LEMMA InsertInner ==
  ASSUME InsertContext, Head(calls).node \in Inner,
         calls' = HandOn(Head(calls).node, <<Head(calls).agent>>) \o Tail(calls),
         UNCHANGED tree
  PROVE  TreeOK'
<1> DEFINE n == Head(calls).node
           a == Head(calls).agent
           H == HandOn(n, <<a>>)
<1>1. /\ calls \in Seq([node : DOMAIN tree, agent : Inserted])
      /\ calls \in Seq(Call) /\ 1 \in DOMAIN calls /\ calls[1].node = n /\ calls[1].agent = a
      /\ n \in DOMAIN tree /\ n \in Seq(Child) /\ a \in Inserted /\ a \in Agent
      /\ Inserted' = Inserted
      /\ \A m \in DOMAIN tree : m \in Seq(Child)
      /\ \A m \in Leaves : m \in DOMAIN tree
      /\ calls # <<>> /\ n \in Inner
  BY CallFound DEF InsertContext
<1>5. calls' = H \o Tail(calls)
  OBVIOUS
<1> HIDE DEF n, a
<1>2. TreeOK
  BY DEF InsertContext
<1>3. Children(n) \subseteq DOMAIN tree
  BY <1>1, <1>2 DEF TreeOK, Nested
<1>4. /\ H \in Seq([node : Children(n), agent : Agent])
      /\ \A k \in DOMAIN H :
           H[k].agent = a /\ \E i \in Child : H[k].node = Append(n, i)
      /\ \A i \in Child : \E k \in DOMAIN H : H[k].node = Append(n, i) /\ H[k].agent = a
      /\ \A k, m \in DOMAIN H :
           k # m /\ H[k].agent = H[m].agent => ~OnWay(H[k].node, H[m].node)
  <2> DEFINE s == <<a>>
  <2>1. s \in Seq(Agent) /\ Len(s) = 1 /\ DOMAIN s = 1 .. 1 /\ s[1] = a
        /\ \A i, j \in DOMAIN s : s[i] = s[j] => i = j
    BY <1>1
  <2> HIDE DEF s
  <2> DEFINE G == HandOn(n, s)
  <2>2. /\ G \in Seq([node : Children(n), agent : Agent])
        /\ \A k \in 1 .. Len(G) : \E i \in Child, j \in 1 .. Len(s) :
             G[k].node = Append(n, i) /\ G[k].agent = s[j]
        /\ \A i \in Child, j \in 1 .. Len(s) : \E k \in 1 .. Len(G) :
             G[k].node = Append(n, i) /\ G[k].agent = s[j]
        /\ \A k, m \in 1 .. Len(G) :
             k # m /\ G[k].agent = G[m].agent => ~OnWay(G[k].node, G[m].node)
    BY <1>1, <2>1, HandedOn
  <2> HIDE DEF G
  <2>3. DOMAIN G = 1 .. Len(G)
    BY <2>2
  <2>4. \A j : j \in 1 .. Len(s) <=> j = 1
    BY <2>1
  <2>5. \A k \in DOMAIN G : G[k].agent = a /\ \E i \in Child : G[k].node = Append(n, i)
    BY <2>1, <2>2, <2>3, <2>4
  <2>6. \A i \in Child : \E k \in DOMAIN G : G[k].node = Append(n, i) /\ G[k].agent = a
    BY <2>1, <2>2, <2>3, <2>4
  <2>7. \A k, m \in DOMAIN G :
          k # m /\ G[k].agent = G[m].agent => ~OnWay(G[k].node, G[m].node)
    BY <2>2, <2>3
  <2> QED
    BY <2>2, <2>5, <2>6, <2>7 DEF G, s
<1> HIDE DEF H
<1> DEFINE R == [node : DOMAIN tree, agent : Inserted]
<1>6. H \in Seq(R) /\ calls \in Seq(R)
  <2> DEFINE Q == [node : Children(n), agent : Agent]
  <2>1. H \in Seq(Q)
    BY <1>4
  <2>2. \A q \in Q : q.agent = a => q \in R
    BY <1>1, <1>3
  <2>3. \A k \in DOMAIN H : H[k] \in Q /\ H[k].agent = a
    <3> HIDE DEF Q
    <3> QED
      BY <1>4, <2>1
  <2>4. \A k \in DOMAIN H : H[k] \in R
    BY <2>2, <2>3
  <2> HIDE DEF Q, R
  <2>5. H \in Seq(R)
    BY <2>1, <2>4
  <2> QED
    BY <1>1, <2>5 DEF R
<1> HIDE DEF R
<1>0. calls # <<>>
  BY <1>1
<1>7. calls' \in Seq(R) /\ Pushed(calls', H, calls)
  BY <1>0, <1>5, <1>6, StackPlaces
<1>8. Leaves' = Leaves /\ Inner' = Inner
  BY DEF Leaves, Inner
<1>9. \A l : InBox(l)' = InBox(l) /\ \A b : Holds(l, b)' <=> Holds(l, b)
  BY SameInBox DEF Holds
<1>10. TreeType' /\ CallType' /\ Nested' /\ Covered' /\ Separated'
  <2>1. treePos' = treePos
    BY DEF InsertContext
  <2>2. CallType'
    BY <1>1, <1>7 DEF CallType, R
  <2> QED
    BY <1>2, <1>8, <2>1, <2>2 DEF TreeOK, TreeType, Nested, Covered, Separated
<1>11. ContentsOK'
  BY <1>2, <1>8, <1>9 DEF TreeOK, ContentsOK, DepthLeft
<1>12. Promised'
  <2> SUFFICES ASSUME NEW l \in Leaves, NEW b \in InBox(l), ~Holds(l, b)
               PROVE  Waiting(b, l)'
    BY <1>8, <1>9 DEF Promised
  <2>1. PICK j \in DOMAIN calls : calls[j].agent = b /\ OnWay(calls[j].node, l)
    BY <1>2 DEF TreeOK, Promised, Waiting
  <2>2. CASE j = 1
    <3>1. b = a /\ OnWay(n, l) /\ l \in Seq(Child)
      BY <1>1, <2>1, <2>2
    <3>2. n # l
      BY <1>1 DEF Inner
    <3>3. PICK i \in Child : OnWay(Append(n, i), l)
      BY <1>1, <3>1, <3>2, BelowInChild
    <3>4. PICK k \in DOMAIN H : H[k].node = Append(n, i) /\ H[k].agent = a
      BY <1>4
    <3>5. k \in DOMAIN calls' /\ calls'[k] = H[k]
      BY <1>7, <3>4 DEF Pushed
    <3>6. calls'[k].agent = b /\ OnWay(calls'[k].node, l)
      BY <3>1, <3>3, <3>4, <3>5
    <3> QED
      BY <3>5, <3>6 DEF Waiting
  <2>3. CASE j # 1
    BY <1>7, <2>1, <2>3 DEF Waiting, Pushed
  <2> QED
    BY <2>2, <2>3
<1>13. Once'
  <2>1. ASSUME NEW j \in DOMAIN calls', NEW l \in Leaves', OnWay(calls'[j].node, l),
               NEW k \in DOMAIN tree'[l].contents
        PROVE  tree'[l].contents[k] # calls'[j].agent
    <3>0. l \in Leaves /\ l \in Seq(Child)
      BY <1>1, <1>8
    <3>1. \E i \in DOMAIN calls :
            calls[i].agent = calls'[j].agent /\ OnWay(calls[i].node, l)
      <4>1. CASE j \in DOMAIN H /\ calls'[j] = H[j]
        <5>1. PICK i \in Child : H[j].node = Append(n, i)
          BY <1>4, <4>1
        <5>2. OnWay(n, Append(n, i)) /\ Append(n, i) \in Seq(Child)
          BY <1>1, OnWayToChild, OnWayOrder, AppendedWay
        <5>3. OnWay(n, l)
          <6> DEFINE c == Append(n, i)
          <6>1. OnWay(n, c) /\ OnWay(c, l) /\ c \in Seq(Child) /\ l \in Seq(Child)
                /\ n \in Seq(Child)
            BY <1>1, <2>1, <3>0, <4>1, <5>1, <5>2
          <6> HIDE DEF c, n
          <6> QED
            BY <6>1, OnWayOrder
        <5>4. H[j].agent = a
          BY <1>4, <4>1
        <5> QED
          BY <1>1, <4>1, <5>3, <5>4
      <4>2. CASE j - Len(H) + 1 \in DOMAIN calls \ {1} /\ calls'[j] = calls[j - Len(H) + 1]
        BY <2>1, <4>2
      <4> QED
        BY <1>7, <4>1, <4>2 DEF Pushed
    <3>2. ~Holds(l, calls'[j].agent)
      BY <1>2, <3>0, <3>1 DEF TreeOK, Once
    <3> QED
      BY <3>2 DEF Holds
  <2>2. \A i, j \in DOMAIN calls :
          i # j /\ calls[i].agent = calls[j].agent => ~OnWay(calls[i].node, calls[j].node)
    BY <1>2 DEF TreeOK, Once
  <2>3. ASSUME NEW k \in DOMAIN H, NEW j \in DOMAIN calls \ {1}, calls[j].agent = H[k].agent
        PROVE  ~OnWay(n, calls[j].node) /\ ~OnWay(calls[j].node, n)
    BY <1>1, <1>4, <2>2, <2>3
  <2>4. \A i, j \in DOMAIN calls' :
          i # j /\ calls'[i].agent = calls'[j].agent =>
            ~OnWay(calls'[i].node, calls'[j].node)
    <3>1. /\ calls \in Seq(Call) /\ n \in Seq(Child)
          /\ H \in Seq([node : Children(n), agent : Agent])
          /\ \A k, m \in DOMAIN H :
               k # m /\ H[k].agent = H[m].agent => ~OnWay(H[k].node, H[m].node)
      BY <1>1, <1>4
    <3>2. AllApart(H) /\ AllApart(calls) /\ OthersApart(n, H, calls)
      BY <2>2, <2>3, <3>1 DEF AllApart, OthersApart
    <3>3. AllApart(calls')
      BY <1>0, <1>5, <3>1, <3>2, ApartAfter
    <3> QED
      BY <3>3 DEF AllApart
  <2> QED
    BY <2>1, <2>4 DEF Once, Holds
<1> QED
  BY <1>10, <1>11, <1>12, <1>13 DEF TreeOK

\* A leaf has room, or may not be split: it takes the agent.
LEMMA InsertTakes ==
  ASSUME InsertContext, NEW n, NEW a, n = Head(calls).node, a = Head(calls).agent,
         n \in Leaves, In(treePos[a], tree[n]),
         ~Overflows(Append(tree[n].contents, a), DepthLeft(n)),
         calls' = Tail(calls),
         tree' = [tree EXCEPT ![n].contents = Append(tree[n].contents, a)]
  PROVE  TreeOK'
<1> DEFINE c == tree[n].contents
           g == Append(c, a)
<1>1. /\ calls \in Seq([node : DOMAIN tree, agent : Inserted])
      /\ calls \in Seq(Call) /\ 1 \in DOMAIN calls /\ calls[1].node = n /\ calls[1].agent = a
      /\ n \in DOMAIN tree /\ n \in Seq(Child) /\ a \in Inserted /\ a \in Agent
      /\ Inserted' = Inserted
      /\ \A m \in DOMAIN tree : m \in Seq(Child)
      /\ \A m \in Leaves : m \in DOMAIN tree
      /\ \A j \in DOMAIN calls : calls[j].node \in DOMAIN tree
      /\ calls # <<>> /\ treePos' = treePos /\ tree[n] \in NodeType
  BY CallFound DEF InsertContext
<1>2. TreeOK
  BY DEF InsertContext
<1>3. /\ c \in Seq(Agent) /\ g \in Seq(Agent) /\ Len(c) \in Nat /\ Len(g) = Len(c) + 1
      /\ DOMAIN c = 1 .. Len(c) /\ DOMAIN g = 1 .. Len(c) + 1
      /\ g[Len(c) + 1] = a /\ \A k \in DOMAIN c : g[k] = c[k]
  <2>1. c \in Seq(Agent)
    BY <1>1 DEF NodeType
  <2> HIDE DEF c
  <2> QED
    BY <1>1, <2>1
<1>4. tree' = [tree EXCEPT ![n].contents = g] /\ ~Overflows(g, DepthLeft(n))
  OBVIOUS
<1> HIDE DEF c, g
<1>5. /\ TreeType' /\ Nested' /\ Covered' /\ Separated'
      /\ Leaves' = Leaves /\ Inner' = Inner /\ DOMAIN tree' = DOMAIN tree
      /\ \A m \in DOMAIN tree :
           /\ tree'[m].position = tree[m].position /\ tree'[m].size = tree[m].size
           /\ tree'[m].contents = IF m = n THEN g ELSE tree[m].contents
  BY <1>1, <1>2, <1>3, <1>4, SameBoxes DEF TreeOK
<1>6. \A m \in DOMAIN tree : InBox(m)' = InBox(m)
  BY <1>5, SameInBox
<1>7. /\ calls' \in Seq([node : DOMAIN tree, agent : Inserted])
      /\ \A j \in DOMAIN calls' :
           j + 1 \in DOMAIN calls \ {1} /\ calls'[j] = calls[j + 1] /\ j \in Int
      /\ \A k \in DOMAIN calls \ {1} : k - 1 \in DOMAIN calls' /\ calls'[k - 1] = calls[k]
  <2> DEFINE R == [node : DOMAIN tree, agent : Inserted]
  <2>1. calls \in Seq(R) /\ calls # <<>>
    BY <1>1
  <2> HIDE DEF R
  <2>2. /\ calls' \in Seq(R)
        /\ \A j \in DOMAIN calls' :
             j + 1 \in DOMAIN calls \ {1} /\ calls'[j] = calls[j + 1] /\ j \in Int
        /\ \A k \in DOMAIN calls \ {1} :
             k - 1 \in DOMAIN calls' /\ calls'[k - 1] = calls[k]
    BY <2>1
  <2> QED
    BY <2>2 DEF R
<1>8. CallType'
  BY <1>1, <1>5, <1>7 DEF CallType
<1>9. OnWay(n, n) /\ \A l \in Leaves : OnWay(n, l) => n = l
  BY <1>1, <1>2, OnWayOrder DEF TreeOK, Nested
<1>10. ~Holds(n, a)
  BY <1>1, <1>2, <1>9 DEF TreeOK, Once
<1>11. a \in InBox(n)
  BY <1>1 DEF InBox, In
<1>12. ContentsOK'
  <2>1. ASSUME NEW l \in Leaves', NEW j \in DOMAIN tree'[l].contents,
               NEW k \in DOMAIN tree'[l].contents, tree'[l].contents[j] = tree'[l].contents[k]
        PROVE  j = k
    <3>1. CASE l = n
      <4>1. \A i \in DOMAIN c : c[i] # a
        BY <1>10 DEF Holds, c
      <4>2. \A x, y \in DOMAIN c : c[x] = c[y] => x = y
        BY <1>2 DEF TreeOK, ContentsOK, c
      <4>3. tree'[l].contents = g
        BY <1>1, <1>5, <3>1
      <4>4. j \in DOMAIN g /\ k \in DOMAIN g /\ g[j] = g[k]
        BY <2>1, <4>3
      <4>5. \A i \in DOMAIN g : i \in DOMAIN c \/ i = Len(c) + 1
        BY <1>3
      <4> QED
        BY <1>3, <4>1, <4>2, <4>4, <4>5
    <3>2. CASE l # n
      BY <1>1, <1>2, <1>5, <2>1, <3>2 DEF TreeOK, ContentsOK
    <3> QED
      BY <3>1, <3>2
  <2>2. ASSUME NEW l \in Leaves', NEW k \in DOMAIN tree'[l].contents
        PROVE  tree'[l].contents[k] \in InBox(l)'
    <3>1. CASE l = n
      <4>1. \A i \in DOMAIN c : c[i] \in InBox(n)
        BY <1>2 DEF TreeOK, ContentsOK, c
      <4>2. tree'[l].contents = g
        BY <1>1, <1>5, <3>1
      <4>3. k \in DOMAIN c \/ k = Len(c) + 1
        BY <1>3, <4>2
      <4>4. g[k] \in InBox(n)
        BY <1>3, <1>11, <4>1, <4>3
      <4> QED
        BY <1>1, <1>6, <3>1, <4>2, <4>4
    <3>2. CASE l # n
      BY <1>1, <1>2, <1>5, <1>6, <3>2 DEF TreeOK, ContentsOK
    <3> QED
      BY <3>1, <3>2
  <2>3. ASSUME NEW l \in Leaves'
        PROVE  Len(tree'[l].contents) <= MaxSize \/ DepthLeft(l) = 0
    <3>1. CASE l = n
      <4>0. tree'[l].contents = g
        BY <1>1, <1>5, <3>1
      <4>1. tree'[l].contents = g /\ Len(n) \in Nat /\ Len(n) <= MaxDepth
        BY <1>1, <1>2, <4>0 DEF TreeOK, Nested
      <4>2. Len(g) \in Nat
        BY <1>3
      <4> QED
        BY <1>4, <3>1, <4>1, <4>2, HalfSides DEF Overflows, DepthLeft
    <3>2. CASE l # n
      BY <1>1, <1>2, <1>5, <3>2 DEF TreeOK, ContentsOK
    <3> QED
      BY <3>1, <3>2
  <2>4. \A m \in Inner' : Cardinality(InBox(m)') > MaxSize
    BY <1>2, <1>5, <1>6 DEF TreeOK, ContentsOK, Inner
  <2> QED
    BY <2>1, <2>2, <2>3, <2>4 DEF ContentsOK, DepthLeft
<1>13. \A l \in Leaves : \A b : Holds(l, b)' <=> Holds(l, b) \/ (l = n /\ b = a)
  <2> TAKE l \in Leaves
  <2> TAKE b
  <2>1. CASE l # n
    BY <1>1, <1>5, <2>1 DEF Holds
  <2>2. CASE l = n
    <3>1. tree'[l].contents = g /\ tree[l].contents = c
      BY <1>1, <1>5, <2>2 DEF c
    <3>0. \A k \in DOMAIN g : k \in DOMAIN c \/ k = Len(c) + 1
      BY <1>3
    <3>3. Len(c) + 1 \in DOMAIN g /\ \A k \in DOMAIN c : k \in DOMAIN g
      BY <1>3
    <3>2. (\E k \in DOMAIN g : g[k] = b) <=> (\E k \in DOMAIN c : c[k] = b) \/ b = a
      BY <1>3, <3>0, <3>3
    <3> QED
      BY <2>2, <3>1, <3>2 DEF Holds
  <2> QED
    BY <2>1, <2>2
<1>14. Promised'
  <2> SUFFICES ASSUME NEW l \in Leaves, NEW b \in InBox(l), ~Holds(l, b), l # n \/ b # a
               PROVE  Waiting(b, l)'
    BY <1>1, <1>5, <1>6, <1>13 DEF Promised
  <2>1. PICK j \in DOMAIN calls : calls[j].agent = b /\ OnWay(calls[j].node, l)
    BY <1>2 DEF TreeOK, Promised, Waiting
  <2>2. j # 1
    BY <1>1, <1>9, <2>1
  <2>3. j - 1 \in DOMAIN calls' /\ calls'[j - 1] = calls[j]
    BY <1>7, <2>2
  <2> QED
    BY <2>1, <2>3 DEF Waiting
<1>15. Once'
  <2>1. ASSUME NEW j \in DOMAIN calls', NEW l \in Leaves', OnWay(calls'[j].node, l),
               NEW k \in DOMAIN tree'[l].contents
        PROVE  tree'[l].contents[k] # calls'[j].agent
    <3>1. /\ j + 1 \in DOMAIN calls \ {1} /\ calls'[j] = calls[j + 1] /\ l \in Leaves
      BY <1>5, <1>7
    <3>2. ~Holds(l, calls[j + 1].agent)
      BY <1>2, <2>1, <3>1 DEF TreeOK, Once
    <3>3. l # n \/ calls[j + 1].agent # a
      BY <1>1, <1>2, <2>1, <3>1 DEF TreeOK, Once
    <3> DEFINE b == calls[j + 1].agent
    <3>4. l # n \/ \A i \in DOMAIN c : c[i] # b
      BY <3>2 DEF Holds, c
    <3>5. CASE l = n
      <4>1. tree'[l].contents = g
        BY <1>1, <1>5, <3>5
      <4>2. b # a /\ \A i \in DOMAIN c : c[i] # b
        BY <3>3, <3>4, <3>5
      <4>3. k \in DOMAIN c \/ k = Len(c) + 1
        BY <1>3, <4>1
      <4>4. g[k] # b
        BY <1>3, <4>2, <4>3
      <4> QED
        BY <3>1, <4>1, <4>4
    <3>6. CASE l # n
      <4>1. tree'[l].contents = tree[l].contents
        BY <1>1, <1>5, <3>1, <3>6
      <4> QED
        BY <3>1, <3>2, <4>1 DEF Holds
    <3> QED
      BY <3>5, <3>6
  <2>2. ASSUME NEW i \in DOMAIN calls', NEW j \in DOMAIN calls', i # j,
               calls'[i].agent = calls'[j].agent
        PROVE  ~OnWay(calls'[i].node, calls'[j].node)
    <3>1. i + 1 # j + 1 /\ i + 1 \in DOMAIN calls /\ j + 1 \in DOMAIN calls
          /\ calls'[i] = calls[i + 1] /\ calls'[j] = calls[j + 1]
      BY <1>7, <2>2
    <3> QED
      BY <1>2, <2>2, <3>1 DEF TreeOK, Once
  <2> QED
    BY <2>1, <2>2 DEF Once, Holds
<1> QED
  BY <1>5, <1>8, <1>12, <1>14, <1>15 DEF TreeOK

\* A sequence that repeats nobody is no longer than a set its agents are from.
LEMMA NoLonger ==
  ASSUME NEW S, IsFiniteSet(S), NEW g \in Seq(S), \A j, k \in DOMAIN g : g[j] = g[k] => j = k
  PROVE  Len(g) <= Cardinality(S) /\ Len(g) \in Nat /\ Cardinality(S) \in Nat
<1> DEFINE m == Len(g)
           T == 1 .. m
<1>1. m \in Nat /\ DOMAIN g = T
  OBVIOUS
<1>2. IsFiniteSet(T) /\ Cardinality(T) = m
  <2>1. 1 \in Int /\ m \in Int /\ 1 <= m + 1
    BY <1>1
  <2>2. IsFiniteSet(1 .. m) /\ Cardinality(1 .. m) = IF 1 > m THEN 0 ELSE m - 1 + 1
    BY <2>1, FS_Interval
  <2> QED
    BY <1>1, <2>2
<1>3. g \in [T -> S]
  BY <1>1
<1> HIDE DEF T, m
<1>4. g \in Injection(T, S)
  BY <1>1, <1>3 DEF Injection, IsInjective
<1>6. Cardinality(T) <= Cardinality(S)
  BY <1>4, FS_Injection
<1> QED
  BY <1>1, <1>2, <1>6, FS_CardinalityType DEF m

\* A leaf has too many agents: it splits, and hands on all it has.
LeafSplits(n, a) ==
  LET g == Append(tree[n].contents, a)
  IN  /\ n = Head(calls).node /\ a = Head(calls).agent
      /\ n \in Leaves /\ In(treePos[a], tree[n]) /\ Overflows(g, DepthLeft(n))
      /\ calls' = HandOn(n, g) \o Tail(calls) /\ tree' = Split(n)

LEMMA InsertSplits ==
  ASSUME InsertContext, NEW n, NEW a, LeafSplits(n, a)
  PROVE  TreeOK'
<1> DEFINE c == tree[n].contents
           g == Append(c, a)
           H == HandOn(n, g)
<1>1. /\ calls \in Seq([node : DOMAIN tree, agent : Inserted])
      /\ calls \in Seq(Call) /\ 1 \in DOMAIN calls /\ calls[1].node = n /\ calls[1].agent = a
      /\ n \in DOMAIN tree /\ n \in Seq(Child) /\ a \in Inserted /\ a \in Agent
      /\ Inserted' = Inserted
      /\ \A m \in DOMAIN tree : m \in Seq(Child) /\ tree[m] \in NodeType /\ Len(m) \in Nat
      /\ \A m \in Leaves : m \in DOMAIN tree
      /\ \A j \in DOMAIN calls : calls[j].node \in DOMAIN tree
      /\ calls # <<>> /\ treePos' = treePos /\ treePos \in [Agent -> StartSpace]
      /\ n \in Leaves /\ In(treePos[a], tree[n]) /\ tree' = Split(n)
  BY CallFound DEF InsertContext, FrameOK, LeafSplits
<1>2. TreeOK
  BY DEF InsertContext
<1>3. /\ c \in Seq(Agent) /\ g \in Seq(Agent) /\ Len(c) \in Nat /\ Len(g) = Len(c) + 1
      /\ DOMAIN c = 1 .. Len(c) /\ DOMAIN g = 1 .. Len(c) + 1
      /\ g[Len(c) + 1] = a /\ \A k \in DOMAIN c : g[k] = c[k]
  <2>1. c \in Seq(Agent)
    BY <1>1 DEF NodeType
  <2> HIDE DEF c
  <2> QED
    BY <1>1, <2>1
<1>14. Overflows(g, DepthLeft(n)) /\ calls' = H \o Tail(calls) /\ calls # <<>>
  BY <1>1 DEF LeafSplits
<1> HIDE DEF c, g
<1>4. \A k \in DOMAIN g : k \in DOMAIN c \/ k = Len(c) + 1
  BY <1>3
<1>5. OnWay(n, n) /\ \A m \in DOMAIN tree : OnWay(n, m) => n = m
  BY <1>1, <1>2, OnWayOrder DEF TreeOK, Nested
<1>6. ~Holds(n, a) /\ \A k \in DOMAIN c : c[k] # a /\ Holds(n, c[k])
  <2>1. ~Holds(n, a)
    BY <1>1, <1>2, <1>5 DEF TreeOK, Once
  <2> QED
    BY <2>1 DEF Holds, c
<1>7. \A k \in DOMAIN g : g[k] \in InBox(n)
  <2>1. a \in InBox(n)
    BY <1>1 DEF InBox, In
  <2>2. \A k \in DOMAIN c : c[k] \in InBox(n)
    BY <1>1, <1>2 DEF TreeOK, ContentsOK, c
  <2> QED
    BY <1>3, <1>4, <2>1, <2>2
<1>8. ASSUME NEW j \in DOMAIN g, NEW k \in DOMAIN g, g[j] = g[k] PROVE j = k
  <2>1. \A x, y \in DOMAIN c : c[x] = c[y] => x = y
    BY <1>1, <1>2 DEF TreeOK, ContentsOK, c
  <2> QED
    BY <1>3, <1>4, <1>6, <1>8, <2>1
<1>9. Len(n) < MaxDepth /\ Len(g) > MaxSize
  BY <1>1, <1>14, HalfSides DEF Overflows, DepthLeft
<1>10. /\ DOMAIN tree' = DOMAIN tree \cup Children(n)
       /\ \A m \in DOMAIN tree : m # n => tree'[m] = tree[m]
       /\ tree'[n].position = tree[n].position /\ tree'[n].size = tree[n].size
       /\ \A i \in Child : tree'[Append(n, i)] = NewChild(tree[n], i)
       /\ TreeType' /\ Leaves' = (Leaves \ {n}) \cup Children(n) /\ Inner' = Inner \cup {n}
       /\ HalfSide[Len(n) + 1] \in Nat \ {0} /\ tree[n].size = 2 * HalfSide[Len(n) + 1]
  BY <1>2, <1>1, <1>9, SplitShape DEF TreeOK
<1>11. Nested' /\ Covered' /\ Separated'
  BY <1>1, <1>2, <1>9, SplitNested, SplitCovered, SplitSeparated DEF TreeOK
<1>12. ASSUME NEW i \in Child
       PROVE  /\ tree'[Append(n, i)].contents = <<>>
              /\ Within(tree'[Append(n, i)], tree[n]) /\ tree'[Append(n, i)] \in NodeType
  <2>1. /\ tree[n] \in NodeType /\ tree'[Append(n, i)] = NewChild(tree[n], i)
        /\ HalfSide[Len(n) + 1] \in Nat \ {0} /\ tree[n].size = 2 * HalfSide[Len(n) + 1]
    BY <1>1, <1>10
  <2> QED
    BY <2>1, ChildBox
<1>0. n \in Seq(Child) /\ g \in Seq(Agent) /\ \A i, j \in DOMAIN g : g[i] = g[j] => i = j
  BY <1>1, <1>3, <1>8
<1>13. /\ H \in Seq([node : Children(n), agent : Agent])
       /\ \A k \in DOMAIN H : /\ \E i \in Child : H[k].node = Append(n, i)
                              /\ \E j \in DOMAIN g : H[k].agent = g[j]
       /\ \A i \in Child, j \in DOMAIN g : \E k \in DOMAIN H :
            H[k].node = Append(n, i) /\ H[k].agent = g[j]
       /\ \A k, m \in DOMAIN H :
            k # m /\ H[k].agent = H[m].agent => ~OnWay(H[k].node, H[m].node)
  <2>1. /\ H \in Seq([node : Children(n), agent : Agent])
        /\ \A k \in 1 .. Len(H) : \E i \in Child, j \in 1 .. Len(g) :
             H[k].node = Append(n, i) /\ H[k].agent = g[j]
        /\ \A i \in Child, j \in 1 .. Len(g) : \E k \in 1 .. Len(H) :
             H[k].node = Append(n, i) /\ H[k].agent = g[j]
        /\ \A k, m \in 1 .. Len(H) :
             k # m /\ H[k].agent = H[m].agent => ~OnWay(H[k].node, H[m].node)
    BY <1>0, HandedOn
  <2> HIDE DEF H
  <2>2. DOMAIN H = 1 .. Len(H) /\ DOMAIN g = 1 .. Len(g)
    BY <1>0, <2>1
  <2>3. \A k \in DOMAIN H : /\ \E i \in Child : H[k].node = Append(n, i)
                            /\ \E j \in DOMAIN g : H[k].agent = g[j]
    BY <2>1, <2>2
  <2>4. ASSUME NEW i \in Child, NEW j \in DOMAIN g
        PROVE  \E k \in DOMAIN H : H[k].node = Append(n, i) /\ H[k].agent = g[j]
    <3>1. j \in 1 .. Len(g)
      BY <2>2
    <3>2. PICK k \in 1 .. Len(H) : H[k].node = Append(n, i) /\ H[k].agent = g[j]
      BY <2>1, <3>1
    <3>3. k \in DOMAIN H
      BY <2>2
    <3> QED
      BY <3>2, <3>3
  <2> QED
    BY <2>1, <2>2, <2>3, <2>4
<1> HIDE DEF H
<1> DEFINE R == [node : DOMAIN tree', agent : Inserted]
<1>15. H \in Seq(R) /\ calls \in Seq(R)
  <2> DEFINE Q == [node : Children(n), agent : Agent]
             P == [node : DOMAIN tree, agent : Inserted]
  <2>1. H \in Seq(Q) /\ calls \in Seq(P)
    BY <1>1, <1>13
  <2>2. /\ \A q \in Q : q.agent \in Inserted => q \in R
        /\ \A q \in P : q \in R
    BY <1>10
  <2>3. \A k \in DOMAIN H : H[k].agent \in Inserted
    BY <1>7, <1>13 DEF InBox
  <2> HIDE DEF P, Q, R
  <2>4. (\A k \in DOMAIN H : H[k] \in R) /\ (\A k \in DOMAIN calls : calls[k] \in R)
    BY <2>1, <2>2, <2>3
  <2> QED
    BY <2>1, <2>4
<1> HIDE DEF R
<1>16. calls' \in Seq(R) /\ Pushed(calls', H, calls)
  BY <1>14, <1>15, StackPlaces
<1>17. CallType'
  BY <1>1, <1>16 DEF CallType, R
<1>18. \A m \in DOMAIN tree : InBox(m)' = InBox(m)
  BY <1>10, SameInBox
<1>19. \A m : m \in Leaves' <=> (m \in Leaves /\ m # n) \/ \E i \in Child : m = Append(n, i)
  BY <1>10, ChildrenDef
<1>20. \A l \in Leaves : l # n => tree'[l] = tree[l]
  BY <1>1, <1>10
<1>21. ContentsOK'
  <2>1. ASSUME NEW l \in Leaves, l # n
        PROVE  LET d == tree'[l].contents
               IN  /\ \A j, k \in DOMAIN d : d[j] = d[k] => j = k
                   /\ \A k \in DOMAIN d : d[k] \in InBox(l)'
                   /\ Len(d) <= MaxSize \/ DepthLeft(l) = 0
    BY <1>1, <1>2, <1>18, <1>20, <2>1 DEF TreeOK, ContentsOK
  <2>2. ASSUME NEW l, NEW i \in Child, l = Append(n, i)
        PROVE  LET d == tree'[l].contents
               IN  /\ \A j, k \in DOMAIN d : d[j] = d[k] => j = k
                   /\ \A k \in DOMAIN d : d[k] \in InBox(l)'
                   /\ Len(d) <= MaxSize \/ DepthLeft(l) = 0
    BY <1>12, <2>2, HalfSides
  <2>3. ASSUME NEW m \in Inner' PROVE Cardinality(InBox(m)') > MaxSize
    <3>1. m \in DOMAIN tree
      BY <1>1, <1>10 DEF Inner
    <3>2. CASE m # n
      BY <1>2, <1>10, <1>18, <3>1, <3>2 DEF TreeOK, ContentsOK
    <3>3. CASE m = n
      <4>1. IsFiniteSet(InBox(n))
        BY <1>1, InsertedAgents DEF InsertContext
      <4> DEFINE S == InBox(n)
      <4>0. IsFiniteSet(S) /\ \A k \in DOMAIN g : g[k] \in S
        BY <1>7, <4>1
      <4> HIDE DEF S
      <4>2. IsFiniteSet(S) /\ g \in Seq(S) /\ \A j, k \in DOMAIN g : g[j] = g[k] => j = k
        BY <1>0, <4>0
      <4>3. Len(g) <= Cardinality(S) /\ Len(g) \in Nat /\ Cardinality(S) \in Nat
        BY <4>2, NoLonger
      <4>4. Cardinality(S) > MaxSize
        BY <1>9, <4>3, HalfSides
      <4> QED
        BY <1>18, <3>1, <3>3, <4>4 DEF S
    <3> QED
      BY <3>2, <3>3
  <2> QED
    BY <1>19, <2>1, <2>2, <2>3 DEF ContentsOK, DepthLeft
<1>22. Promised'
  <2>1. ASSUME NEW l \in Leaves, l # n, NEW b \in InBox(l)'
        PROVE  (Holds(l, b) \/ Waiting(b, l))'
    <3>1. l \in DOMAIN tree /\ b \in InBox(l) /\ tree'[l] = tree[l]
      BY <1>1, <1>18, <1>20, <2>1
    <3>2. CASE Holds(l, b)
      BY <3>1, <3>2 DEF Holds
    <3>3. CASE ~Holds(l, b)
      <4>1. PICK j \in DOMAIN calls : calls[j].agent = b /\ OnWay(calls[j].node, l)
        BY <1>2, <3>1, <3>3 DEF TreeOK, Promised, Waiting
      <4>2. j # 1
        BY <1>1, <1>5, <2>1, <3>1, <4>1
      <4> QED
        BY <1>16, <4>1, <4>2 DEF Waiting, Pushed
    <3> QED
      BY <3>2, <3>3
  <2>2. ASSUME NEW i \in Child, NEW b \in InBox(Append(n, i))'
        PROVE  Waiting(b, Append(n, i))'
    <3> DEFINE l == Append(n, i)
    <3>1. l \in Seq(Child) /\ OnWay(l, l)
      BY <1>1, AppendedWay, OnWayOrder
    <3>2. b \in Inserted /\ treePos[b] \in StartSpace /\ In(treePos[b], tree'[l])
      <4>1. b \in Inserted /\ In(treePos[b], tree'[l])
        BY <1>1 DEF InBox, In
      <4>2. b \in Agent
        BY <4>1, InsertedAgents DEF InsertContext
      <4> QED
        BY <1>1, <4>1, <4>2
    <3>3. In(treePos[b], tree[n])
      BY <1>1, <1>12, <3>2, PartOfBox
    <3>4. b \in InBox(n)
      BY <3>2, <3>3 DEF InBox, In
    <3>5. (\E k \in DOMAIN g : g[k] = b)
          \/ \E j \in DOMAIN calls \ {1} : calls[j].agent = b /\ OnWay(calls[j].node, n)
      <4>1. CASE Holds(n, b)
        <5>1. PICK k \in DOMAIN c : c[k] = b
          BY <4>1 DEF Holds, c
        <5>2. k \in DOMAIN g /\ g[k] = b
          BY <1>3, <5>1
        <5> QED
          BY <5>2
      <4>2. CASE Waiting(b, n)
        <5>1. PICK j \in DOMAIN calls : calls[j].agent = b /\ OnWay(calls[j].node, n)
          BY <4>2 DEF Waiting
        <5>2. Len(c) + 1 \in DOMAIN g
          BY <1>3
        <5>3. CASE j = 1
          BY <1>1, <1>3, <5>1, <5>2, <5>3
        <5>4. CASE j # 1
          BY <5>1, <5>4
        <5> QED
          BY <5>3, <5>4
      <4> QED
        BY <1>1, <1>2, <3>4, <4>1, <4>2 DEF TreeOK, Promised
    <3>6. CASE \E k \in DOMAIN g : g[k] = b
      <4>0. PICK j \in DOMAIN g : g[j] = b
        BY <3>6
      <4>1. PICK k \in DOMAIN H : H[k].node = l /\ H[k].agent = b
        BY <1>13, <4>0
      <4>2. k \in DOMAIN calls' /\ calls'[k] = H[k]
        BY <1>16 DEF Pushed
      <4> HIDE DEF l
      <4>3. Waiting(b, l)'
        BY <3>1, <4>1, <4>2 DEF Waiting
      <4> QED
        BY <4>3 DEF l
    <3>7. CASE \E j \in DOMAIN calls \ {1} : calls[j].agent = b /\ OnWay(calls[j].node, n)
      <4>1. PICK j \in DOMAIN calls \ {1} : calls[j].agent = b /\ OnWay(calls[j].node, n)
        BY <3>7
      <4>2. OnWay(calls[j].node, l)
        BY <1>1, <4>1, OnWayToChild
      <4>3. j + Len(H) - 1 \in DOMAIN calls' /\ calls'[j + Len(H) - 1] = calls[j]
        BY <1>16 DEF Pushed
      <4> HIDE DEF l
      <4>4. Waiting(b, l)'
        BY <4>1, <4>2, <4>3 DEF Waiting
      <4> QED
        BY <4>4 DEF l
    <3> QED
      BY <3>5, <3>6, <3>7
  <2> QED
    BY <1>19, <2>1, <2>2 DEF Promised
<1>23. Once'
  <2>1. ASSUME NEW j \in DOMAIN calls', NEW l \in Leaves', OnWay(calls'[j].node, l),
               NEW k \in DOMAIN tree'[l].contents
        PROVE  tree'[l].contents[k] # calls'[j].agent
    <3>1. l \in Leaves /\ l # n /\ l \in Seq(Child) /\ tree'[l] = tree[l] /\ l \in DOMAIN tree
      <4>1. ASSUME NEW i \in Child, l = Append(n, i) PROVE FALSE
        <5>1. tree'[l].contents = <<>>
          BY <1>12, <4>1
        <5>2. k \in DOMAIN <<>>
          BY <2>1, <5>1
        <5> QED
          BY <5>2
      <4> QED
        BY <1>1, <1>19, <1>20, <4>1
    <3>2. CASE j \in DOMAIN H /\ calls'[j] = H[j]
      <4>1. PICK i \in Child : H[j].node = Append(n, i)
        BY <1>13, <3>2
      <4> DEFINE d == Append(n, i)
      <4>2. OnWay(n, d) /\ OnWay(d, l) /\ d \in Seq(Child)
        BY <1>1, <2>1, <3>2, <4>1, OnWayToChild, OnWayOrder, AppendedWay
      <4> HIDE DEF d
      <4>3. OnWay(n, l)
        BY <1>1, <3>1, <4>2, OnWayOrder
      <4> QED
        BY <1>5, <3>1, <4>3
    <3>3. CASE j - Len(H) + 1 \in DOMAIN calls \ {1} /\ calls'[j] = calls[j - Len(H) + 1]
      <4>1. ~Holds(l, calls[j - Len(H) + 1].agent)
        BY <1>2, <2>1, <3>1, <3>3 DEF TreeOK, Once
      <4> QED
        BY <3>1, <3>3, <4>1 DEF Holds
    <3> QED
      BY <1>16, <3>2, <3>3 DEF Pushed
  <2>2. \A i, j \in DOMAIN calls :
          i # j /\ calls[i].agent = calls[j].agent => ~OnWay(calls[i].node, calls[j].node)
    BY <1>2 DEF TreeOK, Once
  <2>3. ASSUME NEW k \in DOMAIN H, NEW j \in DOMAIN calls \ {1}, calls[j].agent = H[k].agent
        PROVE  ~OnWay(n, calls[j].node) /\ ~OnWay(calls[j].node, n)
    <3>1. PICK i \in DOMAIN g : H[k].agent = g[i]
      BY <1>13
    <3>2. CASE i \in DOMAIN c
      <4>1. Holds(n, calls[j].agent)
        BY <1>3, <1>6, <2>3, <3>1, <3>2
      <4>2. ~OnWay(calls[j].node, n)
        BY <1>1, <1>2, <4>1 DEF TreeOK, Once
      <4> QED
        BY <1>1, <1>5, <4>2
    <3>3. CASE i = Len(c) + 1
      BY <1>1, <1>3, <2>2, <2>3, <3>1, <3>3
    <3> QED
      BY <1>4, <3>2, <3>3
  <2>4. \A i, j \in DOMAIN calls' :
          i # j /\ calls'[i].agent = calls'[j].agent =>
            ~OnWay(calls'[i].node, calls'[j].node)
    <3>1. /\ calls \in Seq(Call) /\ n \in Seq(Child) /\ calls # <<>>
          /\ H \in Seq([node : Children(n), agent : Agent])
          /\ \A k, m \in DOMAIN H :
               k # m /\ H[k].agent = H[m].agent => ~OnWay(H[k].node, H[m].node)
      BY <1>1, <1>13
    <3> QED
      <4>1. calls' = H \o Tail(calls)
        BY <1>14
      <4>2. AllApart(H) /\ AllApart(calls) /\ OthersApart(n, H, calls)
        BY <2>2, <2>3, <3>1 DEF AllApart, OthersApart
      <4>3. AllApart(calls')
        BY <3>1, <4>1, <4>2, ApartAfter
      <4> QED
        BY <4>3 DEF AllApart
  <2>5. \A j \in DOMAIN calls' : \A l \in Leaves' :
          OnWay(calls'[j].node, l) =>
            ~\E k \in DOMAIN tree'[l].contents : tree'[l].contents[k] = calls'[j].agent
    BY <2>1
  <2> QED
    BY <2>4, <2>5 DEF Once, Holds
<1> QED
  BY <1>10, <1>11, <1>17, <1>21, <1>22, <1>23 DEF TreeOK

LEMMA InsertCallKeeps ==
  ASSUME InsertContext, Insert(pos)
  PROVE  TreeOK'
<1> DEFINE n == Head(calls).node
           a == Head(calls).agent
           g == Append(tree[n].contents, a)
<1>1. /\ PointContained(pos[a], tree[n].position, tree[n].size) = In(treePos[a], tree[n])
      /\ n \in Leaves <=> tree[n].isLeaf
      /\ n \in Inner <=> ~tree[n].isLeaf
  BY CallFound
<1>2. CASE ~In(treePos[a], tree[n]) /\ calls' = Tail(calls) /\ UNCHANGED tree
  BY <1>2, InsertOutside
<1>3. CASE ~tree[n].isLeaf /\ calls' = HandOn(n, <<a>>) \o Tail(calls) /\ UNCHANGED tree
  BY <1>1, <1>3, InsertInner
<1>4. CASE /\ In(treePos[a], tree[n]) /\ tree[n].isLeaf /\ ~Overflows(g, DepthLeft(n))
           /\ calls' = Tail(calls) /\ tree' = [tree EXCEPT ![n].contents = g]
  BY <1>1, <1>4, InsertTakes
<1>5. CASE /\ In(treePos[a], tree[n]) /\ tree[n].isLeaf /\ Overflows(g, DepthLeft(n))
           /\ calls' = HandOn(n, g) \o Tail(calls) /\ tree' = Split(n)
  BY <1>1, <1>5, InsertSplits DEF LeafSplits
<1> QED
  BY <1>1, <1>2, <1>3, <1>4, <1>5 DEF Insert

-----------------------------------------------------------------------------
(* The other steps of a frame.                                              *)

\* The call for the root makes the promise for the next agent.
LEMMA BeginInsertKeeps ==
  ASSUME FrameOK, TreeOK, InsertNext
  PROVE  TreeOK'
<1>1. /\ phase = "build" /\ next < NumAgents /\ calls = <<>> /\ tree' = tree
      /\ calls' = <<[node |-> <<>>, agent |-> next]>> /\ next' = next + 1
      /\ treePos' = treePos /\ phase' = phase /\ next \in Nat /\ NumAgents \in Nat
      /\ next \in Agent
  BY HalfSides DEF InsertNext, BeginInsert, FrameOK, Agent
<1>2. /\ Inserted = 0 .. next - 1 /\ Inserted' = 0 .. next
      /\ Inserted \subseteq Inserted' /\ next \in Inserted' /\ next \notin Inserted
      /\ \A b \in Inserted' : b = next \/ b \in Inserted
  <2>1. Inserted = 0 .. next - 1 /\ Inserted' = 0 .. next
    BY <1>1 DEF Inserted
  <2> QED
    BY <1>1, <2>1
<1>3. Leaves' = Leaves /\ Inner' = Inner
  BY <1>1 DEF Leaves, Inner
<1>4. \A m : /\ InBox(m) \subseteq InBox(m)'
             /\ \A b \in InBox(m)' : b = next \/ b \in InBox(m)
  BY <1>1, <1>2 DEF InBox
<1>5. TreeType' /\ Nested' /\ Covered' /\ Separated'
  BY <1>1, <1>3 DEF TreeOK, TreeType, Nested, Covered, Separated
<1>6. DOMAIN calls' = {1} /\ calls'[1].node = <<>> /\ calls'[1].agent = next
  BY <1>1
<1>7. CallType'
  <2>1. <<>> \in DOMAIN tree'
    BY <1>5 DEF TreeType
  <2>2. [node |-> <<>>, agent |-> next] \in [node : DOMAIN tree', agent : Inserted']
    BY <1>2, <2>1
  <2> DEFINE R == [node : DOMAIN tree', agent : Inserted']
             r == [node |-> <<>>, agent |-> next]
  <2>3. r \in R
    BY <2>2
  <2> HIDE DEF R, r
  <2>4. <<r>> \in Seq(R)
    BY <2>3
  <2> QED
    BY <1>1, <2>4 DEF CallType, R, r
<1>8. ContentsOK'
  <2>1. ASSUME NEW m \in Inner PROVE Cardinality(InBox(m)') > MaxSize
    <3>1. InBox(m)' \subseteq Agent
      BY <1>1, <1>4, InsertedAgents DEF Inner, InBox
    <3>2. IsFiniteSet(InBox(m)') /\ InBox(m) \in SUBSET (InBox(m)')
      BY <1>4, <3>1, InsertedAgents, FS_Subset
    <3>3. Cardinality(InBox(m)) <= Cardinality(InBox(m)') /\ IsFiniteSet(InBox(m))
      BY <3>2, FS_Subset
    <3>4. Cardinality(InBox(m)) \in Nat /\ Cardinality(InBox(m)') \in Nat
      BY <3>2, <3>3, FS_CardinalityType
    <3>5. Cardinality(InBox(m)) > MaxSize
      BY DEF TreeOK, ContentsOK
    <3> QED
      BY <3>3, <3>4, <3>5, HalfSides
  <2> QED
    BY <1>1, <1>3, <1>4, <2>1 DEF TreeOK, ContentsOK, DepthLeft
<1>9. Promised'
  <2> SUFFICES ASSUME NEW l \in Leaves, NEW b \in InBox(l)'
               PROVE  (Holds(l, b) \/ Waiting(b, l))'
    BY <1>3 DEF Promised
  <2>1. CASE b = next
    <3>1. OnWay(<<>>, l)
      BY OnWayOrder DEF TreeOK, TreeType, Leaves
    <3> QED
      BY <1>6, <2>1, <3>1 DEF Waiting
  <2>2. CASE b \in InBox(l)
    <3>1. ~Waiting(b, l)
      BY <1>1 DEF Waiting
    <3>2. Holds(l, b)
      BY <2>2, <3>1 DEF TreeOK, Promised
    <3> QED
      BY <1>1, <3>2 DEF Holds
  <2> QED
    BY <1>4, <2>1, <2>2
<1>10. Once'
  <2>1. \A l \in Leaves : ~Holds(l, next)
    <3> TAKE l \in Leaves
    <3>1. \A k \in DOMAIN tree[l].contents : tree[l].contents[k] \in InBox(l)
      BY DEF TreeOK, ContentsOK
    <3> QED
      BY <1>2, <3>1 DEF Holds, InBox
  <2> QED
    BY <1>1, <1>3, <1>6, <2>1 DEF Once, Holds
<1> QED
  BY <1>5, <1>7, <1>8, <1>9, <1>10 DEF TreeOK

\* A new tree is a leaf that holds nobody, and nobody is inserted yet.
LEMMA NewTree ==
  ASSUME tree' = EmptyTree, calls' = <<>>, treePos' \in [Agent -> StartSpace], Inserted' = {}
  PROVE  TreeOK'
<1>1. /\ DOMAIN tree' = {<<>>} /\ tree'[<<>>] = Root /\ Root.isLeaf /\ Root.contents = <<>>
      /\ Root.size = MaxBound /\ (\A a \in Axis : Root.position[a] = 0)
      /\ Root \in NodeType /\ Len(<<>>) = 0
  <2>1. <<>> \in Seq(Agent) /\ MaxBound \in Nat
    BY HalfSides
  <2> QED
    BY <2>1 DEF EmptyTree, Root, NewNode, NodeType
<1>2. Leaves' = {<<>>} /\ Inner' = {}
  BY <1>1 DEF Leaves, Inner
<1>3. TreeType'
  <2>1. <<>> \in Seq(Child)
    OBVIOUS
  <2>2. tree' \in [{<<>>} -> NodeType]
    BY <1>1 DEF EmptyTree
  <2> QED
    BY <1>1, <2>1, <2>2 DEF TreeType
<1>4. CallType'
  BY DEF CallType
<1>5. Nested'
  <2>1. Within(tree'[<<>>], tree'[<<>>])
    BY <1>1, WithinItself
  <2> QED
    BY <1>1, <1>2, <2>1, HalfSides DEF Nested
<1>6. Covered'
  <2> SUFFICES ASSUME NEW a \in Agent, NEW q \in StartSpace, treePos'[a] \in Space
               PROVE  In(treePos'[a], tree'[<<>>]) /\ Toward(treePos'[a], q, tree'[<<>>])
    BY <1>2 DEF Covered
  <2> DEFINE p == treePos'[a]
  <2>1. \A x \in Axis : /\ p[x] \in Int /\ -MaxBound <= p[x] /\ p[x] <= MaxBound
                       /\ q[x] \in Int
    BY HalfSides DEF Space, StartSpace
  <2> HIDE DEF p
  <2>2. MaxBound \in Nat
    BY HalfSides
  <2>3. In(p, tree'[<<>>])
    BY <1>1, <2>1, <2>2 DEF In, PointContained
  <2>4. Toward(p, q, tree'[<<>>])
    BY <1>1, <2>1, <2>2 DEF Toward
  <2> QED
    BY <2>3, <2>4 DEF p
<1>7. Separated'
  BY <1>2 DEF Separated
<1>8. \A l : InBox(l)' = {}
  BY DEF InBox
<1>9. ContentsOK'
  BY <1>1, <1>2, HalfSides DEF ContentsOK
<1>10. Promised' /\ Once'
  BY <1>8 DEF Promised, Once
<1> QED
  BY <1>3, <1>4, <1>5, <1>6, <1>7, <1>9, <1>10 DEF TreeOK

LEMMA SameTree ==
  ASSUME TreeOK, UNCHANGED <<tree, calls, treePos>>, Inserted' = Inserted
  PROVE  TreeOK'
BY DEF TreeOK, TreeType, CallType, Nested, Covered, Separated, ContentsOK, Promised, Once,
       Leaves, Inner, InBox, Holds, Waiting

\* Where the wrap puts an agent is inside of the bounds.
LEMMA WrapBoundsInside ==
  ASSUME NEW p \in StartSpace, NEW d \in Steps
  PROVE  WrapBounds(Moved(p, d)) \in Space /\ WrapBounds(Moved(p, d)) \in StartSpace
<1>1. \A a \in Axis : p[a] \in Int /\ d[a] \in Int
  BY HalfSides, CPUAssumption DEF StartSpace
<1>2. \A a \in Axis : Moved(p, d)[a] \in Int
  BY <1>1 DEF Moved
<1>3. WrapBounds(Moved(p, d)) \in Space
  BY <1>2, HalfSides DEF WrapBounds, Space
<1> QED
  BY <1>3, SpaceInStartSpace

-----------------------------------------------------------------------------
(* The invariant.                                                           *)

LEMMA CPUInvInit == Init => CPUInv
<1> SUFFICES ASSUME Init PROVE CPUInv
  OBVIOUS
<1>1. pos \in [Agent -> StartSpace]
  BY CPUAssumption DEF Init, StartSpace
<1>2. 0 \in 0 .. NumAgents
  BY HalfSides
<1> QED
  BY <1>1, <1>2 DEF Init, CPUInv, FrameOK, EachMovedOnce

LEMMA InputKeeps == ASSUME CPUInv, Input PROVE CPUInv'
<1>1. /\ pos' = pos /\ calls' = calls /\ calls = <<>> /\ treePos' = pos /\ next' = 0
      /\ phase' = (IF useOctree' THEN "build" ELSE "flock")
      /\ useOctree' \in BOOLEAN /\ paused' \in BOOLEAN /\ tree' = EmptyTree
      /\ pos \in [Agent -> StartSpace] /\ NumAgents \in Nat /\ flown' = flown
  BY HalfSides DEF Input, CPUInv, FrameOK
<1>2. Inserted' = {}
  BY <1>1 DEF Inserted
<1>3. TreeOK'
  BY <1>1, <1>2, NewTree
<1>4. EachMovedOnce'
  <2>1. \A a \in Agent : a >= 0
    BY <1>1 DEF Agent
  <2> QED
    BY <1>1, <2>1 DEF EachMovedOnce
<1>5. FrameOK'
  <2>1. 0 \in 0 .. NumAgents
    BY <1>1
  <2>2. flown => \A a \in Agent : pos[a] \in Space
    BY DEF CPUInv, FrameOK
  <2> QED
    BY <1>1, <1>4, <2>1, <2>2 DEF CPUInv, FrameOK
<1> QED
  BY <1>3, <1>5 DEF CPUInv

LEMMA BuildKeeps == ASSUME CPUInv, InsertNext \/ InsertCall \/ EndBuild PROVE CPUInv'
<1>1. FrameOK /\ TreeOK /\ phase = "build" /\ useOctree /\ pos = treePos
  BY DEF CPUInv, FrameOK, InsertNext, InsertCall, EndBuild
<1>2. CASE InsertNext
  <2>1. TreeOK'
    BY <1>1, <1>2, BeginInsertKeeps
  <2>2. next' \in 0 .. NumAgents
    BY <1>1, <1>2, HalfSides DEF InsertNext, FrameOK
  <2>3. FrameOK'
    BY <1>1, <1>2, <2>2 DEF InsertNext, FrameOK, EachMovedOnce, keyVars
  <2> QED
    BY <2>1, <2>3 DEF CPUInv
<1>3. CASE InsertCall
  <2>1. InsertContext /\ Insert(pos)
    BY <1>1, <1>3 DEF InsertCall, InsertContext, Insert
  <2>2. TreeOK'
    BY <2>1, InsertCallKeeps
  <2>3. FrameOK'
    BY <1>1, <1>3 DEF InsertCall, FrameOK, EachMovedOnce, keyVars
  <2> QED
    BY <2>2, <2>3 DEF CPUInv
<1>4. CASE EndBuild
  <2>1. /\ UNCHANGED <<pos, tree, calls, treePos, useOctree, paused, flown>>
        /\ calls = <<>> /\ next' = 0 /\ phase' = "flock" /\ next = NumAgents
    BY <1>4 DEF EndBuild, treeVars, keyVars
  <2>2. Inserted' = Inserted
    BY <1>1, <2>1 DEF Inserted, Agent
  <2>3. TreeOK'
    BY <1>1, <2>1, <2>2, SameTree
  <2>4. EachMovedOnce'
    <3>1. \A a \in Agent : a >= 0
      BY HalfSides DEF Agent
    <3> QED
      BY <1>1, <2>1, <3>1 DEF EachMovedOnce
  <2>5. 0 \in 0 .. NumAgents
    BY HalfSides
  <2>6. FrameOK'
    BY <1>1, <2>1, <2>4, <2>5 DEF FrameOK
  <2> QED
    BY <2>3, <2>6 DEF CPUInv
<1> QED
  BY <1>2, <1>3, <1>4

LEMMA FlockKeeps == ASSUME CPUInv, FlockNext PROVE CPUInv'
<1>1. /\ FrameOK /\ TreeOK /\ phase = "flock" /\ calls = <<>>
      /\ UNCHANGED <<tree, calls, treePos, useOctree, paused>>
      /\ pos \in [Agent -> StartSpace] /\ next \in 0 .. NumAgents /\ NumAgents \in Nat
  BY HalfSides DEF CPUInv, FrameOK, FlockNext, treeVars, keyVars
<1>2. CASE next < NumAgents
  <2>1. /\ next' = next + 1 /\ phase' = phase /\ next \in Agent
        /\ flown' = flown
        /\ IF paused THEN pos' = pos
           ELSE \E d \in Steps : pos' = [pos EXCEPT ![next] = WrapBounds(Moved(@, d))]
    BY <1>1, <1>2 DEF FlockNext, AfterAgent, Agent
  <2>2. TreeOK'
    BY <1>1, <2>1, SameTree DEF Inserted
  <2>3. next' \in 0 .. NumAgents
    BY <1>1, <1>2, <2>1
  <2>4. \A a \in Agent : a >= next' <=> a >= next /\ a # next
    BY <1>1, <2>1 DEF Agent
  <2>5. CASE paused
    <3>1. pos' = pos /\ paused' /\ treePos' = treePos
      BY <1>1, <2>1, <2>5
    <3>2. EachMovedOnce'
      BY <1>1, <2>1, <2>5, <3>1 DEF FrameOK, EachMovedOnce
    <3>3. FrameOK'
      BY <1>1, <2>1, <2>3, <3>1, <3>2 DEF FrameOK
    <3> QED
      BY <2>2, <3>3 DEF CPUInv
  <2>6. CASE ~paused
    <3>1. PICK d \in Steps : pos' = [pos EXCEPT ![next] = WrapBounds(Moved(@, d))]
      BY <2>1, <2>6
    <3>2. /\ WrapBounds(Moved(pos[next], d)) \in Space
          /\ WrapBounds(Moved(pos[next], d)) \in StartSpace
      BY <1>1, <2>1, WrapBoundsInside
    <3>3. /\ pos' \in [Agent -> StartSpace] /\ pos'[next] = WrapBounds(Moved(pos[next], d))
          /\ \A a \in Agent : a # next => pos'[a] = pos[a]
      BY <1>1, <2>1, <3>1, <3>2
    <3>4. next >= next
      BY <1>1
    <3>5. pos[next] = treePos[next]
      BY <1>1, <2>1, <3>4 DEF FrameOK, EachMovedOnce
    <3>6. EachMovedOnce'
      <4> SUFFICES ASSUME NEW a \in Agent
                   PROVE  IF a >= next' THEN pos'[a] = treePos[a]
                          ELSE \E e \in Steps : pos'[a] = WrapBounds(Moved(treePos[a], e))
        BY <1>1, <2>6 DEF EachMovedOnce
      <4>1. CASE a = next
        BY <2>4, <3>3, <3>5, <4>1
      <4>2. CASE a # next
        <5>1. pos'[a] = pos[a]
          BY <3>3, <4>2
        <5>2. IF a >= next THEN pos[a] = treePos[a]
              ELSE \E e \in Steps : pos[a] = WrapBounds(Moved(treePos[a], e))
          BY <1>1, <2>6 DEF FrameOK, EachMovedOnce
        <5> QED
          BY <2>4, <4>2, <5>1, <5>2
      <4> QED
        BY <4>1, <4>2
    <3>7. flown => \A a \in Agent : pos'[a] \in Space
      <4>1. flown => \A a \in Agent : pos[a] \in Space
        BY <1>1 DEF FrameOK
      <4> QED
        BY <3>2, <3>3, <4>1
    <3>8. FrameOK'
      BY <1>1, <2>1, <2>3, <3>3, <3>6, <3>7 DEF FrameOK
    <3> QED
      BY <2>2, <3>8 DEF CPUInv
  <2> QED
    BY <2>5, <2>6
<1>3. CASE ~(next < NumAgents)
  <2>1. next' = 0 /\ phase' = "input" /\ pos' = pos /\ flown' = (flown \/ ~paused)
    BY <1>3 DEF FlockNext
  <2>2. 0 \in 0 .. NumAgents
    BY <1>1
  <2>3. ASSUME flown \/ ~paused, NEW a \in Agent PROVE pos[a] \in Space
    <3>1. ~(a >= next)
      BY <1>1, <1>3 DEF Agent
    <3>2. CASE flown
      BY <1>1, <3>2 DEF FrameOK
    <3>3. CASE ~paused
      <4>1. PICK d \in Steps : pos[a] = WrapBounds(Moved(treePos[a], d))
        BY <1>1, <3>1, <3>3 DEF FrameOK, EachMovedOnce
      <4>2. treePos[a] \in StartSpace
        BY <1>1 DEF FrameOK
      <4> QED
        BY <4>1, <4>2, WrapBoundsInside
    <3> QED
      BY <2>3, <3>2, <3>3
  <2>4. FrameOK'
    BY <1>1, <2>1, <2>2, <2>3 DEF FrameOK, EachMovedOnce
  <2> QED
    BY <2>1, <2>4 DEF CPUInv
<1> QED
  BY <1>2, <1>3

LEMMA CPUInvStep == CPUInv /\ [Next]_vars => CPUInv'
<1> SUFFICES ASSUME CPUInv, [Next]_vars PROVE CPUInv'
  OBVIOUS
<1>1. CASE UNCHANGED vars
  <2>1. UNCHANGED <<pos, tree, calls, treePos, next, phase, useOctree, paused, flown>>
    BY <1>1 DEF vars, treeVars
  <2>2. FrameOK'
    BY <2>1 DEF CPUInv, FrameOK, EachMovedOnce
  <2>3. phase # "input" => TreeOK'
    BY <2>1, SameTree DEF CPUInv, Inserted
  <2> QED
    BY <2>1, <2>2, <2>3 DEF CPUInv
<1>2. CASE Stop
  BY <1>1, <1>2 DEF Stop
<1> QED
  BY <1>1, <1>2, InputKeeps, BuildKeeps, FlockKeeps DEF Next

LEMMA CPUInvAlways == Spec => []CPUInv
BY CPUInvInit, CPUInvStep, PTL DEF Spec

-----------------------------------------------------------------------------
(* What the tree and the frames guarantee.                                  *)

\* Between two calls nobody waits: a leaf holds who is in its box.
LEMMA LeafHolds ==
  ASSUME CPUInv, phase # "input", calls = <<>>, NEW l \in Leaves
  PROVE  LET c == tree[l].contents
         IN  /\ {c[k] : k \in DOMAIN c} = InBox(l)
             /\ \A j, k \in DOMAIN c : c[j] = c[k] => j = k
             /\ c \in Seq(Agent) /\ (Len(c) <= MaxSize \/ DepthLeft(l) = 0)
<1> DEFINE c == tree[l].contents
<1>1. TreeOK
  BY DEF CPUInv
<1>2. c \in Seq(Agent)
  BY <1>1 DEF TreeOK, TreeType, NodeType, Leaves
<1>3. /\ \A j, k \in DOMAIN c : c[j] = c[k] => j = k
      /\ \A k \in DOMAIN c : c[k] \in InBox(l)
      /\ Len(c) <= MaxSize \/ DepthLeft(l) = 0
  BY <1>1 DEF TreeOK, ContentsOK
<1>4. \A b \in InBox(l) : \E k \in DOMAIN c : c[k] = b
  BY <1>1 DEF TreeOK, Promised, Waiting, Holds
<1> HIDE DEF c
<1>5. {c[k] : k \in DOMAIN c} = InBox(l)
  BY <1>3, <1>4
<1> QED
  BY <1>2, <1>3, <1>5 DEF c

\* However the calls of Insert and the splits have followed each other, a leaf holds
\* who is in its closed box, each once: the octree loses no agent and puts none in the
\* wrong place (Octree.cpp:3-26).
THEOREM TheoremLeavesExact == Spec => []LeavesExact
<1>1. CPUInv => LeavesExact
  BY LeafHolds DEF LeavesExact
<1> QED
  BY <1>1, CPUInvAlways, PTL

LEMMA LeafIsSmall ==
  ASSUME CPUInv, phase # "input", calls = <<>>, NEW l \in Leaves
  PROVE  Cardinality(InBox(l)) <= MaxSize \/ DepthLeft(l) = 0
<1> DEFINE c == tree[l].contents
           m == Len(c)
           T == 1 .. m
           S == InBox(l)
<1>1. /\ {c[k] : k \in DOMAIN c} = S /\ c \in Seq(Agent)
      /\ m <= MaxSize \/ DepthLeft(l) = 0
  BY LeafHolds
<1> HIDE DEF c, S
<1>2. m \in Nat /\ DOMAIN c = T /\ 1 \in Int /\ m \in Int
  BY <1>1
<1>3. IsFiniteSet(1 .. m) /\ Cardinality(1 .. m) = IF 1 > m THEN 0 ELSE m - 1 + 1
  BY <1>2, FS_Interval
<1>4. IsFiniteSet(T) /\ Cardinality(T) = m
  BY <1>2, <1>3
<1>5. c \in Surjection(T, S)
  <2>1. \A k \in T : c[k] \in S
    BY <1>1, <1>2
  <2>2. c \in [T -> S]
    BY <1>1, <1>2, <2>1
  <2>3. \A b \in S : \E k \in T : c[k] = b
    BY <1>1, <1>2
  <2> QED
    BY <2>2, <2>3 DEF Surjection
<1> HIDE DEF m, T
<1>6. IsFiniteSet(S) /\ Cardinality(S) <= Cardinality(T)
  BY <1>4, <1>5, FS_Surjection
<1>7. Cardinality(S) \in Nat
  BY <1>6, FS_CardinalityType
<1>8. Cardinality(S) <= MaxSize \/ DepthLeft(l) = 0
  BY <1>1, <1>2, <1>4, <1>6, <1>7, HalfSides
<1> QED
  BY <1>8 DEF S

\* The shape of the tree is that of the places of the agents: split where there are more
\* than MaxSize and depth is left, and nowhere else (Octree.cpp:14-24).
THEOREM TheoremSplitIffFull == Spec => []SplitIffFull
<1>1. ASSUME CPUInv, phase # "input", calls = <<>>, NEW n \in Inner
      PROVE  Cardinality(InBox(n)) > MaxSize /\ DepthLeft(n) > 0
  <2>1. TreeOK
    BY <1>1 DEF CPUInv
  <2>2. n \in Seq(Child)
    BY <2>1 DEF TreeOK, TreeType, Inner
  <2>3. Len(n) \in Nat /\ Len(n) < MaxDepth
    BY <2>1, <2>2 DEF TreeOK, Nested
  <2> QED
    BY <2>1, <2>3, HalfSides DEF TreeOK, ContentsOK, DepthLeft
<1>2. CPUInv => SplitIffFull
  BY <1>1, LeafIsSmall DEF SplitIffFull
<1> QED
  BY <1>2, CPUInvAlways, PTL

\* In the tree of a frame every agent that is not left out has a leaf that is around it,
\* reaches towards q, and holds it.
LEMMA HasLeaf ==
  ASSUME CPUInv, phase = "flock", useOctree, NEW b \in Agent, ~LeftOut(b),
         NEW q \in StartSpace
  PROVE  \E l \in Leaves : /\ In(treePos[b], tree[l]) /\ Toward(treePos[b], q, tree[l])
                           /\ \E k \in DOMAIN tree[l].contents : tree[l].contents[k] = b
<1>1. TreeOK /\ calls = <<>> /\ phase # "input" /\ treePos[b] \in Space
  BY DEF CPUInv, FrameOK, LeftOut
<1>2. PICK l \in Leaves : In(treePos[b], tree[l]) /\ Toward(treePos[b], q, tree[l])
  BY <1>1 DEF TreeOK, Covered
<1>3. b \in InBox(l)
  BY <1>2 DEF InBox, In, Inserted
<1>4. Holds(l, b)
  BY <1>1, <1>3 DEF TreeOK, Promised, Waiting
<1> QED
  BY <1>2, <1>4 DEF Holds

\* No agent gets lost between the frames: the wrap leaves it inside of the root, and the
\* trees of all frames to come have it.  Only those that start above the bound are in none
\* until then (Octree.cpp:4-6, Simulation.cpp:40-42, SimulationCPU.cpp:101).
THEOREM TheoremEveryAgentInTree == Spec => []EveryAgentInTree
<1>1. ASSUME CPUInv, phase = "flock", useOctree, NEW a \in Agent, ~LeftOut(a)
      PROVE  \E l \in Leaves : \E k \in DOMAIN tree[l].contents : tree[l].contents[k] = a
  <2>1. treePos[a] \in StartSpace
    BY <1>1 DEF CPUInv, FrameOK
  <2> QED
    BY <1>1, <2>1, HasLeaf
<1>2. CPUInv => EveryAgentInTree
  BY <1>1 DEF EveryAgentInTree
<1> QED
  BY <1>2, CPUInvAlways, PTL

\* A difference of at most the distance on every axis.
LEMMA NotFartherOnAxis ==
  ASSUME NEW x \in Int, NEW y \in Int, NEW z \in Int, NEW r \in Nat,
         x * x + y * y + z * z <= r * r
  PROVE  -r <= x /\ x <= r /\ -r <= y /\ y <= r /\ -r <= z /\ z <= r
<1>1. ASSUME NEW w \in Int PROVE w * w >= 0 /\ w * w \in Int
  OBVIOUS
<1>2. ASSUME NEW w \in Int, w > r \/ w < -r PROVE w * w > r * r
  <2>1. ASSUME NEW v \in Nat, v > r PROVE v * v > r * r
    <3>1. v * v > v * r /\ v * r >= r * r
      BY <2>1
    <3>2. v * v \in Int /\ v * r \in Int /\ r * r \in Int
      OBVIOUS
    <3> QED
      BY <3>1, <3>2
  <2>2. CASE w > r
    <3>1. w \in Nat
      BY <2>2
    <3> QED
      BY <2>1, <2>2, <3>1
  <2>3. CASE w < -r
    <3>1. (-w) \in Nat /\ -w > r
      BY <2>3
    <3>2. (-w) * (-w) > r * r
      BY <2>1, <3>1
    <3>3. (-w) * (-w) = w * w
      OBVIOUS
    <3> QED
      BY <3>2, <3>3
  <2> QED
    BY <1>2, <2>2, <2>3
<1> DEFINE X == x * x
           Y == y * y
           Z == z * z
           R == r * r
<1>3. /\ X \in Int /\ Y \in Int /\ Z \in Int /\ R \in Int
      /\ X >= 0 /\ Y >= 0 /\ Z >= 0 /\ X + Y + Z <= R
      /\ (x > r \/ x < -r) => X > R
      /\ (y > r \/ y < -r) => Y > R
      /\ (z > r \/ z < -r) => Z > R
  BY <1>1, <1>2
<1> HIDE DEF X, Y, Z, R
<1> QED
  BY <1>3

\* The query around p reaches every leaf with a point of its box at most the radius away
\* and room on the side of p: the boxes then do more than touch.
LEMMA ReachesLeaf ==
  ASSUME TreeOK, NEW l \in Leaves, NEW p \in StartSpace, NEW q \in Space,
         NEW r \in Nat, Overshoot < r, Distance2(p, q) <= Square(r),
         In(q, tree[l]), Toward(q, p, tree[l])
  PROVE  Reached(l, p, r)
<1>1. \A a \in Axis : /\ p[a] \in Int /\ -MaxBound <= p[a] /\ p[a] <= MaxBound + Overshoot
                     /\ q[a] \in Int /\ -MaxBound <= q[a] /\ q[a] <= MaxBound
  BY HalfSides DEF Space, StartSpace
<1>2. \A a \in Axis : -r <= p[a] - q[a] /\ p[a] - q[a] <= r
  <2>1. /\ p[1] \in Int /\ p[2] \in Int /\ p[3] \in Int
        /\ q[1] \in Int /\ q[2] \in Int /\ q[3] \in Int
    BY <1>1 DEF Axis
  <2> DEFINE x == p[1] - q[1]
             y == p[2] - q[2]
             z == p[3] - q[3]
  <2>2. x \in Int /\ y \in Int /\ z \in Int /\ x * x + y * y + z * z <= r * r
    BY <2>1 DEF Distance2, Square
  <2> HIDE DEF x, y, z
  <2>3. -r <= x /\ x <= r /\ -r <= y /\ y <= r /\ -r <= z /\ z <= r
    BY <2>2, NotFartherOnAxis
  <2> QED
    BY <2>3 DEF x, y, z, Axis
<1> SUFFICES ASSUME NEW m \in DOMAIN tree, OnWay(m, l)
             PROVE  Intersection(r, p, tree[m].size, tree[m].position)
  BY DEF Reached
<1>3. tree[m] \in NodeType /\ tree[l] \in NodeType /\ l \in DOMAIN tree
  BY DEF TreeOK, TreeType, Leaves
<1>4. Within(tree[l], tree[m])
  BY <1>3 DEF TreeOK, Nested
<1>5. /\ tree[m].size \in Int /\ tree[l].size \in Int
      /\ \A a \in Axis : tree[m].position[a] \in Int /\ tree[l].position[a] \in Int
  BY <1>3 DEF NodeType
<1>6. MaxBound \in Nat /\ Overshoot \in Nat
  BY HalfSides
<1> SUFFICES ASSUME NEW a \in Axis
             PROVE  Abs(tree[m].position[a] - p[a]) < r + tree[m].size
  BY DEF Intersection
<1> DEFINE s == tree[m].size
           c == tree[m].position[a]
           x == p[a]
           y == q[a]
<1>7. /\ s \in Int /\ c \in Int /\ x \in Int /\ y \in Int /\ r \in Nat /\ r > Overshoot
      /\ -MaxBound <= x /\ x <= MaxBound + Overshoot /\ -r <= x - y /\ x - y <= r
  BY <1>1, <1>2, <1>5, <1>6
<1>8. /\ c - s <= y /\ y <= c + s
      /\ y < x /\ y < MaxBound => y < c + s
      /\ x < y /\ -MaxBound < y => c - s < y
  BY <1>1, <1>4, <1>5, <1>6 DEF Within, In, PointContained, Toward
<1> HIDE DEF s, c, x, y
<1>9. c - x < r + s /\ x - c < r + s
  <2>1. CASE y < x
    BY <1>6, <1>7, <1>8, <2>1
  <2>2. CASE x < y
    BY <1>6, <1>7, <1>8, <2>2
  <2>3. CASE x = y
    BY <1>6, <1>7, <1>8, <2>3
  <2> QED
    BY <1>7, <2>1, <2>2, <2>3
<1>10. Abs(c - x) < r + s
  BY <1>7, <1>9 DEF Abs
<1> QED
  BY <1>10 DEF s, c, x

\* Where the octree says less than the flock itself: the query misses an agent that the
\* rules count only if it has moved since the tree was built, so one that comes before the
\* agent of the query in this frame, or was left out (SimulationCPU.cpp:53-67, 243).
THEOREM TheoremOnlyMovedMissed == Spec => []OnlyMovedMissed
<1>1. ASSUME CPUInv, phase = "flock", useOctree, next < NumAgents, NEW b \in Agent,
             Distance2(pos[next], pos[b]) <= Square(MaxRadius), Found(b) = {},
             ~(b < next /\ ~paused), ~LeftOut(b)
      PROVE  FALSE
  <2>1. /\ next \in Agent /\ next \in Int /\ b \in Int /\ MaxRadius \in Nat /\ TreeOK
        /\ pos \in [Agent -> StartSpace] /\ Overshoot < MaxRadius
    BY <1>1, HalfSides, CPUAssumption DEF CPUInv, FrameOK, Agent
  <2>2. b >= next \/ paused
    BY <1>1, <2>1
  <2>3. pos[b] = treePos[b]
    BY <1>1, <2>2 DEF CPUInv, FrameOK, EachMovedOnce
  <2> DEFINE p == pos[next]
             q == pos[b]
  <2>4. PICK l \in Leaves : /\ In(treePos[b], tree[l]) /\ Toward(treePos[b], p, tree[l])
                            /\ \E k \in DOMAIN tree[l].contents : tree[l].contents[k] = b
    <3>1. p \in StartSpace
      BY <2>1
    <3> HIDE DEF p
    <3> QED
      BY <1>1, <3>1, HasLeaf
  <2>5. PICK k \in DOMAIN tree[l].contents : tree[l].contents[k] = b
    BY <2>4
  <2>6. /\ p \in StartSpace /\ q \in Space /\ Distance2(p, q) <= Square(MaxRadius)
        /\ In(q, tree[l]) /\ Toward(q, p, tree[l])
    BY <1>1, <2>1, <2>3, <2>4 DEF LeftOut, CPUInv, FrameOK
  <2>7. Reached(l, p, MaxRadius)
    <3> HIDE DEF p, q
    <3> QED
      BY <2>1, <2>6, ReachesLeaf
  <2>8. <<l, k>> \in Neighbours(pos[next], MaxRadius)
    BY <2>5, <2>7 DEF Neighbours
  <2>9. <<l, k>> \in Found(b)
    BY <2>5, <2>8 DEF Found
  <2> QED
    BY <1>1, <2>9
<1>2. CPUInv => OnlyMovedMissed
  BY <1>1 DEF OnlyMovedMissed
<1> QED
  BY <1>2, CPUInvAlways, PTL

\* An agent counts twice for another one only from a face between two nodes: two leaves
\* have no other points in common (Octree.cpp:28-46).
THEOREM TheoremFoundTwiceOnlyOnFaces == Spec => []FoundTwiceOnlyOnFaces
<1>1. ASSUME CPUInv, phase = "flock", useOctree, next < NumAgents, NEW b \in Agent,
             NEW e \in Found(b), NEW f \in Found(b), e # f
      PROVE  \E n \in Inner : \E a \in Axis : treePos[b][a] = tree[n].position[a]
  <2>1. TreeOK /\ treePos[b] \in StartSpace
    BY <1>1 DEF CPUInv, FrameOK
  <2>2. PICK l \in Leaves :
          \E i \in DOMAIN tree[l].contents : e = <<l, i>> /\ tree[l].contents[i] = b
    BY DEF Found, Neighbours
  <2>3. PICK k \in Leaves :
          \E j \in DOMAIN tree[k].contents : f = <<k, j>> /\ tree[k].contents[j] = b
    BY DEF Found, Neighbours
  <2>4. l # k
    BY <1>1, <2>1, <2>2, <2>3 DEF TreeOK, ContentsOK
  <2>5. PICK n \in Inner, a \in Axis : Between(tree[l], tree[k], tree[n], a)
    BY <2>1, <2>4 DEF TreeOK, Separated
  <2>6. b \in InBox(l) /\ b \in InBox(k)
    BY <2>1, <2>2, <2>3 DEF TreeOK, ContentsOK
  <2>7. /\ tree[l] \in NodeType /\ tree[k] \in NodeType /\ tree[n] \in NodeType
    BY <2>1 DEF TreeOK, TreeType, Leaves, Inner
  <2> DEFINE x == treePos[b][a]
  <2>8. x \in Int
    BY <2>1, HalfSides DEF StartSpace
  <2>9. /\ tree[l].position[a] - tree[l].size <= x
        /\ x <= tree[l].position[a] + tree[l].size
        /\ tree[k].position[a] - tree[k].size <= x
        /\ x <= tree[k].position[a] + tree[k].size
    BY <2>6 DEF InBox, PointContained
  <2>10. /\ tree[l].position[a] \in Int /\ tree[l].size \in Int
         /\ tree[k].position[a] \in Int /\ tree[k].size \in Int
         /\ tree[n].position[a] \in Int
    BY <2>7 DEF NodeType
  <2> HIDE DEF x
  <2>11. x = tree[n].position[a]
    BY <2>5, <2>8, <2>9, <2>10 DEF Between
  <2> QED
    BY <2>11 DEF x
<1>2. CPUInv => FoundTwiceOnlyOnFaces
  BY <1>1 DEF FoundTwiceOnlyOnFaces
<1> QED
  BY <1>2, CPUInvAlways, PTL

\* A frame updates each agent once, from where it was at its start, in both modes, and
\* moves none while paused (SimulationCPU.cpp:46-104).
THEOREM TheoremEachMovedOnce == Spec => []EachMovedOnce
<1>1. CPUInv => EachMovedOnce
  BY DEF CPUInv, FrameOK
<1> QED
  BY <1>1, CPUInvAlways, PTL
=============================================================================
