------------------------------- MODULE Octree -------------------------------
(***************************************************************************)
(* The octree of the CPU simulation while agents are put into it.  A node  *)
(* is named by the way to it from the root, the indices of the children on *)
(* it.  OctreeNode::Insert calls itself for children: the calls that are   *)
(* still to be made are a stack, and one step is one call without those it *)
(* makes in turn.  Positions are lattice points; an agent is a pointer in  *)
(* the code, so a step takes the positions "at" that agents have then.     *)
(***************************************************************************)
EXTENDS Integers, FiniteSets, Sequences

CONSTANTS
  NumAgents,
  MaxBound,   \* half the side of the root
  MaxDepth,   \* octreeMaxDepth
  MaxSize     \* octreeMaxSize

\* Half the side of the nodes of each depth: halving it MaxDepth times stays on
\* the lattice.
IsHalfSides(h) == h[0] = MaxBound /\ \A d \in 1 .. MaxDepth : h[d - 1] = 2 * h[d]

ASSUME OctreeAssumption ==
  /\ NumAgents \in Nat \ {0}
  /\ MaxBound \in Nat \ {0} /\ MaxDepth \in Nat /\ MaxSize \in Nat \ {0}
  /\ \E h \in [0 .. MaxDepth -> 1 .. MaxBound] : IsHalfSides(h)

Agent == 0 .. NumAgents - 1
Axis == 1 .. 3
Abs(x) == IF x < 0 THEN -x ELSE x

VARIABLES
  tree,   \* tree[n]: the node n, for the nodes there are
  calls   \* the calls of Insert to be made, the next one first

treeVars == <<tree, calls>>

NewNode(center, half) ==
  [position |-> center, size |-> half, contents |-> <<>>, isLeaf |-> TRUE]

Root == NewNode([a \in Axis |-> 0], MaxBound)
EmptyTree == [n \in {<<>>} |-> Root]

\* AABB::PointContained: the faces belong to the box.
PointContained(p, center, half) ==
  \A a \in Axis : center[a] - half <= p[a] /\ p[a] <= center[a] + half

\* Faulty variant: only the centre of the other box counts, not its size.
IntersectionNoSize(half1, p1, half2, p2) == \A a \in Axis : Abs(p2[a] - p1[a]) < half1

\* AABB::Intersection: boxes that only touch do not intersect.
Intersection(half1, p1, half2, p2) ==
  \A a \in Axis : Abs(p2[a] - p1[a]) < half1 + half2

-----------------------------------------------------------------------------
(* OctreeNode::Insert and Split.                                            *)

Child == 1 .. 8

\* The signs of halfSize in the order of Split.
Signs == << <<-1, 1, 1>>, <<1, 1, 1>>, <<-1, -1, 1>>, <<1, -1, 1>>,
            <<-1, 1, -1>>, <<1, 1, -1>>, <<-1, -1, -1>>, <<1, -1, -1>> >>

\* Faulty variant: the new children are as large as their parent.
NewChildTooLarge(node, i) ==
  NewNode([a \in Axis |-> node.position[a] + Signs[i][a] * (node.size \div 2)], node.size)

NewChild(node, i) ==
  NewNode([a \in Axis |-> node.position[a] + Signs[i][a] * (node.size \div 2)],
          node.size \div 2)

Children(n) == {Append(n, i) : i \in Child}

\* The tree when n has been split and its contents cleared.
Split(n) ==
  [m \in DOMAIN tree \cup Children(n) |->
     IF m = n THEN [tree[n] EXCEPT !.contents = <<>>, !.isLeaf = FALSE]
     ELSE IF m \in Children(n) THEN NewChild(tree[n], m[Len(m)])
     ELSE tree[m]]

\* Faulty variant: a node splits one agent too late.
OverflowsLate(contents, depthLeft) == Len(contents) > MaxSize + 1 /\ depthLeft > 0

\* contents.size() > maxSize && depthLeft > 0
Overflows(contents, depthLeft) == Len(contents) > MaxSize /\ depthLeft > 0

\* Each call for a child has one depth less: this is what is left at n.
DepthLeft(n) == MaxDepth - Len(n)

\* Faulty variant: the last agent is not handed on.
HandOnAllButLast(n, agents) ==
  [k \in 1 .. 8 * (Len(agents) - 1) |->
     [node |-> Append(n, ((k - 1) % 8) + 1), agent |-> agents[(k - 1) \div 8 + 1]]]

\* The calls for all children of n, for one agent after the other.
HandOn(n, agents) ==
  [k \in 1 .. 8 * Len(agents) |->
     [node |-> Append(n, ((k - 1) % 8) + 1), agent |-> agents[(k - 1) \div 8 + 1]]]

\* Octree::Insert calls Insert of the root.
BeginInsert(a) ==
  /\ calls = <<>>
  /\ calls' = <<[node |-> <<>>, agent |-> a]>>
  /\ UNCHANGED tree

\* One call: outside of the box nothing happens; a node with children hands the
\* agent on to all of them; a leaf takes it, and splits when it has too many.
Insert(at) ==
  LET n == Head(calls).node
      a == Head(calls).agent
      inside == PointContained(at[a], tree[n].position, tree[n].size)
      grown == Append(tree[n].contents, a)
  IN  /\ calls # <<>>
      /\ \/ /\ ~inside
            /\ calls' = Tail(calls)
            /\ UNCHANGED tree
         \/ /\ inside /\ ~tree[n].isLeaf
            /\ calls' = HandOn(n, <<a>>) \o Tail(calls)
            /\ UNCHANGED tree
         \/ /\ inside /\ tree[n].isLeaf /\ ~Overflows(grown, DepthLeft(n))
            /\ calls' = Tail(calls)
            /\ tree' = [tree EXCEPT ![n].contents = grown]
         \/ /\ inside /\ tree[n].isLeaf /\ Overflows(grown, DepthLeft(n))
            /\ calls' = HandOn(n, grown) \o Tail(calls)
            /\ tree' = Split(n)

-----------------------------------------------------------------------------
(* OctreeNode::GetNeighbours.                                               *)

Leaves == {n \in DOMAIN tree : tree[n].isLeaf}
Inner == DOMAIN tree \ Leaves

\* m is n or a node on the way to it.
OnWay(m, n) == Len(m) <= Len(n) /\ \A i \in 1 .. Len(m) : m[i] = n[i]

\* The nodes whose boxes the query reaches: those above must intersect as well.
\* All calls leave useSphereOverlap at false.
Reached(n, p, radius) ==
  \A m \in DOMAIN tree :
    OnWay(m, n) => Intersection(radius, p, tree[m].size, tree[m].position)

\* The result around p: the entries of the leaves that are reached.
Neighbours(p, radius) ==
  UNION {{l} \X DOMAIN tree[l].contents : l \in {m \in Leaves : Reached(m, p, radius)}}
=============================================================================
