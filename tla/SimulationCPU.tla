--------------------------- MODULE SimulationCPU ---------------------------
(***************************************************************************)
(* The frames of the CPU simulation.  PerformFlock puts all agents in a    *)
(* new octree (octree mode) and then updates one agent after the other in  *)
(* place; an agent later in the order reads neighbours that have already   *)
(* moved, from a tree built before they moved.                             *)
(*                                                                         *)
(* Velocities are abstracted to Steps, the displacement of one frame.      *)
(***************************************************************************)
EXTENDS Octree

CONSTANTS
  MaxRadius,   \* flock->maxRadius
  Overshoot,   \* how far above the bound an agent may start
  Places,      \* where agents may be at the start
  Steps,       \* what an agent may move in a frame
  StartMode,   \* the mode chosen in the menu, "octree" or "brute"
  MaxFrames    \* bound on the number of frames

\* Within the bounds.
Space == [Axis -> -MaxBound .. MaxBound]

(***************************************************************************)
(* InitFlock divides rand() by RAND_MAX / 2, which is rounded down: with   *)
(* the RAND_MAX of 32767 of the project's compiler a coordinate goes from  *)
(* -maxBound to 1.00006 * maxBound.  That is less beyond than any radius.  *)
(***************************************************************************)
StartSpace == [Axis -> -MaxBound .. MaxBound + Overshoot]

ASSUME CPUAssumption ==
  /\ MaxRadius \in Nat \ {0} /\ MaxFrames \in Nat \ {0}
  /\ Overshoot \in Nat /\ Overshoot < MaxRadius
  /\ Places \subseteq StartSpace /\ Steps \subseteq [Axis -> Int]
  /\ StartMode \in {"octree", "brute"}

VARIABLES
  pos,         \* pos[a]: position of agent a
  treePos,     \* positions when the tree was built; used by properties only
  next,        \* the loop variable i of the two loops of PerformFlock
  phase,       \* "input", "build" or "flock"
  useOctree,   \* SimulationCPU::useOctree
  paused,      \* Simulation::paused
  frame,       \* frames begun
  flown        \* a frame that was not paused is over; used by properties only

vars == <<pos, treeVars, treePos, next, phase, useOctree, paused, frame, flown>>
keyVars == <<useOctree, paused, frame>>

Init ==
  /\ pos \in [Agent -> Places]
  /\ treePos = pos
  /\ tree = EmptyTree /\ calls = <<>>
  /\ next = 0
  /\ phase = "input"
  /\ useOctree = (StartMode = "octree")
  /\ paused = FALSE
  /\ frame = 0
  /\ flown = FALSE

\* UpdateKeys, SPACE and P, up to the construction of the tree in PerformFlock.
Input ==
  /\ phase = "input"
  /\ frame < MaxFrames
  /\ frame' = frame + 1
  /\ paused' \in BOOLEAN
  /\ useOctree' \in BOOLEAN
  /\ tree' = EmptyTree
  /\ treePos' = pos
  /\ next' = 0
  /\ phase' = IF useOctree' THEN "build" ELSE "flock"
  /\ UNCHANGED <<pos, calls, flown>>

\* The head of the loop of tree.Insert.
InsertNext ==
  /\ phase = "build"
  /\ next < NumAgents
  /\ BeginInsert(next)
  /\ next' = next + 1
  /\ UNCHANGED <<pos, treePos, phase, keyVars, flown>>

\* The next call of OctreeNode::Insert.
InsertCall ==
  /\ phase = "build"
  /\ Insert(pos)
  /\ UNCHANGED <<pos, treePos, next, phase, keyVars, flown>>

EndBuild ==
  /\ phase = "build"
  /\ next = NumAgents /\ calls = <<>>
  /\ next' = 0
  /\ phase' = "flock"
  /\ UNCHANGED <<pos, treeVars, treePos, keyVars, flown>>

Moved(p, d) == [a \in Axis |-> p[a] + d[a]]

\* Faulty variant: an agent past a bound stays there.
WrapBoundsNot(p) == p

\* WrapBounds returns a reference to its local; the only compiler the project
\* files are for has the value still in place when the caller copies it.
WrapBounds(p) ==
  [a \in Axis |-> IF p[a] < -MaxBound THEN MaxBound
                  ELSE IF p[a] > MaxBound THEN -MaxBound ELSE p[a]]

\* Faulty variant: the loop passes over an agent after each it updates.
AfterAgentSkip(i) == i + 2

AfterAgent(i) == i + 1

\* The loop of FlockTree or FlockBruteForce, then the upload to the buffer.
FlockNext ==
  /\ phase = "flock"
  /\ IF next < NumAgents
     THEN /\ IF paused THEN UNCHANGED pos
             ELSE \E d \in Steps :
                    pos' = [pos EXCEPT ![next] = WrapBounds(Moved(@, d))]
          /\ next' = AfterAgent(next)
          /\ UNCHANGED <<phase, flown>>
     ELSE /\ next' = 0
          /\ phase' = "input"
          /\ flown' = (flown \/ ~paused)
          /\ UNCHANGED pos
  /\ UNCHANGED <<treeVars, treePos, keyVars>>

\* The bound on the frames is reached.
Stop == phase = "input" /\ frame = MaxFrames /\ UNCHANGED vars

Next == Input \/ InsertNext \/ InsertCall \/ EndBuild \/ FlockNext \/ Stop

Spec == Init /\ [][Next]_vars

-----------------------------------------------------------------------------
(* Properties.                                                              *)

Inserted == IF phase = "build" THEN 0 .. next - 1 ELSE IF useOctree THEN Agent ELSE {}

InBox(n) ==
  {a \in Inserted : PointContained(treePos[a], tree[n].position, tree[n].size)}

\* However the insertions and splits have followed each other, a leaf holds each of
\* the agents inserted so far that lie in its closed box, once, and no other: a split
\* hands every agent on, also one on a face between children (Octree.cpp:3-26).
LeavesExact ==
  phase # "input" /\ calls = <<>> =>
    \A l \in Leaves :
      LET c == tree[l].contents
      IN  /\ {c[k] : k \in DOMAIN c} = InBox(l)
          /\ \A j, k \in DOMAIN c : c[j] = c[k] => j = k

\* The shape depends on where agents are, not on the order of insertion: a node
\* is split if and only if it holds more than MaxSize and may still be split
\* (Octree.cpp:14-24).
SplitIffFull ==
  phase # "input" /\ calls = <<>> =>
    /\ \A l \in Leaves : Cardinality(InBox(l)) <= MaxSize \/ DepthLeft(l) = 0
    /\ \A n \in Inner : Cardinality(InBox(n)) > MaxSize /\ DepthLeft(n) > 0

\* The insertion of an agent outside of the root ends without a trace (Octree.cpp:4-6).
\* That happens to those that start above the bound (Simulation.cpp:40-42): nobody sees
\* them until the first frame that is not paused has moved and wrapped them
\* (SimulationCPU.cpp:101).  From then on every agent is in every tree.
LeftOut(b) == ~flown /\ treePos[b] \notin Space

EveryAgentInTree ==
  phase = "flock" /\ useOctree =>
    \A a \in Agent :
      LeftOut(a) \/ \E l \in Leaves : \E k \in DOMAIN tree[l].contents :
                       tree[l].contents[k] = a

Square(x) == x * x
Distance2(p, q) == Square(p[1] - q[1]) + Square(p[2] - q[2]) + Square(p[3] - q[3])

\* Where agent b is among the neighbours of the agent to be updated next.
Found(b) ==
  {e \in Neighbours(pos[next], MaxRadius) : tree[e[1]].contents[e[2]] = b}

\* When an agent is updated the query misses none of the agents that the rules count,
\* up to and including the largest radius (SimulationCPU.cpp:243, 261, 281), although
\* boxes that only touch are passed over (AABB.h:8-16): an agent on a face is also in
\* the leaf on the near side of it.  Excepted are those that have moved since the tree
\* was built (SimulationCPU.cpp:53-67), which are the ones before it as each is updated
\* once, in order; and those left out of the first trees.
OnlyMovedMissed ==
  phase = "flock" /\ useOctree /\ next < NumAgents =>
    \A b \in Agent :
      Distance2(pos[next], pos[b]) <= Square(MaxRadius) /\ Found(b) = {}
        => (b < next /\ ~paused) \/ LeftOut(b)

\* An agent on no face between two nodes is found at most once, so that it is
\* not counted twice by alignment, separation and cohesion; one on a face is in
\* all the nodes of that face and may be counted up to eight times.
FoundTwiceOnlyOnFaces ==
  phase = "flock" /\ useOctree /\ next < NumAgents =>
    \A b \in Agent : \A e, f \in Found(b) : e # f =>
      \E n \in Inner : \E a \in Axis : treePos[b][a] = tree[n].position[a]

\* A frame moves every agent exactly once in both modes, and none when paused:
\* an agent has its old position until its turn comes and a new one from then on.
EachMovedOnce ==
  phase = "flock" =>
    \A a \in Agent :
      IF a >= next \/ paused THEN pos[a] = treePos[a]
      ELSE \E d \in Steps : pos[a] = WrapBounds(Moved(treePos[a], d))
=============================================================================
