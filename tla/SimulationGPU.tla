--------------------------- MODULE SimulationGPU ---------------------------
(***************************************************************************)
(* The frames of the GPU simulation: keys and mouse, the flocking kernel   *)
(* of the current mode, and after the grid kernel the sort and the index   *)
(* pass.  What one frame leaves in the three buffers (agents, their cells, *)
(* indices) is what the next one reads.                                    *)
(*                                                                         *)
(* The sort is the step SortSpec promises (FlockSort implements it), the   *)
(* index pass the result GridIndex is proved to have.                      *)
(*                                                                         *)
(* The invocations of a kernel run in any order, and read the other agents *)
(* while those are moved in place, without locks.  An invocation is one    *)
(* step.  The velocity it computes depends on what it happens to read, or  *)
(* on half of it: the displacement of an agent in a frame is any of Steps. *)
(***************************************************************************)
EXTENDS GridCells

CONSTANTS
  NumAgents,    \* settings.numAgents
  Invocations,  \* agents per work-group, 1024 in the code
  Overshoot,    \* how far above the bound an agent may start
  Places,       \* where agents may be at the start
  Steps,        \* what an agent may move in a frame
  Keys,         \* the keys the user presses, of "P" and "SPACE"
  Buttons,      \* the mouse buttons the user presses, of "left" and "right"
  StartMode,    \* the mode chosen in the menu, "grid" or "brute"
  Junk          \* what the index buffer may hold before the first pass

Max1(n) == IF n > 1 THEN n ELSE 1

WorkGroups == Max1(NumAgents \div Invocations)

\* InitFlock divides rand() by RAND_MAX / 2, which is rounded down: with the
\* RAND_MAX of 32767 of the project's compiler a coordinate goes from -maxBound to
\* 1.00006 * maxBound.  That is less beyond than any radius.
StartSpace == [Axis -> -MaxBound .. MaxBound + Overshoot]

\* The slots whose agent has an invocation.
Dispatched == {s \in 0 .. NumAgents - 1 : s < WorkGroups * Invocations}

(***************************************************************************)
(* Sort and index pass are those of SortSpec and IndexSpec only when the   *)
(* work-groups are full, as for the presets; other numbers of agents are   *)
(* considered in brute force mode only.                                    *)
(***************************************************************************)
ASSUME FrameAssumption ==
  /\ NumAgents \in Nat \ {0} /\ Invocations \in Nat \ {0}
  /\ Overshoot \in Nat /\ Overshoot < MaxRadius
  /\ Places \subseteq StartSpace
  /\ \A d \in Steps : d \in [Axis -> Int]
  /\ Keys \subseteq {"P", "SPACE"} /\ Buttons \subseteq {"left", "right"}
  /\ StartMode \in {"grid", "brute"}
  /\ "P" \in Keys \/ StartMode = "grid" => NumAgents % Invocations = 0
  /\ Junk \subseteq Nat

Agent == 0 .. NumAgents - 1
Program == {"grid", "brute"}

VARIABLES
  pos,         \* pos[a]: position of agent a
  cell,        \* cell[a]: the cell stored with it
  order,       \* order[s]: the agent in slot s of the agent buffer
  indices,     \* the index buffer and the entry behind it
  backed,      \* whether that entry keeps what is written there (see GridIndex)
  useGrid,     \* SimulationGPU::useGrid
  paused,      \* Simulation::paused
  mouse,       \* the mouse buttons held during this frame
  mouseState,  \* mouseState[p]: the uniform of compute program p
  phase,       \* what comes next: "input", "flock", "kernel", "sort" or "index"
  flown,       \* the agents whose invocation of the running kernel is done
  lastKernel   \* the kernel that ran last; used by properties only

buffers == <<cell, order, indices, backed>>
vars == <<pos, buffers, useGrid, paused, mouse, mouseState, phase, flown, lastKernel>>

Sorting == INSTANCE SortSpec WITH size <- NumAgents, dispatched <- NumAgents, sorted <- TRUE
Indexing == INSTANCE IndexSpec

\* The agents whose invocations a dispatch starts.
Started == {order[s] : s \in Dispatched}

\* Types; and an agent is in space from its first invocation on.  Before that it
\* is where InitFlock has put it.
TypeOK ==
  /\ pos \in [Agent -> StartSpace]
  /\ \A a \in flown : InSpace(pos[a])
  /\ lastKernel # "none" => \A a \in Started : InSpace(pos[a])
  /\ cell \in [Agent -> 0 .. CellCount - 1]
  /\ Sorting!IsPermutation(order)
  /\ indices \in [Indexing!Entry -> Nat]
  /\ backed \in BOOLEAN /\ useGrid \in BOOLEAN /\ paused \in BOOLEAN
  /\ mouse \subseteq Buttons
  /\ mouseState \in [Program -> 0 .. 2]
  /\ phase \in {"input", "flock", "kernel", "sort", "index"}
  /\ flown \subseteq Agent
  /\ lastKernel \in Program \cup {"none"}

Init ==
  /\ pos \in [Agent -> Places]
  /\ cell = [a \in Agent |-> InitialCellAt(pos[a])]
  /\ order = [s \in Agent |-> s]
  /\ \E j \in Junk : indices = [k \in Indexing!Entry |-> j]
  /\ backed \in BOOLEAN
  /\ useGrid = (StartMode = "grid")
  /\ paused = FALSE
  /\ mouse = {}
  /\ mouseState = [p \in Program |-> 0]
  /\ phase = "input"
  /\ flown = {}
  /\ lastKernel = "none"

\* UpdateKeys: SPACE and P each toggle when pressed in this frame.  A paused
\* frame runs no kernel (PerformFlock).
Input ==
  /\ phase = "input"
  /\ \E pressed \in SUBSET Keys :
       /\ paused' = (paused # ("SPACE" \in pressed))
       /\ useGrid' = (useGrid # ("P" \in pressed))
  /\ mouse' \in SUBSET Buttons
  /\ phase' = IF paused' THEN "input" ELSE "flock"
  /\ UNCHANGED <<pos, buffers, mouseState, flown, lastKernel>>

\* CastAvoidanceRay: "attracting ? 1 : 2", else 0.
MouseUniform ==
  IF "right" \in mouse THEN 1 ELSE IF "left" \in mouse THEN 2 ELSE 0

\* CastAvoidanceRay asks bruteForceComputer for the locations of the uniforms,
\* but glUniform sets them in the program that is bound; both shaders place
\* mouseState at location 8.
CastAvoidanceRay(bound) ==
  mouseState' = [mouseState EXCEPT ![bound] = MouseUniform]

\* FlockBruteForce and FlockGrid up to Execute: the uniforms and the dispatch.
Dispatch ==
  /\ phase = "flock"
  /\ CastAvoidanceRay(IF useGrid THEN "grid" ELSE "brute")
  /\ phase' = "kernel"
  /\ flown' = {}
  /\ UNCHANGED <<pos, buffers, useGrid, paused, mouse, lastKernel>>

\* Faulty variant: the cell is computed before the move.
NewCellEarly(a) == CellAt(pos[a])

\* The last line of the grid kernel, after the wrap.
NewCell(a) == CellAt(pos'[a])

\* The invocation of agent a: it reads its neighbours, moves and wraps.
Invocation(a) ==
  /\ phase = "kernel"
  /\ a \in Started \ flown
  /\ \E step \in Steps : pos' = [pos EXCEPT ![a] = Wrapped(Moved(@, step))]
  /\ cell' = IF useGrid THEN [cell EXCEPT ![a] = NewCell(a)] ELSE cell
  /\ flown' = flown \cup {a}
  /\ UNCHANGED <<order, indices, backed, useGrid, paused, mouse, mouseState, phase, lastKernel>>

\* glMemoryBarrier after the dispatch; in grid mode PerformFlock goes on with
\* BitonicSort.
KernelDone ==
  /\ phase = "kernel" /\ flown = Started
  /\ phase' = IF useGrid THEN "sort" ELSE "input"
  /\ lastKernel' = IF useGrid THEN "grid" ELSE "brute"
  /\ UNCHANGED <<pos, buffers, useGrid, paused, mouse, mouseState, flown>>

\* What the dispatches of FlockSort.glsl leave: any order by cell.
Sorted(o) == Sorting!IsPermutation(o) /\ Sorting!InCellOrder(o, cell)

BitonicSort ==
  /\ phase = "sort"
  /\ order' \in {o \in [Agent -> Agent] : Sorted(o)}
  /\ phase' = "index"
  /\ UNCHANGED <<pos, cell, indices, backed, useGrid, paused, mouse, mouseState, flown, lastKernel>>

\* agents[s].cell, by slot.
SlotCells == [s \in Agent |-> cell[order[s]]]

\* Entry k after GridIndex.glsl, as IndexIsExact of GridIndexProofs says.
NewEntry(k) ==
  IF k = CellCount /\ ~backed THEN indices[k] ELSE Indexing!EntryFor(SlotCells, k)

IndexPass ==
  /\ phase = "index"
  /\ indices' = [k \in Indexing!Entry |-> NewEntry(k)]
  /\ phase' = "input"
  /\ UNCHANGED <<pos, cell, order, backed, useGrid, paused, mouse, mouseState, flown, lastKernel>>

Next ==
  \/ Input \/ Dispatch
  \/ \E a \in Agent : Invocation(a)
  \/ KernelDone \/ BitonicSort \/ IndexPass

Spec == Init /\ [][Next]_vars

-----------------------------------------------------------------------------
(* Properties.                                                              *)

\* The three buffers agree: cells with positions, slots with cells, the index
\* with the slots.
Consistent ==
  /\ \A a \in Agent : cell[a] = CellAt(pos[a])
  /\ Sorting!InCellOrder(order, cell)
  /\ \A k \in Indexing!Entry :
       k < CellCount \/ backed => Indexing!Delimits(indices, SlotCells, k)

\* Between frames the buffers agree whenever the last kernel was the grid's,
\* however long the simulation has been paused and whatever they were before
\* that one frame: wrong initial cells, an index never written, or positions
\* that brute force frames have moved on (SimulationGPU.cpp:70-77, 149-180).
FreshAfterGridKernel ==
  phase \in {"input", "flock"} /\ lastKernel = "grid" => Consistent

\* How often the invocation of agent a reads agent b.
Reads(a, b) ==
  Cardinality({o \in Offsets :
                 \E s \in Indexing!CellRange(indices, VisitedCell(cell[a], o)) :
                   s \in Agent /\ order[s] = b})

\* The entry behind the index buffer is needed for the agents of the very last
\* cell (SimulationGPU.cpp:144).
Indexed(b) == backed \/ cell[b] # CellCount - 1

\* In a grid frame that follows a grid frame every invocation that runs reads each
\* other agent within the largest radius exactly once, in whatever order the
\* invocations run: agents that have flown already are missed only if they have
\* come near by that, and no agent is read twice, on the move or not
\* (FlockGrid.glsl:119, 138-149, 177-211).  Of the invocation's own agent nothing
\* is said: traverseCell reads it like any other in its cell (147-148) although
\* main has counted it before (159-162); FlockBruteForce.glsl:104 leaves it out.
NearAgentsReadOnce ==
  phase = "kernel" /\ useGrid /\ lastKernel = "grid" =>
    \A a \in Started \ flown : \A b \in Agent \ {a} :
      /\ Reads(a, b) <= 1
      /\ b \notin flown /\ Near(pos[a], pos[b]) /\ Indexed(b) => Reads(a, b) = 1

\* The "Num Agents" on the screen (Simulation.cpp:120) are the agents that fly:
\* a kernel moves every one of them.
EveryAgentFlies == [][phase = "kernel" /\ phase' # "kernel" => flown = Agent]_vars
=============================================================================
