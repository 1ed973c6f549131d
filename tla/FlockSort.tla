----------------------------- MODULE FlockSort -----------------------------
(***************************************************************************)
(* The bitonic sort of the agent buffer by grid cell: the host's loop of   *)
(* dispatches (SimulationGPU::BitonicSort) and the invocations of the      *)
(* compute shader FlockSort.glsl, each with its own program counter.       *)
(*                                                                         *)
(* An agent is named by the slot it had when the sort began; its cell does *)
(* not change here.  Invocation t of the dispatch is gl_WorkGroupSize.x *  *)
(* gl_WorkGroupID.x + gl_LocalInvocationID.x.  An exchange (two reads, a   *)
(* comparison, two writes) is one step: RaceFree shows that no other       *)
(* invocation touches its two places meanwhile.                            *)
(*                                                                         *)
(* The counter "iteration" of the inner loop is used for one thing only,   *)
(* to halve segmentSize as often: the model keeps the result, block, which *)
(* is segmentSize / 2^iteration on the host and, shifted once more, the    *)
(* distance "(segmentSize >> 1) >> iteration" of the shader.               *)
(***************************************************************************)
EXTENDS Integers, FiniteSets

CONSTANTS
  Sizes,        \* the pairs <<size, localSize>> that are considered
  Cells         \* the cell numbers an agent may have

\* Its only odd divisor is 1.
IsPowerOfTwo(n) == \A d \in 1 .. n : n % d = 0 /\ d % 2 = 1 => d = 1

\* max(numAgents / invocations, 1), where invocations is 1024 and a work-group of
\* FlockSort.glsl has 512 of them: "shared Agent localAgents[1024]" has two
\* places per invocation.
Groups(n, l) == IF n \div (2 * l) > 1 THEN n \div (2 * l) ELSE 1

(***************************************************************************)
(* The GPU presets have 32768 and 1048576 agents, which fill a power of    *)
(* two of work-groups.  The default of 2560 agents fills two of them and a *)
(* half that is not dispatched: the sort leaves those agents alone.  With  *)
(* three work-groups the last merge would reach beyond the buffer, and     *)
(* with less than one its barrier would be in divergent control flow.      *)
(***************************************************************************)
ASSUME SortAssumption ==
  /\ \A p \in Sizes :
       /\ p \in (Nat \ {0}) \X (Nat \ {0})
       /\ p[1] >= 2 * p[2]
       /\ IsPowerOfTwo(2 * p[2]) /\ IsPowerOfTwo(2 * p[2] * Groups(p[1], p[2]))
  /\ Cells \subseteq Nat

NoAgent == -1  \* content of shared memory before it is first written

VARIABLES
  size,         \* the uniform "size", flock->size
  localSize,    \* gl_WorkGroupSize.x, 512 in the code
  agents,       \* agents[s]: the agent in slot s of the agent buffer
  cell,         \* cell[a]: the cell of agent a
  segmentSize,  \* host loop variable and uniform
  block,        \* sizeOfIndependentBlock of the pass that is next or running
  host,         \* where the host is: "dispatch", "waiting" or "done"
  pc,           \* pc[t]: where invocation t is
  hstep,        \* hstep[t]: its local variable
  localAgents   \* localAgents[g]: shared memory of work-group g

inputs == <<size, localSize, cell>>
hostVars == <<segmentSize, block, host>>
vars == <<inputs, agents, hostVars, pc, hstep, localAgents>>

Invocations == 2 * localSize
WorkGroups == Groups(size, localSize)
Slot == 0 .. size - 1
Group == 0 .. WorkGroups - 1
Thread == 0 .. WorkGroups * localSize - 1
Dispatched == WorkGroups * Invocations  \* the agents that have an invocation
LocalSlot == 0 .. 2 * localSize - 1

GroupOf(t) == t \div localSize
LocalID(t) == t % localSize

TypeOK ==
  /\ <<size, localSize>> \in Sizes
  /\ agents \in [Slot -> Slot]
  /\ cell \in [Slot -> Cells]
  /\ segmentSize \in 2 .. 2 * size
  /\ block \in 2 .. segmentSize
  /\ host \in {"dispatch", "waiting", "done"}
  /\ pc \in [Thread -> {"global", "load", "exchange", "barrier", "store", "done"}]
  /\ hstep \in [Thread -> 0 .. size]
  /\ localAgents \in [Group -> [LocalSlot -> Slot \cup {NoAgent}]]

Init ==
  /\ \E p \in Sizes : size = p[1] /\ localSize = p[2]
  /\ agents = [s \in Slot |-> s]
  /\ cell \in [Slot -> Cells]
  /\ segmentSize = 2
  /\ block = 2
  /\ host = "dispatch"
  /\ pc = [t \in Thread |-> "done"]
  /\ hstep = [t \in Thread |-> 0]
  /\ localAgents = [g \in Group |-> [i \in LocalSlot |-> NoAgent]]

-----------------------------------------------------------------------------
(* The comparator of an invocation.                                         *)

\* elemID and oelemID: the two places compared at distance h.
Low(id, h) == id + (id \div h) * h
High(id, h) == Low(id, h) + h

\* Faulty variant: the test of the direction is off by one.
AscendingOffByOne(t) == segmentSize \div 2 >= t % segmentSize

Ascending(t) == segmentSize \div 2 > t % segmentSize

\* "comp": whether the agents a (lower place) and b (higher place) change places.
MustSwap(t, a, b) ==
  IF Ascending(t) THEN ~(cell[a] < cell[b]) ELSE cell[a] < cell[b]

\* Faulty variant: the agent in the first place is not kept in a temporary.
SwappedNoCopy(f, i, j) == [f EXCEPT ![i] = f[j]]

Swapped(f, i, j) == [f EXCEPT ![i] = f[j], ![j] = f[i]]

-----------------------------------------------------------------------------
(* The invocations.                                                         *)

\* (segmentSize >> 1) >> iteration, the distance a dispatch starts from.
FirstStep == block \div 2

\* Where an invocation goes from the two tests at the start of main.
Entry(t) ==
  IF ~(t < size \div 2) THEN "done"
  ELSE IF FirstStep > localSize THEN "global" ELSE "load"

\* A pass whose partners lie further apart than a work-group: one exchange
\* in the agent buffer itself.
GlobalExchange(t) ==
  LET i == Low(t, hstep[t])
      j == High(t, hstep[t])
  IN  /\ pc[t] = "global"
      /\ agents' = IF MustSwap(t, agents[i], agents[j])
                   THEN Swapped(agents, i, j) ELSE agents
      /\ pc' = [pc EXCEPT ![t] = "done"]
      /\ UNCHANGED <<inputs, hstep, localAgents, hostVars>>

\* The invocation copies its two agents to shared memory.
Load(t) ==
  LET i == 2 * LocalID(t)
  IN  /\ pc[t] = "load"
      /\ localAgents' = [localAgents EXCEPT ![GroupOf(t)][i] = agents[2 * t],
                                            ![GroupOf(t)][i + 1] = agents[2 * t + 1]]
      /\ pc' = [pc EXCEPT ![t] = "barrier"]
      /\ UNCHANGED <<inputs, agents, hstep, hostVars>>

\* Compare and exchange in shared memory, then halve the distance.
LocalExchange(t) ==
  LET i == Low(LocalID(t), hstep[t])
      j == High(LocalID(t), hstep[t])
      mem == localAgents[GroupOf(t)]
  IN  /\ pc[t] = "exchange"
      /\ localAgents' = [localAgents EXCEPT ![GroupOf(t)] =
                           IF MustSwap(t, mem[i], mem[j]) THEN Swapped(mem, i, j) ELSE mem]
      /\ hstep' = [hstep EXCEPT ![t] = @ \div 2]
      /\ pc' = [pc EXCEPT ![t] = "barrier"]
      /\ UNCHANGED <<inputs, agents, hostVars>>

\* Faulty variant: a barrier that does not wait for the others.
BarrierMissing(g) == \E t \in Thread : GroupOf(t) = g /\ pc[t] = "barrier"

\* barrier(): nobody of the work-group passes before everybody is there.
BarrierOpen(g) == \A t \in Thread : GroupOf(t) = g => pc[t] = "barrier"

PassBarrier(g) ==
  /\ \E t \in Thread : GroupOf(t) = g /\ pc[t] = "barrier"
  /\ BarrierOpen(g)
  /\ pc' = [t \in Thread |->
              IF GroupOf(t) = g /\ pc[t] = "barrier"
              THEN IF hstep[t] > 0 THEN "exchange" ELSE "store"
              ELSE pc[t]]
  /\ UNCHANGED <<inputs, agents, hstep, localAgents, hostVars>>

\* The invocation copies its two places of shared memory back.
Store(t) ==
  LET mem == localAgents[GroupOf(t)]
      i == 2 * LocalID(t)
  IN  /\ pc[t] = "store"
      /\ agents' = [agents EXCEPT ![2 * t] = mem[i], ![2 * t + 1] = mem[i + 1]]
      /\ pc' = [pc EXCEPT ![t] = "done"]
      /\ UNCHANGED <<inputs, hstep, localAgents, hostVars>>

-----------------------------------------------------------------------------
(* The host.                                                                *)

\* Set the uniforms and Execute(workGroups, 1, 1).
Dispatch ==
  /\ host = "dispatch"
  /\ host' = "waiting"
  /\ pc' = [t \in Thread |-> Entry(t)]
  /\ hstep' = [t \in Thread |-> FirstStep]
  /\ UNCHANGED <<inputs, agents, segmentSize, block, localAgents>>

\* glMemoryBarrier: what follows sees all that the dispatch wrote.
DispatchComplete == \A t \in Thread : pc[t] = "done"

\* Faulty variant: the segment grows in both loops.
NextPassQuadruples ==
  /\ segmentSize' = 4 * segmentSize
  /\ block' = segmentSize'
  /\ host' = IF segmentSize' <= size THEN "dispatch" ELSE "done"

\* The next pass of the same merge.
HalveBlock ==
  /\ block' = block \div 2
  /\ host' = "dispatch"
  /\ UNCHANGED segmentSize

\* Faulty variant: the outer loop runs while segmentSize < size.
NextPassStopsEarly ==
  IF block > Invocations THEN HalveBlock
  ELSE /\ segmentSize' = 2 * segmentSize
       /\ block' = segmentSize'
       /\ host' = IF segmentSize' < size THEN "dispatch" ELSE "done"

\* Faulty variant: the outer loop goes on while half a segment fits.
NextPassOnceMore ==
  IF block > Invocations THEN HalveBlock
  ELSE /\ segmentSize' = 2 * segmentSize
       /\ block' = segmentSize'
       /\ host' = IF segmentSize <= size THEN "dispatch" ELSE "done"

\* The conditions of the inner and of the outer do-while, and what they step.
NextPass ==
  IF block > Invocations THEN HalveBlock
  ELSE /\ segmentSize' = 2 * segmentSize
       /\ block' = segmentSize'
       /\ host' = IF segmentSize' <= size THEN "dispatch" ELSE "done"

CompletePass ==
  /\ host = "waiting"
  /\ DispatchComplete
  /\ NextPass
  /\ UNCHANGED <<inputs, agents, pc, hstep, localAgents>>

\* BitonicSort has gone on to the index pass: nothing more happens here.
Done == host = "done" /\ UNCHANGED vars

Next ==
  \/ Dispatch
  \/ CompletePass
  \/ \E t \in Thread : GlobalExchange(t) \/ Load(t) \/ LocalExchange(t) \/ Store(t)
  \/ \E g \in Group : PassBarrier(g)
  \/ Done

\* A dispatched work-group runs to its end and the host does not stop.
Fairness == WF_vars(Next)

Spec == Init /\ [][Next]_vars /\ Fairness

-----------------------------------------------------------------------------
(* Properties.                                                              *)

\* The places an invocation is about to read and write, in shared memory.
Touches(t) ==
  CASE pc[t] = "exchange" -> {Low(LocalID(t), hstep[t]), High(LocalID(t), hstep[t])}
    [] pc[t] \in {"load", "store"} -> {2 * LocalID(t), 2 * LocalID(t) + 1}
    [] OTHER -> {}

\* The same, in the agent buffer.
TouchesBuffer(t) ==
  CASE pc[t] = "global" -> {Low(t, hstep[t]), High(t, hstep[t])}
    [] pc[t] \in {"load", "store"} -> {2 * t, 2 * t + 1}
    [] OTHER -> {}

\* Two invocations that may run at the same time never touch the same agent:
\* the barriers and the pairing of the places keep them apart, in shared memory
\* (FlockSort.glsl:67-88) and in the buffer (FlockSort.glsl:51-59).
RaceFree ==
  \A t, u \in Thread : t # u =>
    /\ TouchesBuffer(t) \cap TouchesBuffer(u) = {}
    /\ GroupOf(t) = GroupOf(u) => Touches(t) \cap Touches(u) = {}

\* No invocation of any pass reaches beyond the agents, also when the last
\* work-group of agents is not dispatched: the host ends its loop in time for the
\* distance of the shader (SimulationGPU.cpp:165-172, FlockSort.glsl:51-52).
InBuffer == \A t \in Thread : TouchesBuffer(t) \subseteq Slot

\* What the slots hold when shared memory counts for the agents that have been
\* copied there and not yet back.
Content(s) ==
  LET t == s \div 2
  IN  IF s < Dispatched /\ pc[t] \in {"barrier", "exchange", "store"}
      THEN localAgents[GroupOf(t)][s % (2 * localSize)] ELSE agents[s]

\* At every moment, also in the middle of a pass, every agent is in exactly one
\* slot: no exchange, copy or barrier loses an agent or makes a second copy of
\* it (the structs are moved whole, FlockSort.glsl:23-33 and 63-88).
NoAgentLost == Cardinality({Content(s) : s \in Slot}) = size

\* Block b of w consecutive slots is in cell order, or in the reverse order.
Monotone(b, w, up) ==
  \A s \in b * w .. b * w + w - 2 :
    IF up THEN cell[agents[s]] <= cell[agents[s + 1]]
          ELSE cell[agents[s]] >= cell[agents[s + 1]]

\* The invariant of the host's outer loop (SimulationGPU.cpp:156-172): when a
\* merge of blocks of segmentSize begins, the half blocks are sorted in
\* alternating directions, so that each block is bitonic.
AlternatingRuns ==
  host = "dispatch" /\ block = segmentSize =>
    LET w == segmentSize \div 2
    IN  \A b \in 0 .. (Dispatched \div w) - 1 : Monotone(b, w, b % 2 = 0)

Abstract ==
  INSTANCE SortSpec
    WITH order <- IF host = "done" THEN agents ELSE [s \in Slot |-> s],
         dispatched <- Dispatched,
         sorted <- host = "done"

\* The dispatches of BitonicSort together do what the frame needs of them
\* (SimulationGPU.cpp:149-172): the dispatched agents are put into cell order, each
\* of the others stays in its slot, cells stay what they were, and the loop ends.
ImplementsSort == Abstract!SortBehaviour
=============================================================================
