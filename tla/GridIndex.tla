----------------------------- MODULE GridIndex -----------------------------
(***************************************************************************)
(* The compute shader GridIndex.glsl: one invocation per agent writes the  *)
(* entries of the index buffer that lie between the cell of the agent in   *)
(* the slot before its own and its own cell; the last one also those after *)
(* its cell.  The invocations run in any interleaving and one write of     *)
(* indices[i] is one step.  Nothing here writes an agent, so the two cells *)
(* an invocation reads are read where they are used.                       *)
(***************************************************************************)
EXTENDS IndexSpec

(***************************************************************************)
(* BitonicSort dispatches workGroups * 1024 invocations: one per agent     *)
(* when the number of agents is a multiple of 1024, as in both presets.    *)
(***************************************************************************)
CONSTANT Junk  \* what an entry may hold before it is written

ASSUME IndexAssumption ==
  /\ NumAgents \in Nat \ {0}
  /\ CellCount \in Nat \ {0}
  /\ Junk \subseteq Nat

Thread == AgentSlot

VARIABLES
  cellOf,    \* cellOf[s]: agents[s].cell
  indices,   \* the index buffer, with the entry just behind its end
  backed,    \* whether the entry behind its end keeps what is written there
  pc,        \* pc[t]: where invocation t is
  i          \* i[t]: its loop variable

vars == <<cellOf, indices, backed, pc, i>>

TypeOK ==
  /\ cellOf \in [AgentSlot -> CellID]
  /\ indices \in [Entry -> Nat]
  /\ backed \in BOOLEAN
  /\ pc \in [Thread -> {"start", "fill", "tail", "done"}]
  /\ i \in [Thread -> 0 .. CellCount + 1]

(***************************************************************************)
(* The kernel follows the sort.  InitGrid allocates cellsPerAxis^3         *)
(* entries, the kernel writes one more: whether that one is backed by      *)
(* memory depends on how the driver rounds allocations.                    *)
(***************************************************************************)
Init ==
  /\ cellOf \in {f \in [AgentSlot -> CellID] : InOrder(f)}
  /\ indices \in [Entry -> Junk]
  /\ backed \in BOOLEAN
  /\ pc = [t \in Thread |-> "start"]
  /\ i = [t \in Thread |-> 0]

Prev(t) == IF t = 0 THEN 0 ELSE cellOf[t - 1]

\* indices[k] = v, lost when the entry is not backed.
Written(k, v) ==
  IF k = CellCount /\ ~backed THEN indices ELSE [indices EXCEPT ![k] = v]

\* Lines 31-39, up to the initialisation of the first loop.
Start(t) ==
  /\ pc[t] = "start"
  /\ indices' = IF t = 0 THEN Written(0, 0) ELSE indices
  /\ i' = [i EXCEPT ![t] = Prev(t) + 1]
  /\ pc' = [pc EXCEPT ![t] = "fill"]
  /\ UNCHANGED <<cellOf, backed>>

\* Faulty variant: the loop stops one short of the agent's own cell.
InFillShort(t) == i[t] < cellOf[t]

\* The condition of the first loop.
InFill(t) == i[t] <= cellOf[t]

Fill(t) ==
  /\ pc[t] = "fill"
  /\ InFill(t)
  /\ indices' = Written(i[t], t)
  /\ i' = [i EXCEPT ![t] = @ + 1]
  /\ UNCHANGED <<cellOf, backed, pc>>

\* Faulty variant: every invocation takes itself for the last one.
IsLastAlways(t) == t <= NumAgents - 1

\* Faulty variant: the last invocation is looked for one too far.
IsLastMissed(t) == t = NumAgents

\* "id == size - 1".
IsLast(t) == t = NumAgents - 1

EndFill(t) ==
  /\ pc[t] = "fill"
  /\ ~InFill(t)
  /\ pc' = [pc EXCEPT ![t] = IF IsLast(t) THEN "tail" ELSE "done"]
  /\ i' = [i EXCEPT ![t] = IF IsLast(t) THEN cellOf[t] + 1 ELSE @]
  /\ UNCHANGED <<cellOf, backed, indices>>

\* Faulty variant: the second loop runs one entry too far.
InTailTooFar(t) == i[t] <= CellCount + 1

\* The condition of the second loop.
InTail(t) == i[t] < CellCount + 1

Tail_(t) ==
  /\ pc[t] = "tail"
  /\ InTail(t)
  /\ indices' = Written(i[t], t + 1)
  /\ i' = [i EXCEPT ![t] = @ + 1]
  /\ UNCHANGED <<cellOf, backed, pc>>

EndTail(t) ==
  /\ pc[t] = "tail"
  /\ ~InTail(t)
  /\ pc' = [pc EXCEPT ![t] = "done"]
  /\ UNCHANGED <<cellOf, backed, indices, i>>

Finished == \A t \in Thread : pc[t] = "done"

Done == Finished /\ UNCHANGED vars

Step(t) == Start(t) \/ Fill(t) \/ EndFill(t) \/ Tail_(t) \/ EndTail(t)

Next == (\E t \in Thread : Step(t)) \/ Done

Spec == Init /\ [][Next]_vars

-----------------------------------------------------------------------------
(* Properties.                                                              *)

\* The entries an invocation has still to write, from where it is.
Pending(t) ==
  {k \in Entry :
     \/ pc[t] = "start" /\ t = 0 /\ k = 0
     \/ pc[t] = "start" /\ Prev(t) < k /\ k <= cellOf[t]
     \/ pc[t] = "fill" /\ i[t] <= k /\ k <= cellOf[t]
     \/ pc[t] \in {"start", "fill"} /\ IsLast(t) /\ cellOf[t] < k
     \/ pc[t] = "tail" /\ i[t] <= k}

\* No two invocations write the same entry, whatever their order: without this
\* the value of an entry would depend on the scheduler (GridIndex.glsl:42-53).
\* It needs the agents to be in cell order.
NoWriteConflict ==
  \A t, u \in Thread : t # u => Pending(t) \cap Pending(u) = {}

\* An entry that no invocation has still to write is final: it separates the
\* agents of the cells before it from the others.
SettledEntriesDelimit ==
  \A k \in Entry :
    (k < CellCount \/ backed) /\ (\A t \in Thread : k \notin Pending(t))
      => Delimits(indices, cellOf, k)

\* When the kernel has finished, the range of every cell (indices[c] to
\* indices[c + 1]) has exactly the slots of the agents in that cell, which is
\* what traverseCell relies on (FlockGrid.glsl:138-149).  The last cell is
\* exact only if the entry behind the buffer is there.
IndexExact ==
  Finished =>
    \A c \in CellID : c < CellCount - 1 \/ backed => ExactAt(indices, cellOf, c)
=============================================================================
