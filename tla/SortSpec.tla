----------------------------- MODULE SortSpec -----------------------------
(***************************************************************************)
(* What SimulationGPU::BitonicSort promises the rest of the frame about    *)
(* the agent buffer: in one step the slots hold the same agents, ordered   *)
(* by cell.  Nothing is promised about agents of the same cell, and agents *)
(* behind those that are dispatched stay where they are.                   *)
(***************************************************************************)
EXTENDS Integers

VARIABLES
  size,        \* the number of slots
  dispatched,  \* how many of them, from the first, have an invocation
  order,    \* order[s] is the agent in slot s
  cell,     \* cell[a] is the grid cell of agent a
  sorted    \* the sort has been made

sortVars == <<size, dispatched, order, cell, sorted>>

Slot == 0 .. size - 1

IsPermutation(o) ==
  /\ o \in [Slot -> Slot]
  /\ \A s, u \in Slot : s # u => o[s] # o[u]

InCellOrder(o, c) == \A s \in 1 .. dispatched - 1 : c[o[s - 1]] <= c[o[s]]

SortInit ==
  /\ order = [s \in Slot |-> s]
  /\ cell \in [Slot -> Nat]
  /\ sorted = FALSE

DoSort ==
  /\ ~sorted
  /\ sorted' = TRUE
  /\ UNCHANGED <<size, dispatched, cell>>
  /\ \A s \in dispatched .. size - 1 : order'[s] = order[s]
  /\ IsPermutation(order')
  /\ InCellOrder(order', cell)

\* The caller goes on only when the sort has been made.
SortEventually == <>sorted

SortBehaviour == SortInit /\ [][DoSort]_sortVars /\ SortEventually
=============================================================================
