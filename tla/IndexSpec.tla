----------------------------- MODULE IndexSpec -----------------------------
(***************************************************************************)
(* What the index buffer promises to FlockGrid.glsl: the agents of cell c  *)
(* are those in the slots indices[c] .. indices[c + 1] - 1.                *)
(***************************************************************************)
EXTENDS Integers

CONSTANTS
  NumAgents,   \* number of agents in the buffer
  CellCount    \* number of cells, cellsPerAxis^3

AgentSlot == 0 .. NumAgents - 1
CellID == 0 .. CellCount - 1
Entry == 0 .. CellCount

\* The cells cs of the slots never decrease.
InOrder(cs) == \A s, u \in AgentSlot : s < u => cs[s] <= cs[u]

\* Entry k is the number of agents in the cells before k.
Delimits(ix, cs, k) == \A s \in AgentSlot : s < ix[k] <=> cs[s] < k

\* What such an entry must be.
EntryFor(cs, k) ==
  CHOOSE n \in 0 .. NumAgents : \A s \in AgentSlot : s < n <=> cs[s] < k

\* The range of slots that traverseCell goes through for cell c.
CellRange(ix, c) == ix[c] .. ix[c + 1] - 1

\* It is exactly the agents of the cell.
ExactAt(ix, cs, c) == \A s \in AgentSlot : s \in CellRange(ix, c) <=> cs[s] = c
=============================================================================
