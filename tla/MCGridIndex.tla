---------------------------- MODULE MCGridIndex ----------------------------
(***************************************************************************)
(* GridIndex with 4 agents and 4 cells: all 35 ordered assignments, among  *)
(* them empty cells at the start, in the middle and at the end, and cells  *)
(* with several agents; the buffer holds 0 or a number that is no slot.    *)
(***************************************************************************)
EXTENDS GridIndex

TwoValues == {0, NumAgents + 3}
=============================================================================
