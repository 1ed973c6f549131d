-------------------------- MODULE MCSimulationGPU --------------------------
(***************************************************************************)
(* SimulationGPU in a space of 7 places per axis and 4 cells per axis (the *)
(* last one a partial cell, as with the presets).  Agents start on a       *)
(* diagonal, in the corner whose cell is the last one, and above the bound.*)
(***************************************************************************)
EXTENDS SimulationGPU

Corners == {<<0, 0, 0>>, <<1, 1, 1>>, <<2, 3, 3>>, <<4, 0, 0>>}
AlongX == {<<1, 0, 0>>, <<-1, 0, 0>>}
ZeroOrHuge == {0, 9}
=============================================================================
