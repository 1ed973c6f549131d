-------------------------- MODULE MCSimulationCPU --------------------------
(***************************************************************************)
(* SimulationCPU with three agents, one per leaf and two levels of nodes:  *)
(* agents in the same leaf, on the faces of the first and of the second    *)
(* split, exactly a radius from each other, on the corner of the bound     *)
(* and above it.                                                           *)
(***************************************************************************)
EXTENDS SimulationCPU

SomePlaces == {<<0, 0, 0>>, <<1, 1, 1>>, <<2, 0, 0>>, <<3, 1, 2>>, <<4, 4, 4>>, <<5, 1, 2>>}
AlongX == {<<1, 0, 0>>, <<-1, 0, 0>>}
=============================================================================
