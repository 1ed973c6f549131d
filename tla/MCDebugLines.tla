---------------------------- MODULE MCDebugLines ----------------------------
(***************************************************************************)
(* DebugLines with three lines that last for no, one or three units of     *)
(* time, and frames of one and two units.                                  *)
(***************************************************************************)
EXTENDS DebugLines

SomeTimes == {0, 1, 3}
ShortAndLong == {1, 2}
=============================================================================
