---------------------------- MODULE MCFlockSort ----------------------------
(***************************************************************************)
(* FlockSort on 8 and 5 agents.  The network compares data-obliviously, so *)
(* by the 0-1 principle two cells decide whether it sorts; all inputs are  *)
(* initial states.                                                         *)
(***************************************************************************)
EXTENDS FlockSort

TwoCells == {0, 1}

\* Two work-groups of two invocations: the last merge has one pass in the
\* buffer and then strides in shared memory.  Four of one: two passes in the
\* buffer follow each other.  Of five, the last has no invocation.
ThreeSizes == {<<8, 2>>, <<8, 1>>, <<5, 1>>}
=============================================================================
