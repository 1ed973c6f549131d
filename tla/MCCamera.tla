------------------------------ MODULE MCCamera ------------------------------
(***************************************************************************)
(* The camera with a mouse of one button, frames of one and four units of  *)
(* time, a limit of three, positions on a line of three, and a turn that   *)
(* the packets of one update can exceed.                                   *)
(***************************************************************************)
EXTENDS Camera

Rel(by) == [absolute |-> FALSE, by |-> by]
Abs(by) == [absolute |-> TRUE, by |-> by]
Packets == {Rel(-1), Rel(2), Abs(0)}
SomeTurns == {0, 120, 240}
MinusOne == -1
=============================================================================
