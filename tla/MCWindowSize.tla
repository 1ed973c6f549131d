---------------------------- MODULE MCWindowSize ----------------------------
(***************************************************************************)
(* WindowSize with two places and three sizes, the largest the maximised.  *)
(***************************************************************************)
EXTENDS WindowSize

AtOffset == [at |-> "offset", extent |-> 2]
WholeScreen == [at |-> "home", extent |-> 3]
=============================================================================
