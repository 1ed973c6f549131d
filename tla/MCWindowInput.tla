--------------------------- MODULE MCWindowInput ---------------------------
(***************************************************************************)
(* WindowInput with one key, as nothing relates different keys, and at     *)
(* most three messages in an update.                                       *)
(***************************************************************************)
EXTENDS WindowInput
=============================================================================
