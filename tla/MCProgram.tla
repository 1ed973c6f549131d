----------------------------- MODULE MCProgram -----------------------------
(***************************************************************************)
(* Program with one key of the menu, ESCAPE and one toggle.                *)
(***************************************************************************)
EXTENDS Program

OneChoice == <<"NUM1">>
=============================================================================
