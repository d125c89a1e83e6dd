------------------------------ MODULE MCEngine ------------------------------
(***************************************************************************)
(* The engine with two keys and two values.                                *)
(***************************************************************************)
EXTENDS Engine
=============================================================================
