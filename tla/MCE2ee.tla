------------------------------- MODULE MCE2ee -------------------------------
(***************************************************************************)
(* The two ratchets under a network that repeats a message.                *)
(***************************************************************************)
EXTENDS E2ee
=============================================================================
