---------------------------- MODULE MCEventFollow ----------------------------
(***************************************************************************)
(* EventFollow with a few events and a channel of one.                     *)
(***************************************************************************)
EXTENDS EventFollow, TLC
=============================================================================
