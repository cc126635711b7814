-------------------------- MODULE MCSessionEvents --------------------------
(***************************************************************************)
(* SessionEvents with two runs and one aborting request.                   *)
(***************************************************************************)
EXTENDS SessionEvents, TLC
=============================================================================
