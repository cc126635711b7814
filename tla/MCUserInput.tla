---------------------------- MODULE MCUserInput ----------------------------
(***************************************************************************)
(* UserInput with a few questions, client requests and runs.               *)
(***************************************************************************)
EXTENDS UserInput, TLC
=============================================================================
