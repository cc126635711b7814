------------------------------ MODULE MCAgentRun ------------------------------
(***************************************************************************)
(* AgentRun with batches that are larger than the number of workers.       *)
(***************************************************************************)
EXTENDS AgentRun, TLC
=============================================================================
