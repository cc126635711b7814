-------------------------- MODULE MCSessionInputs --------------------------
(***************************************************************************)
(* SessionInputs on a few requests that share a few input ids.             *)
(***************************************************************************)
EXTENDS SessionInputs, TLC

Symmetry == Permutations(Requests) \union Permutations(Inputs) \union Permutations(Bodies)
=============================================================================
