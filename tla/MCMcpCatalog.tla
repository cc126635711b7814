----------------------------- MODULE MCMcpCatalog -----------------------------
(***************************************************************************)
(* McpCatalog with two callers and two refreshers, each interchangeable.   *)
(***************************************************************************)
EXTENDS McpCatalog, TLC

Symmetry == Permutations(Callers) \union Permutations(Refreshers)
=============================================================================
