----------------------------- MODULE MCRunStream -----------------------------
(***************************************************************************)
(* RunStream with a short run and a buffer of one event.                   *)
(***************************************************************************)
EXTENDS RunStream, TLC
=============================================================================
