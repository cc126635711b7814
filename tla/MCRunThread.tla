---------------------------- MODULE MCRunThread ----------------------------
(***************************************************************************)
(* RunThread on small sets of calls.                                       *)
(***************************************************************************)
EXTENDS RunThread
=============================================================================
