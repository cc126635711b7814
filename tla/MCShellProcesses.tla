--------------------------- MODULE MCShellProcesses ---------------------------
(***************************************************************************)
(* ShellProcesses with as many registered processes as make it prune.      *)
(***************************************************************************)
EXTENDS ShellProcesses, TLC
=============================================================================
