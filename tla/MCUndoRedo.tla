------------------------------ MODULE MCUndoRedo ------------------------------
(***************************************************************************)
(* UndoRedo with two requests and two paths: one that files come and go    *)
(* at, of every kind of content, and one that is a file or a directory.    *)
(***************************************************************************)
EXTENDS UndoRedo, TLC

CONSTANTS f1, f2, t1, large

MCHolds == f1 :> {"absent", t1, large, "special"} @@ f2 :> {"absent", t1, "dir"}

Symmetry == Permutations(Requests)
=============================================================================
