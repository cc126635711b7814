--------------------------- MODULE MCSessionStore ---------------------------
(***************************************************************************)
(* SessionStore with a few transcripts, records and restarts.              *)
(***************************************************************************)
EXTENDS SessionStore, TLC

Symmetry == Permutations(Transcripts \ {Start})
=============================================================================
