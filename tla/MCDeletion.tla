---------------------------- MODULE MCDeletion ----------------------------
(***************************************************************************)
(* Small instances of Deletion.                                            *)
(***************************************************************************)
EXTENDS Deletion, TLC

Symmetry == Permutations(Session)
=============================================================================
