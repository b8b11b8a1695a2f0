------------------------------ MODULE MCDrive ------------------------------
(***************************************************************************)
(* Small instances of Drive.  Sessions are interchangeable: nothing in     *)
(* Drive depends on which session is which.                                *)
(***************************************************************************)
EXTENDS Drive, TLC

Symmetry == Permutations(Session)
=============================================================================
