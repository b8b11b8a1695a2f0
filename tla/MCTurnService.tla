---------------------------- MODULE MCTurnService ----------------------------
(* Instances of TurnService for TLC. *)
EXTENDS TurnService, TLC

CONSTANTS i1, i2, c1, c2

(* The requests of a round are interchangeable, and so are the contracts. *)
Symmetry == Permutations({i1, i2}) \cup Permutations({c1, c2})
=============================================================================
