---------------------------- MODULE MCPositionTx ----------------------------
(* Instances of PositionTx for model checking.                              *)
EXTENDS PositionTx, TLC

Symmetry == Permutations(Writers)
=============================================================================
