--------------------------- MODULE MCAdmissionTx ---------------------------
(* Symmetric instance of AdmissionTx for safety checking.                   *)
EXTENDS AdmissionTx, TLC

Symmetry == Permutations(Callers) \union Permutations(Keys)
=============================================================================
