------------------------------- MODULE MCAgps -------------------------------
(* Model-checking instances of Agps.                                       *)
EXTENDS Agps, TLC

HandleSymmetry == Permutations(Handles)
=============================================================================
