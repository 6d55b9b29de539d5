------------------------------- MODULE MCCache -------------------------------
(* Model-checking instance of Cache. *)
EXTENDS Cache, TLC

Symmetry == Permutations(Keys) \cup Permutations(Values)
=============================================================================
