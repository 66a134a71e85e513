-------------------------- MODULE MCDeezerResolve --------------------------
(* TLC instances of DeezerResolve. *)
EXTENDS DeezerResolve, TLC

Symmetry == Permutations(Ids) \cup Permutations(Prewarms)
=============================================================================
