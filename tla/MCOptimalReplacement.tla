------------------------ MODULE MCOptimalReplacement ------------------------
(* Instances of OptimalReplacement for TLC. *)
EXTENDS OptimalReplacement, TLC

PageSymmetry == Permutations(Page)
=============================================================================
