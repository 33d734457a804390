------------------------- MODULE MCPageReplacement -------------------------
(* Instances of PageReplacement for TLC. *)
EXTENDS PageReplacement

PageSymmetry == Permutations(Page)
=============================================================================
