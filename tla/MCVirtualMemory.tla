-------------------------- MODULE MCVirtualMemory --------------------------
(* Instances of VirtualMemory for TLC. *)
EXTENDS VirtualMemory, TLC

PageSymmetry == Permutations(Page)
=============================================================================
