---------------------------- MODULE MCHybridMode ----------------------------
(* A small instance of HybridMode for TLC. *)
EXTENDS HybridMode, TLC

Symmetry == Permutations(IoctlThreads)
=============================================================================
