------------------------------- MODULE MCProc -------------------------------
(* The process table on a few CPUs and slots. *)
EXTENDS Proc, TLC

CPUSymmetry == Permutations(CPU)
=============================================================================
