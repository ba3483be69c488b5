------------------------------- MODULE MCLog -------------------------------
(* The log under a few system calls and crashes. *)
EXTENDS Log, TLC

Symmetry == Permutations(Proc) \cup Permutations(Block) \cup Permutations(Value)
=============================================================================
