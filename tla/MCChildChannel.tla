---------------------------- MODULE MCChildChannel ----------------------------
(***************************************************************************)
(* An instance of ChildChannel for TLC: the threads can be exchanged.      *)
(***************************************************************************)
EXTENDS ChildChannel, TLC

ThreadSymmetry == Permutations(Threads)
=============================================================================
