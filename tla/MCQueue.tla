------------------------------- MODULE MCQueue -------------------------------
(***************************************************************************)
(* Instances of ShmQueue for TLC.  The callers and the messages are model  *)
(* values; the runs differ in the numbers the configurations give.         *)
(***************************************************************************)
EXTENDS ShmQueue, TLC

\* Callers of one side, and messages, are interchangeable (safety runs only).
Symmetry == Permutations(Producers) \cup Permutations(Consumers)
              \cup Permutations(Values)
=============================================================================
