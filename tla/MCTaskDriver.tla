---------------------------- MODULE MCTaskDriver ----------------------------
(* Instances of TaskDriver for TLC. *)
EXTENDS TaskDriver, TLC

SymThreads == Permutations(Threads)
=============================================================================
