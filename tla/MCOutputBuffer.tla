--------------------------- MODULE MCOutputBuffer ---------------------------
(* Instances of OutputBuffer for TLC. *)
EXTENDS OutputBuffer, TLC

SymProducers == Permutations(Producers)
=============================================================================
