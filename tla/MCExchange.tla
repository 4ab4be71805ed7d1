----------------------------- MODULE MCExchange -----------------------------
(* Instances of Exchange for TLC. *)
EXTENDS Exchange

CONSTANTS s1, s2, c1, c2

MCSplitList == <<s1, s1, s2>>
MCNumPages == [s \in Sources |-> IF s = s1 THEN 1 ELSE 2]
MCPageBytes == [s \in Sources |-> IF s = s1 THEN 1 ELSE 2]
=============================================================================
