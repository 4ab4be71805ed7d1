---------------------------- MODULE MCArbitrator ----------------------------
(* An instance of Arbitrator for TLC. *)
EXTENDS Arbitrator, TLC

CONSTANTS q1, q2, t1, t2, t3

MCPoolOf == t1 :> q1 @@ t2 :> q1 @@ t3 :> q2
MCMaxAsks == t1 :> 2 @@ t2 :> 1 @@ t3 :> 1
MCMaxCapacity == q1 :> 2 @@ q2 :> 1
=============================================================================
