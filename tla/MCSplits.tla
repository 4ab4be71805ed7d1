------------------------------ MODULE MCSplits ------------------------------
(* Instances of Splits for TLC. *)
EXTENDS Splits, TLC

CONSTANTS a, b, g1, g2

PlanOf(grouped, remote, onA, splitsA, splitsB, sequenced, partitioned, concurrent, careful) ==
    [grouped |-> grouped, remote |-> remote, drivers |-> (a :> onA @@ b :> 1),
     splits |-> (a :> splitsA @@ b :> splitsB), sequenced |-> sequenced, out |-> a,
     partitioned |-> partitioned, concurrent |-> concurrent, careful |-> careful]

U == Ungrouped

\* Careful clients: a grouped scan and an exchange, with one and with two groups at a time;
\* two grouped scans; a scan with two drivers whose splits are numbered and sent again.
OneAtATime  == PlanOf({a}, {b}, 1, <<g1, g2, g1>>, <<U>>, {}, TRUE, 1, TRUE)
TwoAtATime  == PlanOf({a}, {b}, 1, <<g1, g2, g1>>, <<U>>, {}, TRUE, 2, TRUE)
BothGrouped == PlanOf({a, b}, {}, 1, <<g1, g2>>, <<g2>>, {}, FALSE, 1, TRUE)
NotGrouped  == PlanOf({}, {b}, 2, <<U, U>>, <<>>, {a}, FALSE, 1, TRUE)

\* Clients that call whenever they like.
AnyCalls    == {PlanOf({a}, {b}, 1, <<g1, g2>>, <<>>, {}, TRUE, 2, FALSE),
                PlanOf({a}, {b}, 1, <<g1>>, <<>>, {a}, TRUE, 2, FALSE),
                PlanOf({}, {b}, 1, <<U>>, <<U>>, {a}, FALSE, 1, FALSE)}

MCPlans == {OneAtATime, TwoAtATime, BothGrouped, NotGrouped} \cup AnyCalls
=============================================================================
