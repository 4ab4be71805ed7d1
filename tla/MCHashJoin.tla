----------------------------- MODULE MCHashJoin -----------------------------
(* Instances of HashJoin for TLC. *)
EXTENDS HashJoin

CONSTANTS b1, b2, b3, p1, p2

MCOrder == <<b1, b2, b3>>
MCHash == [k \in Keys |-> CASE k = "k11" -> <<1, 1>> [] k = "k12" -> <<1, 2>> [] k = "k21" -> <<2, 1>>]

\* An inner join whose partitions are spilled again; a right join with build
\* rows that have no match; anti joins without and with a null key; an empty
\* build side.
MCJoins ==
    {[type |-> "inner",
      build |-> (b1 :> {<<"b1", "k11">>, <<"b2", "k12">>} @@ b2 :> {<<"b3", "k21">>} @@ b3 :> {}),
      probe |-> (p1 :> {<<"p1", "k11">>, <<"p2", "k21">>} @@ p2 :> {<<"p3", "k12">>})],
     [type |-> "right",
      build |-> (b1 :> {<<"b1", "k11">>} @@ b2 :> {<<"b2", "k11">>} @@ b3 :> {<<"b3", "k21">>}),
      probe |-> (p1 :> {<<"p1", "k11">>} @@ p2 :> {<<"p2", "k11">>})],
     [type |-> "anti",
      build |-> (b1 :> {<<"b1", "k11">>} @@ b2 :> {<<"b2", "k21">>} @@ b3 :> {}),
      probe |-> (p1 :> {<<"p1", "k11">>} @@ p2 :> {<<"p2", "k12">>})],
     [type |-> "anti",
      build |-> (b1 :> {<<"b1", "k11">>, <<"b2", NullKey>>} @@ b2 :> {<<"b3", "k21">>} @@ b3 :> {}),
      probe |-> (p1 :> {<<"p1", "k12">>} @@ p2 :> {})],
     [type |-> "inner", build |-> [b \in Builders |-> {}],
      probe |-> (p1 :> {<<"p1", "k11">>} @@ p2 :> {})]}
=============================================================================
