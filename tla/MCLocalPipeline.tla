--------------------------- MODULE MCLocalPipeline ---------------------------
(* Instances of LocalPipeline for TLC. *)
EXTENDS LocalPipeline

CONSTANTS p1, p2

\* Two producers share a small budget, one of them with rows for both
\* partitions in a batch; three partitions with equal keys, one of them empty
\* and one with a page of one row; a Limit that leaves rows behind; a Limit
\* whose driver has more sorted pages than its merge source takes.
MCPlans ==
    {[queues |-> 2, maxBytes |-> 2, limit |-> <<9, 9>>, pageRows |-> 1, batchRows |-> 2,
      input |-> (p1 :> << << << <<1, 1>> >>, << <<2, 2>> >> >>, << << <<4, 3>> >>, <<>> >> >>
                 @@ p2 :> << << << <<3, 4>> >>, << <<2, 5>> >> >> >>)],
     [queues |-> 3, maxBytes |-> 3, limit |-> <<9, 9, 9>>, pageRows |-> 2, batchRows |-> 3,
      input |-> (p1 :> << << << <<1, 1>>, <<3, 2>>, <<5, 3>> >>, <<>>, << <<1, 4>>, <<2, 5>> >> >> >>
                 @@ p2 :> <<>>)],
     [queues |-> 2, maxBytes |-> 1, limit |-> <<1, 9>>, pageRows |-> 1, batchRows |-> 2,
      input |-> (p1 :> << << << <<1, 1>> >>, <<>> >>, << << <<4, 3>> >>, << <<5, 6>> >> >> >>
                 @@ p2 :> << << << <<3, 4>> >>, << <<2, 5>> >> >> >>)],
     [queues |-> 2, maxBytes |-> 1, limit |-> <<4, 9>>, pageRows |-> 1, batchRows |-> 2,
      input |-> (p1 :> << << << <<1, 1>>, <<2, 2>>, <<3, 3>>, <<4, 4>>, <<5, 6>> >>, <<>> >>,
                          << << <<6, 7>> >>, << <<7, 8>> >> >> >>
                 @@ p2 :> <<>>)]}
=============================================================================
