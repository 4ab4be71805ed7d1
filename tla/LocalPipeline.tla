---------------------------- MODULE LocalPipeline ----------------------------
(***************************************************************************)
(* The pipelines of one task that hand pages to each other in memory:      *)
(*                                                                         *)
(*   producers -- LocalPartition --> LocalExchangeQueue 1..n --> drivers   *)
(*   1..n (LocalExchange, Limit, OrderBy) -- LocalMergeSource 1..n -->     *)
(*   LocalMerge -- MergeJoinSource --> the right side of a MergeJoin       *)
(*                                                                         *)
(* (velox/exec/LocalPartition.cpp, MergeSource.cpp, Merge.cpp,             *)
(* TreeOfLosers.h).  Every queue has its own lock; the queues of one local *)
(* exchange share a memory budget.  An action is one critical section and  *)
(* what its thread does up to the next one.  Promises are realized just    *)
(* after the lock is released; only the sleeping driver sees that, so they *)
(* are realized in the same action here.                                   *)
(*                                                                         *)
(* A row is <<sorting key, id>> and counts for one byte.                   *)
(***************************************************************************)
EXTENDS Integers, Sequences, FiniteSets, SequencesExt, FiniteSetsExt

CONSTANTS
    Producers,   \* drivers of the pipeline that ends in LocalPartition
    Plans        \* the plans to run

(***************************************************************************)
(* A plan: queues (the number of partitions), input[p][b][q] (the rows of  *)
(* producer p's b-th batch that hash to partition q), maxBytes, limit[q]   *)
(* (of the Limit operator of driver q), pageRows (of OrderBy's output),    *)
(* batchRows (of the merge's output).                                      *)
(***************************************************************************)
ASSUME PlansAssumption ==
    \A pl \in Plans : pl.queues > 1 /\ pl.maxBytes > 0 /\ pl.pageRows > 0 /\ pl.batchRows > 0

VARIABLES
    plan,
    prod,            \* LocalPartition: batch, partitions still to be served, pc
    lq,              \* LocalExchangeQueue: data, pending producers, closed, consumer's promise
    bufferedBytes, memPromises,   \* LocalExchangeMemoryManager
    drv,             \* the drivers between a queue and its merge source
    src,             \* LocalMergeSource: data, atEnd, the two sides' promises
    mrg,             \* LocalMerge
    slot,            \* MergeJoinSource: data, atEnd, the two sides' promises
    jn               \* the MergeJoin's right side

vars == <<plan, prod, lq, bufferedBytes, memPromises, drv, src, mrg, slot, jn>>

Queues == 1..plan.queues
Capacity == 2       \* of a LocalMergeSource
NoPage == <<>>
NoRow == <<0, 0>>
LessRow(r1, r2) == r1[1] < r2[1]
Empty == 0          \* kEmpty of the tree of losers

Bytes(q) == FoldLeft(LAMBDA n, page : n + Len(page), 0, lq[q].data)
RowsFor(q) == UNION {UNION {Range(plan.input[p][b][q]) : b \in DOMAIN plan.input[p]} : p \in Producers}
Limited(q) == plan.limit[q] < Cardinality(RowsFor(q))

TypeOK ==
    /\ plan \in Plans
    /\ \A p \in Producers :
        /\ prod[p].pc \in {"put", "ending", "done"} /\ prod[p].todo \subseteq Queues
        /\ prod[p].batch \in 0..Len(plan.input[p])
    /\ \A q \in Queues :
        /\ lq[q].pending \in 0..Cardinality(Producers)
        /\ lq[q].closed \in BOOLEAN /\ lq[q].waiting \in BOOLEAN
        /\ drv[q].pc \in {"pull", "emit", "close", "done"}
        /\ drv[q].rows \subseteq RowsFor(q) /\ drv[q].left \in 0..plan.limit[q]
        /\ Len(src[q].data) <= Capacity /\ src[q].atEnd \in BOOLEAN
        /\ src[q].cons \in BOOLEAN /\ src[q].prod \in BOOLEAN
        /\ mrg.cursor[q].first \in 1..plan.pageRows /\ mrg.cursor[q].row \in 1..plan.pageRows + 1
        /\ mrg.cursor[q].atEnd \in BOOLEAN /\ mrg.cursor[q].needData \in BOOLEAN
    /\ bufferedBytes \in Nat
    /\ memPromises \subseteq Producers \X Queues
    /\ mrg.pc \in {"check", "ask", "wait", "rows", "give", "end", "done"}
    /\ mrg.size \in 0..plan.batchRows
    /\ slot.atEnd \in BOOLEAN /\ slot.cons \in BOOLEAN /\ slot.prod \in BOOLEAN
    /\ jn.pc \in {"run", "done"} /\ jn.asked \in BOOLEAN /\ jn.ended \in BOOLEAN

(***************************************************************************)
(* The task creates all drivers, which register as producers, and calls    *)
(* noMoreProducers on every queue before any driver runs.                  *)
(***************************************************************************)
NewCursor == [data |-> NoPage, row |-> 1, first |-> 1, sel |-> {}, atEnd |-> FALSE, needData |-> TRUE]

Init ==
    /\ plan \in Plans
    /\ prod = [p \in Producers |-> [pc |-> "put", batch |-> 0, todo |-> {}]]
    /\ lq = [q \in Queues |-> [data |-> <<>>, pending |-> Cardinality(Producers),
                               closed |-> FALSE, waiting |-> FALSE]]
    /\ bufferedBytes = 0 /\ memPromises = {}
    /\ drv = [q \in Queues |-> [pc |-> "pull", rows |-> {}, left |-> plan.limit[q], out |-> <<>>]]
    /\ src = [q \in Queues |-> [data |-> <<>>, atEnd |-> FALSE, cons |-> FALSE, prod |-> FALSE]]
    /\ mrg = [pc |-> "check", at |-> 1, cursor |-> [q \in Queues |-> NewCursor], futures |-> <<>>,
              on |-> 0, values |-> [n \in 0..plan.queues - 2 |-> Empty], last |-> Empty,
              output |-> [i \in 1..plan.batchRows |-> NoRow], size |-> 0, finished |-> FALSE]
    /\ slot = [data |-> NoPage, atEnd |-> FALSE, cons |-> FALSE, prod |-> FALSE]
    /\ jn = [pc |-> "run", asked |-> FALSE, ended |-> FALSE, got |-> <<>>]

-----------------------------------------------------------------------------
(* LocalExchangeMemoryManager.                                             *)

\* Mutant: the caller is never held back.
IncreaseMemoryUsageUnblocked(p, q, added) ==
    bufferedBytes' = bufferedBytes + added /\ UNCHANGED memPromises

\* Adds to the usage and, at the limit, leaves a promise for the caller.
increaseMemoryUsage(p, q, added) ==
    /\ bufferedBytes' = bufferedBytes + added
    /\ memPromises' = IF bufferedBytes' >= plan.maxBytes THEN memPromises \cup {<<p, q>>} ELSE memPromises

\* Takes from the usage and, below the limit, realizes all promises.
decreaseMemoryUsage(removed) ==
    /\ bufferedBytes' = bufferedBytes - removed
    /\ memPromises' = IF bufferedBytes' < plan.maxBytes THEN {} ELSE memPromises

(* LocalPartition: a producer waits for the futures of all partitions of a *)
(* batch before the next one.                                              *)
Blocked(p) == \E q \in Queues : <<p, q>> \in memPromises

\* The next batch from upstream, or noMoreInput.
NextInput(p) ==
    /\ prod[p].pc = "put" /\ prod[p].todo = {} /\ ~Blocked(p)
    /\ prod' = [prod EXCEPT ![p] =
        IF @.batch < Len(plan.input[p])
        THEN [pc |-> "put", batch |-> @.batch + 1,
              todo |-> {q \in Queues : plan.input[p][@.batch + 1][q] # NoPage}]
        ELSE [@ EXCEPT !.pc = "ending", !.todo = Queues]]
    /\ UNCHANGED <<plan, lq, bufferedBytes, memPromises, drv, src, mrg, slot, jn>>

\* addInput hands each partition its rows, in the order of the partitions; a
\* closed queue drops them.
Enqueue(p) ==
    /\ prod[p].pc = "put" /\ prod[p].todo # {}
    /\ LET q == Min(prod[p].todo)
           page == plan.input[p][prod[p].batch][q]
       IN /\ prod' = [prod EXCEPT ![p].todo = @ \ {q}]
          /\ IF lq[q].closed
             THEN UNCHANGED <<lq, bufferedBytes, memPromises>>
             ELSE /\ lq' = [lq EXCEPT ![q].data = Append(@, page), ![q].waiting = FALSE]
                  /\ increaseMemoryUsage(p, q, Len(page))
    /\ UNCHANGED <<plan, drv, src, mrg, slot, jn>>

PartDone(pr, q) ==
    [pr EXCEPT !.todo = @ \ {q}, !.pc = IF pr.pc = "ending" /\ pr.todo = {q} THEN "done" ELSE @]

\* Mutant: the last producer does not wake the consumer.
NoMoreDataSilent(p) ==
    /\ prod[p].pc = "ending"
    /\ LET q == Min(prod[p].todo)
       IN /\ prod' = [prod EXCEPT ![p] = PartDone(@, q)]
          /\ lq' = [lq EXCEPT ![q].pending = @ - 1]
    /\ UNCHANGED <<plan, bufferedBytes, memPromises, drv, src, mrg, slot, jn>>

\* noMoreData on one queue after the other.
NoMoreData(p) ==
    /\ prod[p].pc = "ending"
    /\ LET q == Min(prod[p].todo)
       IN /\ prod' = [prod EXCEPT ![p] = PartDone(@, q)]
          /\ lq' = [lq EXCEPT ![q].pending = @ - 1, ![q].waiting = @ /\ lq[q].pending > 1]
    /\ UNCHANGED <<plan, bufferedBytes, memPromises, drv, src, mrg, slot, jn>>

-----------------------------------------------------------------------------
(* The driver of partition q: LocalExchange, Limit and OrderBy.            *)

\* LocalExchangeQueue::isFinishedLocked.
QueueFinished(q) == lq[q].closed \/ (lq[q].pending = 0 /\ lq[q].data = <<>>)

\* What OrderBy returns for its rows, cut into pages.
SortedPages(rows) ==
    LET sorted == SetToSortSeq(rows, LAMBDA r1, r2 : r1[1] < r2[1] \/ (r1[1] = r2[1] /\ r1[2] < r2[2]))
        n == plan.pageRows
    IN [i \in 1..((Len(sorted) + n - 1) \div n) |->
            SubSeq(sorted, (i - 1) * n + 1, IF i * n < Len(sorted) THEN i * n ELSE Len(sorted))]

\* Rows reach OrderBy; when the limit is met, or there is no more input, it
\* sorts.  The Limit operator does not close the exchange below it.
Pull(q) ==
    /\ drv[q].pc = "pull" /\ ~lq[q].waiting
    /\ \/ /\ lq[q].data # <<>>
          /\ LET page == Head(lq[q].data)
                 n == IF Len(page) < drv[q].left THEN Len(page) ELSE drv[q].left
                 rows == drv[q].rows \cup Range(SubSeq(page, 1, n))
                 met == drv[q].left <= Len(page)
             IN /\ lq' = [lq EXCEPT ![q].data = Tail(@)]
                /\ decreaseMemoryUsage(Len(page))
                /\ drv' = [drv EXCEPT ![q] = [pc |-> IF met THEN "emit" ELSE "pull", rows |-> rows,
                               left |-> @.left - n, out |-> IF met THEN SortedPages(rows) ELSE <<>>]]
       \/ /\ lq[q].data = <<>> /\ QueueFinished(q)
          /\ drv' = [drv EXCEPT ![q].pc = "emit", ![q].out = SortedPages(drv[q].rows)]
          /\ UNCHANGED <<lq, bufferedBytes, memPromises>>
       \/ /\ lq[q].data = <<>> /\ ~QueueFinished(q)
          /\ lq' = [lq EXCEPT ![q].waiting = TRUE]
          /\ UNCHANGED <<bufferedBytes, memPromises, drv>>
    /\ UNCHANGED <<plan, prod, src, mrg, slot, jn>>

\* CallbackSink::addInput calls LocalMergeSource::enqueue, which blocks the
\* driver when the source is full after it.
Emit(q) ==
    /\ drv[q].pc = "emit" /\ ~src[q].prod /\ drv[q].out # <<>>
    /\ drv' = [drv EXCEPT ![q].out = Tail(@)]
    /\ src' = [src EXCEPT ![q].data = Append(@, Head(drv[q].out)), ![q].cons = FALSE,
                          ![q].prod = Len(src[q].data) + 1 >= Capacity]
    /\ UNCHANGED <<plan, prod, lq, bufferedBytes, memPromises, mrg, slot, jn>>

\* CallbackSink::noMoreInput enqueues the end.
EmitEnd(q) ==
    /\ drv[q].pc = "emit" /\ ~src[q].prod /\ drv[q].out = <<>>
    /\ drv' = [drv EXCEPT ![q].pc = "close"]
    /\ src' = [src EXCEPT ![q].atEnd = TRUE, ![q].cons = FALSE]
    /\ UNCHANGED <<plan, prod, lq, bufferedBytes, memPromises, mrg, slot, jn>>

\* Mutant: close drops the pages but not their bytes.
CloseKeepsBytes(q) ==
    /\ drv[q].pc = "close"
    /\ drv' = [drv EXCEPT ![q].pc = "done"]
    /\ lq' = [lq EXCEPT ![q].data = <<>>, ![q].closed = TRUE, ![q].waiting = FALSE]
    /\ UNCHANGED <<plan, prod, bufferedBytes, memPromises, src, mrg, slot, jn>>

\* The driver closes its operators: LocalExchangeQueue::close drops the rest.
Close(q) ==
    /\ drv[q].pc = "close"
    /\ drv' = [drv EXCEPT ![q].pc = "done"]
    /\ lq' = [lq EXCEPT ![q].data = <<>>, ![q].closed = TRUE, ![q].waiting = FALSE]
    /\ IF Bytes(q) > 0 THEN decreaseMemoryUsage(Bytes(q)) ELSE UNCHANGED <<bufferedBytes, memPromises>>
    /\ UNCHANGED <<plan, prod, src, mrg, slot, jn>>

-----------------------------------------------------------------------------
(* TreeOfLosers over the cursors c: the inner nodes are 0..n-2, the stream *)
(* of source s is node n - 2 + s; values[node] is the loser kept there.    *)

HasData(c, s) == ~c[s].atEnd
HeadLess(c, s1, s2) == LessRow(c[s1].data[c[s1].row], c[s2].data[c[s2].row])

\* The least stream under a node, and the losers on the way, for the first call.
RECURSIVE First(_, _, _)
First(c, node, values) ==
    LET n == Len(c) IN
    IF node >= n - 1
    THEN [win |-> IF HasData(c, node - n + 2) THEN node - n + 2 ELSE Empty, values |-> values]
    ELSE LET l == First(c, 2 * node + 1, values)
             r == First(c, 2 * node + 2, l.values)
         IN IF l.win = Empty THEN r
            ELSE IF r.win = Empty THEN [r EXCEPT !.win = l.win]
            ELSE IF HeadLess(c, l.win, r.win)
                 THEN [win |-> l.win, values |-> [r.values EXCEPT ![node] = r.win]]
                 ELSE [win |-> r.win, values |-> [r.values EXCEPT ![node] = l.win]]

\* Mutant: the greater of the two goes up.
PropagateGreater(c, node, value, values) ==
    LET up == IF values[node] # Empty /\ (value = Empty \/ HeadLess(c, value, values[node]))
              THEN [win |-> values[node], values |-> [values EXCEPT ![node] = value]]
              ELSE [win |-> value, values |-> values]
    IN up

\* A stream (or Empty, at its end) goes up from a node and plays against the
\* loser kept at each one.
RECURSIVE Propagate(_, _, _, _)
Propagate(c, node, value, values) ==
    LET up == IF values[node] # Empty /\ (value = Empty \/ HeadLess(c, values[node], value))
              THEN [win |-> values[node], values |-> [values EXCEPT ![node] = value]]
              ELSE [win |-> value, values |-> values]
    IN IF node = 0 THEN up ELSE Propagate(c, (node - 1) \div 2, up.win, up.values)

TreeNext(c, last, values) ==
    IF last = Empty THEN First(c, 0, values)
    ELSE Propagate(c, (Len(c) + last - 3) \div 2, IF HasData(c, last) THEN last ELSE Empty, values)

-----------------------------------------------------------------------------
(* LocalMerge: its driver asks the sources, merges rows into a batch and   *)
(* hands the batch to the MergeJoinSource.                                 *)

\* SourceStream::fetchMoreData on source q: LocalMergeSource::next.
FetchMoreData(m, q) ==
    IF src[q].data # <<>>
    THEN /\ src' = [src EXCEPT ![q].data = Tail(@), ![q].prod = FALSE]
         /\ mrg' = [m EXCEPT !.cursor[q].data = Head(src[q].data), !.cursor[q].row = 1,
                             !.cursor[q].needData = FALSE]
    ELSE IF src[q].atEnd
    THEN /\ mrg' = [m EXCEPT !.cursor[q].data = NoPage, !.cursor[q].row = 1,
                             !.cursor[q].atEnd = TRUE, !.cursor[q].needData = FALSE]
         /\ UNCHANGED src
    ELSE /\ src' = [src EXCEPT ![q].cons = TRUE]
         /\ mrg' = [m EXCEPT !.cursor[q].needData = TRUE, !.futures = Append(@, q)]

\* Merge::isBlocked, once the sink is not blocked: waits for the last of the
\* futures it holds, or asks the sources again.
MergeCheck ==
    /\ mrg.pc = "check" /\ ~slot.prod
    /\ mrg' = IF mrg.futures = <<>> THEN [mrg EXCEPT !.pc = "ask", !.at = 1]
              ELSE [mrg EXCEPT !.pc = "wait", !.on = Last(mrg.futures), !.futures = Front(@)]
    /\ UNCHANGED <<plan, prod, lq, bufferedBytes, memPromises, drv, src, slot, jn>>

\* SourceStream::isBlocked of the streams in turn.
MergeAsk ==
    /\ mrg.pc = "ask"
    /\ IF mrg.at > plan.queues
       THEN /\ mrg' = IF mrg.futures = <<>> THEN [mrg EXCEPT !.pc = "rows"] ELSE [mrg EXCEPT !.pc = "check"]
            /\ UNCHANGED src
       ELSE IF mrg.cursor[mrg.at].needData THEN FetchMoreData([mrg EXCEPT !.at = @ + 1], mrg.at)
       ELSE mrg' = [mrg EXCEPT !.at = @ + 1] /\ UNCHANGED src
    /\ UNCHANGED <<plan, prod, lq, bufferedBytes, memPromises, drv, slot, jn>>

MergeWake ==
    /\ mrg.pc = "wait" /\ ~src[mrg.on].cons
    /\ mrg' = [mrg EXCEPT !.pc = "check", !.on = 0]
    /\ UNCHANGED <<plan, prod, lq, bufferedBytes, memPromises, drv, src, slot, jn>>

\* copyToOutput of stream q: the selected output rows get the next source rows.
CopyToOutput(m, q) ==
    LET cur == m.cursor[q]
        n == Cardinality(cur.sel)
    IN [m EXCEPT !.output = [i \in DOMAIN @ |->
                    IF i \in cur.sel THEN cur.data[cur.first + Cardinality({j \in cur.sel : j < i})] ELSE @[i]],
                 !.cursor[q].sel = {},
                 !.cursor[q].first = IF n = 0 THEN @ ELSE IF cur.first + n > Len(cur.data) THEN 1 ELSE @ + n]

RECURSIVE CopyAll(_, _)
CopyAll(m, q) == IF q = 0 THEN m ELSE CopyToOutput(CopyAll(m, q - 1), q)

\* One round of the loop of Merge::getOutput: the row of the least stream is
\* selected, and the stream advances, to its next page when this one is used up.
MergeRow ==
    /\ mrg.pc = "rows"
    /\ LET next == TreeNext(mrg.cursor, mrg.last, mrg.values)
           q == next.win
           m1 == [mrg EXCEPT !.last = q, !.values = next.values]
       IN IF q = Empty
          THEN /\ mrg' = [m1 EXCEPT !.finished = TRUE, !.pc = IF mrg.size = 0 THEN "end" ELSE "give"]
               /\ UNCHANGED src
          ELSE LET atPageEnd == mrg.cursor[q].row = Len(mrg.cursor[q].data)
                   m2 == [m1 EXCEPT !.cursor[q].sel = @ \cup {mrg.size + 1}, !.size = @ + 1]
                   m3 == IF atPageEnd THEN CopyToOutput(m2, q) ELSE m2
                   m4 == [m3 EXCEPT !.cursor[q].row = @ + 1]
                   full == m4.size = plan.batchRows
                   m5 == IF full THEN [CopyAll(m4, plan.queues) EXCEPT !.pc = "give"] ELSE m4
               IN IF atPageEnd
                  THEN FetchMoreData([m5 EXCEPT !.pc = IF full THEN "give" ELSE IF src[q].data = <<>> /\ ~src[q].atEnd
                                                       THEN "check" ELSE "rows"], q)
                  ELSE mrg' = m5 /\ UNCHANGED src
    /\ UNCHANGED <<plan, prod, lq, bufferedBytes, memPromises, drv, slot, jn>>

\* CallbackSink::addInput calls MergeJoinSource::enqueue: dropped after close,
\* else the driver waits until the page is consumed.
MergeGive ==
    /\ mrg.pc = "give"
    /\ mrg' = [mrg EXCEPT !.pc = IF mrg.finished THEN "end" ELSE "check", !.size = 0,
                          !.output = [i \in DOMAIN @ |-> NoRow]]
    /\ slot' = IF slot.atEnd THEN slot
               ELSE [data |-> SubSeq(mrg.output, 1, mrg.size), atEnd |-> FALSE, cons |-> FALSE, prod |-> TRUE]
    /\ UNCHANGED <<plan, prod, lq, bufferedBytes, memPromises, drv, src, jn>>

\* CallbackSink::noMoreInput.
MergeEnd ==
    /\ mrg.pc = "end" /\ ~slot.prod
    /\ mrg' = [mrg EXCEPT !.pc = "done"]
    /\ slot' = IF slot.atEnd THEN slot ELSE [slot EXCEPT !.atEnd = TRUE, !.cons = FALSE]
    /\ UNCHANGED <<plan, prod, lq, bufferedBytes, memPromises, drv, src, jn>>

-----------------------------------------------------------------------------
(* MergeJoin: the right side.                                              *)

\* MergeJoin::getOutput asks for the next right page: MergeJoinSource::next.
JoinNext ==
    /\ jn.pc = "run" /\ ~slot.cons /\ ~jn.ended
    /\ IF slot.data # NoPage
       THEN /\ jn' = [jn EXCEPT !.asked = TRUE, !.got = @ \o slot.data]
            /\ slot' = [slot EXCEPT !.data = NoPage, !.prod = FALSE]
       ELSE IF slot.atEnd
       THEN jn' = [jn EXCEPT !.asked = TRUE, !.ended = TRUE] /\ UNCHANGED slot
       ELSE jn' = [jn EXCEPT !.asked = TRUE] /\ slot' = [slot EXCEPT !.cons = TRUE]
    /\ UNCHANGED <<plan, prod, lq, bufferedBytes, memPromises, drv, src, mrg>>

\* The left side is at its end: the driver closes the join, which closes the
\* source if it has asked for a right page before.
JoinFinish ==
    /\ jn.pc = "run" /\ ~slot.cons /\ jn.asked
    /\ jn' = [jn EXCEPT !.pc = "done"]
    /\ slot' = [slot EXCEPT !.data = NoPage, !.atEnd = TRUE, !.prod = FALSE]
    /\ UNCHANGED <<plan, prod, lq, bufferedBytes, memPromises, drv, src, mrg>>

-----------------------------------------------------------------------------
ProducerStep(p) == NextInput(p) \/ Enqueue(p) \/ NoMoreData(p)
DriverStep(q) == Pull(q) \/ Emit(q) \/ EmitEnd(q) \/ Close(q)
MergeStep == MergeCheck \/ MergeAsk \/ MergeWake \/ MergeRow \/ MergeGive \/ MergeEnd
JoinStep == JoinNext \/ JoinFinish

Next ==
    \/ \E p \in Producers : ProducerStep(p)
    \/ \E q \in Queues : DriverStep(q)
    \/ MergeStep
    \/ JoinStep

Spec == Init /\ [][Next]_vars

\* The executor runs every driver that is not blocked.
MaxQueues == 3
FairSpec ==
    /\ Spec
    /\ \A p \in Producers : WF_vars(ProducerStep(p))
    /\ \A q \in 1..MaxQueues : WF_vars(q \in Queues /\ DriverStep(q))
    /\ WF_vars(MergeStep) /\ WF_vars(JoinStep)

-----------------------------------------------------------------------------
(* Properties.                                                             *)

\* The buffers keep to their limits.  The shared budget is exact: what
\* increaseMemoryUsage and decreaseMemoryUsage have counted is what the queues
\* hold, also after a queue was closed with pages in it while producers were
\* adding to it.  It is exceeded by less than one batch per producer, although
\* a batch is added page by page and waited for only after its last page.  A
\* page never meets a full merge source nor a merge join source that still
\* holds one (the checks of their enqueue, MergeSource.cpp:76 and 268).
BatchBytes(batch) == FoldLeft(LAMBDA n, page : n + Len(page), 0, batch)
LargestBatch(p) == Max({0} \cup {BatchBytes(plan.input[p][b]) : b \in DOMAIN plan.input[p]})
BuffersBounded ==
    /\ bufferedBytes = MapThenSumSet(LAMBDA q : Bytes(q), Queues)
    /\ bufferedBytes < plan.maxBytes + MapThenSumSet(LAMBDA p : LargestBatch(p), Producers)
    /\ \A q \in Queues : Len(src[q].data) <= Capacity
    /\ mrg.pc = "give" /\ ~slot.atEnd => slot.data = NoPage

\* Nobody sleeps although there is something to do: a driver that waits for
\* a queue has an empty queue that will get more; a producer waits only at
\* the limit; the merge and its sources, and the merge join and its source,
\* never wait for each other.
NoSleepInVain ==
    /\ \A q \in Queues : lq[q].waiting => lq[q].data = <<>> /\ ~QueueFinished(q)
    /\ memPromises # {} => bufferedBytes >= plan.maxBytes
    /\ \A q \in Queues : /\ src[q].cons => src[q].data = <<>> /\ ~src[q].atEnd
                         /\ src[q].prod => Len(src[q].data) = Capacity
    /\ slot.cons => slot.data = NoPage /\ ~slot.atEnd
    /\ slot.prod => slot.data # NoPage

\* What the join gets is sorted and holds no row twice and no row that was
\* never copied into the output; at the end it is every row that was sent to
\* a partition, apart from those that a Limit has cut off.
JoinInputSorted ==
    LET sent == jn.got \o slot.data IN
    /\ \A i \in 1..Len(sent) - 1 : ~LessRow(sent[i + 1], sent[i])
    /\ Cardinality(Range(sent)) = Len(sent) /\ NoRow \notin Range(sent)
    /\ jn.ended => /\ Range(sent) = UNION {drv[q].rows : q \in Queues}
                   /\ \A q \in Queues : ~Limited(q) => drv[q].rows = RowsFor(q)
                   /\ \A q \in Queues : Limited(q) => Cardinality(drv[q].rows) = plan.limit[q]

\* All drivers finish, whether or not the join stops before the end of its
\* right side, unless a Limit can leave pages in its queue that fill the
\* budget while its driver still has more pages than its merge source takes.
Fits == \A q \in Queues : Limited(q) => plan.limit[q] <= (Capacity - 1) * plan.pageRows
AllDone ==
    /\ \A p \in Producers : prod[p].pc = "done"
    /\ \A q \in Queues : drv[q].pc = "done"
    /\ mrg.pc = "done" /\ jn.pc = "done"
AllFinish == Fits ~> AllDone
=============================================================================
