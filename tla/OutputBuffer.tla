---------------------------- MODULE OutputBuffer ----------------------------
(***************************************************************************)
(* The output buffer of a Task (velox/exec/OutputBuffer.cpp): producers    *)
(* (the drivers' PartitionedOutput operators) enqueue pages, consumers     *)
(* fetch them by sequence number, acknowledge them and delete their        *)
(* results; producers are held back while too much is buffered.            *)
(*                                                                         *)
(* Every action is one critical section of OutputBuffer::mutex_; what a    *)
(* call does after the unlock (freeing pages, waking producers) is a       *)
(* Release step of its own.  A page is its number; all have one size.      *)
(***************************************************************************)
EXTENDS Integers, Sequences, FiniteSets, Functions

CONSTANTS
    Kinds,       \* kinds of output (PartitionedOutputNode::Kind) to consider
    NumDests,    \* destinations that may ever exist
    InitDests,   \* destinations that exist from the start
    Producers,   \* drivers of the output pipeline
    ExtraDrivers,\* drivers announced at first and withdrawn by updateNumDrivers
    MaxPages,    \* bound on the pages produced
    PageSize,    \* bytes of every page
    MaxSize,     \* maxSize_
    FetchPages,  \* pages that make up the maxBytes of a fetch
    EarlyDelete  \* kinds whose consumers may delete their results before the end

Dests == 1..NumDests
Pages == 1..MaxPages
End == 0                               \* the null page that ends the data
ContinueSize == (MaxSize * 90) \div 100
Updater == 0                           \* the caller of updateOutputBuffers
Callers == Dests \cup {Updater}

ASSUME KindsAssumption ==
    Kinds \subseteq {"kPartitioned", "kBroadcast", "kArbitrary"} /\ EarlyDelete \subseteq Kinds
ASSUME SizesAssumption ==
    /\ NumDests \in Nat \ {0} /\ InitDests \in 1..NumDests
    /\ IsFiniteSet(Producers) /\ ExtraDrivers \in Nat
    /\ MaxPages \in Nat /\ MaxSize \in Nat
    /\ PageSize \in Nat \ {0} /\ FetchPages \in Nat \ {0}

VARIABLES
    \* OutputBuffer
    kind, numBuffers, noMoreBuffers, dataToBroadcast, arbitrary, nextLoad, bufferedBytes,
    blocked,         \* producers whose promise is in promises_
    numDrivers, numFinished, atEnd,
    \* DestinationBuffer, per destination
    data, sequence, notify, deleted,
    \* calls between their critical section and their end
    pending, consumed, \* consumed: Task::setAllOutputConsumed has been called
    \* producers
    produced, producer, target, noMoreDriversDue,
    \* consumers (an ExchangeSource per destination)
    got, request, response, acks

bufferVars == <<kind, numBuffers, noMoreBuffers, dataToBroadcast, arbitrary, nextLoad>>
driverVars == <<numDrivers, numFinished, atEnd, noMoreDriversDue>>
destVars == <<data, sequence, notify, deleted>>
producerVars == <<produced, producer, target>>
consumerVars == <<got, request, response, acks>>
vars == <<bufferVars, bufferedBytes, blocked, driverVars, destVars, pending, consumed,
          producerVars, consumerVars>>

Idle == [freed |-> {}, woken |-> {}, finished |-> FALSE]
NoResponse == <<-1>>                   \* no sequence of pages

TypeOK ==
    /\ kind \in Kinds /\ numBuffers \in InitDests..NumDests /\ noMoreBuffers \in BOOLEAN
    /\ dataToBroadcast \in Seq(Pages) /\ arbitrary \in Seq(Pages \cup {End})
    /\ nextLoad \in 1..numBuffers
    /\ bufferedBytes \in Nat /\ blocked \subseteq Producers
    /\ numDrivers \in Nat /\ numFinished \in 0..numDrivers
    /\ atEnd \in BOOLEAN /\ noMoreDriversDue \in BOOLEAN
    /\ data \in [Dests -> Seq(Pages \cup {End})]
    /\ sequence \in [Dests -> Nat]
    /\ notify \in [Dests -> {"none", "live", "stale"}]
    /\ deleted \in [Dests -> BOOLEAN]
    /\ pending \in [Callers -> [freed : SUBSET Pages, woken : SUBSET Producers, finished : BOOLEAN]]
    /\ consumed \in BOOLEAN
    /\ produced \in 0..MaxPages
    /\ producer \in [Producers -> {"ready", "blocked", "done"}]
    /\ target \in [Pages -> Dests]
    /\ got \in [Dests -> Seq(Pages \cup {End})]
    /\ request \in [Dests -> BOOLEAN]
    /\ response \in [Dests -> Seq(Pages \cup {End}) \cup {NoResponse}]
    /\ acks \in [Dests -> SUBSET Nat]

Init ==
    /\ kind \in Kinds
    /\ numBuffers = IF kind = "kPartitioned" THEN NumDests ELSE InitDests
    /\ noMoreBuffers = FALSE
    /\ dataToBroadcast = <<>> /\ arbitrary = <<>> /\ nextLoad = 1
    /\ bufferedBytes = 0 /\ blocked = {}
    /\ numDrivers = Cardinality(Producers) + ExtraDrivers
    /\ numFinished = 0 /\ atEnd = FALSE /\ noMoreDriversDue = FALSE
    /\ data = [d \in Dests |-> <<>>] /\ sequence = [d \in Dests |-> 0]
    /\ notify = [d \in Dests |-> "none"] /\ deleted = [d \in Dests |-> FALSE]
    /\ pending = [c \in Callers |-> Idle] /\ consumed = FALSE
    /\ produced = 0 /\ producer = [p \in Producers |-> "ready"]
    /\ target = [p \in Pages |-> 1]
    /\ got = [d \in Dests |-> <<>>] /\ request = [d \in Dests |-> FALSE]
    /\ response = [d \in Dests |-> NoResponse] /\ acks = [d \in Dests |-> {}]
-----------------------------------------------------------------------------
Live(d) == d <= numBuffers /\ ~deleted[d]

Prefix(s, n) == IF Len(s) <= n THEN s ELSE SubSeq(s, 1, n)
Suffix(s, n) == SubSeq(s, n + 1, Len(s))
HasEnd(s) == s # <<>> /\ s[Len(s)] = End

(* DestinationBuffer::enqueue: a duplicate end marker is dropped.          *)
Enqueued(s, items) == IF HasEnd(s) THEN s ELSE s \o items

(* ArbitraryBuffer::getPages: the end marker stays for the others.         *)
Taken(arb) == Prefix(arb, FetchPages)

Rest(arb) == IF HasEnd(Taken(arb)) THEN <<End>> ELSE Suffix(arb, FetchPages)

(* What is left when n destinations, one after the other, have taken.      *)
After(arb, n) ==
    IF Len(arb) > n * FetchPages THEN Suffix(arb, n * FetchPages)
    ELSE IF HasEnd(arb) THEN <<End>> ELSE <<>>

(* Bug: the callbacks are not called. *)
NotifyNobody(ds, newData) == UNCHANGED <<notify, response>>

(* getAndClearNotify of the destinations ds: the callback of a pending     *)
(* fetch gets the data, the one of a fetch that timed out drops it.        *)
(* (A fetch has acknowledged what precedes it, so notifySequence_ is       *)
(* sequence_ and the data starts with the first page in the buffer.)       *)
Notify(ds, newData) ==
    /\ notify' = [d \in Dests |-> IF d \in ds THEN "none" ELSE notify[d]]
    /\ response' = [d \in Dests |-> IF d \in ds /\ notify[d] = "live"
                                    THEN Prefix(newData[d], FetchPages) ELSE response[d]]

(* maybeLoadData for the destinations in their turn, until the buffer is   *)
(* empty: each waiting one takes from what those ahead of it have left, and *)
(* the next round starts with the first that finds nothing left.           *)
LoadWaiting(turn, arb) ==
    LET waiting == {d \in Dests : Live(d) /\ notify[d] # "none"}
        Left(d) == After(arb, Cardinality({e \in waiting : turn[e] < turn[d]}))
        late == {d \in 1..numBuffers : Left(d) = <<>>}
    IN  [arb  |-> After(arb, Cardinality(waiting)),
         data |-> [d \in Dests |-> IF d \in waiting THEN Enqueued(data[d], Taken(Left(d)))
                                   ELSE data[d]],
         next |-> IF late = {} THEN nextLoad
                  ELSE CHOOSE d \in late : \A e \in late : turn[d] <= turn[e]]

RoundRobin ==
    [d \in 1..numBuffers |-> IF d >= nextLoad THEN d - nextLoad ELSE d + numBuffers - nextLoad]
InOrder == [d \in 1..numBuffers |-> d]

(* A promise for the producer when the buffer is over its size.            *)
BlockIfFull(p) ==
    LET full == bufferedBytes' > MaxSize
    IN  /\ producer' = [producer EXCEPT ![p] = IF full THEN "blocked" ELSE @]
        /\ blocked' = IF full THEN blocked \cup {p} ELSE blocked

Produce(p) ==
    /\ producer[p] = "ready" /\ produced < MaxPages
    /\ produced' = produced + 1
    /\ BlockIfFull(p)
    /\ UNCHANGED <<kind, numBuffers, noMoreBuffers, driverVars, sequence, deleted, pending, consumed,
                   got, request, acks>>

(* A page for a deleted destination is dropped and not counted.            *)
EnqueuePartitioned(p, d) ==
    /\ kind = "kPartitioned"
    /\ bufferedBytes' = IF Live(d) THEN bufferedBytes + PageSize ELSE bufferedBytes
    /\ Produce(p)
    /\ target' = [target EXCEPT ![produced + 1] = d]
    /\ data' = IF Live(d) THEN [data EXCEPT ![d] = Enqueued(@, <<produced + 1>>)] ELSE data
    /\ Notify({d}, data')
    /\ UNCHANGED <<dataToBroadcast, arbitrary, nextLoad>>

EnqueueBroadcast(p) ==
    /\ kind = "kBroadcast"
    /\ bufferedBytes' = bufferedBytes + PageSize
    /\ Produce(p)
    /\ data' = [d \in Dests |-> IF Live(d) THEN Enqueued(data[d], <<produced + 1>>) ELSE data[d]]
    /\ Notify({d \in Dests : Live(d)}, data')
    /\ dataToBroadcast' = IF noMoreBuffers THEN dataToBroadcast
                          ELSE Append(dataToBroadcast, produced + 1)
    /\ UNCHANGED <<target, arbitrary, nextLoad>>

EnqueueArbitrary(p) ==
    LET loaded == LoadWaiting(RoundRobin, Append(arbitrary, produced + 1))
    IN  /\ kind = "kArbitrary"
        /\ bufferedBytes' = bufferedBytes + PageSize
        /\ Produce(p)
        /\ data' = loaded.data
        /\ arbitrary' = loaded.arb
        /\ nextLoad' = loaded.next
        /\ Notify({d \in Dests : loaded.data[d] # data[d]}, data')
        /\ UNCHANGED <<target, dataToBroadcast>>

(* Bug: one driver is not waited for. *)
AllFinishedButOne(finished) == finished + 1 >= numDrivers

AllFinished(finished) == finished = numDrivers

(* checkIfDone: once all drivers are done the end marker goes to every     *)
(* destination, for arbitrary output through the shared buffer.            *)
CheckIfDone(finished) ==
    LET done == AllFinished(finished)
        loaded == LoadWaiting(InOrder, Enqueued(arbitrary, <<End>>))
        ended == [d \in Dests |-> IF Live(d) THEN Enqueued(data[d], <<End>>) ELSE data[d]]
    IN  /\ numFinished' = finished
        /\ atEnd' = done
        /\ data' = IF ~done THEN data
                   ELSE IF kind = "kArbitrary" THEN loaded.data ELSE ended
        /\ arbitrary' = IF done /\ kind = "kArbitrary" THEN loaded.arb ELSE arbitrary
        /\ Notify(IF done THEN {d \in Dests : Live(d)} ELSE {}, data')
        /\ UNCHANGED <<kind, numBuffers, noMoreBuffers, dataToBroadcast, nextLoad, bufferedBytes,
                       blocked, numDrivers, sequence, deleted, pending, consumed, produced,
                       target, got, request, acks>>

NoMoreData(p) ==
    /\ producer[p] = "ready"
    /\ producer' = [producer EXCEPT ![p] = "done"]
    /\ CheckIfDone(numFinished + 1)
    /\ UNCHANGED noMoreDriversDue

(* updateNumDrivers, and the noMoreDrivers call it makes after the unlock. *)
UpdateNumDrivers ==
    /\ numDrivers > Cardinality(Producers)
    /\ numDrivers' = Cardinality(Producers)
    /\ noMoreDriversDue' = (numFinished = numDrivers')
    /\ UNCHANGED <<bufferVars, bufferedBytes, blocked, numFinished, atEnd, destVars, pending,
                   consumed, producerVars, consumerVars>>

NoMoreDrivers ==
    /\ noMoreDriversDue
    /\ noMoreDriversDue' = FALSE
    /\ CheckIfDone(numFinished)
    /\ UNCHANGED producer
-----------------------------------------------------------------------------

(* isFinishedLocked, on a given set of destinations that are still there.  *)
IsFinished(live, noMore) == (kind = "kBroadcast" => noMore) /\ live = {}

(* shared_ptr::unique() for a page that call c has in its freed vector:    *)
(* no destination, not dataToBroadcast_ and no other call holds it.        *)
Unique(c, page, newData, log) ==
    /\ \A d \in Dests : page \notin Range(newData[d])
    /\ page \notin Range(log)
    /\ \A other \in Callers \ {c} : page \notin pending[other].freed

(* Bug: the size before the pages are freed is compared. *)
WokenBefore(gone) == IF gone > 0 /\ bufferedBytes < ContinueSize THEN blocked ELSE {}

Woken(gone) == IF gone > 0 /\ bufferedBytes - gone < ContinueSize THEN blocked ELSE {}

(* updateAfterAcknowledgeLocked by call c; the pages and the promises it   *)
(* takes are released after the unlock.                                    *)
UpdateAfterAcknowledge(c, freed, newData, log, finished) ==
    LET gone == PageSize * Cardinality({page \in freed : Unique(c, page, newData, log)})
        woken == Woken(gone)
    IN  /\ bufferedBytes' = bufferedBytes - gone
        /\ blocked' = blocked \ woken
        /\ pending' = [pending EXCEPT ![c] =
                         [freed |-> freed, woken |-> woken, finished |-> finished]]

(* releaseAfterAcknowledge and what follows it.                            *)
Release(c) ==
    /\ pending[c] # Idle
    /\ pending' = [pending EXCEPT ![c] = Idle]
    /\ dataToBroadcast' = IF c = Updater THEN <<>> ELSE dataToBroadcast
    /\ producer' = [p \in Producers |-> IF p \in pending[c].woken THEN "ready" ELSE producer[p]]
    /\ consumed' = (consumed \/ pending[c].finished)
    /\ UNCHANGED <<kind, numBuffers, noMoreBuffers, arbitrary, nextLoad, bufferedBytes, blocked,
                   driverVars, destVars, produced, target, consumerVars>>

(* addOutputBuffersLocked: a late broadcast destination gets all the data. *)
WithBuffers(n) ==
    [d \in Dests |->
        IF d \in (numBuffers + 1)..n /\ kind = "kBroadcast"
        THEN dataToBroadcast \o (IF atEnd THEN <<End>> ELSE <<>>) ELSE data[d]]

(* updateOutputBuffers, called by the coordinator of the query.            *)
UpdateOutputBuffers(n, noMore) ==
    LET newSize == IF n > numBuffers THEN n ELSE numBuffers
        live == {d \in 1..newSize : ~deleted[d]}
    IN  /\ pending[Updater] = Idle /\ ~noMoreBuffers
        /\ n > numBuffers \/ noMore
        /\ kind = "kPartitioned" => n = numBuffers
        /\ numBuffers' = newSize
        /\ noMoreBuffers' = noMore
        /\ data' = WithBuffers(newSize)
        /\ IF noMore /\ kind # "kPartitioned"
           THEN UpdateAfterAcknowledge(Updater, Range(dataToBroadcast), data', <<>>,
                                       IsFinished(live, TRUE))
           ELSE UNCHANGED <<bufferedBytes, blocked, pending>>
        /\ UNCHANGED <<kind, dataToBroadcast, arbitrary, nextLoad, driverVars, sequence, notify,
                       deleted, consumed, producerVars, consumerVars>>

(* Bug: one page too many is acknowledged, where there is one. *)
NumAckedOneMore(d, s) ==
    IF s <= sequence[d] THEN 0
    ELSE IF Len(data[d]) > s - sequence[d] THEN s + 1 - sequence[d] ELSE s - sequence[d]

(* DestinationBuffer::acknowledge. *)
NumAcked(d, s) == IF s > sequence[d] THEN s - sequence[d] ELSE 0

(* Bug: the last page acknowledged is not counted. *)
FreedButLast(d, n) == Range(SubSeq(data[d], 1, n - 1)) \ {End}

Freed(d, n) == Range(SubSeq(data[d], 1, n)) \ {End}

-----------------------------------------------------------------------------
(* The consumer of destination d, as an ExchangeSource behaves: one fetch  *)
(* at a time for the pages after the ones it has, which may time out; an   *)
(* acknowledgement of each response; the deletion at the end.              *)
Received(d) == IF HasEnd(got[d]) THEN Prefix(got[d], Len(got[d]) - 1) ELSE got[d]
AtEnd(d) == HasEnd(got[d])

(* OutputBuffer::getData: acknowledges, loads and returns or waits.        *)
GetData(d) ==
    LET grown == IF d > numBuffers THEN d ELSE numBuffers
        withNew == WithBuffers(grown)
        n == NumAcked(d, Len(Received(d)))
        kept == [withNew EXCEPT ![d] = Suffix(@, n)]
        load == kind = "kArbitrary" /\ arbitrary # <<>>
        items == IF load THEN Enqueued(kept[d], Taken(arbitrary)) ELSE kept[d]
    IN  /\ pending[d] = Idle /\ ~request[d] /\ ~AtEnd(d) /\ ~deleted[d]
        /\ d > numBuffers => ~noMoreBuffers
        /\ numBuffers' = grown
        /\ data' = [kept EXCEPT ![d] = items]
        /\ sequence' = [sequence EXCEPT ![d] = @ + n]
        /\ arbitrary' = IF load THEN Rest(arbitrary) ELSE arbitrary
        /\ UpdateAfterAcknowledge(d, Freed(d, n), kept, dataToBroadcast, FALSE)
        /\ request' = [request EXCEPT ![d] = TRUE]
        /\ notify' = [notify EXCEPT ![d] = IF items = <<>> THEN "live" ELSE @]
        /\ response' = [response EXCEPT ![d] =
                          IF items = <<>> THEN NoResponse ELSE Prefix(items, FetchPages)]
        /\ UNCHANGED <<kind, noMoreBuffers, dataToBroadcast, nextLoad, driverVars, deleted, consumed,
                       producerVars, got, acks>>

(* The fetch times out: its response, now or later, is ignored.            *)
Timeout(d) ==
    /\ request[d]
    /\ request' = [request EXCEPT ![d] = FALSE]
    /\ response' = [response EXCEPT ![d] = NoResponse]
    /\ notify' = [notify EXCEPT ![d] = IF @ = "live" THEN "stale" ELSE @]
    /\ UNCHANGED <<bufferVars, bufferedBytes, blocked, driverVars, data, sequence, deleted,
                   pending, consumed, producerVars, got, acks>>

Receive(d) ==
    /\ response[d] # NoResponse
    /\ got' = [got EXCEPT ![d] = @ \o response[d]]
    /\ request' = [request EXCEPT ![d] = FALSE]
    /\ response' = [response EXCEPT ![d] = NoResponse]
    /\ acks' = [acks EXCEPT ![d] = IF HasEnd(got'[d]) THEN @ ELSE @ \cup {Len(got'[d])}]
    /\ UNCHANGED <<bufferVars, bufferedBytes, blocked, driverVars, destVars, pending, consumed,
                   producerVars>>

(* OutputBuffer::acknowledge: in any order, and after the deletion too.    *)
Acknowledge(d, s) ==
    LET n == NumAcked(d, s)
    IN  /\ s \in acks[d] /\ pending[d] = Idle
        /\ acks' = [acks EXCEPT ![d] = @ \ {s}]
        /\ IF deleted[d]
           THEN UNCHANGED <<data, sequence, bufferedBytes, blocked, pending>>
           ELSE /\ data' = [data EXCEPT ![d] = Suffix(@, n)]
                /\ sequence' = [sequence EXCEPT ![d] = @ + n]
                /\ UpdateAfterAcknowledge(d, Freed(d, n), data', dataToBroadcast, FALSE)
        /\ UNCHANGED <<bufferVars, driverVars, notify, deleted, consumed, producerVars, got,
                       request, response>>

LoseAcknowledge(d, s) ==
    /\ s \in acks[d]
    /\ acks' = [acks EXCEPT ![d] = @ \ {s}]
    /\ UNCHANGED <<bufferVars, bufferedBytes, blocked, driverVars, destVars, pending, consumed,
                   producerVars, got, request, response>>

(* OutputBuffer::deleteResults, at the end or before.                      *)
DeleteResults(d) ==
    /\ d <= numBuffers /\ ~deleted[d] /\ pending[d] = Idle
    /\ kind \in EarlyDelete \/ AtEnd(d)
    /\ data' = [data EXCEPT ![d] = <<>>]
    /\ Notify({d}, data')
    /\ deleted' = [deleted EXCEPT ![d] = TRUE]
    /\ UpdateAfterAcknowledge(d, Range(data[d]) \ {End}, data', dataToBroadcast,
                              IsFinished({e \in 1..numBuffers : ~deleted'[e]}, noMoreBuffers))
    /\ UNCHANGED <<bufferVars, driverVars, sequence, consumed, producerVars, got, request, acks>>
-----------------------------------------------------------------------------
ProducerStep(p) ==
    \/ \E d \in Dests : EnqueuePartitioned(p, d)
    \/ EnqueueBroadcast(p) \/ EnqueueArbitrary(p) \/ NoMoreData(p)

DriversStep == UpdateNumDrivers \/ NoMoreDrivers

Next ==
    \/ \E p \in Producers : ProducerStep(p)
    \/ DriversStep
    \/ \E n \in Dests, noMore \in BOOLEAN : UpdateOutputBuffers(n, noMore)
    \/ \E c \in Callers : Release(c)
    \/ \E d \in Dests :
          \/ GetData(d) \/ Timeout(d) \/ Receive(d) \/ DeleteResults(d)
          \/ \E s \in acks[d] : Acknowledge(d, s) \/ LoseAcknowledge(d, s)

Spec == Init /\ [][Next]_vars

(* Producers run while they are not blocked, the coordinator announces the *)
(* last destination, calls return, consumers fetch until the end and then  *)
(* delete, and not every response comes after its timeout.  No             *)
(* acknowledgement need ever arrive.                                       *)
Fairness ==
    /\ \A p \in Producers : WF_vars(ProducerStep(p))
    /\ WF_vars(DriversStep) /\ WF_vars(UpdateOutputBuffers(NumDests, TRUE))
    /\ \A c \in Callers : WF_vars(Release(c))
    /\ \A d \in Dests : /\ WF_vars(GetData(d)) /\ SF_vars(Receive(d))
                        /\ WF_vars(AtEnd(d) /\ DeleteResults(d))

FairSpec == Spec /\ Fairness

-----------------------------------------------------------------------------
PagesFor(d) == {page \in 1..produced : kind = "kPartitioned" => target[page] = d}

(* Pages in the order in which they were produced, the end marker last.    *)
PagesThenEnd(s) == \A i, j \in DOMAIN s : i < j => s[i] # End /\ (s[j] = End \/ s[i] < s[j])

Remaining(d) == Suffix(data[d], Len(Received(d)) - sequence[d])

Holders(page) ==
    {d \in Dests : page \in Range(Received(d)) \cup Range(data[d])}
      \cup (IF page \in Range(arbitrary) THEN {0} ELSE {})

(* Broadcast and partitioned output: what a consumer has received followed *)
(* by what its buffer still holds for it is exactly what was produced for  *)
(* it, in order, and then the end marker; whatever is acknowledged,        *)
(* fetched again after a timeout, or added to a late destination.          *)
(* Arbitrary output: no page goes to two consumers or twice to one, and    *)
(* while no consumer gives up no page is lost.                             *)
NothingLostOrRepeated ==
    IF kind # "kArbitrary"
    THEN \A d \in Dests : Live(d) =>
            /\ sequence[d] <= Len(Received(d))
            /\ PagesThenEnd(Received(d) \o Remaining(d))
            /\ Range(Received(d) \o Remaining(d)) = PagesFor(d) \cup (IF atEnd THEN {End} ELSE {})
    ELSE /\ \A page \in 1..produced :
              /\ \A d, e \in Holders(page) : d = e
              /\ (\A d \in Dests : deleted[d] => AtEnd(d)) => Holders(page) # {}
         /\ \A d \in Dests : PagesThenEnd(got[d])

(* A consumer that sees the end marker has missed nothing: all drivers are *)
(* done and all its pages were received.                                   *)
EndAfterAllPages ==
    \A d \in Dests : AtEnd(d) =>
        /\ atEnd
        /\ IF kind = "kArbitrary" THEN arbitrary = <<End>> ELSE Range(Received(d)) = PagesFor(d)

(* No lost wakeup on either side of the buffer.  A fetch that has no       *)
(* answer is registered with its destination, and there is nothing it      *)
(* could have been answered with.  A blocked producer waits only while the *)
(* buffer is above continueSize_; no acknowledgement, fetch or deletion    *)
(* misses it.                                                              *)
NobodyForgotten ==
    /\ \A d \in Dests : request[d] /\ response[d] = NoResponse /\ Live(d) =>
          notify[d] = "live" /\ data[d] = <<>> /\ arbitrary = <<>>
    /\ \A p \in Producers : producer[p] = "blocked" =>
          \/ p \in blocked /\ bufferedBytes >= ContinueSize
          \/ \E c \in Callers : p \in pending[c].woken

(* Pages that some consumer can still get.                                 *)
Buffered ==
    {page \in Pages :
        \/ \E d \in Dests : page \in Range(data[d])
        \/ page \in Range(arbitrary)
        \/ ~noMoreBuffers /\ page \in Range(dataToBroadcast)}

(* bufferedBytes_ is exact for partitioned and arbitrary output.  Broadcast *)
(* pages are shared, and it never counts less than what is buffered, so    *)
(* the limit on the buffer is never exceeded unnoticed.                    *)
BytesCounted ==
    LET actual == PageSize * Cardinality(Buffered)
    IN  IF kind = "kBroadcast" THEN bufferedBytes >= actual ELSE bufferedBytes = actual

(* Every consumer that does not give up reaches the end of the data, and   *)
(* the task learns that its output is consumed, although acknowledgements  *)
(* get lost and producers are held back.                                   *)
OutputIsConsumed ==
    <>[](consumed /\ \A d \in 1..numBuffers : deleted[d] /\ (AtEnd(d) \/ kind \in EarlyDelete))

NoneBlocked == \A p \in Producers : producer[p] # "blocked"

(* "When 'totalSize_' goes below 'continueSize_', blocked producers are    *)
(* resumed": no producer stays blocked on a buffer that is empty.          *)
ProducersResumed == (Buffered = {} /\ ContinueSize > 0) ~> NoneBlocked

(* "Delete of results unblocks producers. Can happen in early end due to   *)
(* error or limit": when no consumer is left no producer stays blocked.    *)
DeleteUnblocksProducers ==
    (noMoreBuffers /\ \A d \in 1..numBuffers : deleted[d])
        ~> NoneBlocked
=============================================================================
