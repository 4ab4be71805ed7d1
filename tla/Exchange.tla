------------------------------ MODULE Exchange ------------------------------
(***************************************************************************)
(* The consuming side of a shuffle: the Exchange operators of a pipeline   *)
(* share one ExchangeClient, which schedules requests to its sources, and  *)
(* one ExchangeQueue, into which the sources put the pages they receive    *)
(* (velox/exec/Exchange*.cpp); the source is LocalExchangeSource.          *)
(*                                                                         *)
(* An action is one critical section of ExchangeQueue::mutex_ or of        *)
(* Task::mutex_; the promises it realizes after the unlock are in 'waking' *)
(* until a Wake step.  A promise whose future nobody waits on any more     *)
(* stays in the vector that holds it, as "stale".                          *)
(***************************************************************************)
EXTENDS Integers, Sequences, FiniteSets, Functions

CONSTANTS
    Sources,      \* remote tasks, one ExchangeSource each
    Consumers,    \* Exchange operators, one per driver
    Splitter,     \* the one with processSplits_
    Quitters,     \* consumers whose driver may finish before the end (a Limit)
    SplitList,    \* remote splits the task receives: sources, possibly repeated
    EarlySplits,  \* how many of them it has when the drivers start
    NumPages,     \* pages of a source
    PageBytes,    \* bytes of each page of a source
    MaxQueuedBytes, ConsumerBytes,   \* maxQueuedBytes_ and next's maxBytes
    DefaultPageBytes,                \* getAveragePageSize before the first page
    MaxFaults                        \* bound on timeouts, failed requests and early ends

ASSUME ConsumersAssumption ==
    Splitter \in Consumers /\ Quitters \subseteq Consumers /\ "stale" \notin Consumers
ASSUME SourcesAssumption ==
    /\ IsFiniteSet(Sources) /\ SplitList \in Seq(Sources) /\ EarlySplits \in 0..Len(SplitList)
    /\ \A s \in Sources : NumPages[s] \in Nat /\ PageBytes[s] \in Nat \ {0}
ASSUME BoundsAssumption ==
    /\ MaxQueuedBytes \in Nat \ {0} /\ ConsumerBytes \in Nat \ {0}
    /\ DefaultPageBytes \in Nat \ {0} /\ MaxFaults \in Nat

VARIABLES
    \* ExchangeQueue
    queue, totalBytes, receivedPages, receivedBytes, numCompleted, numSources, noMoreSources,
    atEnd, error, promises,
    \* ExchangeClient
    closed, producing, empty,
    \* ExchangeSource: the request's progress, its result, its response
    req, asked, sequence, sourceAtEnd, result, response, answered,
    \* Task's split store for the exchange node
    splits, splitsAdded, noMoreSplits, splitPromises,
    \* Exchange operators
    consumer, splitFuture, splitsSeen, waking, taken,
    \* bounds and history
    faults, overlapped, quit

receivedVars == <<receivedPages, receivedBytes>>
queueVars == <<queue, totalBytes, receivedVars, numCompleted, numSources, noMoreSources, atEnd,
               error, promises>>
clientVars == <<closed, producing, empty>>
sourceVars == <<req, asked, sequence, sourceAtEnd, result, response, answered>>
splitVars == <<splits, splitsAdded, noMoreSplits, splitPromises>>
consumerVars == <<consumer, splitFuture, splitsSeen, waking, taken>>
historyVars == <<faults, overlapped, quit>>
vars == <<queueVars, clientVars, sourceVars, splitVars, consumerVars, historyVars>>

Stale == "stale"
NoResult == [pages |-> 0, end |-> FALSE]
Pages == {page \in Sources \X Nat : page[2] \in 1..NumPages[page[1]]}
Bytes(pages) ==
    LET sum[i \in 0..Len(pages)] == IF i = 0 THEN 0 ELSE sum[i - 1] + PageBytes[pages[i][1]]
    IN  sum[Len(pages)]

TypeOK ==
    /\ queue \in Seq(Pages) /\ totalBytes \in Nat
    /\ receivedPages \in Nat /\ receivedBytes \in Nat
    /\ numSources \in 0..Cardinality(Sources) /\ numCompleted \in 0..numSources
    /\ noMoreSources \in BOOLEAN /\ atEnd \in BOOLEAN /\ error \in BOOLEAN
    /\ promises \in Seq(Consumers \cup {Stale})
    /\ closed \in BOOLEAN /\ producing \in Seq(Sources) /\ empty \in Seq(Sources)
    /\ req \in [Sources -> {"new", "idle", "sent", "received", "timeout", "failed"}]
    /\ asked \in [Sources -> Nat]
    /\ \A s \in Sources : sequence[s] \in 0..NumPages[s]
    /\ sourceAtEnd \in [Sources -> BOOLEAN] /\ answered \in [Sources -> BOOLEAN]
    /\ result \in [Sources -> [pages : Nat, end : BOOLEAN]]
    /\ response \in [Sources -> {"none", "data", "empty", "end"}]
    /\ splits \in Seq(Sources) /\ splitsAdded \in 0..Len(SplitList) /\ noMoreSplits \in BOOLEAN
    /\ splitPromises \in Seq({"live", Stale})
    /\ consumer \in [Consumers -> {"run", "pages", "last", "blocked", "done", "closing", "closed", "failed"}]
    /\ splitFuture \in {"none", "waiting", "ready"} /\ splitsSeen \in BOOLEAN
    /\ waking \subseteq Consumers /\ taken \in [Sources -> Nat]
    /\ faults \in 0..MaxFaults /\ overlapped \subseteq Sources /\ quit \in BOOLEAN

Init ==
    /\ queue = <<>> /\ totalBytes = 0 /\ receivedPages = 0 /\ receivedBytes = 0
    /\ numCompleted = 0 /\ numSources = 0
    /\ noMoreSources = FALSE /\ atEnd = FALSE /\ error = FALSE /\ promises = <<>>
    /\ closed = FALSE /\ producing = <<>> /\ empty = <<>>
    /\ req = [s \in Sources |-> "new"] /\ asked = [s \in Sources |-> 0] /\ sequence = [s \in Sources |-> 0]
    /\ sourceAtEnd = [s \in Sources |-> FALSE]
    /\ result = [s \in Sources |-> NoResult] /\ response = [s \in Sources |-> "none"]
    /\ answered = [s \in Sources |-> FALSE]
    /\ splits = SubSeq(SplitList, 1, EarlySplits) /\ splitsAdded = EarlySplits
    /\ noMoreSplits = FALSE /\ splitPromises = <<>>
    /\ consumer = [c \in Consumers |-> "run"] /\ splitFuture = "none" /\ splitsSeen = FALSE
    /\ waking = {} /\ taken = [s \in Sources |-> 0]
    /\ faults = 0 /\ overlapped = {} /\ quit = FALSE

-----------------------------------------------------------------------------
(* Which sources to ask next.                                              *)

\* requestPending_: set by shouldRequestLocked, reset with the result or by
\* the timeout.
Pending(state) == state \in {"sent", "received", "timeout", "failed"}

\* min(maxQueuedBytes_, averageReceivedPageBytes()), or a default if that is 0.
AveragePageSize ==
    IF receivedPages = 0 \/ receivedBytes < receivedPages THEN DefaultPageBytes
    ELSE IF receivedBytes \div receivedPages > MaxQueuedBytes THEN MaxQueuedBytes
    ELSE receivedBytes \div receivedPages

\* How many requests to start when 'total' bytes are queued and 'pending'
\* requests are under way: at least one must be under way.
NumToRequest(total, pending) ==
    LET room == (MaxQueuedBytes - total) \div AveragePageSize
    IN  IF closed \/ total >= MaxQueuedBytes THEN 0
        ELSE IF room > pending THEN room - pending
        ELSE IF pending = 0 THEN 1 ELSE 0

\* Sources are popped, the producing ones first, until enough are found that
\* should be requested; one that should not be requested is dropped.
PickSources(producingNow, emptyNow, reqNow, total) ==
    LET all == producingNow \o emptyNow
        first == Len(producingNow)
        count == NumToRequest(total, Cardinality({s \in Sources : Pending(reqNow[s])}))
        Picked(n) == {s \in Sources : /\ \E i \in 1..n : all[i] = s
                                      /\ ~Pending(reqNow[s]) /\ ~sourceAtEnd[s]}
    IN  \E n \in 0..Len(all) :
          /\ n = Len(all) \/ Cardinality(Picked(n)) = count
          /\ \A m \in 0..n - 1 : Cardinality(Picked(m)) < count
          /\ producing' = SubSeq(producingNow, n + 1, first)
          /\ empty' = SubSeq(emptyNow, (IF n > first THEN n - first ELSE 0) + 1, Len(emptyNow))
          /\ req' = [s \in Sources |-> IF s \in Picked(n) THEN "sent" ELSE reqNow[s]]
          /\ asked' = [s \in Sources |-> IF s \in Picked(n) THEN AveragePageSize ELSE asked[s]]
          /\ answered' = [s \in Sources |-> answered[s] /\ s \notin Picked(n)]

-----------------------------------------------------------------------------
(* The queue.                                                              *)

\* Mutant: one promise at most is realized.
RealizeOne(n) ==
    LET kept == IF n = 0 \/ promises = <<>> THEN Len(promises) ELSE Len(promises) - 1
    IN  /\ promises' = SubSeq(promises, 1, kept)
        /\ waking' = waking \cup ({promises[i] : i \in kept + 1..Len(promises)} \ {Stale})

\* The last n promises are realized, the newest first.
Realize(n) ==
    LET kept == IF n < Len(promises) THEN Len(promises) - n ELSE 0
    IN  /\ promises' = SubSeq(promises, 1, kept)
        /\ waking' = waking \cup ({promises[i] : i \in kept + 1..Len(promises)} \ {Stale})

\* Mutant: the end of the splits is not waited for.
CheckCompleteEarly(last, completed, sources, n) ==
    /\ atEnd' = (atEnd \/ completed = sources)
    /\ Realize(IF completed = sources THEN Len(promises) ELSE n)

\* checkCompleteLocked after 'completed' sources of 'sources' have ended; n
\* promises are realized by the pages that came with the last one.
CheckComplete(last, completed, sources, n) ==
    /\ atEnd' = (atEnd \/ (last /\ completed = sources))
    /\ Realize(IF last /\ completed = sources THEN Len(promises) ELSE n)

\* Mutant: the waiting drivers are not woken.
SetErrorSilently ==
    /\ error' = TRUE /\ atEnd' = (atEnd \/ ~error)
    /\ queue' = IF error THEN queue ELSE <<>>
    /\ Realize(0)

SetError ==
    /\ error' = TRUE /\ atEnd' = (atEnd \/ ~error)
    /\ queue' = IF error THEN queue ELSE <<>>
    /\ Realize(IF error THEN 0 ELSE Len(promises))

-----------------------------------------------------------------------------
(* The sources.                                                            *)

\* Once a consumer has closed the client its sources are closed: their results
\* are deleted in the output buffers.
SourcesClosed == \E c \in Consumers : consumer[c] = "closed"

\* The output buffer answers with the next pages, the last of which may
\* exceed what was asked for, and with the end mark once all are sent.
Receive(s) ==
    /\ req[s] = "sent" /\ ~SourcesClosed
    /\ \E n \in 0..(NumPages[s] - sequence[s]), end \in BOOLEAN :
          /\ n > 0 \/ end
          /\ n > 1 => (n - 1) * PageBytes[s] < asked[s]
          /\ end => n = NumPages[s] - sequence[s]
          /\ result' = [result EXCEPT ![s] = [pages |-> n, end |-> end]]
    /\ req' = [req EXCEPT ![s] = "received"]
    /\ UNCHANGED <<queueVars, clientVars, asked, sequence, sourceAtEnd, response, answered, splitVars,
                   consumerVars, historyVars>>

\* Mutant: the next request asks for the same pages again.
EnqueuePagesAnew(s, n) ==
    /\ queue' = queue \o [i \in 1..n |-> <<s, sequence[s] + i>>]
    /\ totalBytes' = totalBytes + n * PageBytes[s]
    /\ receivedPages' = receivedPages + n /\ receivedBytes' = receivedBytes + n * PageBytes[s]
    /\ sequence' = IF result[s].end THEN [sequence EXCEPT ![s] = @ + n] ELSE sequence

\* The next n pages of s enter the queue; the source will ask for the ones
\* after them.
EnqueuePages(s, n) ==
    /\ queue' = queue \o [i \in 1..n |-> <<s, sequence[s] + i>>]
    /\ totalBytes' = totalBytes + n * PageBytes[s]
    /\ receivedPages' = receivedPages + n /\ receivedBytes' = receivedBytes + n * PageBytes[s]
    /\ sequence' = [sequence EXCEPT ![s] = @ + n]

\* The result callback puts the pages and the end mark into the queue and
\* answers the client's request unless the timeout has answered it.
Enqueue(s) ==
    /\ req[s] = "received"
    /\ EnqueuePages(s, result[s].pages)
    /\ LET completed == IF result[s].end THEN numCompleted + 1 ELSE numCompleted
       IN  /\ numCompleted' = completed
           /\ CheckComplete(result[s].end /\ noMoreSources, completed, numSources, result[s].pages)
    /\ response' = [response EXCEPT ![s] = IF answered[s] THEN @
                                           ELSE IF result[s].end THEN "end" ELSE "data"]
    /\ sourceAtEnd' = [sourceAtEnd EXCEPT ![s] = result[s].end]
    /\ asked' = [asked EXCEPT ![s] = 0]
    /\ req' = [req EXCEPT ![s] = "idle"] /\ answered' = [answered EXCEPT ![s] = TRUE]
    /\ result' = [result EXCEPT ![s] = NoResult]
    /\ UNCHANGED <<numSources, noMoreSources, error, clientVars, splitVars, consumer, splitFuture, splitsSeen, taken, historyVars>>

\* The timeout callback finds the request pending: a later result is ignored.
Timeout(s) ==
    /\ req[s] = "sent" /\ ~SourcesClosed /\ faults < MaxFaults
    /\ req' = [req EXCEPT ![s] = "timeout"] /\ faults' = faults + 1
    /\ UNCHANGED <<queueVars, clientVars, asked, sequence, sourceAtEnd, result, response, answered,
                   splitVars, consumerVars, overlapped, quit>>

\* Mutant: the client is not told of the timeout.
TimeoutAnswerLost(s) ==
    /\ req[s] = "timeout"
    /\ req' = [req EXCEPT ![s] = "idle"] /\ asked' = [asked EXCEPT ![s] = 0]
    /\ answered' = [answered EXCEPT ![s] = TRUE]
    /\ UNCHANGED <<queueVars, clientVars, sequence, sourceAtEnd, result, response, splitVars,
                   consumerVars, historyVars>>

\* It answers the client, which lists the source as one without data.
TimeoutAnswer(s) ==
    /\ req[s] = "timeout"
    /\ req' = [req EXCEPT ![s] = "idle"] /\ asked' = [asked EXCEPT ![s] = 0]
    /\ response' = [response EXCEPT ![s] = "empty"] /\ answered' = [answered EXCEPT ![s] = TRUE]
    /\ UNCHANGED <<queueVars, clientVars, sequence, sourceAtEnd, result, splitVars,
                   consumerVars, historyVars>>

\* The timeout callback finds a result that is being processed.  It does not
\* wait for the end of the processing: the client gets an empty response.
TimeoutOverlap(s) ==
    /\ req[s] = "received" /\ ~answered[s] /\ faults < MaxFaults
    /\ response' = [response EXCEPT ![s] = "empty"] /\ answered' = [answered EXCEPT ![s] = TRUE]
    /\ faults' = faults + 1 /\ overlapped' = overlapped \cup {s}
    /\ UNCHANGED <<queueVars, clientVars, req, asked, sequence, sourceAtEnd, result, splitVars,
                   consumerVars, quit>>

\* A request fails: thenError.
FailRequest(s) ==
    /\ req[s] = "sent" /\ ~SourcesClosed /\ faults < MaxFaults
    /\ req' = [req EXCEPT ![s] = "failed"] /\ faults' = faults + 1
    /\ SetError
    /\ UNCHANGED <<totalBytes, receivedVars, numCompleted, numSources, noMoreSources, clientVars, asked, sequence,
                   sourceAtEnd, result, response, answered, splitVars,
                   consumer, splitFuture, splitsSeen, taken, overlapped, quit>>

\* The client's continuation of a request: thenValue.
Responded(s) ==
    /\ response[s] # "none"
    /\ response' = [response EXCEPT ![s] = "none"]
    /\ IF closed THEN UNCHANGED <<producing, empty, req, asked, answered>>
       ELSE PickSources(IF response[s] = "data" THEN Append(producing, s) ELSE producing,
                        IF response[s] = "empty" THEN Append(empty, s) ELSE empty, req, totalBytes)
    /\ UNCHANGED <<queueVars, closed, sequence, sourceAtEnd, result, splitVars,
                   consumerVars, historyVars>>

-----------------------------------------------------------------------------
(* The splits of the exchange node, in the Task.                           *)

AddSplit ==
    /\ splitsAdded < Len(SplitList)
    /\ splits' = Append(splits, SplitList[splitsAdded + 1]) /\ splitsAdded' = splitsAdded + 1
    /\ IF splitPromises = <<>> THEN UNCHANGED <<splitPromises, splitFuture>>
       ELSE /\ splitPromises' = SubSeq(splitPromises, 1, Len(splitPromises) - 1)
            /\ splitFuture' = IF splitPromises[Len(splitPromises)] = "live" THEN "ready" ELSE splitFuture
    /\ UNCHANGED <<queueVars, clientVars, sourceVars, noMoreSplits, consumer, splitsSeen, waking,
                   taken, historyVars>>

NoMoreSplits ==
    /\ splitsAdded = Len(SplitList) /\ ~noMoreSplits
    /\ noMoreSplits' = TRUE /\ splitPromises' = <<>>
    /\ splitFuture' = IF "live" \in Range(splitPromises) THEN "ready" ELSE splitFuture
    /\ UNCHANGED <<queueVars, clientVars, sourceVars, splits, splitsAdded, consumer, splitsSeen,
                   waking, taken, historyVars>>

-----------------------------------------------------------------------------
(* The operators.                                                          *)

WantsSplit == consumer[Splitter] = "run" /\ ~splitsSeen /\ splitFuture = "none"

\* One round of Exchange::getSplits: a split becomes a source unless it is a
\* duplicate or the client is closed.
TakeSplit ==
    /\ WantsSplit /\ splits # <<>>
    /\ splits' = Tail(splits)
    /\ LET s == Head(splits)
       IN  IF req[s] # "new" \/ closed
           THEN UNCHANGED <<numSources, producing, empty, req, asked, answered>>
           ELSE /\ numSources' = numSources + 1
                /\ PickSources(Append(producing, s), empty, [req EXCEPT ![s] = "idle"], totalBytes)
    /\ UNCHANGED <<queue, totalBytes, receivedVars, numCompleted, noMoreSources, atEnd, error, promises, closed,
                   sequence, sourceAtEnd, result, response, splitsAdded, noMoreSplits,
                   splitPromises, consumerVars, historyVars>>

\* The end of the splits: noMoreRemoteTasks.
TakeLastSplit ==
    /\ WantsSplit /\ splits = <<>> /\ noMoreSplits
    /\ splitsSeen' = TRUE /\ noMoreSources' = TRUE
    /\ CheckComplete(TRUE, numCompleted, numSources, 0)
    /\ UNCHANGED <<queue, totalBytes, receivedVars, numCompleted, numSources, error, clientVars, sourceVars,
                   splitVars, consumer, splitFuture, taken, historyVars>>

AwaitSplit ==
    /\ WantsSplit /\ splits = <<>> /\ ~noMoreSplits
    /\ splitFuture' = "waiting" /\ splitPromises' = Append(splitPromises, "live")
    /\ UNCHANGED <<queueVars, clientVars, sourceVars, splits, splitsAdded, noMoreSplits,
                   consumer, splitsSeen, waking, taken, historyVars>>

\* Exchange::isBlocked calls ExchangeClient::next.  A dequeue that empties the
\* queue leaves a promise behind even when it returns pages; the operator then
\* drops its future.
Next_(c) ==
    /\ consumer[c] = "run" /\ (c = Splitter => ~WantsSplit) /\ ~error
    /\ \E n \in 0..Len(queue) :
          LET pages == SubSeq(queue, 1, n)
              total == totalBytes - Bytes(pages)
              drained == n = Len(queue)
              ended == drained /\ atEnd
          IN  /\ n > 1 => Bytes(pages) <= ConsumerBytes
              /\ ~drained => n > 0 /\ Bytes(SubSeq(queue, 1, n + 1)) > ConsumerBytes
              /\ queue' = SubSeq(queue, n + 1, Len(queue)) /\ totalBytes' = total
              /\ taken' = [s \in Sources |-> taken[s] + Cardinality({i \in 1..n : queue[i][1] = s})]
              /\ promises' = IF drained /\ ~atEnd
                             THEN Append(promises, IF n = 0 THEN c ELSE Stale) ELSE promises
              /\ consumer' = [consumer EXCEPT ![c] = IF n > 0 THEN IF ended THEN "last" ELSE "pages"
                                                     ELSE IF ended THEN "done" ELSE "blocked"]
              /\ IF ended \/ (n > 0 /\ total > MaxQueuedBytes)
                 THEN UNCHANGED <<producing, empty, req, asked, answered>>
                 ELSE PickSources(producing, empty, req, total)
    /\ UNCHANGED <<receivedVars, numCompleted, numSources, noMoreSources, atEnd, error, closed,
                   sequence, sourceAtEnd, result, response, splitVars, splitFuture, splitsSeen,
                   waking, historyVars>>

\* next throws the queue's error; the driver fails the task.
NextFails(c) ==
    /\ consumer[c] = "run" /\ (c = Splitter => ~WantsSplit) /\ error
    /\ consumer' = [consumer EXCEPT ![c] = "failed"]
    /\ UNCHANGED <<queueVars, clientVars, sourceVars, splitVars, splitFuture, splitsSeen, waking,
                   taken, historyVars>>

GetOutput(c) ==
    /\ consumer[c] \in {"pages", "last"}
    /\ consumer' = [consumer EXCEPT ![c] = IF @ = "last" THEN "done" ELSE "run"]
    /\ UNCHANGED <<queueVars, clientVars, sourceVars, splitVars, splitFuture, splitsSeen, waking,
                   taken, historyVars>>

\* A blocked operator goes on: the future it was blocked on is gone, and the
\* promises of it that were not realized are stale.
Unblock(c, next) ==
    /\ consumer' = [consumer EXCEPT ![c] = next]
    /\ promises' = [i \in DOMAIN promises |-> IF promises[i] = c THEN Stale ELSE promises[i]]
    /\ waking' = waking \ {c}
    /\ splitFuture' = IF c = Splitter THEN "none" ELSE splitFuture
    /\ splitPromises' = IF c = Splitter THEN [i \in DOMAIN splitPromises |-> Stale] ELSE splitPromises
    /\ UNCHANGED <<queue, totalBytes, receivedVars, numCompleted, numSources, noMoreSources, atEnd, error,
                   clientVars, sourceVars, splits, splitsAdded, noMoreSplits, splitsSeen, taken>>

\* The driver resumes when the data or, for the splitter, the split arrives.
Wake(c) ==
    /\ consumer[c] = "blocked" /\ (c \in waking \/ (c = Splitter /\ splitFuture = "ready"))
    /\ Unblock(c, "run") /\ UNCHANGED historyVars

\* The task closes the driver of c after a failure.
Terminate(c) ==
    /\ consumer[c] \in {"run", "pages", "last", "blocked"}
    /\ \E d \in Consumers : consumer[d] = "failed"
    /\ Unblock(c, "done") /\ UNCHANGED historyVars

\* The driver of c finishes because an operator downstream needs no more input.
Quit(c) ==
    /\ consumer[c] \in {"run", "pages", "last"} /\ c \in Quitters /\ faults < MaxFaults
    /\ quit' = TRUE /\ faults' = faults + 1
    /\ Unblock(c, "done") /\ UNCHANGED overlapped

\* Exchange::close closes the client once; a second call returns at once.
Close(c) ==
    /\ consumer[c] \in {"done", "failed"}
    /\ closed' = TRUE
    /\ consumer' = [consumer EXCEPT ![c] = IF closed THEN "closed" ELSE "closing"]
    /\ UNCHANGED <<queueVars, producing, empty, sourceVars, splitVars, splitFuture, splitsSeen,
                   waking, taken, historyVars>>

\* After the unlock the queue is closed: it drops its pages and wakes everyone.
CloseQueue(c) ==
    /\ consumer[c] = "closing"
    /\ consumer' = [consumer EXCEPT ![c] = "closed"]
    /\ queue' = <<>> /\ Realize(Len(promises))
    /\ UNCHANGED <<totalBytes, receivedVars, numCompleted, numSources, noMoreSources, atEnd, error, clientVars,
                   sourceVars, splitVars, splitFuture, splitsSeen, taken, historyVars>>

SourceStep(s) ==
    \/ Receive(s) \/ Enqueue(s) \/ Timeout(s) \/ TimeoutAnswer(s) \/ TimeoutOverlap(s)
    \/ FailRequest(s) \/ Responded(s)

ConsumerStep(c) ==
    \/ Next_(c) \/ NextFails(c) \/ GetOutput(c) \/ Wake(c) \/ Terminate(c) \/ Quit(c)
    \/ Close(c) \/ CloseQueue(c)

Next ==
    \/ \E s \in Sources : SourceStep(s)
    \/ \E c \in Consumers : ConsumerStep(c)
    \/ AddSplit \/ NoMoreSplits \/ TakeSplit \/ TakeLastSplit \/ AwaitSplit

Spec == Init /\ [][Next]_vars

\* What happens by itself: the executors run what they were given, a remote
\* task answers requests, and the coordinator sends all splits.  Only progress
\* of the whole is assumed, no fairness between the threads.
Progress ==
    \/ \E s \in Sources : Receive(s) \/ Enqueue(s) \/ TimeoutAnswer(s) \/ Responded(s)
    \/ \E c \in Consumers : \/ Next_(c) \/ NextFails(c) \/ GetOutput(c) \/ Wake(c)
                           \/ Terminate(c) \/ Close(c) \/ CloseQueue(c)
    \/ AddSplit \/ NoMoreSplits \/ TakeSplit \/ TakeLastSplit \/ AwaitSplit

FairSpec == Spec /\ WF_vars(Progress)

-----------------------------------------------------------------------------
(* Properties.                                                             *)

QueueIntact == ~error /\ ~closed

\* Every page that a source has put into the queue is either delivered or
\* still queued, once and in the order of its source (the page number is the
\* number of pages delivered and queued before it, itself included), through
\* timeouts that make the client ask again and through several consumers
\* draining the queue.
NothingLostOrRepeated ==
    QueueIntact => \A s \in Sources :
        /\ sequence[s] = taken[s] + Cardinality({i \in DOMAIN queue : queue[i][1] = s})
        /\ \A i \in DOMAIN queue : queue[i][1] = s =>
              queue[i][2] = taken[s] + Cardinality({j \in 1..i : queue[j][1] = s})

\* A source that may have more data is asked, is about to report, or is listed
\* exactly once for a later request.  (A timeout that overlaps the processing
\* of a result breaks this: the source can be listed while its request is
\* still pending, and pickSourcesToRequestLocked then drops it.)
SourceNotForgotten ==
    QueueIntact => \A s \in Sources \ overlapped : req[s] # "new" /\ ~sourceAtEnd[s] =>
        Cardinality({i \in DOMAIN producing : producing[i] = s})
          + Cardinality({i \in DOMAIN empty : empty[i] = s})
          + (IF Pending(req[s]) THEN 1 ELSE 0) + (IF response[s] # "none" THEN 1 ELSE 0) = 1

Active(c) == consumer[c] \notin {"blocked", "closed"} \/ c \in waking
                \/ (c = Splitter /\ splitFuture = "ready")

\* While pages wait, or the end is known, some consumer is at work or about to
\* be woken, although the queue wakes by its newest promise, which may be one
\* that a consumer left behind; and once the end is known all of them are.
NobodySleepsOnData ==
    /\ queue # <<>> /\ QueueIntact => \E c \in Consumers : Active(c)
    /\ atEnd => \A c \in Consumers : consumer[c] = "blocked" => c \in waking

\* The queue is at its end only when every remote task of every split has put
\* all its pages and its end mark into it, whatever the order in which splits,
\* duplicates of splits, the end of the splits and the answers arrive (unless
\* the queue failed or a consumer closed the client before).
EndAfterAllPages ==
    atEnd /\ ~error /\ ~quit =>
        \A s \in Range(SplitList) : sequence[s] = NumPages[s] /\ sourceAtEnd[s]

\* Unless a consumer leaves early or a timeout overlaps a result, every consumer
\* reaches the end of the data or, after a failed request, is closed with its
\* task.
AllConsumersFinish ==
    <>((\A c \in Consumers : consumer[c] = "closed") \/ quit \/ overlapped # {})
=============================================================================
