------------------------------- MODULE Splits -------------------------------
(* The splits of a task and grouped execution (Task.cpp).  A client adds   *)
(* splits to the leaf nodes of the plan and announces their end; drivers   *)
(* take the splits of their split group and wait when there is none.  The  *)
(* drivers of a group are created when its first split arrives, at most    *)
(* "concurrent" groups at a time.  Start and terminate consist of          *)
(* several critical sections, and the calls of the client come in between. *)
(* One action is one critical section of Task::mutex_, with the promises   *)
(* that are fulfilled right after it.                                      *)
EXTENDS Integers, Sequences, FiniteSets, Functions

CONSTANTS
    Nodes,            \* the leaf nodes, each the source of a pipeline
    Groups,           \* the split groups (planFragment_.numSplitGroups of them)
    Plans,            \* plans and what the client does with them, see PlanRecord
    MaxPreload,       \* how many queued splits may be loaded ahead
    MaxResends        \* bound: splits sent again

Ungrouped == "ungrouped"
AllGroups == Groups \cup {Ungrouped}

(* grouped: the leaf nodes in grouped execution; remote: the exchanges;    *)
(* drivers: per node (and group); splits: the group of each split;         *)
(* sequenced: nodes whose splits have sequence ids; out: the node of the   *)
(* output pipeline; partitioned: it ends in an output buffer; concurrent:  *)
(* concurrentSplitGroups of Task::start; careful: the client keeps to the  *)
(* rules of Waits and EndsGroups below.                                    *)
PlanRecord ==
    [grouped : SUBSET Nodes, remote : SUBSET Nodes, drivers : [Nodes -> Nat \ {0}],
     splits : [Nodes -> Seq(AllGroups)], sequenced : SUBSET Nodes, out : Nodes,
     partitioned : BOOLEAN, concurrent : Nat \ {0}, careful : BOOLEAN]

ASSUME SplitsAssumption ==
    /\ IsFiniteSet(Nodes) /\ IsFiniteSet(Groups) /\ MaxPreload \in Nat /\ MaxResends \in Nat
    /\ Plans \subseteq PlanRecord /\ Ungrouped \notin Groups
    /\ \A p \in Plans : /\ p.remote \cap p.grouped = {}
                        /\ \A n \in Nodes : Range(p.splits[n]) \subseteq
                                IF n \in p.grouped THEN Groups ELSE {Ungrouped}

VARIABLES
    plan,
    start,       \* how far Task::start is
    clients,     \* the exchange clients: "none", "open" or "closed"
    expected,    \* the drivers the output buffer waits for
    state_, terminating, allFinished, consumed,
    total, finished, outFinished,
    stores,      \* groupSplitsStores of each node: a store per known group
    nodeEnd, maxSequenceId,
    seen, queued, running, left, completed,
    at,          \* where each driver is
    reading,     \* the split it reads
    broken,      \* drivers whose promise was destroyed unfulfilled
    sent, groupEnds, resends,  \* the client
    done, handed \* how often each split was read; the splits an exchange client got

startVars  == <<plan, start, clients, expected>>
taskVars   == <<state_, terminating, allFinished, consumed, total, finished, outFinished>>
storeVars  == <<stores, nodeEnd, maxSequenceId>>
groupVars  == <<seen, queued, running, left, completed, at>>
driverVars == <<reading, broken, done, handed>>
clientVars == <<sent, groupEnds, resends>>
vars == <<startVars, taskVars, storeVars, groupVars, driverVars, clientVars>>

GroupsOf(p, n) == IF n \in p.grouped THEN Groups ELSE {Ungrouped}
Drivers(p) == UNION {[node : {n}, group : GroupsOf(p, n), id : 1..p.drivers[n]] : n \in Nodes}

\* A vector without its last element, and without the k-th one.
Front(v) == SubSeq(v, 1, Len(v) - 1)
RemoveAt(v, k) == SubSeq(v, 1, k - 1) \o SubSeq(v, k + 1, Len(v))

NoStore == [splits |-> <<>>, end |-> FALSE, promises |-> <<>>]
Store(n, g) == IF g \in DOMAIN stores[n] THEN stores[n][g] ELSE NoStore

\* operator[] of the map creates the store.
SetStore(n, g, s) ==
    stores' = [stores EXCEPT ![n] = [h \in DOMAIN @ \cup {g} |-> IF h = g THEN s ELSE @[h]]]

IsRunning == state_ = "kRunning"
Planned == start \notin {"new", "skipped"}
Started == start = "started"

GroupedDrivers == {d \in DOMAIN at : d.group # Ungrouped}
PerSplitGroup == IF Planned THEN Cardinality({<<d.node, d.id>> : d \in GroupedDrivers}) ELSE 0
NumUngrouped == IF Planned THEN Cardinality(DOMAIN at \ GroupedDrivers) ELSE 0

\* drivers_: its slots, and those that are taken.
AllSlots == PerSplitGroup * plan.concurrent + NumUngrouped
Slots == IF Started THEN AllSlots ELSE 0
Taken(drivers) == {d \in DOMAIN drivers : drivers[d] \notin {"none", "closed"}}
OffThread == {d \in DOMAIN at : at[d] \in {"queued", "waiting"}}
Outstanding == {d \in DOMAIN at : \E n \in Nodes : \E g \in DOMAIN stores[n] :
                                        d \in Range(stores[n][g].promises)}

Clients == {n \in plan.remote : clients[n] # "none"}
Stored(n) == UNION {Range(stores[n][g].splits) : g \in DOMAIN stores[n]}
SplitsOf(n) == DOMAIN plan.splits[n]
UsedGroups == UNION {Range(plan.splits[n]) : n \in plan.grouped}

Init ==
    /\ plan \in Plans /\ start = "new" /\ expected = 0
    /\ clients = [n \in plan.remote |-> "none"]
    /\ state_ = "kRunning" /\ terminating = "no" /\ allFinished = FALSE /\ consumed = FALSE
    /\ total = 0 /\ finished = 0 /\ outFinished = 0
    /\ stores = [n \in Nodes |-> <<>>] /\ nodeEnd = [n \in Nodes |-> FALSE]
    /\ maxSequenceId = [n \in Nodes |-> 0]
    /\ seen = {} /\ queued = <<>> /\ running = 0 /\ left = [g \in AllGroups |-> 0] /\ completed = {}
    /\ at = [d \in Drivers(plan) |-> "none"] /\ reading = [d \in Drivers(plan) |-> 0] /\ broken = {}
    /\ sent = [n \in Nodes |-> 0] /\ groupEnds = {} /\ resends = 0
    /\ done = [n \in Nodes |-> [i \in SplitsOf(n) |-> 0]] /\ handed = {}

-----------------------------------------------------------------------------
(* Drivers of split groups *)

\* checkIfFinishedLocked; a plan without grouped execution is finished with its output pipeline.
CheckIfFinished(fin, tot, out, cons) ==
    /\ IsRunning
    /\ fin = tot \/ (plan.grouped = {} /\ out = plan.drivers[plan.out])
    /\ (plan.partitioned /\ start \in {"clients", "started"}) => cons

\* How many queued groups the loop of ensureSplitGroupsAreBeingProcessedLocked starts.
Startable(concurrent, queue, numRunning) ==
    IF ~IsRunning \/ PerSplitGroup = 0 \/ numRunning >= concurrent THEN 0
    ELSE IF concurrent - numRunning < Len(queue) THEN concurrent - numRunning ELSE Len(queue)

\* ensureSplitGroupsAreBeingProcessedLocked.  Every new driver takes the first vacant slot
\* of drivers_, whose bound is only checked after the access: without one the process crashes.
EnsureProcessed(concurrent, slots, queue, numRunning, drivers, numLeft) ==
    LET k == Startable(concurrent, queue, numRunning)
        new == {d \in DOMAIN at : d.group \in Range(SubSeq(queue, 1, k))}
    IN  /\ queued' = SubSeq(queue, k + 1, Len(queue)) /\ running' = numRunning + k
        /\ at' = [d \in DOMAIN at |-> IF d \in new THEN "queued" ELSE drivers[d]]
        /\ left' = [g \in AllGroups |->
                        numLeft[g] + Cardinality({d \in new : d.group = g})]
        /\ state_' = IF Cardinality(Taken(drivers)) + Cardinality(new) > slots /\ new # {}
                     THEN "crashed" ELSE state_

\* Mutant: a group counts as finished with its first driver.
RemoveDriverFirst(d) ==
    LET drivers == [at EXCEPT ![d] = "closed"]
        numLeft == [left EXCEPT ![d.group] = @ - 1]
        out == outFinished + (IF d.node = plan.out THEN 1 ELSE 0)
    IN  /\ finished' = finished + 1 /\ outFinished' = out
        /\ allFinished' = (allFinished \/ CheckIfFinished(finished + 1, total, out, consumed))
        /\ IF d.group # Ungrouped
           THEN /\ completed' = completed \cup {d.group}
                /\ EnsureProcessed(plan.concurrent, Slots, queued, running - 1, drivers, numLeft)
           ELSE /\ at' = drivers /\ left' = numLeft
                /\ UNCHANGED <<completed, queued, running, state_>>
        /\ UNCHANGED <<terminating, consumed, total, seen>>

\* Mutant: the end of a group does not start the next one.
RemoveDriverOnly(d) ==
    LET out == outFinished + (IF d.node = plan.out THEN 1 ELSE 0)
    IN  /\ finished' = finished + 1 /\ outFinished' = out
        /\ allFinished' = (allFinished \/ CheckIfFinished(finished + 1, total, out, consumed))
        /\ at' = [at EXCEPT ![d] = "closed"] /\ left' = [left EXCEPT ![d.group] = @ - 1]
        /\ IF left[d.group] = 1 /\ d.group # Ungrouped
           THEN completed' = completed \cup {d.group} /\ running' = running - 1
           ELSE UNCHANGED <<completed, running>>
        /\ UNCHANGED <<terminating, consumed, total, seen, queued, state_>>

\* removeDriver, up to the unlock.
RemoveDriver(d) ==
    LET drivers == [at EXCEPT ![d] = "closed"]
        numLeft == [left EXCEPT ![d.group] = @ - 1]
        out == outFinished + (IF d.node = plan.out THEN 1 ELSE 0)
    IN  /\ finished' = finished + 1 /\ outFinished' = out
        /\ allFinished' = (allFinished \/ CheckIfFinished(finished + 1, total, out, consumed))
        /\ IF numLeft[d.group] = 0 /\ d.group # Ungrouped
           THEN /\ completed' = completed \cup {d.group}
                /\ EnsureProcessed(plan.concurrent, Slots, queued, running - 1, drivers, numLeft)
           ELSE /\ at' = drivers /\ left' = numLeft
                /\ UNCHANGED <<completed, queued, running, state_>>
        /\ UNCHANGED <<terminating, consumed, total, seen>>

-----------------------------------------------------------------------------
(* Task::start *)

\* createDriverFactoriesLocked
PlanDrivers ==
    /\ start = "new" /\ IsRunning
    /\ start' = "planned" /\ total' = total + Cardinality(DOMAIN at)
    /\ UNCHANGED <<plan, clients, expected, state_, terminating, allFinished, consumed, finished,
                   outFinished, storeVars, groupVars, driverVars, clientVars>>

StartTooLate ==
    /\ start = "new" /\ ~IsRunning
    /\ start' = "skipped"
    /\ UNCHANGED <<plan, clients, expected, taskVars, storeVars, groupVars, driverVars, clientVars>>

\* initializePartitionOutput tests the state without the mutex, ...
CheckRunning ==
    /\ start = "planned" /\ IsRunning
    /\ start' = "checked"
    /\ UNCHANGED <<plan, clients, expected, taskVars, storeVars, groupVars, driverVars, clientVars>>

\* ... and then creates the exchange clients and the output buffer.
InitializePartitionOutput ==
    /\ start = "checked"
    /\ start' = "clients" /\ clients' = [n \in plan.remote |-> "open"]
    /\ expected' = plan.drivers[plan.out] * Cardinality(GroupsOf(plan, plan.out))
    /\ UNCHANGED <<plan, taskVars, storeVars, groupVars, driverVars, clientVars>>

CreateAndStartDrivers ==
    /\ start = "clients" /\ IsRunning
    /\ start' = "started"
    /\ LET ungrouped == DOMAIN at \ GroupedDrivers
       IN  EnsureProcessed(plan.concurrent, AllSlots, queued, running,
                           [d \in DOMAIN at |-> IF d \in ungrouped THEN "queued" ELSE at[d]],
                           [left EXCEPT ![Ungrouped] = Cardinality(ungrouped)])
    /\ UNCHANGED <<plan, clients, expected, terminating, allFinished, consumed, total, finished,
                   outFinished, storeVars, seen, completed, driverVars, clientVars>>

\* The task was terminated meanwhile: the handler of start marks all drivers as finished.
StartFails ==
    /\ start \in {"planned", "clients"} /\ ~IsRunning
    /\ start' = "failed" /\ finished' = total
    /\ UNCHANGED <<plan, clients, expected, state_, terminating, allFinished, consumed, total,
                   outFinished, storeVars, groupVars, driverVars, clientVars>>

-----------------------------------------------------------------------------
(* The client *)

(* A careful client makes no call while start is under way, and announces  *)
(* no end before it.                                                       *)
Waits(beforeStart) ==
    plan.careful => start \in {"started", "failed", "skipped"} \/ (beforeStart /\ start = "new")

\* Mutant: the split is dropped.
AddRemoteSplitDropped(n, i) == UNCHANGED handed

\* addRemoteSplit: what comes after the end of the task goes to the exchange client.
AddRemoteSplit(n, i) ==
    handed' = IF n \in Clients THEN handed \cup {<<n, i>>} ELSE handed

\* Mutant: a promise is only fulfilled for the first split in the store.
AddSplitToStoreOnce(n, g, i) ==
    LET s == Store(n, g)
    IN  SetStore(n, g, [s EXCEPT !.splits = Append(@, i),
                                 !.promises = IF s.splits = <<>> THEN Front(@) ELSE @])

\* addSplitToStoreLocked: the promise that came last is fulfilled.
AddSplitToStore(n, g, i) ==
    LET s == Store(n, g)
    IN  SetStore(n, g, [splits |-> Append(s.splits, i), end |-> s.end, promises |-> Front(s.promises)])

\* addSplitLocked for the first split of a group.  Before the exchange clients and before the
\* slots of the drivers exist, creating the drivers fails; the group at hand has left the queue.
AddFirstSplit(n, g, i) ==
    /\ seen' = seen \cup {g}
    /\ IF start \in {"planned", "checked"}
       THEN /\ queued' = Tail(Append(queued, g))
            /\ UNCHANGED <<running, left, completed, at, state_, stores>>
       ELSE /\ EnsureProcessed(IF Started THEN plan.concurrent ELSE 1, Slots,
                               Append(queued, g), running, at, left)
            /\ AddSplitToStore(n, g, i)
            /\ UNCHANGED completed

AddSplitLocked(n, i) ==
    LET g == plan.splits[n][i]
    IN  IF g = Ungrouped \/ g \in seen
        THEN AddSplitToStore(n, g, i) /\ UNCHANGED <<groupVars, state_>>
        ELSE AddFirstSplit(n, g, i)

\* addSplit, for splits without sequence id.
AddSplit(n) ==
    /\ n \notin plan.sequenced /\ sent[n] < Len(plan.splits[n]) /\ Waits(TRUE)
    /\ sent' = [sent EXCEPT ![n] = @ + 1]
    /\ IF IsRunning THEN AddSplitLocked(n, sent[n] + 1) /\ UNCHANGED handed
       ELSE AddRemoteSplit(n, sent[n] + 1) /\ UNCHANGED <<groupVars, state_, stores>>
    /\ UNCHANGED <<startVars, terminating, allFinished, consumed, total, finished, outFinished,
                   nodeEnd, maxSequenceId, reading, broken, done, groupEnds, resends>>

\* The next split, or one that is sent again; a careful client repeats only what it has
\* followed by setMaxSplitSequenceId.
AddSplitWithSequence(n) ==
    \E i \in SplitsOf(n) :
        /\ n \in plan.sequenced /\ Waits(TRUE)
        /\ \/ i = sent[n] + 1 /\ sent' = [sent EXCEPT ![n] = i] /\ UNCHANGED resends
           \/ /\ i <= sent[n] /\ ~nodeEnd[n] /\ (plan.careful => i <= maxSequenceId[n])
              /\ resends < MaxResends /\ resends' = resends + 1 /\ UNCHANGED sent
        /\ \/ IsRunning /\ i > maxSequenceId[n] /\ AddSplitLocked(n, i) /\ UNCHANGED handed
           \/ /\ IsRunning /\ i <= maxSequenceId[n]
              /\ UNCHANGED <<groupVars, state_, stores, handed>>
           \/ ~IsRunning /\ AddRemoteSplit(n, i) /\ UNCHANGED <<groupVars, state_, stores>>
        /\ UNCHANGED <<startVars, terminating, allFinished, consumed, total, finished, outFinished,
                       nodeEnd, maxSequenceId, reading, broken, done, groupEnds>>

SetMaxSplitSequenceId(n) ==
    /\ n \in plan.sequenced /\ sent[n] > maxSequenceId[n] /\ IsRunning /\ Waits(TRUE)
    /\ maxSequenceId' = [maxSequenceId EXCEPT ![n] = sent[n]]
    /\ UNCHANGED <<startVars, taskVars, stores, nodeEnd, groupVars, driverVars, clientVars>>

AllSent(n, g) == \A i \in SplitsOf(n) : plan.splits[n][i] = g => i <= sent[n]

(* A careful client ends a group that will have splits only after the      *)
(* first of them, and ends every group at a node before it ends the node.  *)
EndsGroups(n) == plan.careful /\ n \in plan.grouped => {n} \X UsedGroups \subseteq groupEnds

NoMoreSplitsForGroup(n, g) ==
    /\ n \in plan.grouped /\ <<n, g>> \notin groupEnds /\ AllSent(n, g) /\ Waits(FALSE)
    /\ plan.careful => g \in seen \/ g \notin UsedGroups \/ ~IsRunning
    /\ groupEnds' = groupEnds \cup {<<n, g>>}
    /\ SetStore(n, g, [splits |-> Store(n, g).splits, end |-> TRUE, promises |-> <<>>])
    /\ completed' = IF g \in seen THEN completed ELSE completed \cup {g}
    /\ UNCHANGED <<startVars, taskVars, nodeEnd, maxSequenceId, seen, queued, running, left, at,
                   driverVars, sent, resends>>

\* The promises of all stores but the one that comes last in the map are destroyed.
EndStores(n) ==
    IF DOMAIN stores[n] # {}
    THEN \E last \in DOMAIN stores[n] :
            /\ stores' = [stores EXCEPT ![n] = [g \in DOMAIN @ |->
                                [splits |-> @[g].splits, end |-> TRUE, promises |-> <<>>]]]
            /\ broken' = broken \cup
                    UNION {Range(stores[n][g].promises) : g \in DOMAIN stores[n] \ {last}}
    ELSE /\ IF n \in plan.grouped THEN UNCHANGED stores
            ELSE SetStore(n, Ungrouped, [splits |-> <<>>, end |-> TRUE, promises |-> <<>>])
         /\ UNCHANGED broken

\* Mutant: the end at one node is taken for the end at all.
CheckNoMoreSplitGroupsAny(ends) ==
    IF plan.grouped # {} /\ \E n \in Nodes : ends[n]
    THEN LET tot == Cardinality(seen) * PerSplitGroup + NumUngrouped
         IN  /\ total' = tot
             /\ allFinished' = (allFinished \/ CheckIfFinished(finished, tot, outFinished, consumed))
             /\ expected' = IF plan.out \in plan.grouped /\ start \in {"clients", "started"}
                            THEN plan.drivers[plan.out] * Cardinality(seen) ELSE expected
    ELSE UNCHANGED <<total, allFinished, expected>>

\* checkNoMoreSplitGroupsLocked, with updateNumDrivers of the output buffer.
CheckNoMoreSplitGroups(ends) ==
    IF plan.grouped # {} /\ \A n \in Nodes : ends[n]
    THEN LET tot == Cardinality(seen) * PerSplitGroup + NumUngrouped
         IN  /\ total' = tot
             /\ allFinished' = (allFinished \/ CheckIfFinished(finished, tot, outFinished, consumed))
             /\ expected' = IF plan.out \in plan.grouped /\ start \in {"clients", "started"}
                            THEN plan.drivers[plan.out] * Cardinality(seen) ELSE expected
    ELSE UNCHANGED <<total, allFinished, expected>>

NoMoreSplits(n) ==
    /\ ~nodeEnd[n] /\ sent[n] = Len(plan.splits[n]) /\ Waits(FALSE) /\ EndsGroups(n)
    /\ nodeEnd' = [nodeEnd EXCEPT ![n] = TRUE]
    /\ EndStores(n)
    /\ CheckNoMoreSplitGroups(nodeEnd')
    /\ UNCHANGED <<plan, start, clients, state_, terminating, consumed, finished, outFinished,
                   maxSequenceId, groupVars, reading, done, handed, clientVars>>

-----------------------------------------------------------------------------
(* A driver: TableScan::getOutput, or Exchange::getSplits for an exchange *)

\* On its thread, or about to run: the task enqueued it or its promise is fulfilled.
Ready(d) ==
    \/ at[d] = "on"
    \/ IsRunning /\ (at[d] = "queued" \/ (at[d] = "waiting" /\ d \notin Outstanding \cup broken))

\* getSplitLocked: the first split, or one of the next that is loaded already.
TakeSplit(d) ==
    LET n == d.node
        s == Store(n, d.group)
        ahead == IF n \in plan.remote THEN 1 ELSE MaxPreload
    IN  \E k \in DOMAIN s.splits :
            /\ k = 1 \/ k <= ahead
            /\ SetStore(n, d.group, [splits |-> RemoveAt(s.splits, k), end |-> s.end,
                                      promises |-> s.promises])
            /\ IF n \in plan.remote
               THEN /\ handed' = handed \cup {<<n, s.splits[k]>>}
                    /\ at' = [at EXCEPT ![d] = "on"] /\ UNCHANGED reading
               ELSE /\ at' = [at EXCEPT ![d] = "reading"]
                    /\ reading' = [reading EXCEPT ![d] = s.splits[k]] /\ UNCHANGED handed

\* getSplitOrFuture.  The driver has tested before that the task runs: this may be past.
GetSplitOrFuture(d) ==
    LET s == Store(d.node, d.group)
    IN  /\ Ready(d)
        /\ \/ TakeSplit(d)
           \/ /\ s.splits = <<>> /\ s.end
              /\ at' = [at EXCEPT ![d] = "last"] /\ SetStore(d.node, d.group, s)
              /\ UNCHANGED <<reading, handed>>
           \/ /\ s.splits = <<>> /\ ~s.end
              /\ at' = [at EXCEPT ![d] = "blocking"]
              /\ SetStore(d.node, d.group, [splits |-> s.splits, end |-> s.end,
                                             promises |-> Append(s.promises, d)])
              /\ UNCHANGED <<reading, handed>>
        /\ UNCHANGED <<startVars, taskVars, nodeEnd, maxSequenceId, seen, queued, running, left,
                       completed, broken, done, clientVars>>

\* splitFinished
SplitFinished(d) ==
    /\ at[d] = "reading"
    /\ at' = [at EXCEPT ![d] = "on"] /\ reading' = [reading EXCEPT ![d] = 0]
    /\ done' = [done EXCEPT ![d.node][reading[d]] = @ + 1]
    /\ UNCHANGED <<startVars, taskVars, storeVars, seen, queued, running, left, completed, broken,
                   handed, clientVars>>

Block(d) ==
    /\ at[d] = "blocking" /\ IsRunning
    /\ at' = [at EXCEPT ![d] = "waiting"]
    /\ UNCHANGED <<startVars, taskVars, storeVars, seen, queued, running, left, completed,
                   driverVars, clientVars>>

\* A driver closes itself after its last split, or when it finds the task terminated.
Close(d) ==
    /\ at[d] = "last" \/ (at[d] \in {"on", "reading", "blocking"} /\ ~IsRunning)
    /\ RemoveDriver(d)
    /\ UNCHANGED <<startVars, storeVars, driverVars, clientVars>>

-----------------------------------------------------------------------------
(* The end of the task *)

\* The consumers have got the data of all drivers the output buffer knows of.
SetAllOutputConsumed ==
    /\ plan.partitioned /\ Started /\ IsRunning /\ ~consumed /\ outFinished = expected
    /\ consumed' = TRUE
    /\ allFinished' = (allFinished \/ CheckIfFinished(finished, total, outFinished, TRUE))
    /\ UNCHANGED <<startVars, state_, terminating, total, finished, outFinished, storeVars, groupVars,
                   driverVars, clientVars>>

\* The first part of terminate closes the drivers that are off thread, and the exchange clients.
Terminate(end) ==
    /\ IsRunning
    /\ state_' = end /\ terminating' = "first"
    /\ total' = Cardinality(seen) * PerSplitGroup + NumUngrouped
    /\ finished' = finished + Cardinality(OffThread)
    /\ at' = [d \in DOMAIN at |-> IF d \in OffThread THEN "closed" ELSE at[d]]
    /\ clients' = [n \in plan.remote |-> IF clients[n] = "open" THEN "closed" ELSE clients[n]]
    /\ UNCHANGED <<plan, start, expected, allFinished, consumed, outFinished, storeVars, seen, queued,
                   running, left, completed, driverVars, clientVars>>

Cancel == Terminate("kCanceled")
Finish == allFinished /\ Terminate("kFinished")

\* The future of a destroyed promise is realized with an error, which fails the task.
PromiseBroken(d) == at[d] = "waiting" /\ d \in broken /\ Terminate("kFailed")

\* The second part collects the promises and hands the remaining remote splits over.
TerminateRest ==
    /\ terminating = "first"
    /\ terminating' = "done"
    /\ stores' = [n \in Nodes |-> [g \in DOMAIN stores[n] |->
            [splits |-> IF n \in Clients THEN <<>> ELSE stores[n][g].splits,
             end |-> stores[n][g].end, promises |-> <<>>]]]
    /\ handed' = handed \cup UNION {{n} \X Stored(n) : n \in Clients}
    /\ UNCHANGED <<startVars, state_, allFinished, consumed, total, finished, outFinished, nodeEnd,
                   maxSequenceId, groupVars, reading, broken, done, clientVars>>

StartStep == PlanDrivers \/ StartTooLate \/ CheckRunning \/ InitializePartitionOutput
                \/ CreateAndStartDrivers \/ StartFails
ClientStep(n) == AddSplit(n) \/ AddSplitWithSequence(n) \/ SetMaxSplitSequenceId(n)
                    \/ (\E g \in Groups : NoMoreSplitsForGroup(n, g)) \/ NoMoreSplits(n)
DriverStep(d) == GetSplitOrFuture(d) \/ SplitFinished(d) \/ Block(d) \/ Close(d)
                    \/ PromiseBroken(d)
EndStep == SetAllOutputConsumed \/ Finish \/ TerminateRest

Alive == state_ # "crashed"
Progress ==
    /\ Alive
    /\ \/ StartStep \/ EndStep
       \/ \E n \in Nodes : ClientStep(n)
       \/ \E d \in DOMAIN at : DriverStep(d)

Next == Progress \/ (Alive /\ Cancel)

(* The threads of start, of the drivers and of terminate go on, the client *)
(* sends all its splits and ends them, and the consumers take the output:  *)
(* as long as one of them can, one does.  Nobody has to cancel the task.   *)
Spec == Init /\ [][Next]_vars /\ WF_vars(Progress)

-----------------------------------------------------------------------------
(* Properties *)

\* The counters of running groups and of the drivers left in a group (SplitGroupState,
\* Task.cpp:1037-1097) are those of the drivers that exist.
TypeOK ==
    /\ plan \in Plans
    /\ start \in {"new", "skipped", "planned", "checked", "clients", "started", "failed"}
    /\ state_ \in {"kRunning", "kFinished", "kCanceled", "kFailed", "crashed"}
    /\ terminating \in {"no", "first", "done"}
    /\ \A d \in DOMAIN at :
            /\ at[d] \in {"none", "queued", "on", "reading", "blocking", "waiting", "last", "closed"}
            /\ (reading[d] # 0) = (at[d] = "reading") \/ ~IsRunning
    /\ IsRunning =>
            /\ running = Cardinality({g \in Groups : left[g] > 0})
            /\ \A g \in AllGroups : left[g] = Cardinality({d \in Taken(at) : d.group = g})

\* addSplitWithSequence (Task.cpp:1145-1176) ignores what setMaxSplitSequenceId has covered:
\* a client that sends again after a failure does not get a split processed twice.  And a
\* task that finishes (checkIfFinishedLocked and checkNoMoreSplitGroupsLocked, Task.cpp:1326-1348)
\* has read every split or given it to an exchange.  Without grouped execution the latter
\* holds for the output pipeline alone, with whose drivers the task ends.
SplitsProcessed ==
    plan.careful => \A n \in Nodes : \A i \in SplitsOf(n) :
        /\ done[n][i] <= 1
        /\ state_ = "kFinished" /\ (plan.grouped # {} \/ n = plan.out) =>
                IF n \in plan.remote THEN <<n, i>> \in handed ELSE done[n][i] = 1

\* No lost wakeup between getSplitOrFuture and the calls that fulfil its promises
\* (Task.cpp:1242-1324): while a driver waits for a split, every queued split of its store
\* has an awake driver to take it, and the end has not been announced.
NobodySleepsOnSplits ==
    IsRunning =>
        \A n \in Nodes : \A g \in DOMAIN stores[n] :
            LET s == stores[n][g]
                awake == {d \in Taken(at) \ Outstanding : d.node = n /\ d.group = g}
            IN  s.promises # <<>> => /\ ~s.end /\ (plan.careful => ~nodeEnd[n])
                                     /\ Len(s.splits) <= Cardinality(awake)

\* completedSplitGroups (Task.cpp:1072): as long as the task did not fail, a group reported
\* complete has no open driver and no unread split.
CompletedGroups ==
    plan.careful /\ state_ \in {"kRunning", "kFinished"} =>
        \A g \in completed :
            /\ \A d \in Taken(at) : d.group # g
            /\ \A n \in Nodes : \A i \in SplitsOf(n) : plan.splits[n][i] = g => done[n][i] > 0

\* terminate (Task.cpp:1737-1890) and addRemoteSplit give every remote split that the client sent,
\* before or after the end, to the exchange client, so that the upstream task can be told
\* to delete its results.
RemoteSplitsHanded ==
    terminating = "done" =>
        \A n \in plan.remote : clients[n] = "closed" =>
            \A i \in 1..sent[n] : <<n, i>> \in handed

\* A task whose client keeps to the rules ends, and all its drivers are closed: no group is
\* left in the queue (Task.cpp:1099-1130) and no driver waits for a split that never comes.
TaskEnds ==
    plan.careful => <>[](~IsRunning /\ terminating = "done" /\ Taken(at) = {})
=============================================================================
