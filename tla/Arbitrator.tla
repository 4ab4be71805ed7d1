----------------------------- MODULE Arbitrator -----------------------------
(***************************************************************************)
(* The shared memory arbitrator (velox/exec/SharedArbitrator.cpp) and the  *)
(* root memory pools of the queries it moves capacity between              *)
(* (velox/common/memory/MemoryPool.cpp, Memory.cpp).                       *)
(*                                                                         *)
(* A task of a query reserves memory in the query's pool.  When the        *)
(* pool's capacity does not suffice, the task's thread asks the arbitrator *)
(* to grow it.  Arbitrations run one at a time: the thread first takes     *)
(* free capacity, then unused capacity of the pools it saw when it asked,  *)
(* then lets their tasks spill, and at last aborts the largest query.      *)
(*                                                                         *)
(* An action is one critical section (of the arbitrator or of a pool) and  *)
(* what its thread does up to the next one.  The other tasks go on while   *)
(* an arbitration runs, except for the one that is just spilling.          *)
(***************************************************************************)
EXTENDS Integers, Sequences, FiniteSets, Functions

CONSTANTS
    Pools,        \* root pools, one per query
    Tasks,        \* tasks; each has one thread
    PoolOf,       \* the pool of a task
    Spillable,    \* the tasks with an operator that can spill
    Capacity,     \* capacity_ of the arbitrator
    MaxCapacity,  \* maxCapacity_ of a pool
    InitCapacity, \* poolInitCapacity_
    Transfer,     \* memoryPoolTransferCapacity_
    SpillNeed,    \* what a spill allocates and releases again
    Sizes,        \* the sizes of reservations
    MaxAsks,      \* bound on the reservations of each task
    Word          \* 2^64, the modulus of unsigned arithmetic

ASSUME FiniteAssumption == IsFiniteSet(Pools) /\ IsFiniteSet(Tasks)
ASSUME ArbitratorAssumption ==
    /\ PoolOf \in [Tasks -> Pools] /\ Spillable \subseteq Tasks
    /\ Capacity \in Nat /\ MaxCapacity \in [Pools -> Nat] /\ InitCapacity \in Nat
    /\ Transfer \in Nat /\ SpillNeed \in Nat /\ Sizes \subseteq Nat \ {0}
    /\ MaxAsks \in [Tasks -> Nat]
    /\ Word \in Nat /\ Word > Capacity + SpillNeed

VARIABLES
    pools,          \* the MemoryManager's view of a pool: none, live, dropped
    capacity,       \* capacity_ of a pool
    reserved,       \* reservationBytes_ of a pool
    aborted,        \* the pools that are aborted
    freeCapacity, running, waitPromises,   \* the arbitrator
    pc,             \* where the thread of a task is
    held,           \* the part of its pool's reservation that is the task's
    asks,           \* how often the task has reserved
    arb,            \* local variables of growCapacity and arbitrateMemory
    stats,          \* the candidates' statistics of an arbitration
    rc              \* local variables of reclaim

vars == <<pools, capacity, reserved, aborted, freeCapacity, running, waitPromises,
          pc, held, asks, arb, stats, rc>>
poolVars == <<pools, capacity, reserved, aborted>>
queueVars == <<running, waitPromises>>

NoPool == "none"
NoTask == "none"
Lesser(m, n) == IF m < n THEN m ELSE n
Larger(m, n) == IF m > n THEN m ELSE n

\* Inside the scope of ScopedArbitration.
Reclaiming == {"shrink", "task", "spill", "spilled", "abort", "reclaimed"}
Arbitrating == {"check", "stats", "free", "used", "oom", "finish"} \cup Reclaiming
Idle == [size |-> 0, pools |-> {}, todo |-> {}, hand |-> 0, got |-> 0,
         goal |-> 0, retried |-> FALSE, granted |-> FALSE]
NoReclaim == [pool |-> NoPool, want |-> 0, old |-> 0, left |-> {}, task |-> NoTask,
              caller |-> "used"]

TypeOK ==
    /\ pools \in [Pools -> {"none", "live", "dropped"}]
    /\ capacity \in [Pools -> 0..Capacity] /\ reserved \in [Pools -> 0..Capacity + SpillNeed]
    /\ aborted \subseteq Pools
    /\ freeCapacity \in 0..Capacity /\ running \in BOOLEAN
    /\ waitPromises \in Seq(Tasks)
    /\ pc \in [Tasks -> {"idle", "enter", "wait", "grown", "closing", "closed"} \cup Arbitrating]
    /\ held \in [Tasks -> 0..Capacity] /\ asks \in [Tasks -> Nat]
    /\ \A t \in Tasks : arb[t].pools \subseteq Pools /\ arb[t].todo \subseteq arb[t].pools
                     /\ arb[t].hand + arb[t].got \in 0..Capacity /\ arb[t].goal \in 0..Capacity
    /\ \A t \in Tasks : rc[t].pool \in Pools \cup {NoPool} /\ rc[t].left \subseteq Tasks
                     /\ rc[t].task \in rc[t].left \cup {NoTask}

Init ==
    /\ pools = [p \in Pools |-> "none"]
    /\ capacity = [p \in Pools |-> 0] /\ reserved = [p \in Pools |-> 0] /\ aborted = {}
    /\ freeCapacity = Capacity /\ running = FALSE /\ waitPromises = <<>>
    /\ pc = [t \in Tasks |-> "idle"]
    /\ held = [t \in Tasks |-> 0] /\ asks = [t \in Tasks |-> 0]
    /\ arb = [t \in Tasks |-> Idle] /\ stats = [t \in Tasks |-> <<>>] /\ rc = [t \in Tasks |-> NoReclaim]

-----------------------------------------------------------------------------
(* Memory pools *)

\* freeBytes, in the unsigned arithmetic of shrink.
FreeBytes(p) == (capacity[p] - reserved[p]) % Word

\* What MemoryPoolImpl::shrink takes from the pool; all that is free for 0.
Shrunk(p, target) == IF target # 0 THEN Lesser(target, FreeBytes(p)) ELSE FreeBytes(p)

maxGrowBytes(p) == MaxCapacity[p] - capacity[p]

\* The task is paused by the reclaimer that makes it spill.
Paused(t) == \E u \in Tasks : pc[u] \in {"spill", "spilled"} /\ rc[u].task = t

\* MemoryManager::addRootPool
AddRootPool(p) ==
    LET grown == IF running THEN 0
                 ELSE Lesser(freeCapacity, Lesser(MaxCapacity[p], InitCapacity))
    IN  /\ pools[p] = "none"
        /\ pools' = [pools EXCEPT ![p] = "live"]
        /\ capacity' = [capacity EXCEPT ![p] = @ + grown]
        /\ freeCapacity' = freeCapacity - grown
        /\ UNCHANGED <<reserved, aborted, queueVars, pc, held, asks, arb, rc, stats>>

\* An arbitration keeps the pools it saw alive.
DropPool(p) ==
    LET freed == Shrunk(p, 0)
    IN  /\ pools[p] = "live"
        /\ \A t \in Tasks : (PoolOf[t] = p => pc[t] = "closed") /\ p \notin arb[t].pools
        /\ pools' = [pools EXCEPT ![p] = "dropped"]
        /\ capacity' = [capacity EXCEPT ![p] = @ - freed]
        /\ freeCapacity' = freeCapacity + freed
        /\ UNCHANGED <<reserved, aborted, queueVars, pc, held, asks, arb, rc, stats>>

\* incrementReservationThreadSafe up to growCapacityCb_, with the pools that
\* growPool sees alive.
Reserve(t, size) ==
    LET p == PoolOf[t]
    IN  \/ /\ p \in aborted
           /\ pc' = [pc EXCEPT ![t] = "closing"]
           /\ arb' = [arb EXCEPT ![t] = Idle]
           /\ UNCHANGED <<reserved, held>>
        \/ /\ p \notin aborted /\ reserved[p] + size <= capacity[p]
           /\ reserved' = [reserved EXCEPT ![p] = @ + size]
           /\ held' = [held EXCEPT ![t] = @ + size]
           /\ pc' = [pc EXCEPT ![t] = "idle"]
           /\ arb' = [arb EXCEPT ![t] = Idle]
        \/ /\ p \notin aborted /\ reserved[p] + size > capacity[p]
           /\ pc' = [pc EXCEPT ![t] = "enter"]
           /\ arb' = [arb EXCEPT ![t] = [Idle EXCEPT !.size = size,
                                             !.pools = {q \in Pools : pools[q] = "live"}]]
           /\ UNCHANGED <<reserved, held>>

Ask(t) ==
    /\ pc[t] = "idle" /\ pools[PoolOf[t]] = "live" /\ ~Paused(t) /\ asks[t] < MaxAsks[t]
    /\ asks' = [asks EXCEPT ![t] = @ + 1]
    /\ \E size \in Sizes : Reserve(t, size)
    /\ UNCHANGED <<pools, capacity, aborted, freeCapacity, queueVars, rc, stats>>

\* Mutant: the reservation takes the grown capacity for granted.
RetryUnchecked(t) ==
    /\ pc[t] = "grown"
    /\ reserved' = [reserved EXCEPT ![PoolOf[t]] = @ + arb[t].size]
    /\ held' = [held EXCEPT ![t] = @ + arb[t].size]
    /\ pc' = [pc EXCEPT ![t] = "idle"]
    /\ UNCHANGED <<pools, capacity, aborted, freeCapacity, queueVars, asks, arb, rc, stats>>

\* After growCapacityCb_: a reservation of another task may have taken the
\* new capacity, then reserveThreadSafe starts over.
Retry(t) ==
    /\ pc[t] = "grown"
    /\ Reserve(t, arb[t].size)
    /\ UNCHANGED <<pools, capacity, aborted, freeCapacity, queueVars, asks, rc, stats>>

Release(t) ==
    /\ pc[t] = "idle" /\ ~Paused(t) /\ held[t] > 0
    /\ held' = [held EXCEPT ![t] = @ - 1]
    /\ reserved' = [reserved EXCEPT ![PoolOf[t]] = @ - 1]
    /\ UNCHANGED <<pools, capacity, aborted, freeCapacity, queueVars, pc, asks, arb, rc, stats>>

\* The task is done, or it fails with the error of its reservation.
Close(t) ==
    /\ pc[t] \in {"idle", "closing"} /\ pools[PoolOf[t]] = "live" /\ ~Paused(t)
    /\ held' = [held EXCEPT ![t] = 0]
    /\ reserved' = [reserved EXCEPT ![PoolOf[t]] = @ - held[t]]
    /\ pc' = [pc EXCEPT ![t] = "closed"]
    /\ UNCHANGED <<pools, capacity, aborted, freeCapacity, queueVars, asks, arb, rc, stats>>

-----------------------------------------------------------------------------
(* The queue of arbitrations *)

\* startArbitration.  A task of an aborted pool is terminated, which
\* enterArbitration may notice.
StartArbitration(t) ==
    /\ pc[t] = "enter"
    /\ \/ /\ PoolOf[t] \in aborted
          /\ pc' = [pc EXCEPT ![t] = "closing"] /\ arb' = [arb EXCEPT ![t] = Idle]
          /\ UNCHANGED queueVars
       \/ /\ running
          /\ waitPromises' = Append(waitPromises, t)
          /\ pc' = [pc EXCEPT ![t] = "wait"]
          /\ UNCHANGED <<running, arb>>
       \/ /\ ~running
          /\ running' = TRUE
          /\ pc' = [pc EXCEPT ![t] = "check"]
          /\ UNCHANGED <<waitPromises, arb>>
    /\ UNCHANGED <<poolVars, freeCapacity, held, asks, rc, stats>>

\* The request that came last, and those before it.
Latest == waitPromises[Len(waitPromises)]
Earlier == SubSeq(waitPromises, 1, Len(waitPromises) - 1)

\* Mutant: running_ is cleared although the next request runs.
FinishNotRunning(t) ==
    LET outcome == IF arb[t].granted THEN "grown" ELSE "closing"
    IN  /\ pc[t] = "finish"
        /\ running' = FALSE
        /\ IF waitPromises # <<>>
           THEN /\ waitPromises' = Earlier
                /\ pc' = [pc EXCEPT ![t] = outcome, ![Latest] = "check"]
           ELSE /\ pc' = [pc EXCEPT ![t] = outcome]
                /\ UNCHANGED waitPromises
        /\ arb' = [arb EXCEPT ![t] = [Idle EXCEPT !.size = arb[t].size]]
        /\ rc' = [rc EXCEPT ![t] = NoReclaim] /\ stats' = [stats EXCEPT ![t] = <<>>]
        /\ UNCHANGED <<poolVars, freeCapacity, held, asks>>

\* finishArbitration, and the return of growCapacity: the last to come is
\* the next to run.
FinishArbitration(t) ==
    LET outcome == IF arb[t].granted THEN "grown" ELSE "closing"
    IN  /\ pc[t] = "finish"
        /\ IF waitPromises # <<>>
           THEN /\ waitPromises' = Earlier
                /\ pc' = [pc EXCEPT ![t] = outcome, ![Latest] = "check"]
                /\ UNCHANGED running
           ELSE /\ running' = FALSE
                /\ pc' = [pc EXCEPT ![t] = outcome]
                /\ UNCHANGED waitPromises
        /\ arb' = [arb EXCEPT ![t] = [Idle EXCEPT !.size = arb[t].size]]
        /\ rc' = [rc EXCEPT ![t] = NoReclaim] /\ stats' = [stats EXCEPT ![t] = <<>>]
        /\ UNCHANGED <<poolVars, freeCapacity, held, asks>>

-----------------------------------------------------------------------------
(* One arbitration *)

checkCapacityGrowth(p, size) == maxGrowBytes(p) >= size /\ capacity[p] + size <= Capacity

\* The start of growCapacity and of ensureCapacity.
Check(t) ==
    LET p == PoolOf[t]
        size == arb[t].size
    IN  /\ pc[t] = "check"
        /\ \/ /\ p \in aborted \/ size > Capacity \/ size > MaxCapacity[p]
              /\ pc' = [pc EXCEPT ![t] = "finish"]
              /\ UNCHANGED rc
           \/ /\ p \notin aborted /\ size <= Capacity /\ size <= MaxCapacity[p]
              /\ IF checkCapacityGrowth(p, size)
                 THEN pc' = [pc EXCEPT ![t] = "stats"] /\ UNCHANGED rc
                 ELSE /\ pc' = [pc EXCEPT ![t] = "shrink"]
                      /\ rc' = [rc EXCEPT ![t] = [NoReclaim EXCEPT !.pool = p, !.want = size,
                                                     !.old = capacity[p], !.caller = "ensure"]]
        /\ UNCHANGED <<poolVars, freeCapacity, queueVars, held, asks, arb, stats>>

\* Mutant: the bytes taken off the free capacity are not granted.
GrowByGot(t, freed) ==
    /\ capacity' = [capacity EXCEPT ![PoolOf[t]] = @ + arb[t].got]
    /\ freeCapacity' = freeCapacity + freed - arb[t].got
    /\ pc' = [pc EXCEPT ![t] = "finish"]
    /\ arb' = [arb EXCEPT ![t] = [@ EXCEPT !.hand = 0, !.got = 0, !.granted = TRUE]]

\* The requestor's capacity grows by at most the goal; the rest of the freed
\* bytes goes back to the arbitrator.
Grow(t, freed) ==
    LET grown == Lesser(arb[t].goal, freed)
    IN  /\ capacity' = [capacity EXCEPT ![PoolOf[t]] = @ + grown]
        /\ freeCapacity' = freeCapacity + freed - grown
        /\ pc' = [pc EXCEPT ![t] = "finish"]
        /\ arb' = [arb EXCEPT ![t] = [@ EXCEPT !.hand = 0, !.got = 0, !.granted = TRUE]]

\* MemoryReclaimer::reclaimableBytes of a query
ReclaimableBytes(q) == FoldFunctionOnSet(+, 0, held, {u \in Spillable : PoolOf[u] = q})

\* getCandidateStats
CandidateStats(q) ==
    [reclaimable |-> \E u \in Spillable : PoolOf[u] = q /\ pc[u] # "closed",
     bytes |-> ReclaimableBytes(q), free |-> FreeBytes(q)]

\* The start of a round, up to the first part of arbitrateMemory.
Stats(t) ==
    LET p == PoolOf[t]
        goal == Lesser(maxGrowBytes(p), Larger(Transfer, arb[t].size))
        taken == Lesser(freeCapacity, goal)
    IN  /\ pc[t] = "stats"
        /\ freeCapacity' = freeCapacity - taken
        /\ IF taken >= arb[t].size
           THEN /\ capacity' = [capacity EXCEPT ![p] = @ + taken]
                /\ arb' = [arb EXCEPT ![t].granted = TRUE]
                /\ pc' = [pc EXCEPT ![t] = "finish"]
                /\ UNCHANGED stats
           ELSE /\ stats' = [stats EXCEPT ![t] = [q \in arb[t].pools |-> CandidateStats(q)]]
                /\ arb' = [arb EXCEPT ![t] = [@ EXCEPT !.goal = goal, !.hand = taken, !.got = 0,
                                                   !.todo = arb[t].pools]]
                /\ pc' = [pc EXCEPT ![t] = "free"]
                /\ UNCHANGED capacity
        /\ UNCHANGED <<pools, reserved, aborted, queueVars, held, asks, rc>>

\* reclaimFreeMemoryFromCandidates: the candidate with the most free bytes,
\* as they were when the statistics were taken.
ShrinkCandidate(t) ==
    LET a == arb[t]
        want == a.goal - a.hand
    IN  /\ pc[t] = "free" /\ a.got < want
        /\ \E q \in a.todo :
            LET freed == Shrunk(q, Lesser(want - a.got, stats[t][q].free))
            IN  /\ \A r \in a.todo : stats[t][r].free <= stats[t][q].free
                /\ stats[t][q].free > 0
                /\ capacity' = [capacity EXCEPT ![q] = @ - freed]
                /\ arb' = [arb EXCEPT ![t] = [@ EXCEPT !.got = a.got + freed, !.todo = a.todo \ {q}]]
        /\ UNCHANGED <<pools, reserved, aborted, freeCapacity, queueVars, pc, held, asks, rc, stats>>

\* ... and what arbitrateMemory does with the result.
FreeReclaimed(t) ==
    LET a == arb[t]
        freed == a.hand + a.got
    IN  /\ pc[t] = "free"
        /\ a.got >= a.goal - a.hand \/ \A q \in a.todo : stats[t][q].free = 0
        /\ IF freed >= a.size
           THEN Grow(t, freed)
           ELSE /\ arb' = [arb EXCEPT ![t] = [@ EXCEPT !.hand = freed, !.got = 0, !.todo = a.pools]]
                /\ pc' = [pc EXCEPT ![t] = "used"]
                /\ UNCHANGED <<capacity, freeCapacity>>
        /\ UNCHANGED <<pools, reserved, aborted, queueVars, held, asks, rc, stats>>

\* reclaimUsedMemoryFromCandidates: the candidate with the most reclaimable
\* bytes.
HasMore(t, q) == stats[t][q].reclaimable /\ stats[t][q].bytes > 0
UsedDone(t) ==
    \/ arb[t].got >= arb[t].goal - arb[t].hand \/ PoolOf[t] \in aborted
    \/ \A q \in arb[t].todo : ~HasMore(t, q)

ReclaimCandidate(t) ==
    LET a == arb[t]
        want == a.goal - a.hand - a.got
    IN  /\ pc[t] = "used" /\ ~UsedDone(t)
        /\ \E q \in a.todo :
            /\ HasMore(t, q) /\ \A r \in a.todo : HasMore(t, r) => stats[t][r].bytes <= stats[t][q].bytes
            /\ rc' = [rc EXCEPT ![t] = [NoReclaim EXCEPT !.pool = q, !.want = Larger(want, Transfer),
                                           !.old = capacity[q]]]
            /\ arb' = [arb EXCEPT ![t].todo = @ \ {q}]
        /\ pc' = [pc EXCEPT ![t] = "shrink"]
        /\ UNCHANGED <<poolVars, freeCapacity, queueVars, held, asks, stats>>

\* Mutant: the freed bytes are not returned.
UsedReclaimedLeak(t) ==
    /\ pc[t] = "used" /\ UsedDone(t)
    /\ IF PoolOf[t] \notin aborted /\ arb[t].hand + arb[t].got >= arb[t].size
       THEN Grow(t, arb[t].hand + arb[t].got)
       ELSE /\ arb' = [arb EXCEPT ![t] = [@ EXCEPT !.hand = 0, !.got = 0]]
            /\ pc' = [pc EXCEPT ![t] = IF PoolOf[t] \in aborted \/ arb[t].retried THEN "finish" ELSE "oom"]
            /\ UNCHANGED <<capacity, freeCapacity>>
    /\ UNCHANGED <<pools, reserved, aborted, queueVars, held, asks, rc, stats>>

\* Mutant: an aborted requestor is served.
UsedReclaimedAborted(t) ==
    LET freed == arb[t].hand + arb[t].got
    IN  /\ pc[t] = "used" /\ UsedDone(t)
        /\ IF freed >= arb[t].size
           THEN Grow(t, freed)
           ELSE /\ freeCapacity' = freeCapacity + freed
                /\ arb' = [arb EXCEPT ![t] = [@ EXCEPT !.hand = 0, !.got = 0]]
                /\ pc' = [pc EXCEPT ![t] = IF arb[t].retried THEN "finish" ELSE "oom"]
                /\ UNCHANGED capacity
        /\ UNCHANGED <<pools, reserved, aborted, queueVars, held, asks, rc, stats>>

\* The end of arbitrateMemory: an aborted requestor and one that gets too
\* little give back what was freed.
UsedReclaimed(t) ==
    LET a == arb[t]
        freed == a.hand + a.got
        p == PoolOf[t]
    IN  /\ pc[t] = "used" /\ UsedDone(t)
        /\ IF p \notin aborted /\ freed >= a.size
           THEN Grow(t, freed)
           ELSE /\ freeCapacity' = freeCapacity + freed
                /\ arb' = [arb EXCEPT ![t] = [@ EXCEPT !.hand = 0, !.got = 0]]
                /\ pc' = [pc EXCEPT ![t] = IF p \in aborted \/ a.retried THEN "finish" ELSE "oom"]
                /\ UNCHANGED capacity
        /\ UNCHANGED <<pools, reserved, aborted, queueVars, held, asks, rc, stats>>

-----------------------------------------------------------------------------
(* Abort and reclaim of a pool *)

Suspended(t) == pc[t] = "wait" \/ pc[t] \in Arbitrating

Members(p) == {t \in Tasks : PoolOf[t] = p}

\* MemoryPoolImpl::abort of the pool q, up to the first of its tasks, with the
\* memory a failed spill gives back.  A second abort throws at once.
StartAbort(t, q, back) ==
    /\ aborted' = aborted \cup {q}
    /\ reserved' = [reserved EXCEPT ![q] = @ - back]
    /\ pc' = [pc EXCEPT ![t] = "abort"]

\* The abort of a task releases its memory, unless it is inside a reservation;
\* such a task, and one that is passed over because the abort of another one
\* threw, fails when it finds its pool aborted.
AbortTask(t) ==
    /\ pc[t] = "abort"
    /\ \E u \in rc[t].left :
        /\ rc' = [rc EXCEPT ![t].left = @ \ {u}]
        /\ \/ /\ pc[u] = "idle" \/ Suspended(u)
              /\ held' = [held EXCEPT ![u] = 0]
              /\ reserved' = [reserved EXCEPT ![rc[t].pool] = @ - held[u]]
              /\ pc' = [pc EXCEPT ![u] = IF pc[u] = "idle" THEN "closed" ELSE pc[u]]
           \/ UNCHANGED <<held, reserved, pc>>
    /\ UNCHANGED <<pools, capacity, aborted, freeCapacity, queueVars, asks, arb, stats>>

\* The shrink after the abort, in handleOOM and in reclaim.
AbortDone(t) ==
    LET q == rc[t].pool
        freed == Shrunk(q, 0)
    IN  /\ pc[t] = "abort" /\ rc[t].left = {}
        /\ capacity' = [capacity EXCEPT ![q] = @ - freed]
        /\ IF rc[t].caller = "oom"
           THEN /\ freeCapacity' = freeCapacity + freed
                /\ pc' = [pc EXCEPT ![t] = "stats"]
                /\ rc' = [rc EXCEPT ![t] = NoReclaim]
           ELSE /\ pc' = [pc EXCEPT ![t] = "reclaimed"]
                /\ UNCHANGED <<freeCapacity, rc>>
        /\ UNCHANGED <<pools, reserved, aborted, queueVars, held, asks, arb, stats>>

\* findCandidateWithLargestCapacity: the candidates it may find; the requestor
\* counts with what it asks for and is preferred to others of its size.
LargestCapacity(t) ==
    LET size(q) == capacity[q] + (IF q = PoolOf[t] THEN arb[t].size ELSE 0)
    IN  {q \in arb[t].pools : \A r \in arb[t].pools : size(r) <= size(q)}

\* Mutant: the arbitration is retried as long as there is a victim.
HandleOOMAgain(t) ==
    LET largest == LargestCapacity(t)
    IN  /\ pc[t] = "oom"
        /\ IF PoolOf[t] \in largest
           THEN /\ pc' = [pc EXCEPT ![t] = "finish"]
                /\ UNCHANGED <<reserved, aborted, arb, rc>>
           ELSE \E q \in largest :
                /\ StartAbort(t, q, 0)
                /\ rc' = [rc EXCEPT ![t] = [NoReclaim EXCEPT !.pool = q, !.old = capacity[q],
                                  !.left = IF q \in aborted THEN {} ELSE Members(q), !.caller = "oom"]]
                /\ UNCHANGED arb
        /\ UNCHANGED <<pools, capacity, freeCapacity, queueVars, held, asks, stats>>

\* handleOOM
HandleOOM(t) ==
    LET largest == LargestCapacity(t)
    IN  /\ pc[t] = "oom"
        /\ IF PoolOf[t] \in largest
           THEN /\ pc' = [pc EXCEPT ![t] = "finish"]
                /\ UNCHANGED <<reserved, aborted, arb, rc>>
           ELSE \E q \in largest :
                /\ StartAbort(t, q, 0)
                /\ rc' = [rc EXCEPT ![t] = [NoReclaim EXCEPT !.pool = q, !.old = capacity[q],
                                  !.left = IF q \in aborted THEN {} ELSE Members(q), !.caller = "oom"]]
                /\ arb' = [arb EXCEPT ![t].retried = TRUE]
        /\ UNCHANGED <<pools, capacity, freeCapacity, queueVars, held, asks, stats>>

\* The catch clause of reclaim: whatever the reclaimer throws aborts the pool.
ReclaimFails(t, back) ==
    LET q == rc[t].pool
    IN  /\ StartAbort(t, q, back)
        /\ rc' = [rc EXCEPT ![t] = [@ EXCEPT !.task = NoTask, !.left = IF q \in aborted THEN {} ELSE Members(q)]]
        /\ UNCHANGED <<pools, capacity, freeCapacity, queueVars, held, asks, arb, stats>>

\* Takes what is free in the pool before or after a spill; what is still
\* wanted then goes to the remaining tasks.
ShrinkTowards(t, left) ==
    LET q == rc[t].pool
        freed == Shrunk(q, rc[t].want)
    IN  /\ capacity' = [capacity EXCEPT ![q] = @ - freed]
        /\ rc' = [rc EXCEPT ![t] = [@ EXCEPT !.want = rc[t].want - freed, !.left = left, !.task = NoTask]]
        /\ pc' = [pc EXCEPT ![t] = IF freed < rc[t].want THEN "task" ELSE "reclaimed"]

\* The first shrink of reclaim.
ReclaimShrink(t) ==
    /\ pc[t] = "shrink"
    /\ ShrinkTowards(t, Members(rc[t].pool))
    /\ UNCHANGED <<pools, reserved, aborted, freeCapacity, queueVars, held, asks, arb, stats>>

\* Task::MemoryReclaimer::reclaim waits until the task is paused: a task in
\* the middle of a reservation is not.
Pausable(u) == pc[u] = "idle" \/ Suspended(u)

ReclaimTask(t) ==
    LET q == rc[t].pool
    IN  /\ pc[t] = "task" /\ rc[t].left # {}
        /\ \E u \in rc[t].left :
            \/ /\ pc[u] = "closed" \/ (Pausable(u) /\ q \in aborted)
               /\ rc' = [rc EXCEPT ![t].left = @ \ {u}]
               /\ UNCHANGED <<capacity, reserved, pc>>
            \/ /\ Pausable(u) /\ q \notin aborted
               /\ \/ u \notin Spillable \/ FreeBytes(q) >= rc[t].want
               /\ ShrinkTowards(t, rc[t].left \ {u})
               /\ UNCHANGED reserved
            \/ /\ Pausable(u) /\ q \notin aborted /\ u \in Spillable /\ FreeBytes(q) < rc[t].want
               /\ capacity' = [capacity EXCEPT ![q] = @ - FreeBytes(q)]
               /\ rc' = [rc EXCEPT ![t] = [@ EXCEPT !.want = rc[t].want - FreeBytes(q), !.task = u]]
               /\ reserved' = [reserved EXCEPT ![q] = @ + SpillNeed]
               /\ pc' = [pc EXCEPT ![t] = "spill"]
        /\ UNCHANGED <<pools, aborted, freeCapacity, queueVars, held, asks, arb, stats>>

\* The task does not pause in time.
PauseTimesOut(t) ==
    /\ pc[t] = "task" /\ \E u \in rc[t].left : pc[u] # "closed" /\ ~Pausable(u)
    /\ ReclaimFails(t, 0)

\* Operator::reclaim: the spill may free only part of the task's memory.
Spill(t) ==
    LET u == rc[t].task
    IN  /\ pc[t] = "spill"
        /\ \E n \in 0..held[u] :
            /\ held' = [held EXCEPT ![u] = @ - n]
            /\ reserved' = [reserved EXCEPT ![rc[t].pool] = @ - n - SpillNeed]
        /\ pc' = [pc EXCEPT ![t] = "spilled"]
        /\ UNCHANGED <<pools, capacity, aborted, freeCapacity, queueVars, asks, arb, rc, stats>>

SpillFails(t) == pc[t] = "spill" /\ ReclaimFails(t, SpillNeed)

\* The shrink after the operator's reclaim.
SpillShrink(t) ==
    /\ pc[t] = "spilled"
    /\ ShrinkTowards(t, rc[t].left \ {rc[t].task})
    /\ UNCHANGED <<pools, reserved, aborted, freeCapacity, queueVars, held, asks, arb, stats>>

\* The end of reclaim, and of ensureCapacity if that called it.
Reclaimed(t) ==
    LET q == rc[t].pool
        bytes == rc[t].old - capacity[q]
    IN  /\ pc[t] = "reclaimed" \/ (pc[t] = "task" /\ rc[t].left = {})
        /\ IF rc[t].caller = "ensure"
           THEN /\ freeCapacity' = freeCapacity + bytes
                /\ pc' = [pc EXCEPT ![t] = IF q \notin aborted /\ checkCapacityGrowth(q, arb[t].size)
                                         THEN "stats" ELSE "finish"]
                /\ UNCHANGED arb
           ELSE /\ arb' = [arb EXCEPT ![t].got = @ + bytes]
                /\ pc' = [pc EXCEPT ![t] = "used"]
                /\ UNCHANGED freeCapacity
        /\ rc' = [rc EXCEPT ![t] = NoReclaim]
        /\ UNCHANGED <<poolVars, queueVars, held, asks, stats>>

-----------------------------------------------------------------------------

Arbitrate(t) ==
    \/ Check(t) \/ Stats(t) \/ ShrinkCandidate(t) \/ FreeReclaimed(t)
    \/ ReclaimCandidate(t) \/ UsedReclaimed(t) \/ HandleOOM(t)
    \/ ReclaimShrink(t) \/ ReclaimTask(t) \/ PauseTimesOut(t) \/ Spill(t) \/ SpillFails(t)
    \/ SpillShrink(t) \/ AbortTask(t) \/ AbortDone(t) \/ Reclaimed(t)
    \/ FinishArbitration(t)

\* All queries are over.
Done == (\A p \in Pools : pools[p] = "dropped") /\ UNCHANGED vars

Next ==
    \/ \E p \in Pools : AddRootPool(p) \/ DropPool(p)
    \/ \E t \in Tasks : Ask(t) \/ Retry(t) \/ Release(t) \/ Close(t) \/ StartArbitration(t) \/ Arbitrate(t)
    \/ Done

Spec == Init /\ [][Next]_vars

\* A thread that is inside a reservation or fails runs on; how long it waits
\* is up to the arbitrator.  Tasks need not reserve, release or end.  Between
\* the grant of an arbitration and the reservation it was for, the next
\* arbitration may take the capacity away again, and two tasks of a query can
\* do that to each other for ever; the strong fairness says that one of them is
\* quick enough in the end.
FairSpec ==
    /\ Spec
    /\ \A t \in Tasks : WF_vars(Retry(t) \/ StartArbitration(t) \/ Arbitrate(t)
                                \/ (pc[t] = "closing" /\ Close(t)))
    /\ \A t \in Tasks : SF_vars(Retry(t) /\ pc'[t] = "idle")

-----------------------------------------------------------------------------
(* Properties *)

\* Bytes that are taken off a pool or off the arbitrator and not yet given to
\* anybody.
InTransit(t) ==
    arb[t].hand + arb[t].got
    + (IF pc[t] \in Reclaiming THEN rc[t].old - capacity[rc[t].pool] ELSE 0)

\* No path of an arbitration, the failing ones included, loses or invents
\* capacity: what is free, what the pools have and what is on its way add up
\* to the capacity of the arbitrator, which its destructor checks
\* (SharedArbitrator.cpp:150-164, 343-348).
CapacityConserved ==
    freeCapacity + FoldFunction(+, 0, capacity) + FoldFunction(+, 0, [t \in Tasks |-> InTransit(t)])
        = Capacity

\* Arbitrations are serialized and handed over without a gap: running_ says
\* whether one runs, and the promises are those of the tasks that wait, each
\* of which is waiting once and for a running arbitration (startArbitration
\* checks that nobody waits when none runs).
Serialized ==
    /\ running <=> \E t \in Tasks : pc[t] \in Arbitrating
    /\ \A t, u \in Tasks : pc[t] \in Arbitrating /\ pc[u] \in Arbitrating => t = u
    /\ IsInjective(waitPromises) /\ Range(waitPromises) = {t \in Tasks : pc[t] = "wait"}
    /\ waitPromises # <<>> => running

\* A pool overuses its capacity only while one of its tasks spills for the
\* arbitrator, whatever the other tasks reserve at the same time; freeBytes
\* and the unsigned difference in shrink rely on it (MemoryPool.cpp:935, 1000).
OveruseOnlyInSpill ==
    \A p \in Pools : (\E t \in Tasks : pc[t] = "spill" /\ rc[t].pool = p) \/ reserved[p] <= capacity[p]

\* Nothing grows a pool beyond its maximum, although the growth is computed
\* from a capacity that may be stale when grow is called: grow is noexcept
\* and checks it (MemoryPool.cpp:1017).
WithinMax == \A p \in Pools : capacity[p] <= MaxCapacity[p]

\* The checks of arbitrateMemory and growCapacity: the goal covers the request
\* and what is in hand stays below it (SharedArbitrator.cpp:341, 359), and the
\* requestor is not aborted when a round begins or a victim is looked for
\* (SharedArbitrator.cpp:251, 331).
ArbitrationChecks ==
    \A t \in Tasks :
        /\ pc[t] \in {"free", "used"} => arb[t].size <= arb[t].goal /\ arb[t].hand < arb[t].goal
        /\ pc[t] \in {"stats", "free", "oom"} => PoolOf[t] \notin aborted

\* When an arbitration succeeds the pool has room for the request at that
\* moment, although its own unused capacity was taken in the course of it and
\* its other tasks went on reserving.
GrantFits ==
    [][\A t \in Tasks : arb'[t].granted /\ ~arb[t].granted =>
        capacity'[PoolOf[t]] - reserved'[PoolOf[t]] >= arb[t].size]_vars

\* An aborted pool gives capacity back and never gets any: neither a request
\* that was queued before the abort nor the running one may grow it.
AbortedNeverGrows ==
    [][\A p \in aborted : capacity'[p] <= capacity[p]]_vars

\* Every task that asks the arbitrator gets its memory or an error, however
\* many others come after it and are served first: since the tasks make
\* finitely many requests, in the end nobody is left inside one.
RequestsAnswered == <>[](\A t \in Tasks : pc[t] \in {"idle", "closed"})
=============================================================================
