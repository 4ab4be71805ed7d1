# CactusDB execution engine: TLA+ models and proofs

CactusDB is a fork of the Velox execution engine (`velox/exec`, `velox/core`,
`velox/common`) with machine-learning functions (`velox/ml_functions`), a query
optimizer that rewrites plans around them (`velox/optimizer`) and a cost model
(`velox/cost_model`). This directory keeps TLA+ models of the parts of the
engine whose correctness is a matter of concurrency and protocol, the TLC
configurations that check them, and TLAPS proofs of the central results.

Contents: 1 inventory of the system, 2 modules, 3 runs, 4 disagreements found,
5 proofs, 6 what is not modelled, 7 plan.

## 1. Inventory

### Task and Driver life cycle (`exec/Task.cpp`, `exec/Driver.cpp`) - modelled

*State.* A `Task` has a state (`kRunning`, then one terminal state), an
`exception_`, the requests `terminateRequested_`, `pauseRequested_`, `toYield_`,
the counters `numThreads_`, `numRunningDrivers_`, `numFinishedDrivers_`,
`numTotalDrivers_`, the vector `drivers_`, and promises for the end of a pause.
Each `Driver` has a `ThreadState` (`isOnThread`, `isEnqueued`, `isTerminated`,
`hasBlockingFuture`, `isSuspended`) and `closed_`.

*Operations.* `start`; `enqueue`, `enter`, `leave`, `enterSuspended`,
`leaveSuspended`, `shouldStop`; `Driver::run`, `close`, `closeByTask`,
`BlockingState::setResume` and its callback; `removeDriver`, `setError`,
`terminate`, `requestPause`, `resume`, `setAllOutputConsumed`; and
`Task::MemoryReclaimer::reclaim` and `abort`, called by the memory arbitrator.

*What is hard.* Executor threads, future callbacks, clients and the arbitrator
work on the same drivers. One mutex protects each critical section, but almost
every operation is several of them: `setError` marks the error and terminates
later; `terminate` takes drivers and closes them after the unlock; `Driver::run`
leaves the task, tests `shouldStop`, and then arms a future or enqueues itself.

*Correct if* reclaim never meets a running driver and what an abort has released is
not run again; no driver is lost;
each is closed and counted once; a terminated task gets rid of all its drivers;
a pause is always granted.

### Output buffer (`exec/OutputBuffer.cpp`) - modelled

*State.* Per destination a queue of pages, a sequence number and the callback
of a waiting fetch; `dataToBroadcast_`, `arbitraryBuffer_`, `bufferedBytes_`
with `maxSize_` and `continueSize_`, promises of blocked producers, the count
of finished drivers.

*Operations.* `enqueue`, `noMoreData`, `updateNumDrivers`, `noMoreDrivers`,
`updateOutputBuffers`, `getData`, `acknowledge`, `deleteResults`.

*What is hard.* Fetches time out while their callback stays registered,
acknowledgements are late or lost, destinations come late or give up early, and
pages are freed after the unlock although reference counts are read under it.

*Correct if* every consumer gets exactly its pages and then the end; no waiting
fetch and no blocked producer is forgotten; the byte count is right; the task
learns that its output is consumed.

### Splits and grouped execution (`exec/Task.cpp`) - modelled

*State.* Per leaf node a store of queued splits and of promises for each split
group, the end of each, the largest sequence id; the groups seen, queued and
running, the slots of `drivers_`; the exchange clients.

*Operations.* `start` with its three critical sections, `addSplit`,
`addSplitWithSequence`, `setMaxSplitSequenceId`, `noMoreSplitsForGroup`,
`noMoreSplits`, `getSplitOrFuture`, `removeDriver`, `terminate`.

*What is hard.* Clients call before, during and after start; drivers go to sleep
on promises; the first split of a group starts drivers; the number of drivers
the task waits for is revised when the last node is ended.

*Correct if* each split is read once, nobody sleeps on a split, the task ends
with everything read, and remote splits reach the exchange client in any case.

### Exchange (`exec/Exchange*.cpp`) - modelled

*State.* The queue of pages with the promises of waiting drivers; sources, their
requests, and the lists of producing and empty sources; the remote splits.

*What is hard.* Several drivers share a queue that wakes by its newest promise;
requests time out while their answers are on the way; remote tasks are announced
twice or late; a source fails; a driver stops early.

*Correct if* each page is delivered once and in order, no source is forgotten,
no driver sleeps beside data, and the end comes after all pages and to all.

### Hash join (`exec/HashBuild.cpp`, `HashProbe.cpp`, `HashJoinBridge.cpp`, `SpillOperatorGroup.cpp`) - modelled

*State.* The builders' rows and spillers, the spill group, the barrier of the
task, the bridge with its table, its spilled partitions and shards, the probers.

*What is hard.* The builders spill together, decided by one of them or by the
arbitrator; partitions are restored and spilled again; the two pipelines use
one barrier, table after table.

*Correct if* the result is that of a join in memory, the checks of the group and
of the bridge hold, only live tables are spilled, and everybody finishes.

### Local pipelines (`exec/LocalPartition.cpp`, `MergeSource.cpp`, `Merge.cpp`) - modelled

*State.* Local exchange queues with one memory budget, merge sources with two
pages, the merge with its tree of losers, the slot of the merge join.

*What is hard.* Producers, drivers, merge and join wait for each other along and
across the queues; consumers stop early with pages in their queue.

*Correct if* the budget is exact, the buffers keep to their limits, nobody sleeps in vain, rows come
once and sorted, and all drivers finish.

### Memory arbitration (`exec/SharedArbitrator.cpp`, `common/memory/`) - modelled

*State.* Capacity and reservation of each root pool, free capacity, the running
arbitration and the queue of waiting ones, the statistics an arbitration took.

*What is hard.* The other tasks reserve and release while an arbitration works
with statistics taken before; a spill allocates memory itself; victims are
aborted, possibly the requestor; queries come and go.

*Correct if* capacity is neither lost nor invented, pools stay within their
capacity and their maximum, a grant fits, an aborted query gets nothing, and
every request is answered.

### Parts left out

The optimizer state, the search driver, the block helpers, the rewrite rules, the
machine-learning functions, the cost model, and the rest of Velox that has no
protocol of its own: vectors, expressions, file formats, connectors. Section 6
says why.

## 2. Modules

| Module | Content |
|---|---|
| `TaskContract` | abstract specification: what a task promises about its drivers |
| `TaskDriver` | the life cycle of the drivers of one task |
| `OutputBuffer` | the output buffer and the consumers it serves |
| `Splits` | the splits of a task, split groups and their drivers |
| `Exchange` | exchange queue, client and sources, and the operators that share them |
| `HashJoin` | builders, spill group, bridge and probers of a hash join |
| `LocalPipeline` | local exchange, local merge and merge join source of one task |
| `Arbitrator` | the memory arbitrator and the root pools |
| `MCTaskDriver`, `MCOutputBuffer`, `MCSplits`, `MCExchange`, `MCHashJoin`, `MCLocalPipeline`, `MCArbitrator` | instances for TLC |
| `TaskDriverProofs` | `TaskDriver`: what single steps do and keep (owners, pause, closing, the contract), its inductive invariant and what follows from it |
| `OutputBufferSteps` | `OutputBuffer`: the parts of its invariant, sequences of items, what enqueueing, loading and fetching do to one destination |
| `OutputBufferContent`, `OutputBufferBytes` | what each step does to the contents, and to everything else |
| `OutputBufferProofs` | the inductive invariant of `OutputBuffer` and the theorems |
| `ArbitratorProofs` | `Arbitrator`: sums over finite sets, the inductive invariant; queue, limits, grants, aborted pools, the conservation of capacity |
| `ExchangeProofs` | `Exchange`: types, pages once and in order, nobody asleep beside data, no source forgotten, the end after all pages |
| `SplitsProofs` | `Splits`: stores and sequences, remote splits reach the exchange client, no driver sleeps on a split |

### TaskDriver

One action is one critical section of `Task::mutex_`, or one step that the code
takes outside of it. Variables carry the names of the members they model.
`pc[t]` is where executor thread `t` is in `Driver::run`; on the points of
`OnThread` the thread is counted in `numThreads_`. `cur[t]` is its driver and
`stop[t]` the reason it left the loop for. `jobs[d]` counts the executor's
queued jobs for a driver and `armed[d]` the futures whose callback `setResume`
has installed. `toClose[a]` holds the drivers that actor `a` took from
`drivers_` in `terminate` or `resume` and has still to close. `startPc`,
`clientDue` and `reclaimPc` are the positions of the callers of the task.
`finishPromise` is the promise that the reclaimer has left in
`threadFinishPromises_`, for a pause or for the end of the task; `visit[d]` is how
far a memory abort has come with the operators of driver `d`.

| Actions | Code |
|---|---|
| `StartFactories`, `CreateAndStartDrivers`, `StartAfterTerminate`, `StartFails` | `Task::start` |
| `EnterClosed`, `EnterRefused`, `EnterYield`, `EnterRun` | `Driver::run` up to the result of `Task::enter` |
| `RunStop`, `RunBlock`, `RunCpuSlice`, `RunAtEnd`, `RunThrow` | the ways out of the loop of `Driver::runInternal` |
| `EnterSuspended`, `LeaveSuspended` | `Task::enterSuspended`, `leaveSuspended` |
| `GuardThrown`, `CloseOperators`, `RemoveDriver`, `FinishTask`, `Fail`, `Cancelled` | `~CancelGuard`, `Driver::close`, `Task::removeDriver`, `setError`, `terminate` |
| `Leave`, `LeaveTerminated`, `Unwind` | `Task::leave` |
| `CheckBlocked`, `SetResume`, `EnqueueYielded`, `Realize`, `RealizeError` | the end of `Driver::run`, `BlockingState::setResume`, its callback |
| `RequestTerminate`, `RequestYield`, `SetAllOutputConsumed`, `ClientTerminate` | clients |
| `RequestPause` ... `ReclaimReturns` | `Task::MemoryReclaimer::reclaim` and `Task::resume` |
| `RequestAbort`, `AbortSetError`, `AbortTerminate` | `Task::MemoryReclaimer::abort`: `setError` |
| `TaskCompletionFuture`, `CompletionDone`, `CompletionTimeout` | its wait for the end of the task |
| `AbortCheck`, `AbortOperator`, `AbortDone` | `MemoryReclaimer::abort` over the drivers' operators, `Operator::MemoryReclaimer::abort` |

The data flow through operators is abstracted to what it can do to the life
cycle: block, use up a time slice, reach the end, throw, suspend. A `VELOX_CHECK`
that fails is modelled by what the code does then (the future is dropped, the
enqueue is skipped, `resume` stops at the driver, the abort ends), so that the runs
see what follows from it.

The wait of an abort has two forms (`Task.cpp:2067`). When the task is no longer
`kRunning`, which it is not after the abort's own `setError`, the abort waits
without limit for the last thread to leave. When another caller has recorded its
error but has still to terminate the task, the abort waits for that termination,
and goes on after 60 s whether or not it has come (`CompletionTimeout`). The two
checks and the release of a driver's operators are separate steps, since nothing
keeps the driver's thread from moving in between.
A query whose pool is aborted is not aborted again; the model lets abort and reclaim
come again, which only adds behaviours.

### OutputBuffer

One action is one critical section of `OutputBuffer::mutex_`. What a call does
after the unlock (freeing pages, waking producers, telling the task) is a
`Release` step, because other calls come in between. A page is its number;
pages of one size. The consumer of a destination is modelled as an
`ExchangeSource` uses the buffer: one fetch at a time for the pages after the
ones it has, which may time out, an acknowledgement for each response, a delete
at the end or, for the kinds in `EarlyDelete`, before it. Acknowledgements
arrive in any order, late, or not at all. The calls of one destination are
serialised against each other (`pending[d] = Idle`); calls of different
destinations interleave freely.

### Splits

One action is one critical section of `Task::mutex_`, with the promises that are
fulfilled right after it. `start` is where `Task::start` is; `at[d]` where driver
`d` is; `stores`, `nodeEnd`, `maxSequenceId` are the `SplitsState` of each node,
`seen`, `queued`, `running`, `completed` the groups, `left` the drivers left in
each. A driver is the source operator of its pipeline: it asks for a split, reads
it, or sleeps. A driver that is enqueued or woken asks in the same step, since
nothing is seen of it before. Drivers of an exchange hand what they get to the
exchange client (`handed`); the client itself is the subject of `Exchange`.

What the client does is part of the plan. A *careful* client makes no call while
`start` is under way, announces no end before it, ends a group that has splits
only after the first of them, and ends all groups at a node before the node itself.
The code needs each of these rules (section 4); other clients are in the run too,
and the properties that hold with any client are not restricted.

### Exchange

One action is one critical section of the queue's or the task's mutex; the
promises it realizes after the unlock are in `waking` until a `Wake` step. A
promise whose future nobody waits on any more stays in its vector as "stale".
The source is `LocalExchangeSource`, the one in the repository; the upstream
buffer is a list of pages. `MaxFaults` bounds timeouts, failed requests and
early ends together.

### HashJoin

An action is what one thread does in one critical section of the bridge, the
group or the task, and up to the next one. A row stands for a batch;
`Hash[key]` is its partition at each spill level. Spill files are sequences of rows,
tables the sets of rows they hold.

### LocalPipeline

Producers end in `LocalPartition`, drivers in between are `LocalExchange`,
`Limit` and `OrderBy`, then come `LocalMerge` and the right side of a
`MergeJoin`, which may stop early. Every queue has its own lock; promises are
realized in the action that takes them out, since only the sleeping driver sees
the difference. A row counts for one byte.

### Arbitrator

An action is one critical section of the arbitrator or of a pool and what its
thread does up to the next one. `pc[t]` is where the thread of task `t` is in
`growCapacity`, `arb[t]`, `stats[t]` and `rc[t]` are its local variables. Only the
reservation of the root pool is kept; each task has one thread. The statistics of
the candidates are taken in one step; the tasks of a pool are reclaimed in any
order. What a spill allocates (`SpillNeed`) it gives back when it ends. What
`reclaim` and `abort` rely on in a task is what `TaskContract` promises.
Differences of unsigned numbers are taken modulo `Word`.

## 3. Runs

| Run | Instance | Shows |
|---|---|---|
| `task_core` | 2 drivers, 2 threads, reclaim with timeout, `FairSpec` | `ReclaimExclusive`, `AbortExclusive` (also after a wait that timed out), `NoLostDriver`, `DriverAccounting`, `SingleCloser`, refinement of `TaskContract`; `TerminationCompletes`: a terminated task closes all drivers; `ReclaimReturnsEventually` |
| `task_races` | 1 driver, 3 threads, partitioned output, yields, time slices, timeout, 2 pending futures | `SingleCloser` and `FinishedWhenDone` survive the races of section 4 |
| `output_core` | 3 kinds, 2 destinations (one late unless partitioned), 2 producers, 2 pages | `NothingLostOrRepeated`, `EndAfterAllPages`, `NobodyForgotten` (waiting fetches, blocked producers), `BytesCounted` |
| `output_live` | partitioned and arbitrary, 1 producer, 2 pages, `FairSpec` | `OutputIsConsumed` although acknowledgements get lost; `DeleteUnblocksProducers` for partitioned output |
| `exchange` | 2 sources, one announced twice, 2 consumers, one of which may quit, 3 pages, one fault | `NothingLostOrRepeated`, `SourceNotForgotten`, `NobodySleepsOnData`, `EndAfterAllPages`, `AllConsumersFinish` |
| `hash_join` | 3 builders, 2 probers, 5 joins, 2 partitions, spill levels 0 and 1 | `JoinResult`, `ChecksHold` of group, bridge and barrier, `SpillsLiveTable`, `AllFinish` |
| `local_pipeline` | 2 producers, 4 plans with 2 or 3 queues | `BuffersBounded` (the budget is exact and exceeded by less than a batch per producer, no page meets a full merge source), `NoSleepInVain`, `JoinInputSorted` (rows once and in order), `AllFinish` |
| `arbitration` | 2 queries, 3 tasks, capacity 2 | `CapacityConserved`, `Serialized`, `OveruseOnlyInSpill` with the limits and checks, `GrantFits`, `AbortedNeverGrows`, `RequestsAnswered` |
| `splits` | 7 plans of 2 nodes, 2 groups, up to 3 splits a node | `SplitsProcessed` (each split once, everything read), `NobodySleepsOnSplits`, `CompletedGroups`, `RemoteSplitsHanded`, `TaskEnds` |
| `task_cpu_slice`, `task_yield_race`, `output_stuck` | | section 4 |

*Bounds.* `Threads`, `NumDrivers` and `MaxArmed` (futures pending per driver)
bound `TaskDriver`; its other counters are bounded by these. Two drivers are
needed for one to end the task while the other is anywhere else, two threads
for a job to be taken while the driver is still leaving, three threads on one
driver for a leaving, an entering and an arming thread at once. Output that has
still to be consumed doubles the states of a task and adds one caller of
`terminate`; it is left to `task_races`, so that the liveness properties of
`task_core` can be checked with two drivers. In
`OutputBuffer`, `MaxPages` bounds what is produced, `PageSize = 2` and
`MaxSize = 3` let a second page exceed the limit and one page stay at
`ContinueSize = 2`, so that blocking, waking and the boundary between them all
happen; two destinations let a broadcast page be shared and freed by two calls,
and `ExtraDrivers = 1` makes `updateNumDrivers` race `noMoreData`. Symmetry is
used on threads and producers in safety runs only.

In `Exchange` two consumers are needed for a promise to be left behind by one
while the other sleeps, a page of two bytes fills the queue (`MaxQueuedBytes`) so
that requests are held back, and one fault at a time is enough since each of
them ends or repeats a request. `HashJoin` has three builders so that one can
wait, one stop and one work; two spill levels so that a partition is spilled
again and a third level is reached without a spiller. `LocalPipeline` has plans
for a budget of one row, for equal keys, for an empty partition and for a
`Limit`. `Arbitrator` has two tasks in one query (who takes what was granted to
the other) and one in another (who is reclaimed or aborted); `MaxAsks` bounds
the requests, sizes of 1 and 2 make requests that fit only after a reclaim.
`Splits` has one and two concurrent groups, a group whose splits are at both
nodes, two drivers on one store, and one split sent again (`MaxResends`).

*Deadlock.* `TaskDriver` never stops: memory reclaim can always come again.
`OutputBuffer`, `Exchange`, `HashJoin`, `LocalPipeline` and `Splits` stop when the
work is done, so their runs do not check deadlock; their liveness properties say
what has happened by then. `Arbitrator` stops only when all queries are over
(`Done`), and its run checks that.

*Fairness.* `TaskDriver`: operators return to the test of `shouldStop` (they
are required to), suspended sections end, queued jobs get a thread, whoever
called `terminate`, `setError`, `reclaim` or `abort` runs on (but no wait need
ever time out, so that `ReclaimReturnsEventually` says that pauses are granted and
that the end of the task, which an abort waits for, comes). Each is weak fairness of a
thread that holds no lock while it waits. Nothing makes a driver finish or a
future come true. `OutputBuffer`: producers that are not blocked run, calls
return, the coordinator announces the last destination, consumers fetch until
the end and then delete. `Receive` is strongly fair: a consumer that repeats
its fetch sooner or later gets an answer before the timeout. No acknowledgement
need ever arrive. `Exchange`, `HashJoin` and `Splits`: as long as a thread, a
source or the client can take a step other than a fault, a reclaim or a cancel,
such a step is taken in the end (`Progress`). `LocalPipeline`: each driver that can run
does. `Arbitrator`: each task inside a request goes on, and a task that is again
and again in a position to reserve what it was granted does so at last (strong
fairness of the successful `Retry`): two tasks of one query could otherwise take
each other's grants for ever (`MemoryPool.cpp:784-797`) while a third waits in
the queue, which is served from its end (`SharedArbitrator.cpp:627`).

Every property of a passing run has a mutant, an operator (marked `Bug:` or
`Mutant:`) before the definition it replaces, under which TLC finds the property violated.

## 4. Disagreements between the code and what it says of itself

* `task_cpu_slice` - a driver whose cpu time slice is used up creates a
  `BlockingState`, which sets `hasBlockingFuture`, and then yields; there is no
  future. If a pause keeps it from entering again, `resume` skips it ("The
  Driver gets enqueued by the promise realization") and nobody runs it.
* `task_yield_race` - `Driver::run` enqueues a yielding driver without the
  task's mutex. A pause and a resume after `Task::leave` enqueue it first, and
  the check in `enqueueInternal` fails.
* `output_stuck` - two calls that free the same broadcast page before either
  has cleared its vector both see it shared; neither subtracts it from
  `bufferedBytes_`, and a producer stays blocked on an empty buffer. For this
  reason `BytesCounted` claims equality only for the other kinds.

Seen while modelling, and excluded by the properties as stated or by what the
models assume of clients:

* `shouldStop` is tested, then `setResume` is called (`Driver.cpp:777`). A
  `terminate` in between marks the driver on-thread and the check in `setResume`
  fails; `terminate` closes the driver.
* The check in `Operator::MemoryReclaimer::abort` (`Operator.cpp:638`) requires
  the operator's driver to be off thread, suspended or terminated. It can fail: for
  any driver after a wait that timed out, and for the driver that finished the
  task itself, which is none of these until it leaves. The exception ends the abort
  before the operators of the other drivers are released (`AbortCheck`);
  `AbortExclusive` is about what has been released by then.
* `HashBuild::reclaim` tests its own `spiller_`, then calls
  `nonReclaimableState` of its peers (`HashBuild.cpp:1117`), which dereferences
  theirs (`HashBuild.cpp:1183`). TLC reaches states in which one builder has
  already been set up for a partition of a level without spiller and a peer has not.
* `noMoreSplits` (`Task.cpp:1297`) assigns the promises of each store to one
  vector, and destroys those of all stores but the last: the task fails.
* The first split of a group that arrives while `start` is under way is lost with
  its group (no exchange clients yet, `Task.cpp:2555`), or indexes `drivers_`
  before it has slots (`Task.cpp:1119`).
* `noMoreSplits` of all nodes before `start` finishes a grouped task at once
  (`Task.cpp:1337`: no drivers are planned yet), whatever splits it has, although
  `Task.cpp:770` provides for splits "added before the task start".
* `noMoreSplitsForGroup` marks a group complete that gets splits at another node
  later (`Task.cpp:1268`); the end of a node does not end the store of a group
  that is created afterwards, whose drivers wait for ever.
* An exchange client that `start` creates after `terminate` has swapped
  `exchangeClients_` is never closed.
* `ExchangeQueue::close` does not set `atEnd_`: consumers that ask after another
  one has closed the client wait until the task ends them.
* A timeout of `LocalExchangeSource` that overlaps the processing of a result can
  make the client drop the source.
* A `Limit` between local exchange and sort that leaves pages in its queue, and
  whose driver has more sorted pages than its merge source takes, can block all
  pipelines of the task (`Fits` in `LocalPipeline`).
* The victim of an abort is chosen when the requestor's needs may already be met
  by what others have released since (`SharedArbitrator.cpp:252`).

Also allowed by the properties: `resume` after a
timed-out pause stops at the first driver that is still on a thread, and later
drivers are not enqueued (the task is aborted next, hence the `~abortDue` in
`NoLostDriver`); a task may end as `kFinished` with `exception_` set, when the
last driver finishes between the two critical sections of `setError`; deletes
of arbitrary output leave pages in the shared buffer and producers blocked
(hence `EarlyDelete = {"kPartitioned"}` in `output_live`).

## 5. Proofs

All theorems hold for every value of the constants that satisfies the named
assumptions of the models, which TLC evaluates on each run.

### TaskDriver

For every number of drivers and threads, every `MaxArmed`, with yields, time
slices, timeouts and partitioned output on or off. Assumptions: threads are
finite in number and distinct from the client and the reclaimer, there is at
least one driver, output drivers are drivers, the switches are Booleans.

| Theorem | States |
|---|---|
| `Inductive` | `Spec => []IInv` |
| `TypeCorrect` | `Spec => []TypeOK` |
| `ThreadsCounted` | `Spec => []ThreadCount` |
| `ReclaimIsExclusive` | `Spec => []ReclaimExclusive` |
| `AbortIsExclusive` | `Spec => []AbortExclusive` |
| `DriversAccounted` | `Spec => []DriverAccounting` |
| `TaskImplementsContract` | `Spec => ImplementsContract` |
| `ClosedByOne` | `Spec => []SingleCloser` |
| `FinishedIsDone` | `Spec => []FinishedWhenDone` |
| `NoDriverLost` | `~CpuSlice => (Spec => []NoLostDriver)` |

`ReclaimExclusive` is not inductive: that no driver runs when the pause is
granted rests on `numThreads_` being exact, and on every driver marked on-thread
having a thread. `IInv` is the conjunction of

* `TypeOK` and `ThreadCount`;
* `OwnerInv`: a thread inside the task owns a driver that is on-thread, and
  suspended exactly when the thread is; no two threads own one driver; an
  on-thread driver that is not terminated has an owner; so has a suspended one.
  (`terminate` and `resume` mark drivers on-thread without a thread, but these
  are terminated, which is why the third part is restricted);
* `PauseInv`: `pauseRequested_` holds from `requestPause` to `resume`, and once
  the pause is granted every driver is off thread, suspended or terminated;
* `TerminateInv`: the flag agrees with the state, every remaining driver
  of a terminated task has been told or is off thread, and an abort has released
  operators only if the task is terminated;
* `CountInv`: the counters before, during and after `start`.

*Argument.* `StayOrCross` shows that only `enter`, `leave` and the two ends of a
suspended section move a thread across the task's boundary; each of these adds
or removes one thread (`ThreadCountStep`) and moves one driver's ownership
(`OwnerStep`). When the count is zero, ownership implies that no driver runs
(`NobodyInside`); while the task is paused or terminated a driver that does not
run does not start to (`StaysQuiescent`), because `enter` refuses and
`leaveSuspended` waits or marks it terminated. `Books` shows that few steps
write the counters, and each takes a set of drivers off `drivers_` and counts
exactly that set (`CountTaken`).

The refinement maps a driver to `closed`, `draining`, `running` or `parked` from
its flags, and the hold of the task to the reclaimer's position. `Visible`
lists the steps the contract sees; each is one of its steps (`CrossSeen`,
`CloseSeen`, `TerminationSeen`, `StepSeen`).

`SingleCloser` needs `CloseInv`: a driver that `terminate` or `resume` has taken
belongs to that call alone (`TakenInv`); the thread of a driver closes it first
and takes it off `drivers_` next (`StageInv`); a driver that is off `drivers_` is
closed, or somebody is about to close it (`GoneInv`). `HandingOrNot` separates
the steps that open, close or remove a driver from those that at most hand a set
of off-thread drivers to one actor. `AbortExclusive` needs `CloseInv` as well: the
abort visits the drivers of a task that may still run (`AbortVisits`), and a driver
that has left `drivers_` is on a thread untold only after it has closed its
operators (`StageInv`). `FinishInv` adds what `removeDriver` and
`setAllOutputConsumed` know between their decision and `terminate`: the output
drivers are closed, and a closed driver stays so.

`NoLostDriver` needs `LiveInv`: as long as nothing has gone wrong, `isEnqueued`
means a queued job, `hasBlockingFuture` means that a thread or the callback of a
future has it, and every driver has a way back (`WayBack`), for a paused task the
next `resume`. `CpuSlice` is excluded since the property is false with it
(section 4), and `LiveInv` shows why: there `hasBlockingFuture` is set without a
future.

### OutputBuffer

For all three kinds of output, any number of destinations, producers, extra
drivers and pages, any page size, limit and number of pages per fetch
(`KindsAssumption`, `SizesAssumption`; pages have one size and producers are
finite in number):

| Theorem | States |
|---|---|
| `NothingIsLostOrRepeated` | `Spec => []NothingLostOrRepeated` |
| `EndIsAfterAllPages` | `Spec => []EndAfterAllPages` |
| `NobodyIsForgotten` | `Spec => []NobodyForgotten` |
| `BytesAreCounted` | `Spec => []BytesCounted` |
| `TypesAreRight` | `Spec => []TypeOK` |

The heart of `IInv` is `Sent(d)`, everything that was ever put into the buffer of a
destination, which neither acknowledgements nor timeouts change. It is recovered
from the first `sequence[d]` items the consumer has and what the buffer holds.
`MatchInv` says that this fits together: what was acknowledged was received, what
was received or is on its way is a start of `Sent(d)`, and `Sent(d)` is in order
with at most one end marker, at its end. Without the first part a late
acknowledgement could free a page that nobody has. `CopyInv` says which items
`Sent(d)` has for partitioned and broadcast output; `ShareInv` says it for arbitrary
output, where every page is in the shared buffer or was sent to one destination,
and all that was sent comes before what is still shared. `WaitInv` says that for
a registered fetch there is nothing, neither in its buffer nor in the shared one;
`NewInv` that a destination nobody knows yet has nothing; `DriverInv` counts the
drivers, so that the end is announced once and after all of them; `HeldInv` and
`ProducerInv` say where a producer that is held back waits; `BytesInv` relates the
counted bytes to the buffered pages; except for broadcast output, none of these
is among the pages that a call has still to free.

*Argument.* `FeedsAll` is all that enqueueing does to the destinations: the ones in a
set get one item, and those of them that wait an answer. The three kinds of
enqueue and the end are of this form (`EnqueuePartitionedFeeds`,
`EnqueueBroadcastFeeds`, `EnqueueArbitraryFeeds`, `DoneFeeds`), for arbitrary output
because a page finds the shared buffer empty whenever somebody waits
(`SomeoneWaits`, `LoadPage`, `LoadEnd`). `FeedQueue` then keeps `QueueInv` for all of
them. A fetch acknowledges, may create its destination and may take from the
shared buffer (`FetchStart`, `FetchTakes`); `MatchesAcked` shows that an
acknowledgement leaves `Sent(d)` alone. `BytesFreed` and `BytesAdded` do the
arithmetic of `bufferedBytes_` once, for all calls that free or add pages.

### Arbitrator

For every set of pools and tasks, every assignment of tasks to pools and all
capacities, sizes and limits (`ArbitratorAssumption`; `Word` exceeds what can be
allocated):

| Theorem | States |
|---|---|
| `ArbitrationsSerialized` | `Spec => []Serialized` |
| `ArbitrationSafe` | `Spec => [](WithinMax /\ OveruseOnlyInSpill /\ ArbitrationChecks)` |
| `GrantsFit` | `Spec => GrantFits` |
| `AbortedStaysSmall` | `Spec => AbortedNeverGrows` |
| `CapacityIsConserved` | `Spec => []CapacityConserved` |

`QueueInv` (types of the queue, and `Serialized`) is inductive by itself. `Inv`
adds what the running arbitration knows although the other tasks go on: `Covered`,
each pool's reservation is within its capacity up to what a running spill has
allocated; `Known`, `Reclaims` and `Grows`, what the thread relies on at each
point, in particular that the requestor can grow by the goal without exceeding
its maximum, and is not aborted. `LocalStays` is the heart of the argument: the
steps of other tasks only reserve within the capacity or release, and only the
running arbitration changes a capacity, so what the thread knows stays true.
`ShrunkFacts` shows that the unsigned difference in `shrink` does not wrap, which
rests on `Covered`.

`CapacityConserved` is about sums over pools and over tasks. `TransitInv` says
which threads have bytes in their hands; each step changes the free capacity, the
capacity of one pool and the bytes of one thread by amounts that cancel
(`Balanced`). What the sum of a function over a finite set is, and how it changes
with one value (`SumChange`), is proved from the definition of the fold, without
an induction rule: among the subsets of the set on which a claim fails there
would be a minimal one (`MinimalSubset`, from the well-foundedness of the natural numbers), and it could
be made smaller.

### Exchange

For any number of sources, consumers and pages, any list of splits with
duplicates, any sizes and any number of faults:

| Theorem | States |
|---|---|
| `PagesDeliveredOnce` | `Spec => []NothingLostOrRepeated` |
| `ConsumersWoken` | `Spec => []NobodySleepsOnData` |
| `SourcesRemembered` | `Spec => []SourceNotForgotten` |
| `EndIsComplete` | `Spec => []EndAfterAllPages` |

`Typed` is the common base. For the pages, `PagesEnqueue` and `PagesNext` count the
entries of each source in the queue when pages are appended at one end and taken
from the other (`SplitPositions`, `EntriesAppend`, `EntriesDrop`). For the sleepers
`SleepInv` relates the queue to the promises: a consumer that sleeps is being woken
or has its promise in the vector (`PromiseKept`), and when nobody is active the
queue is empty and its newest promise is that of a consumer, not a stale one
(`LastPromise`); `RealizeFacts` says what one wake-up takes from the vector.
`SourceNotForgotten` needs `RequestInv` (a pending request is unanswered, a source
at its end has no request, only sources of the client are listed) and what
`pickSourcesToRequestLocked` does to the lists (`PickFacts`, `PickKnown`): each
source it takes off a list is asked, or it was at its end. The end needs
`EndInv`: a source at its end has sent all its pages (`AllPagesSent`), the numbers
of sources and of completed ones are those of the sources the client knows and of
those at their end (`Counted`), and each split added is queued or known to the
client (`SplitsKept`); after `noMoreSources` the counts can be equal only if every
source is at its end (`AllEnded`).

### Splits

For every plan (any nodes, groups, drivers per node, numbers of splits, grouped
or not, remote or not, careful client or not):

| Theorem | States |
|---|---|
| `RemoteSplitsReachClients` | `Spec => []RemoteSplitsHanded` |
| `DriversWoken` | `Spec => []NobodySleepsOnSplits` |

`RemoteInv` says where a remote split that was sent can be: in the store of its
node, or handed to the client; and that `terminate` has emptied the stores of the
clients it has closed, into which nothing comes afterwards. `Going`, the invariant
of `DriversWoken`, says of each store that its promises are those of different
drivers of that store which block or wait, and that while there is one the store
is not at its end and has no more splits than drivers that are awake. A split that
is added adds to one side of the last inequality and the promise it fulfils to the
other (`StoreAdded`); a driver that goes to sleep has seen no split (`GetGoing`); a
driver that closes has seen the end (`CloseGoing`), so its store has no promises.
The groups that wait for a slot have no drivers yet, and drivers that
`ensureSplitGroupsAreBeingProcessedLocked` creates are awake (`QueueMoves`).

### Only model-checked

* The liveness properties: fairness and `ENABLED` are out of the prover's reach.
* `SplitsProcessed` and `CompletedGroups` of `Splits`: they need the history of
  each split through groups that wait, run and end, with the counters `left`; not
  yet attempted.
* Everything about `HashJoin` and `LocalPipeline`. The tree of losers is a
  `RECURSIVE` operator; what it computes for every input would need an induction
  rule that takes an operator as a parameter. The group and the bridge of the hash
  join are not yet attempted.
* The type invariants of all models but `TaskDriver` and `OutputBuffer`; the proofs use the parts they
  need (`Types`, `Typed`, `Base`, `AtTyped`).

## 6. Not modelled

*In `TaskDriver`:* statistics, single-threaded execution (`Task::next`), the
operators' data flow, and the effect of `terminate` on bridges and the output
buffer. *In `OutputBuffer`:* `OutputBuffer::terminate`, statistics, the manager's
table of buffers, and two calls of one destination that overlap. *In `Splits`:*
preloading beyond the order in which splits are taken, `noMoreRemoteTasks` of the
exchange clients, pauses (see `TaskDriver`). *In `Exchange`:* deserialization and
statistics. *In `HashJoin`:* filters, the other join types, dynamic filters, the
hash table and the files. *In `LocalPipeline`:* a `LocalMerge` with one source
(`Merge.cpp:120`), `MergeExchange`. *In `Arbitrator`:* pools below the root, more
than one thread or spilling operator in a task, `shrinkMemory`.

*Compositions.* The models meet at narrow interfaces: `TaskContract` for what
`Arbitrator` and `HashJoin` assume of a paused or aborted task; the fetch,
acknowledge and delete calls between `Exchange` and `OutputBuffer`; exchange
clients between `Splits` and `Exchange`. The products of these models are out of
TLC's reach at sizes where their interesting cases happen.

*Optimizer state* (`optimizer/PlanState.h`). `takeAction` is sequential; what it
promises depends on what each rule does to expression strings. Read for this
project: every rule of a call is applied to the original node, so that the plan
of a later rule replaces that of an earlier one while `transformedExprs` keeps
both, and a rule that is found invalid throws after others have been applied.

*Search driver, block helpers, rewrite rules, machine-learning functions, cost
model.* A sequential search with random roll-outs; index arithmetic; string
surgery on expressions, whose correctness is the meaning of matrix expressions;
numeric kernels; floating-point formulas. None has a protocol or concurrency of
its own.

## 7. Plan

1. `TaskDriver` with `OutputBuffer`: `setAllOutputConsumed` and `terminate`
   across the two, each reduced to what the other sees of it.
2. An abstract channel (each page once, then the end) implemented by `Exchange`
   over `OutputBuffer`.
3. `PlanState` with rules as uninterpreted rewritings of nodes.
4. Proofs: `SplitsProcessed` and `CompletedGroups` of `Splits`; `BuffersBounded` of
   `LocalPipeline`; the group and the bridge of `HashJoin`.
