----------------------------- MODULE TaskDriver -----------------------------
(***************************************************************************)
(* The life cycle of the Drivers of one Velox Task (velox/exec/Task.cpp,   *)
(* velox/exec/Driver.cpp): executor threads enter and leave the Task,      *)
(* block on futures, yield and suspend; a memory reclaimer pauses the Task,*)
(* works on the operators of its Drivers and resumes it; clients cancel    *)
(* the Task or consume its output.                                         *)
(*                                                                         *)
(* Every action is one critical section of Task::mutex_, or one step that  *)
(* the code takes outside of it.  Ungrouped execution.                     *)
(***************************************************************************)
EXTENDS Integers, FiniteSets

CONSTANTS
    Threads,              \* threads of the executor
    NumDrivers,           \* numTotalDrivers_
    OutputDrivers,        \* drivers of the output pipeline
    HasPartitionedOutput, \* the sink is a PartitionedOutput
    CpuSlice,             \* driver_cpu_time_slice_limit_ms is set
    Yields,               \* requestYield and yieldIfDue are called
    ReclaimTimeout,       \* memory reclaim waits with a timeout
    MaxArmed,             \* bound on the pending futures of a driver
    None                  \* no driver

Drivers == 1..NumDrivers
Client == "client"
Reclaimer == "reclaimer"
Actors == Threads \cup {Client, Reclaimer}

ASSUME ThreadsAssumption == IsFiniteSet(Threads) /\ {Client, Reclaimer} \cap Threads = {}
ASSUME NumDriversAssumption == NumDrivers \in Nat \ {0} /\ None \notin Drivers
ASSUME OutputDriversAssumption == OutputDrivers \subseteq Drivers /\ OutputDrivers # {}
ASSUME SwitchesAssumption ==
    /\ {HasPartitionedOutput, CpuSlice, Yields, ReclaimTimeout} \subseteq BOOLEAN
    /\ MaxArmed \in Nat \ {0}

TaskStates == {"kRunning", "kFinished", "kCanceled", "kAborted", "kFailed"}
StopReasons == {"kNone", "kTerminate", "kYield", "kPause", "kBlock", "kAtEnd", "kThrow"}

(* Where an executor thread is in Driver::run.  On OnThread points the     *)
(* thread is counted in numThreads_.                                       *)
OnThread == {"run", "leave", "fail", "guard", "close", "remove", "finish", "unwind"}
OffThread == {"idle", "cancelled", "block", "arm", "yield"}
ThreadPoints == OnThread \cup OffThread \cup {"suspended"}

(* Steps of Task::start, and of Task::MemoryReclaimer. *)
StartPoints == {"new", "factories", "started", "failed", "returned"}
ReclaimPoints ==
    {"idle", "waiting", "reclaiming", "resume", "closing",
     "fail", "completion", "finishing", "completing", "aborting"}
VisitPoints == {"no", "checked", "aborted"}

VARIABLES
    \* Task
    state, exception, terminateRequested, pauseRequested, toYield, numThreads,
    numRunningDrivers, numFinishedDrivers, numFinishedOutput, numTotalDrivers,
    attached,             \* the non-null entries of drivers_
    outputConsumed,       \* partitionedOutputConsumed_
    \* ThreadState and closed_ of each Driver
    isOnThread, isEnqueued, isTerminated, hasBlockingFuture, isSuspended, closed,
    \* the executor's queue and the futures with a callback set by setResume
    jobs, armed,
    \* the threads
    pc, cur, stop,
    toClose,              \* offThreadDrivers of terminate and resume, per actor
    \* the callers of the Task
    startPc, clientDue, reclaimPc, abortDue,
    finishPromise,        \* the reclaimer's promise in threadFinishPromises_
    visit                 \* how far an abort is with the operators of each driver

taskVars == <<state, exception, terminateRequested, numRunningDrivers,
              numFinishedDrivers, attached, isOnThread, isTerminated, toClose>>
driverVars == <<isEnqueued, hasBlockingFuture, isSuspended, closed, jobs, armed>>
threadVars == <<pc, cur, stop>>
callerVars == <<startPc, clientDue, reclaimPc, abortDue, visit>>
outputVars == <<numFinishedOutput, numTotalDrivers, outputConsumed>>
vars == <<taskVars, driverVars, threadVars, callerVars, outputVars,
          pauseRequested, toYield, numThreads, finishPromise>>

TypeOK ==
    /\ state \in TaskStates
    /\ exception \in BOOLEAN /\ terminateRequested \in BOOLEAN /\ pauseRequested \in BOOLEAN
    /\ toYield \in Nat /\ numThreads \in Nat
    /\ numRunningDrivers \in Nat /\ numFinishedDrivers \in Nat
    /\ numFinishedOutput \in Nat /\ numTotalDrivers \in Nat
    /\ attached \subseteq Drivers /\ outputConsumed \in BOOLEAN
    /\ isOnThread \in [Drivers -> BOOLEAN] /\ isEnqueued \in [Drivers -> BOOLEAN]
    /\ isTerminated \in [Drivers -> BOOLEAN] /\ hasBlockingFuture \in [Drivers -> BOOLEAN]
    /\ isSuspended \in [Drivers -> BOOLEAN] /\ closed \in [Drivers -> BOOLEAN]
    /\ jobs \in [Drivers -> Nat] /\ armed \in [Drivers -> Nat]
    /\ pc \in [Threads -> ThreadPoints]
    /\ cur \in [Threads -> Drivers \cup {None}]
    /\ stop \in [Threads -> StopReasons]
    /\ toClose \in [Actors -> SUBSET Drivers]
    /\ startPc \in StartPoints
    /\ clientDue \subseteq {"finish", "fail"}
    /\ reclaimPc \in ReclaimPoints
    /\ finishPromise \in {"none", "pending", "fulfilled"}
    /\ abortDue \in BOOLEAN
    /\ visit \in [Drivers -> VisitPoints]

Init ==
    /\ state = "kRunning"
    /\ exception = FALSE /\ terminateRequested = FALSE /\ pauseRequested = FALSE
    /\ toYield = 0 /\ numThreads = 0 /\ numRunningDrivers = 0
    /\ numFinishedDrivers = 0 /\ numFinishedOutput = 0 /\ numTotalDrivers = 0
    /\ attached = {} /\ outputConsumed = FALSE
    /\ isOnThread = [d \in Drivers |-> FALSE]
    /\ isEnqueued = [d \in Drivers |-> FALSE]
    /\ isTerminated = [d \in Drivers |-> FALSE]
    /\ hasBlockingFuture = [d \in Drivers |-> FALSE]
    /\ isSuspended = [d \in Drivers |-> FALSE]
    /\ closed = [d \in Drivers |-> FALSE]
    /\ jobs = [d \in Drivers |-> 0]
    /\ armed = [d \in Drivers |-> 0]
    /\ pc = [t \in Threads |-> "idle"]
    /\ cur = [t \in Threads |-> None]
    /\ stop = [t \in Threads |-> "kNone"]
    /\ toClose = [a \in Actors |-> {}]
    /\ startPc = "new" /\ clientDue = {} /\ reclaimPc = "idle"
    /\ finishPromise = "none" /\ abortDue = FALSE
    /\ visit = [d \in Drivers |-> "no"]
-----------------------------------------------------------------------------
(* Bug: the pause is not checked. *)
ShouldStopNoPause ==
    IF terminateRequested THEN "kTerminate" ELSE IF toYield > 0 THEN "kYield" ELSE "kNone"

(* Task::shouldStopLocked: the reason, and toYield_ after the call. *)
ShouldStop ==
    IF pauseRequested THEN "kPause"
    ELSE IF terminateRequested THEN "kTerminate"
    ELSE IF toYield > 0 THEN "kYield" ELSE "kNone"

ConsumeYield == toYield' = IF ShouldStop = "kYield" THEN toYield - 1 ELSE toYield

(* Driver::enqueue, with the VELOX_CHECK of enqueueInternal as its guard.  *)
EnqueueAll(ds) ==
    /\ isEnqueued' = [d \in Drivers |-> isEnqueued[d] \/ d \in ds]
    /\ jobs' = [d \in Drivers |-> IF d \in ds /\ ~closed[d] THEN jobs[d] + 1 ELSE jobs[d]]

(* Task::setError up to the unlock: TRUE when the caller goes on to        *)
(* terminate(kFailed).                                                     *)
FirstError == state = "kRunning" /\ ~exception

(* Bug: the consumption of the partitioned output is not waited for. *)
CheckIfFinishedUnconsumed(finished, finishedOutput, consumed) ==
    /\ state = "kRunning"
    /\ finished = numTotalDrivers \/ finishedOutput = Cardinality(OutputDrivers)

(* Task::checkIfFinishedLocked on given counts. *)
CheckIfFinished(finished, finishedOutput, consumed) ==
    /\ state = "kRunning"
    /\ \/ finished = numTotalDrivers
       \/ finishedOutput = Cardinality(OutputDrivers)
    /\ HasPartitionedOutput => consumed

(* Bug: the running drivers of a terminated task are counted down too. *)
DriverClosedAlways(ds) ==
    /\ numFinishedDrivers' = numFinishedDrivers + Cardinality(ds)
    /\ numRunningDrivers' = numRunningDrivers - Cardinality(ds)

(* Task::driverClosedLocked for each driver of ds. *)
DriverClosed(ds) ==
    /\ numFinishedDrivers' = numFinishedDrivers + Cardinality(ds)
    /\ numRunningDrivers' = IF state = "kRunning"
                            THEN numRunningDrivers - Cardinality(ds) ELSE numRunningDrivers

(* Bug: blocked drivers are left to their futures. *)
OffThreadUnblockedDrivers ==
    {d \in attached : ~isOnThread[d] /\ ~isTerminated[d] /\ ~hasBlockingFuture[d]}

(* The drivers that enterForTerminateLocked and resume take off drivers_.  *)
OffThreadDrivers == {d \in attached : ~isOnThread[d] /\ ~isTerminated[d]}

(* Task::terminate called by actor a: the first critical section, with     *)
(* enterForTerminateLocked on each driver.  The drivers it takes off       *)
(* drivers_ are then closed by a, one by one, in CloseByTask.              *)
Terminate(a, terminalState) ==
    LET offThread == IF pauseRequested THEN {} ELSE OffThreadDrivers
        told == {d \in attached : isOnThread[d] \/ isTerminated[d]} \cup offThread
    IN  IF state # "kRunning"
        THEN UNCHANGED taskVars
        ELSE /\ state' = terminalState
             /\ exception' = (exception \/ terminalState \in {"kCanceled", "kAborted"})
             /\ terminateRequested' = TRUE
             /\ numRunningDrivers' = 0
             /\ isTerminated' = [d \in Drivers |-> isTerminated[d] \/ d \in told]
             /\ isOnThread' = [d \in Drivers |-> isOnThread[d] \/ d \in offThread]
             /\ attached' = attached \ offThread
             /\ numFinishedDrivers' = numFinishedDrivers + Cardinality(offThread)
             /\ toClose' = [toClose EXCEPT ![a] = @ \cup offThread]

(* Driver::closeByTask on a driver that terminate or resume has taken.     *)
CloseByTask(a, d) ==
    /\ d \in toClose[a]
    /\ toClose' = [toClose EXCEPT ![a] = @ \ {d}]
    /\ closed' = [closed EXCEPT ![d] = TRUE]
    /\ UNCHANGED <<state, exception, terminateRequested, numRunningDrivers, numFinishedDrivers,
                   attached, isOnThread, isTerminated, isEnqueued, hasBlockingFuture,
                   isSuspended, jobs, armed, threadVars, callerVars, outputVars,
                   pauseRequested, toYield, numThreads, finishPromise>>

-----------------------------------------------------------------------------
(* Task::start *)
StartFactories ==
    /\ startPc = "new"
    /\ IF state = "kRunning"
       THEN startPc' = "factories" /\ numTotalDrivers' = NumDrivers
       ELSE startPc' = "returned" /\ UNCHANGED numTotalDrivers
    /\ UNCHANGED <<taskVars, driverVars, threadVars, clientDue, reclaimPc, abortDue, visit,
                   numFinishedOutput, outputConsumed, pauseRequested, toYield,
                   numThreads, finishPromise>>

CreateAndStartDrivers ==
    /\ startPc = "factories" /\ state = "kRunning"
    /\ startPc' = "started"
    /\ attached' = Drivers
    /\ numRunningDrivers' = NumDrivers
    /\ EnqueueAll(Drivers)
    /\ UNCHANGED <<state, exception, terminateRequested, numFinishedDrivers, isOnThread,
                   isTerminated, toClose, hasBlockingFuture, isSuspended, closed, armed,
                   threadVars, clientDue, reclaimPc, abortDue, visit, outputVars,
                   pauseRequested, toYield, numThreads, finishPromise>>

(* createAndStartDrivers throws because the task was terminated meanwhile. *)
StartAfterTerminate ==
    /\ startPc = "factories" /\ state # "kRunning"
    /\ startPc' = "failed"
    /\ numFinishedDrivers' = numTotalDrivers
    /\ UNCHANGED <<state, exception, terminateRequested, numRunningDrivers, attached,
                   isOnThread, isTerminated, toClose, driverVars, threadVars, clientDue,
                   reclaimPc, abortDue, visit, outputVars, pauseRequested, toYield, numThreads,
                   finishPromise>>

(* Creating the drivers throws while the task is running: setError.        *)
StartFails ==
    /\ startPc = "factories" /\ state = "kRunning"
    /\ startPc' = "failed"
    /\ exception' = TRUE
    /\ clientDue' = IF FirstError THEN clientDue \cup {"fail"} ELSE clientDue
    /\ UNCHANGED <<state, terminateRequested, numRunningDrivers, numFinishedDrivers, attached,
                   isOnThread, isTerminated, toClose, driverVars, threadVars, reclaimPc,
                   abortDue, visit, outputVars, pauseRequested, toYield, numThreads, finishPromise>>

-----------------------------------------------------------------------------
(* A thread goes on only after it has closed the drivers it took. *)
At(t, point) == pc[t] = point /\ toClose[t] = {}

(* A thread of the executor takes the job of driver d: Driver::run up to   *)
(* the result of Task::enter.                                              *)
TakeJob(t, d, point) ==
    /\ At(t, "idle") /\ jobs[d] > 0
    /\ jobs' = [jobs EXCEPT ![d] = @ - 1]
    /\ pc' = [pc EXCEPT ![t] = point]
    /\ cur' = [cur EXCEPT ![t] = IF point = "idle" THEN None ELSE d]

(* closed_ is tested before Task::enter; the "Cancelled" error follows.    *)
EnterClosed(t, d) ==
    /\ closed[d]
    /\ TakeJob(t, d, IF FirstError THEN "cancelled" ELSE "idle")
    /\ exception' = (exception \/ FirstError)
    /\ UNCHANGED <<state, terminateRequested, numRunningDrivers, numFinishedDrivers, attached,
                   isOnThread, isTerminated, toClose, isEnqueued, hasBlockingFuture,
                   isSuspended, closed, armed, stop, callerVars, outputVars,
                   pauseRequested, toYield, numThreads, finishPromise>>

(* enter returns kAlreadyTerminated, kAlreadyOnThread, kPause, kTerminate. *)
EnterRefused(t, d) ==
    /\ ~closed[d]
    /\ isTerminated[d] \/ isOnThread[d] \/ ShouldStop \in {"kPause", "kTerminate"}
    /\ TakeJob(t, d, "idle")
    /\ isEnqueued' = [isEnqueued EXCEPT ![d] = FALSE]
    /\ isTerminated' = [isTerminated EXCEPT
                          ![d] = @ \/ (~isOnThread[d] /\ ShouldStop = "kTerminate")]
    /\ UNCHANGED <<state, exception, terminateRequested, numRunningDrivers,
                   numFinishedDrivers, attached, isOnThread, toClose, hasBlockingFuture,
                   isSuspended, closed, armed, stop, callerVars, outputVars,
                   pauseRequested, toYield, numThreads, finishPromise>>

EnterYield(t, d) ==
    /\ ~closed[d] /\ ~isTerminated[d] /\ ~isOnThread[d] /\ ShouldStop = "kYield"
    /\ TakeJob(t, d, "yield")
    /\ ConsumeYield
    /\ isEnqueued' = [isEnqueued EXCEPT ![d] = FALSE]
    /\ UNCHANGED <<taskVars, hasBlockingFuture, isSuspended, closed, armed, stop, callerVars,
                   outputVars, pauseRequested, numThreads, finishPromise>>

EnterRun(t, d) ==
    /\ ~closed[d] /\ ~isTerminated[d] /\ ~isOnThread[d] /\ ShouldStop = "kNone"
    /\ TakeJob(t, d, "run")
    /\ isEnqueued' = [isEnqueued EXCEPT ![d] = FALSE]
    /\ isOnThread' = [isOnThread EXCEPT ![d] = TRUE]
    /\ hasBlockingFuture' = [hasBlockingFuture EXCEPT ![d] = FALSE]
    /\ numThreads' = numThreads + 1
    /\ UNCHANGED <<state, exception, terminateRequested, numRunningDrivers,
                   numFinishedDrivers, attached, isTerminated, toClose, isSuspended, closed,
                   armed, stop, callerVars, outputVars, pauseRequested, toYield,
                   finishPromise>>

(* The "Cancelled" setError of a closed driver ends the task.              *)
Cancelled(t) ==
    /\ At(t, "cancelled")
    /\ Terminate(t, "kFailed")
    /\ pc' = [pc EXCEPT ![t] = "idle"]
    /\ cur' = [cur EXCEPT ![t] = None]
    /\ UNCHANGED <<driverVars, stop, callerVars, outputVars, pauseRequested, toYield,
                   numThreads, finishPromise>>
(* Bug: closed_ is not tested. *)
CloseAlways(d, point) == "close"

(* Driver::close does nothing for a closed driver.                         *)
CloseOr(d, point) == IF closed[d] THEN point ELSE "close"

-----------------------------------------------------------------------------
(* Driver::runInternal between Task::enter and the CancelGuard.  Each step *)
(* leaves the loop with a reason; CancelGuard then calls Task::leave.      *)
ExitLoop(t, point, reason) ==
    /\ At(t, "run")
    /\ pc' = [pc EXCEPT ![t] = point]
    /\ stop' = [stop EXCEPT ![t] = reason]
    /\ UNCHANGED cur

RunStop(t) ==
    /\ ShouldStop # "kNone"
    /\ ExitLoop(t, "leave", ShouldStop)
    /\ ConsumeYield
    /\ UNCHANGED <<taskVars, driverVars, callerVars, outputVars, pauseRequested, numThreads,
                   finishPromise>>

(* An operator returns a future, or the cpu slice is used up: both create  *)
(* a BlockingState, whose constructor sets hasBlockingFuture.              *)
RunBlock(t) ==
    /\ ExitLoop(t, "leave", "kBlock")
    /\ armed[cur[t]] < MaxArmed
    /\ hasBlockingFuture' = [hasBlockingFuture EXCEPT ![cur[t]] = TRUE]
    /\ UNCHANGED <<taskVars, isEnqueued, isSuspended, closed, jobs, armed, callerVars,
                   outputVars, pauseRequested, toYield, numThreads, finishPromise>>

RunCpuSlice(t) ==
    /\ CpuSlice
    /\ ExitLoop(t, "leave", "kYield")
    /\ hasBlockingFuture' = [hasBlockingFuture EXCEPT ![cur[t]] = TRUE]
    /\ UNCHANGED <<taskVars, isEnqueued, isSuspended, closed, jobs, armed, callerVars,
                   outputVars, pauseRequested, toYield, numThreads, finishPromise>>

(* The sink is finished: Driver::close, then kAtEnd.                       *)
RunAtEnd(t) ==
    /\ At(t, "run")
    /\ ExitLoop(t, CloseOr(cur[t], "leave"), "kAtEnd")
    /\ UNCHANGED <<taskVars, driverVars, callerVars, outputVars, pauseRequested, toYield,
                   numThreads, finishPromise>>

(* An operator throws (entering a suspended section of a terminated task   *)
(* does): first critical section of setError.                              *)
RunThrow(t) ==
    /\ ExitLoop(t, IF FirstError THEN "fail" ELSE "guard", "kThrow")
    /\ exception' = (exception \/ FirstError)
    /\ UNCHANGED <<state, terminateRequested, numRunningDrivers, numFinishedDrivers, attached,
                   isOnThread, isTerminated, toClose, driverVars, callerVars, outputVars,
                   pauseRequested, toYield, numThreads, finishPromise>>

Fail(t) ==
    /\ At(t, "fail")
    /\ Terminate(t, "kFailed")
    /\ pc' = [pc EXCEPT ![t] = "guard"]
    /\ UNCHANGED <<driverVars, cur, stop, callerVars, outputVars, pauseRequested, toYield,
                   numThreads, finishPromise>>

(* Bug: allThreadsFinishedLocked is not called. *)
ThreadGoneSilently == numThreads' = numThreads - 1 /\ UNCHANGED finishPromise

(* The last thread off the task fulfils the promise of requestPause.       *)
ThreadGone ==
    /\ numThreads' = numThreads - 1
    /\ finishPromise' = IF numThreads = 1 /\ finishPromise = "pending"
                       THEN "fulfilled" ELSE finishPromise

EnterSuspended(t) ==
    /\ At(t, "run")
    /\ ~isTerminated[cur[t]] /\ ShouldStop # "kTerminate"
    /\ ConsumeYield
    /\ isSuspended' = [isSuspended EXCEPT ![cur[t]] = TRUE]
    /\ ThreadGone
    /\ pc' = [pc EXCEPT ![t] = "suspended"]
    /\ UNCHANGED <<taskVars, isEnqueued, hasBlockingFuture, closed, jobs, armed, cur, stop,
                   callerVars, outputVars, pauseRequested>>

(* Bug: the pause is not waited out. *)
MayReturnAnyway(d) == TRUE

(* leaveSuspended polls while the task is paused and not terminated.       *)
MayReturn(d) == isTerminated[d] \/ terminateRequested \/ ~pauseRequested

LeaveSuspended(t) ==
    /\ At(t, "suspended")
    /\ MayReturn(cur[t])
    /\ isTerminated' = [isTerminated EXCEPT ![cur[t]] = @ \/ terminateRequested]
    /\ isSuspended' = [isSuspended EXCEPT ![cur[t]] = FALSE]
    /\ numThreads' = numThreads + 1
    /\ pc' = [pc EXCEPT ![t] = "run"]
    /\ UNCHANGED <<state, exception, terminateRequested, numRunningDrivers,
                   numFinishedDrivers, attached, isOnThread, toClose, isEnqueued,
                   hasBlockingFuture, closed, jobs, armed, cur, stop, callerVars, outputVars,
                   pauseRequested, toYield, finishPromise>>

-----------------------------------------------------------------------------
(* ~CancelGuard after an exception. *)
GuardThrown(t) ==
    /\ At(t, "guard")
    /\ isTerminated' = [isTerminated EXCEPT ![cur[t]] = TRUE]
    /\ pc' = [pc EXCEPT ![t] = CloseOr(cur[t], "leave")]
    /\ UNCHANGED <<state, exception, terminateRequested, numRunningDrivers,
                   numFinishedDrivers, attached, isOnThread, toClose, driverVars, cur, stop,
                   callerVars, outputVars, pauseRequested, toYield, numThreads, finishPromise>>

(* Driver::close: closeOperators, then Task::removeDriver.                 *)
CloseOperators(t) ==
    /\ At(t, "close")
    /\ closed' = [closed EXCEPT ![cur[t]] = TRUE]
    /\ pc' = [pc EXCEPT ![t] = "remove"]
    /\ UNCHANGED <<taskVars, isEnqueued, hasBlockingFuture, isSuspended, jobs, armed, cur,
                   stop, callerVars, outputVars, pauseRequested, toYield, numThreads,
                   finishPromise>>

AfterClose(reason) == IF reason \in {"kAtEnd", "kThrow"} THEN "leave" ELSE "unwind"

(* removeDriver answers "all finished" for a driver it does not find.      *)
RemoveDriver(t) ==
    LET found == attached \cap {cur[t]}
    IN  /\ At(t, "remove")
        /\ attached' = attached \ found
        /\ DriverClosed(found)
        /\ numFinishedOutput' = numFinishedOutput + Cardinality(found \cap OutputDrivers)
        /\ pc' = [pc EXCEPT ![t] =
                    IF \/ found = {}
                       \/ CheckIfFinished(numFinishedDrivers', numFinishedOutput', outputConsumed)
                    THEN "finish" ELSE AfterClose(stop[t])]
        /\ UNCHANGED <<state, exception, terminateRequested, isOnThread, isTerminated, toClose,
                       driverVars, cur, stop, callerVars, numTotalDrivers, outputConsumed,
                       pauseRequested, toYield, numThreads, finishPromise>>

FinishTask(t) ==
    /\ At(t, "finish")
    /\ Terminate(t, "kFinished")
    /\ pc' = [pc EXCEPT ![t] = AfterClose(stop[t])]
    /\ UNCHANGED <<driverVars, cur, stop, callerVars, outputVars, pauseRequested, toYield,
                   numThreads, finishPromise>>
-----------------------------------------------------------------------------
(* Task::leave.  Off the thread, Driver::run goes on with the reason.      *)
AfterLeave(reason) ==
    IF reason = "kBlock" THEN "block" ELSE IF reason = "kYield" THEN "yield" ELSE "idle"

GoOffThread(t) ==
    /\ ThreadGone
    /\ isOnThread' = [isOnThread EXCEPT ![cur[t]] = FALSE]
    /\ pc' = [pc EXCEPT ![t] = AfterLeave(stop[t])]
    /\ cur' = [cur EXCEPT ![t] = IF AfterLeave(stop[t]) = "idle" THEN None ELSE @]
    /\ stop' = [stop EXCEPT ![t] = "kNone"]

LeaveReason(d) == IF isTerminated[d] THEN "kTerminate" ELSE ShouldStop

Leave(t) ==
    /\ At(t, "leave")
    /\ LeaveReason(cur[t]) # "kTerminate" \/ stop[t] = "kThrow"
    /\ isTerminated' = [isTerminated EXCEPT ![cur[t]] = LeaveReason(cur[t]) = "kTerminate"]
    /\ toYield' = IF LeaveReason(cur[t]) = "kYield" THEN toYield - 1 ELSE toYield
    /\ GoOffThread(t)
    /\ UNCHANGED <<state, exception, terminateRequested, numRunningDrivers,
                   numFinishedDrivers, attached, toClose, driverVars, callerVars, outputVars,
                   pauseRequested>>

(* leave of a terminated driver calls back to close it before going off.   *)
(* (The callback's setError finds the task terminated.)                    *)
LeaveTerminated(t) ==
    /\ At(t, "leave")
    /\ LeaveReason(cur[t]) = "kTerminate" /\ stop[t] # "kThrow"
    /\ isTerminated' = [isTerminated EXCEPT ![cur[t]] = TRUE]
    /\ pc' = [pc EXCEPT ![t] = CloseOr(cur[t], "unwind")]
    /\ UNCHANGED <<state, exception, terminateRequested, numRunningDrivers,
                   numFinishedDrivers, attached, isOnThread, toClose, driverVars, cur, stop,
                   callerVars, outputVars, pauseRequested, toYield, numThreads, finishPromise>>

Unwind(t) ==
    /\ At(t, "unwind")
    /\ GoOffThread(t)
    /\ UNCHANGED <<state, exception, terminateRequested, numRunningDrivers,
                   numFinishedDrivers, attached, isTerminated, toClose, driverVars,
                   callerVars, outputVars, pauseRequested, toYield>>

(* Driver::run with kBlock: shouldStop, then setResume.  A driver found    *)
(* on a thread fails setResume's VELOX_CHECK and the future is dropped.    *)
CheckBlocked(t) ==
    /\ At(t, "block")
    /\ ConsumeYield
    /\ pc' = [pc EXCEPT ![t] = IF ShouldStop = "kTerminate" THEN "idle" ELSE "arm"]
    /\ cur' = [cur EXCEPT ![t] = IF ShouldStop = "kTerminate" THEN None ELSE @]
    /\ UNCHANGED <<taskVars, driverVars, stop, callerVars, outputVars, pauseRequested,
                   numThreads, finishPromise>>

SetResume(t) ==
    /\ At(t, "arm")
    /\ armed' = IF isOnThread[cur[t]] THEN armed ELSE [armed EXCEPT ![cur[t]] = @ + 1]
    /\ pc' = [pc EXCEPT ![t] = "idle"]
    /\ cur' = [cur EXCEPT ![t] = None]
    /\ UNCHANGED <<taskVars, isEnqueued, hasBlockingFuture, isSuspended, closed, jobs, stop,
                   callerVars, outputVars, pauseRequested, toYield, numThreads, finishPromise>>

(* Driver::run with kYield: enqueue, outside of the task's mutex.  The     *)
(* VELOX_CHECK of enqueueInternal throws for an enqueued driver.           *)
EnqueueYielded(t) ==
    /\ At(t, "yield")
    /\ EnqueueAll(IF isEnqueued[cur[t]] THEN {} ELSE {cur[t]})
    /\ pc' = [pc EXCEPT ![t] = "idle"]
    /\ cur' = [cur EXCEPT ![t] = None]
    /\ UNCHANGED <<taskVars, hasBlockingFuture, isSuspended, closed, armed, stop, callerVars,
                   outputVars, pauseRequested, toYield, numThreads, finishPromise>>

(* The future of a blocked driver is realized: setResume's callback.       *)
CallbackChecks(d) ==
    ~isSuspended[d] /\ hasBlockingFuture[d] /\ (pauseRequested \/ ~isEnqueued[d])

(* Bug: hasBlockingFuture is reset after the check for a pause. *)
RealizeLateReset(d) ==
    /\ armed[d] > 0 /\ CallbackChecks(d)
    /\ armed' = [armed EXCEPT ![d] = @ - 1]
    /\ hasBlockingFuture' = [hasBlockingFuture EXCEPT ![d] = pauseRequested]
    /\ EnqueueAll(IF pauseRequested THEN {} ELSE {d})
    /\ UNCHANGED <<taskVars, isSuspended, closed, threadVars, callerVars, outputVars,
                   pauseRequested, toYield, numThreads, finishPromise>>

Realize(d) ==
    /\ armed[d] > 0 /\ CallbackChecks(d)
    /\ armed' = [armed EXCEPT ![d] = @ - 1]
    /\ hasBlockingFuture' = [hasBlockingFuture EXCEPT ![d] = FALSE]
    /\ EnqueueAll(IF pauseRequested THEN {} ELSE {d})
    /\ UNCHANGED <<taskVars, isSuspended, closed, threadVars, callerVars, outputVars,
                   pauseRequested, toYield, numThreads, finishPromise>>

(* A failed check, or a promise realized with an error: thenError.         *)
RealizeError(d) ==
    /\ armed[d] > 0
    /\ armed' = [armed EXCEPT ![d] = @ - 1]
    /\ hasBlockingFuture' = [hasBlockingFuture EXCEPT
                               ![d] = @ /\ (CallbackChecks(d) \/ isSuspended[d])]
    /\ exception' = (exception \/ FirstError)
    /\ clientDue' = IF FirstError THEN clientDue \cup {"fail"} ELSE clientDue
    /\ UNCHANGED <<state, terminateRequested, numRunningDrivers, numFinishedDrivers, attached,
                   isOnThread, isTerminated, toClose, isEnqueued, isSuspended, closed, jobs,
                   threadVars, startPc, reclaimPc, abortDue, visit, outputVars, pauseRequested,
                   toYield, numThreads, finishPromise>>

-----------------------------------------------------------------------------
(* Calls of other threads: requestCancel, requestAbort, requestYield,      *)
(* setAllOutputConsumed, and what is left of a setError.                   *)
RequestTerminate ==
    /\ state = "kRunning"
    /\ \E terminalState \in {"kCanceled", "kAborted"} : Terminate(Client, terminalState)
    /\ UNCHANGED <<driverVars, threadVars, callerVars, outputVars, pauseRequested, toYield,
                   numThreads, finishPromise>>

RequestYield ==
    /\ Yields /\ toYield # numThreads
    /\ toYield' = numThreads
    /\ UNCHANGED <<taskVars, driverVars, threadVars, callerVars, outputVars, pauseRequested,
                   numThreads, finishPromise>>

SetAllOutputConsumed ==
    /\ HasPartitionedOutput /\ startPc \in {"factories", "started"} /\ ~outputConsumed
    /\ outputConsumed' = TRUE
    /\ clientDue' = IF CheckIfFinished(numFinishedDrivers, numFinishedOutput, TRUE)
                    THEN clientDue \cup {"finish"} ELSE clientDue
    /\ UNCHANGED <<taskVars, driverVars, threadVars, startPc, reclaimPc, abortDue, visit,
                   numFinishedOutput, numTotalDrivers, pauseRequested, toYield, numThreads,
                   finishPromise>>

ClientTerminate(due) ==
    /\ due \in clientDue
    /\ clientDue' = clientDue \ {due}
    /\ Terminate(Client, IF due = "fail" THEN "kFailed" ELSE "kFinished")
    /\ UNCHANGED <<driverVars, threadVars, startPc, reclaimPc, abortDue, visit, outputVars,
                   pauseRequested, toYield, numThreads, finishPromise>>
-----------------------------------------------------------------------------
(* Task::MemoryReclaimer::reclaim and abort, called by the arbitrator.     *)
reclaimUnchanged == <<driverVars, threadVars, startPc, clientDue, outputVars, toYield, numThreads>>

RequestPause ==
    /\ reclaimPc = "idle"
    /\ pauseRequested' = TRUE
    /\ finishPromise' = IF numThreads = 0 THEN "fulfilled" ELSE "pending"
    /\ reclaimPc' = "waiting"
    /\ UNCHANGED <<taskVars, reclaimUnchanged, abortDue, visit>>

(* The wait ends.  A cancelled task is resumed without reclaiming.         *)
PauseDone ==
    /\ reclaimPc = "waiting" /\ finishPromise = "fulfilled"
    /\ finishPromise' = "none"
    /\ reclaimPc' = IF terminateRequested THEN "resume" ELSE "reclaiming"
    /\ UNCHANGED <<taskVars, reclaimUnchanged, pauseRequested, abortDue, visit>>

(* A wait that times out throws; the arbitrator then aborts the query.     *)
PauseTimeout ==
    /\ ReclaimTimeout
    /\ reclaimPc = "waiting" /\ finishPromise = "pending"
    /\ finishPromise' = "none"
    /\ reclaimPc' = "resume" /\ abortDue' = TRUE
    /\ UNCHANGED <<taskVars, reclaimUnchanged, pauseRequested, visit>>

(* The operators are spilled; a failure is followed by an abort.           *)
ReclaimDone ==
    /\ reclaimPc = "reclaiming"
    /\ reclaimPc' = "resume"
    /\ abortDue' \in BOOLEAN
    /\ UNCHANGED <<taskVars, reclaimUnchanged, pauseRequested, finishPromise, visit>>

(* Task::resume of a running task goes through drivers_ in order and       *)
(* throws at the first driver that is on a thread or terminated.           *)
ResumeCheckFails(d) ==
    d \in attached /\ ~isSuspended[d] /\ ~isEnqueued[d] /\ (isOnThread[d] \/ isTerminated[d])

Resumed ==
    {d \in attached : /\ ~isSuspended[d] /\ ~isEnqueued[d] /\ ~hasBlockingFuture[d]
                      /\ \A e \in 1..d : ~ResumeCheckFails(e)}

ResumeRunning ==
    /\ reclaimPc = "resume" /\ state = "kRunning"
    /\ reclaimPc' = "closing"
    /\ pauseRequested' = FALSE
    /\ EnqueueAll(Resumed)
    /\ UNCHANGED <<taskVars, hasBlockingFuture, isSuspended, closed, armed, threadVars,
                   startPc, clientDue, abortDue, outputVars, toYield, numThreads,
                   finishPromise, visit>>

(* Task::resume of a terminated task closes the drivers that terminate     *)
(* left alone because of the pause.                                        *)
ResumeTerminated ==
    LET offThread == OffThreadDrivers
    IN  /\ reclaimPc = "resume" /\ state # "kRunning"
        /\ reclaimPc' = "closing"
        /\ pauseRequested' = FALSE
        /\ isTerminated' = [d \in Drivers |-> isTerminated[d] \/ d \in offThread]
        /\ isOnThread' = [d \in Drivers |-> isOnThread[d] \/ d \in offThread]
        /\ attached' = attached \ offThread
        /\ DriverClosed(offThread)
        /\ toClose' = [toClose EXCEPT ![Reclaimer] = @ \cup offThread]
        /\ UNCHANGED <<state, exception, terminateRequested,
                       reclaimUnchanged, abortDue, finishPromise, visit>>

ReclaimReturns ==
    /\ reclaimPc = "closing" /\ toClose[Reclaimer] = {} /\ ~abortDue
    /\ reclaimPc' = "idle"
    /\ UNCHANGED <<taskVars, reclaimUnchanged, pauseRequested, finishPromise, abortDue, visit>>

(* Task::MemoryReclaimer::abort: setError, the wait for the task, then the  *)
(* operators.                                                              *)
SetErrorForAbort ==
    /\ reclaimPc' = IF FirstError THEN "fail" ELSE "completion"
    /\ exception' = (exception \/ FirstError)
    /\ abortDue' = FALSE
    /\ UNCHANGED <<state, terminateRequested, numRunningDrivers, numFinishedDrivers, attached,
                   isOnThread, isTerminated, toClose, reclaimUnchanged, pauseRequested,
                   finishPromise, visit>>

AbortSetError ==
    /\ reclaimPc = "closing" /\ toClose[Reclaimer] = {} /\ abortDue
    /\ SetErrorForAbort

(* The arbitrator aborts a query without reclaiming from it first.         *)
RequestAbort == reclaimPc = "idle" /\ SetErrorForAbort

AbortTerminate ==
    /\ reclaimPc = "fail"
    /\ Terminate(Reclaimer, "kFailed")
    /\ reclaimPc' = "completion"
    /\ UNCHANGED <<reclaimUnchanged, pauseRequested, finishPromise, abortDue, visit>>

(* Task::taskCompletionFuture.  Once the task is not running, it is the    *)
(* future of the last thread, as for a pause, and has no timeout; before,  *)
(* when the error of another caller has yet to terminate the task, it is   *)
(* that of the termination.                                                *)
TaskCompletionFuture ==
    /\ reclaimPc = "completion" /\ toClose[Reclaimer] = {}
    /\ IF state = "kRunning"
       THEN reclaimPc' = "completing" /\ UNCHANGED finishPromise
       ELSE /\ reclaimPc' = "finishing"
            /\ finishPromise' = IF numThreads = 0 THEN "fulfilled" ELSE "pending"
    /\ UNCHANGED <<taskVars, reclaimUnchanged, pauseRequested, abortDue, visit>>

CompletionDone ==
    /\ \/ reclaimPc = "finishing" /\ finishPromise = "fulfilled"
       \/ reclaimPc = "completing" /\ state # "kRunning"
    /\ reclaimPc' = "aborting"
    /\ finishPromise' = "none"
    /\ UNCHANGED <<taskVars, reclaimUnchanged, pauseRequested, abortDue, visit>>

(* maxTaskAbortWaitUs is over; nobody asks whether the wait was successful. *)
CompletionTimeout ==
    /\ reclaimPc = "completing" /\ state = "kRunning"
    /\ reclaimPc' = "aborting"
    /\ UNCHANGED <<taskVars, reclaimUnchanged, pauseRequested, finishPromise, abortDue, visit>>

(* No thread runs the driver's operators, or it has been told to stop.     *)
Quiescent(d) == ~isOnThread[d] \/ isSuspended[d] \/ isTerminated[d]

AbortReturns == reclaimPc' = "idle" /\ visit' = [d \in Drivers |-> "no"]

(* Operator::MemoryReclaimer::abort for the operators of one driver after  *)
(* the other: the VELOX_CHECK of its ThreadState, then that of isCancelled *)
(* and Operator::abort.  A check that fails throws out of the whole abort. *)
AbortCheck ==
    /\ reclaimPc = "aborting" /\ startPc = "started"
    /\ \A d \in Drivers : visit[d] # "checked"
    /\ \E d \in Drivers :
          /\ visit[d] = "no"
          /\ IF Quiescent(d)
             THEN visit' = [visit EXCEPT ![d] = "checked"] /\ UNCHANGED reclaimPc
             ELSE AbortReturns
    /\ UNCHANGED <<taskVars, reclaimUnchanged, pauseRequested, finishPromise, abortDue>>

(* Bug: isCancelled is not checked. *)
AbortOperatorUnchecked ==
    /\ reclaimPc = "aborting"
    /\ \E d \in Drivers :
          /\ visit[d] = "checked"
          /\ visit' = [visit EXCEPT ![d] = "aborted"] /\ UNCHANGED reclaimPc
    /\ UNCHANGED <<taskVars, reclaimUnchanged, pauseRequested, finishPromise, abortDue>>

AbortOperator ==
    /\ reclaimPc = "aborting"
    /\ \E d \in Drivers :
          /\ visit[d] = "checked"
          /\ IF terminateRequested
             THEN visit' = [visit EXCEPT ![d] = "aborted"] /\ UNCHANGED reclaimPc
             ELSE AbortReturns
    /\ UNCHANGED <<taskVars, reclaimUnchanged, pauseRequested, finishPromise, abortDue>>

(* The pools of closed drivers may be gone.                                *)
AbortDone ==
    /\ reclaimPc = "aborting"
    /\ \A d \in Drivers :
          visit[d] = "aborted" \/ (visit[d] = "no" /\ (closed[d] \/ startPc # "started"))
    /\ AbortReturns
    /\ UNCHANGED <<taskVars, reclaimUnchanged, pauseRequested, finishPromise, abortDue>>

-----------------------------------------------------------------------------
StartStep == StartFactories \/ CreateAndStartDrivers \/ StartAfterTerminate \/ StartFails

EnterStep(t, d) == EnterClosed(t, d) \/ EnterRefused(t, d) \/ EnterYield(t, d) \/ EnterRun(t, d)

RunStep(t) ==
    RunStop(t) \/ RunBlock(t) \/ RunCpuSlice(t) \/ RunAtEnd(t) \/ RunThrow(t) \/ EnterSuspended(t)

ExitStep(t) ==
    \/ Cancelled(t) \/ Fail(t) \/ GuardThrown(t) \/ CloseOperators(t) \/ RemoveDriver(t)
    \/ FinishTask(t) \/ Leave(t) \/ LeaveTerminated(t) \/ Unwind(t)
    \/ CheckBlocked(t) \/ SetResume(t) \/ EnqueueYielded(t)

ClientStep ==
    \/ RequestTerminate \/ RequestYield \/ SetAllOutputConsumed
    \/ \E due \in {"finish", "fail"} : ClientTerminate(due)

AbortStep ==
    TaskCompletionFuture \/ CompletionDone \/ AbortCheck \/ AbortOperator \/ AbortDone

ReclaimStep ==
    \/ PauseDone \/ PauseTimeout \/ ReclaimDone \/ ResumeRunning \/ ResumeTerminated
    \/ ReclaimReturns \/ AbortSetError \/ AbortTerminate \/ CompletionTimeout \/ AbortStep

Next ==
    \/ StartStep
    \/ \E t \in Threads :
          \/ \E d \in Drivers : EnterStep(t, d)
          \/ RunStep(t) \/ LeaveSuspended(t) \/ ExitStep(t)
    \/ \E d \in Drivers : Realize(d) \/ RealizeError(d)
    \/ \E a \in Actors, d \in Drivers : CloseByTask(a, d)
    \/ ClientStep
    \/ RequestPause \/ RequestAbort \/ ReclaimStep

Spec == Init /\ [][Next]_vars
(* Operators return to the check of shouldStop, a suspended section ends   *)
(* (an arbitration or an IO), queued jobs get a thread, the reclaimer and  *)
(* whoever called terminate or setError run on.  Nothing else is promised: *)
(* a driver may compute or stay blocked for ever, and no wait of the       *)
(* reclaimer need time out.                                                *)
ReclaimerRuns ==
    \/ PauseDone \/ ReclaimDone \/ ResumeRunning \/ ResumeTerminated \/ ReclaimReturns
    \/ AbortSetError \/ AbortTerminate \/ AbortStep

Fairness ==
    /\ WF_vars(StartStep)
    /\ \A t \in Threads : WF_vars(RunStop(t)) /\ WF_vars(LeaveSuspended(t)) /\ WF_vars(ExitStep(t))
    /\ \A d \in Drivers : WF_vars(\E t \in Threads : EnterStep(t, d))
    /\ \A a \in Actors, d \in Drivers : WF_vars(CloseByTask(a, d))
    /\ \A due \in {"finish", "fail"} : WF_vars(ClientTerminate(due))
    /\ WF_vars(ReclaimerRuns)

FairSpec == Spec /\ Fairness

-----------------------------------------------------------------------------
(* numThreads_ is the number of threads inside the task: Task::enter,      *)
(* leave, enterSuspended and leaveSuspended keep it exact on every path,   *)
(* which is what the promise of requestPause relies on.                    *)
ThreadCount == numThreads = Cardinality({t \in Threads : pc[t] \in OnThread})

(* The VELOX_CHECKs of Operator::MemoryReclaimer::reclaim: while the       *)
(* reclaimer works on the operators, the task is paused and no driver      *)
(* runs, except one that is terminated.                                    *)
ReclaimExclusive ==
    reclaimPc = "reclaiming" => pauseRequested /\ \A d \in Drivers : Quiescent(d)

(* The operators that a memory abort has released are not run: from        *)
(* Operator::abort until the abort returns, their driver is off thread,    *)
(* suspended, told to terminate, or has closed them itself.  This holds    *)
(* for every driver, also when the wait for the task's completion timed    *)
(* out, or the driver's thread moved between the two VELOX_CHECKs.         *)
AbortExclusive ==
    \A d \in Drivers : visit[d] = "aborted" => Quiescent(d) \/ closed[d]

(* A driver of a running task that is not paused always has somebody who   *)
(* will run it: a thread, the executor's queue or a future's callback.     *)
(* Pause and resume, blocking and enqueueing never drop it.  (A resume     *)
(* after a pause that timed out may, but then the task is aborted.)        *)
NoLostDriver ==
    state = "kRunning" /\ ~exception /\ ~pauseRequested /\ ~abortDue =>
        \A d \in attached :
            \/ isOnThread[d] \/ jobs[d] > 0 \/ armed[d] > 0
            \/ \E t \in Threads : cur[t] = d /\ pc[t] \in {"block", "arm", "yield"}

(* Each driver leaves drivers_ and is counted as finished exactly once,    *)
(* whether it closes itself or terminate or resume close it.               *)
DriverAccounting ==
    startPc = "started" =>
        /\ numFinishedDrivers + Cardinality(attached) = numTotalDrivers
        /\ numRunningDrivers = IF state = "kRunning" THEN Cardinality(attached) ELSE 0

Closers(d) ==
    {t \in Threads : cur[t] = d /\ pc[t] = "close"} \cup {a \in Actors : d \in toClose[a]}

(* The operators of a driver are closed by one actor and only once:        *)
(* Driver::close on its thread never meets closeByTask.                    *)
SingleCloser ==
    \A d \in Drivers : Cardinality(Closers(d)) <= IF closed[d] THEN 0 ELSE 1

(* kFinished is reached only when the output is complete and consumed:     *)
(* every output driver has closed itself, even though the decision is      *)
(* taken in one critical section and acted upon in a later one.            *)
FinishedWhenDone ==
    state = "kFinished" =>
        /\ \A d \in OutputDrivers : closed[d] /\ d \notin attached
        /\ HasPartitionedOutput => outputConsumed

(* What the task shows of a driver, as TaskContract sees it.               *)
Mode ==
    [d \in Drivers |->
        IF closed[d] THEN "closed"
        ELSE IF isTerminated[d] THEN "draining"
        ELSE IF isOnThread[d] /\ ~isSuspended[d] THEN "running" ELSE "parked"]

Contract ==
    INSTANCE TaskContract WITH
        mode <- Mode, held <- (reclaimPc = "reclaiming"), terminated <- terminateRequested

(* The threads, the executor, the futures, pause, resume and terminate     *)
(* together implement TaskContract: no driver starts to run on a held or   *)
(* terminated task, one that drains never runs again, closed is final.     *)
ImplementsContract == Contract!Spec

(* A terminated task gets rid of all its drivers: each one is closed, by   *)
(* its thread, by terminate, or by resume if the task was paused.          *)
TerminationCompletes ==
    terminateRequested ~> (numThreads = 0 /\ (startPc = "started" => \A d \in Drivers : closed[d]))

(* Memory reclaim always returns: the pause is granted, resume and abort   *)
(* go through, so the arbitration that waits for it ends.                  *)
ReclaimReturnsEventually == (reclaimPc # "idle") ~> (reclaimPc = "idle")

-----------------------------------------------------------------------------
(* The VELOX_CHECK of enqueueInternal holds when Driver::run enqueues a    *)
(* driver that has yielded.                                                *)
YieldEnqueueCheck == \A t \in Threads : At(t, "yield") => ~isEnqueued[cur[t]]
=============================================================================
