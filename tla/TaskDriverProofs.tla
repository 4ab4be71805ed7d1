-------------------------- MODULE TaskDriverProofs --------------------------
(***************************************************************************)
(* The inductive invariant of TaskDriver, and what follows from it for     *)
(* every number of drivers and threads, with yields, time slices and       *)
(* timeouts on or off: types, the count of the threads, the exclusive      *)
(* access of a reclaim and of an abort to the operators, the books of the  *)
(* drivers, that a task implements TaskContract, that one actor closes a   *)
(* driver, that kFinished is right and, as long as                         *)
(* driver_cpu_time_slice_limit_ms is not set, that no driver is lost.      *)
(***************************************************************************)
EXTENDS TaskDriver, FiniteSetTheorems, TLAPS

-----------------------------------------------------------------------------
(* The inductive invariant, in parts.                                      *)

(* Thread t is between Task::enter and Task::leave. *)
Inside(t) == pc[t] \in OnThread \cup {"suspended"}

(* A driver marked on-thread has one thread, unless terminate or resume    *)
(* have taken it; a suspended one has a thread in a suspended section.     *)
ThreadOwns ==
    \A t \in Threads : Inside(t) =>
        /\ cur[t] \in Drivers /\ isOnThread[cur[t]]
        /\ isSuspended[cur[t]] <=> pc[t] = "suspended"

OneOwner == \A t, u \in Threads : Inside(t) /\ Inside(u) /\ cur[t] = cur[u] => t = u

OnThreadOwned ==
    \A d \in Drivers : isOnThread[d] /\ ~isTerminated[d] =>
        \E t \in Threads : Inside(t) /\ cur[t] = d

SuspendedOwned ==
    \A d \in Drivers : isSuspended[d] => \E t \in Threads : pc[t] = "suspended" /\ cur[t] = d

OwnerInv == ThreadOwns /\ OneOwner /\ OnThreadOwned /\ SuspendedOwned

(* A pause lasts from requestPause to resume, and once it is granted no    *)
(* driver runs.                                                            *)
Granted == reclaimPc = "reclaiming" \/ (reclaimPc = "waiting" /\ finishPromise = "fulfilled")

PauseInv ==
    /\ reclaimPc \in {"waiting", "reclaiming", "resume"} => pauseRequested
    /\ Granted => \A d \in Drivers : Quiescent(d)

(* terminate tells every driver of the task. *)
TerminateInv ==
    /\ terminateRequested <=> state # "kRunning"
    /\ terminateRequested => \A d \in attached : Quiescent(d)
    /\ \A d \in Drivers : visit[d] = "aborted" => terminateRequested
    /\ \A a \in Actors : \A d \in toClose[a] : isTerminated[d]

(* The counters of the task, before and after it starts its drivers. *)
CountInv ==
    /\ startPc # "started" => attached = {} /\ numRunningDrivers = 0
    /\ startPc \in {"new", "factories"} => numFinishedDrivers = 0
    /\ startPc \in {"factories", "started"} => numTotalDrivers = NumDrivers
    /\ DriverAccounting

IInv == TypeOK /\ ThreadCount /\ OwnerInv /\ PauseInv /\ TerminateInv /\ CountInv

-----------------------------------------------------------------------------
(* Every step of TaskDriver keeps the count of the threads in the task and *)
(* the ownership of drivers by threads.                                    *)

(* Steps that leave the threads where they are.                            *)

(* No thread enters or leaves the task or a suspended section, and the     *)
(* only drivers that become on-thread are terminated at the same time.     *)
Stay ==
    /\ \A t \in Threads : /\ pc'[t] \in OnThread <=> pc[t] \in OnThread
                          /\ pc'[t] = "suspended" <=> pc[t] = "suspended"
                          /\ Inside(t) => cur'[t] = cur[t]
    /\ isSuspended' = isSuspended /\ numThreads' = numThreads
    /\ \A d \in Drivers : /\ isTerminated[d] => isTerminated'[d]
                          /\ isOnThread[d] => isOnThread'[d]
                          /\ isOnThread'[d] => isOnThread[d] \/ isTerminated'[d]

(* The critical sections that move a thread across the task's boundary:    *)
(* enter, leave, and the two ends of a suspended section.                  *)
Cross(t) == (\E d \in Drivers : EnterRun(t, d)) \/ EnterSuspended(t) \/ LeaveSuspended(t)
            \/ Leave(t) \/ Unwind(t)

(* Task::terminate marks drivers, it clears no mark. *)
LEMMA TerminateMarks ==
    ASSUME TypeOK, NEW a, NEW s, Terminate(a, s)
    PROVE  \A d \in Drivers : /\ isTerminated[d] => isTerminated'[d]
                              /\ isOnThread[d] => isOnThread'[d]
                              /\ isOnThread'[d] => isOnThread[d] \/ isTerminated'[d]
<1>1. CASE state # "kRunning"
    BY Zenon, <1>1 DEF Terminate, taskVars
<1>2. CASE state = "kRunning"
    BY ZenonT(30), <1>2 DEF Terminate, TypeOK
<1> QED
    BY Zenon, <1>1, <1>2

(* From the wait for the task's completion on, an abort changes nothing of *)
(* the task; it releases operators only after isCancelled.                 *)
LEMMA AbortLeaves ==
    ASSUME AbortStep \/ CompletionTimeout
    PROVE  /\ UNCHANGED <<taskVars, reclaimUnchanged, pauseRequested, abortDue>>
           /\ reclaimPc' \in {"idle", "finishing", "completing", "aborting"}
           /\ reclaimPc \in {"completion", "finishing", "completing", "aborting"}
    BY ZenonT(30) DEF AbortStep, TaskCompletionFuture, CompletionDone, CompletionTimeout, AbortCheck,
       AbortOperator, AbortDone, AbortReturns

LEMMA AbortVisits ==
    ASSUME TypeOK, AbortStep \/ CompletionTimeout
    PROVE  /\ visit' \in [Drivers -> VisitPoints] /\ finishPromise' \in {"none", "pending", "fulfilled"}
           /\ \A d \in Drivers : visit'[d] = "aborted" => visit[d] = "aborted" \/ terminateRequested
<1>0. visit \in [Drivers -> VisitPoints] /\ finishPromise \in {"none", "pending", "fulfilled"}
    BY Zenon DEF TypeOK
<1>1. CASE TaskCompletionFuture \/ CompletionDone \/ CompletionTimeout
    BY ZenonT(30), <1>0, <1>1 DEF TaskCompletionFuture, CompletionDone, CompletionTimeout
<1>2. ASSUME AbortReturns
      PROVE  visit' \in [Drivers -> VisitPoints] /\ \A d \in Drivers : visit'[d] # "aborted"
    BY ZenonT(30), <1>2 DEF AbortReturns, VisitPoints
<1>3. ASSUME NEW d \in Drivers, visit' = [visit EXCEPT ![d] = "checked"]
      PROVE  /\ visit' \in [Drivers -> VisitPoints]
             /\ \A e \in Drivers : visit'[e] = "aborted" => visit[e] = "aborted"
    BY ZenonT(30), <1>0, <1>3 DEF VisitPoints
<1>4. ASSUME NEW d \in Drivers, visit' = [visit EXCEPT ![d] = "aborted"]
      PROVE  visit' \in [Drivers -> VisitPoints]
    BY ZenonT(30), <1>0, <1>4 DEF VisitPoints
<1>5. CASE AbortCheck
  <2>1. AbortReturns \/ \E d \in Drivers : visit' = [visit EXCEPT ![d] = "checked"]
      BY Zenon, <1>5 DEF AbortCheck
  <2>2. finishPromise' = finishPromise
      BY Zenon, <1>5 DEF AbortCheck
  <2> QED
      BY Zenon, <1>0, <1>2, <1>3, <2>1, <2>2
<1>6. CASE AbortOperator
  <2>1. AbortReturns \/ (terminateRequested /\ \E d \in Drivers : visit' = [visit EXCEPT ![d] = "aborted"])
      BY Zenon, <1>6 DEF AbortOperator
  <2>2. finishPromise' = finishPromise
      BY Zenon, <1>6 DEF AbortOperator
  <2> QED
      BY Zenon, <1>0, <1>2, <1>4, <2>1, <2>2
<1>7. CASE AbortDone
  <2>1. AbortReturns /\ finishPromise' = finishPromise
      BY Zenon, <1>7 DEF AbortDone
  <2> QED
      BY Zenon, <1>0, <1>2, <2>1
<1> QED
    BY Zenon, <1>1, <1>5, <1>6, <1>7 DEF AbortStep

(* All the other steps leave the threads where they are. *)
LEMMA StayOrCross == TypeOK /\ [Next]_vars => Stay \/ \E t \in Threads : Cross(t)
<1> SUFFICES ASSUME TypeOK, [Next]_vars, ~ \E t \in Threads : Cross(t) PROVE Stay
    BY Zenon
<1> USE DEF Stay, Inside
<1>1. ASSUME StartFactories PROVE Stay
    BY <1>1, Zenon DEF StartFactories, taskVars, driverVars, threadVars
<1>2. ASSUME CreateAndStartDrivers PROVE Stay
    BY <1>2, Zenon DEF CreateAndStartDrivers, taskVars, driverVars, threadVars
<1>3. ASSUME StartAfterTerminate PROVE Stay
    BY <1>3, Zenon DEF StartAfterTerminate, taskVars, driverVars, threadVars
<1>4. ASSUME StartFails PROVE Stay
    BY ZenonT(30), <1>4 DEF StartFails, taskVars, driverVars, threadVars
<1>5. ASSUME NEW t \in Threads, NEW d \in Drivers, EnterClosed(t, d) PROVE Stay
    BY Zenon, <1>5 DEF EnterClosed, taskVars, driverVars, threadVars, TakeJob, At, OnThread, TypeOK
<1>6. ASSUME NEW t \in Threads, NEW d \in Drivers, EnterRefused(t, d) PROVE Stay
    BY ZenonT(30), <1>6 DEF EnterRefused, taskVars, driverVars, threadVars, TakeJob, At, OnThread,
       TypeOK
<1>7. ASSUME NEW t \in Threads, NEW d \in Drivers, EnterYield(t, d) PROVE Stay
    BY Zenon, <1>7 DEF EnterYield, taskVars, driverVars, threadVars, TakeJob, At, OnThread, TypeOK
<1>8. ASSUME NEW t \in Threads, RunStop(t) PROVE Stay
    BY Zenon, <1>8 DEF RunStop, taskVars, driverVars, threadVars, ExitLoop, At, OnThread, TypeOK
<1>9. ASSUME NEW t \in Threads, RunBlock(t) PROVE Stay
    BY Zenon, <1>9 DEF RunBlock, taskVars, driverVars, threadVars, ExitLoop, At, OnThread, TypeOK
<1>10. ASSUME NEW t \in Threads, RunCpuSlice(t) PROVE Stay
    BY Zenon, <1>10 DEF RunCpuSlice, taskVars, driverVars, threadVars, ExitLoop, At, OnThread,
       TypeOK
<1>11. ASSUME NEW t \in Threads, RunAtEnd(t) PROVE Stay
    BY Zenon, <1>11 DEF RunAtEnd, taskVars, driverVars, threadVars, ExitLoop, At, CloseOr,
       OnThread, TypeOK
<1>12. ASSUME NEW t \in Threads, RunThrow(t) PROVE Stay
    BY Zenon, <1>12 DEF RunThrow, taskVars, driverVars, threadVars, ExitLoop, At, OnThread, TypeOK
<1>13. ASSUME NEW t \in Threads, Cancelled(t) PROVE Stay
    BY Zenon, <1>13, TerminateMarks DEF Cancelled, driverVars, threadVars, At, OnThread, TypeOK
<1>14. ASSUME NEW t \in Threads, Fail(t) PROVE Stay
    BY Zenon, <1>14, TerminateMarks DEF Fail, driverVars, threadVars, At, OnThread, TypeOK
<1>15. ASSUME NEW t \in Threads, GuardThrown(t) PROVE Stay
    BY Zenon, <1>15 DEF GuardThrown, taskVars, driverVars, threadVars, At, CloseOr, OnThread,
       TypeOK
<1>16. ASSUME NEW t \in Threads, CloseOperators(t) PROVE Stay
    BY Zenon, <1>16 DEF CloseOperators, taskVars, driverVars, threadVars, At, OnThread, TypeOK
<1>17. ASSUME NEW t \in Threads, RemoveDriver(t) PROVE Stay
    BY Zenon, <1>17 DEF RemoveDriver, taskVars, driverVars, threadVars, At, AfterClose, OnThread,
       TypeOK
<1>18. ASSUME NEW t \in Threads, FinishTask(t) PROVE Stay
    BY Zenon, <1>18, TerminateMarks DEF FinishTask, driverVars, threadVars, At, AfterClose,
       OnThread, TypeOK
<1>19. ASSUME NEW t \in Threads, LeaveTerminated(t) PROVE Stay
    BY Zenon, <1>19 DEF LeaveTerminated, taskVars, driverVars, threadVars, At, CloseOr, OnThread,
       TypeOK
<1>20. ASSUME NEW t \in Threads, CheckBlocked(t) PROVE Stay
    BY ZenonT(30), <1>20 DEF CheckBlocked, taskVars, driverVars, threadVars, At, OnThread, TypeOK
<1>21. ASSUME NEW t \in Threads, SetResume(t) PROVE Stay
    BY Zenon, <1>21 DEF SetResume, taskVars, driverVars, threadVars, At, OnThread, TypeOK
<1>22. ASSUME NEW t \in Threads, EnqueueYielded(t) PROVE Stay
    BY Zenon, <1>22 DEF EnqueueYielded, taskVars, driverVars, threadVars, At, OnThread, TypeOK
<1>23. ASSUME NEW d \in Drivers, Realize(d) PROVE Stay
    BY Zenon, <1>23 DEF Realize, taskVars, driverVars, threadVars
<1>24. ASSUME NEW d \in Drivers, RealizeError(d) PROVE Stay
    BY Zenon, <1>24 DEF RealizeError, taskVars, driverVars, threadVars
<1>25. ASSUME NEW a \in Actors, NEW d \in Drivers, CloseByTask(a, d) PROVE Stay
    BY <1>25, Zenon DEF CloseByTask, taskVars, driverVars, threadVars
<1>26. ASSUME RequestTerminate PROVE Stay
    BY <1>26, TerminateMarks, Zenon DEF RequestTerminate, driverVars, threadVars
<1>27. ASSUME RequestYield PROVE Stay
    BY ZenonT(30), <1>27 DEF RequestYield, taskVars, driverVars, threadVars
<1>28. ASSUME SetAllOutputConsumed PROVE Stay
    BY Zenon, <1>28 DEF SetAllOutputConsumed, taskVars, driverVars, threadVars
<1>29. ASSUME NEW due \in {"finish", "fail"}, ClientTerminate(due) PROVE Stay
    BY Zenon, <1>29, TerminateMarks DEF ClientTerminate, driverVars, threadVars
<1>30. ASSUME RequestPause PROVE Stay
    BY Zenon, <1>30 DEF RequestPause, taskVars, driverVars, threadVars, reclaimUnchanged
<1>31. ASSUME RequestAbort PROVE Stay
    BY Zenon, <1>31 DEF RequestAbort, taskVars, driverVars, threadVars, SetErrorForAbort,
       reclaimUnchanged
<1>32. ASSUME PauseDone PROVE Stay
    BY Zenon, <1>32 DEF PauseDone, taskVars, driverVars, threadVars, reclaimUnchanged
<1>33. ASSUME PauseTimeout PROVE Stay
    BY Zenon, <1>33 DEF PauseTimeout, taskVars, driverVars, threadVars, reclaimUnchanged
<1>34. ASSUME ReclaimDone PROVE Stay
    BY Zenon, <1>34 DEF ReclaimDone, taskVars, driverVars, threadVars, reclaimUnchanged
<1>35. ASSUME ResumeRunning PROVE Stay
    BY Zenon, <1>35 DEF ResumeRunning, taskVars, driverVars, threadVars, reclaimUnchanged
<1>36. ASSUME ResumeTerminated PROVE Stay
    BY Zenon, <1>36 DEF ResumeTerminated, taskVars, driverVars, threadVars, OffThreadDrivers,
       reclaimUnchanged, TypeOK
<1>37. ASSUME ReclaimReturns PROVE Stay
    BY <1>37, Zenon DEF ReclaimReturns, taskVars, driverVars, threadVars, reclaimUnchanged
<1>38. ASSUME AbortSetError PROVE Stay
    BY <1>38, Zenon DEF AbortSetError, taskVars, driverVars, threadVars, SetErrorForAbort,
       reclaimUnchanged
<1>39. ASSUME AbortTerminate PROVE Stay
    BY <1>39, TerminateMarks, Zenon DEF AbortTerminate, driverVars, threadVars, reclaimUnchanged
<1>40. ASSUME CompletionTimeout PROVE Stay
    BY Zenon, <1>40, AbortLeaves DEF taskVars, driverVars, threadVars, reclaimUnchanged
<1>41. ASSUME AbortStep PROVE Stay
    BY <1>41, Zenon, AbortLeaves DEF taskVars, driverVars, threadVars, reclaimUnchanged
<1>42. ASSUME vars' = vars PROVE Stay
    BY ZenonT(30), <1>42 DEF vars, taskVars, driverVars, threadVars
<1> HIDE DEF Stay, Inside
<1>43. ASSUME NEW t \in Threads, NEW d \in Drivers, EnterStep(t, d) PROVE Stay
    BY Zenon, <1>43, <1>5, <1>6, <1>7 DEF EnterStep, Cross
<1>44. ASSUME NEW t \in Threads, RunStep(t) PROVE Stay
    BY Zenon, <1>44, <1>8, <1>9, <1>10, <1>11, <1>12 DEF RunStep, Cross
<1>45. ASSUME NEW t \in Threads, ExitStep(t) PROVE Stay
    BY Zenon, <1>45, <1>13, <1>14, <1>15, <1>16, <1>17, <1>18, <1>19, <1>20, <1>21, <1>22
       DEF ExitStep, Cross
<1>46. CASE StartStep \/ ClientStep
    BY Zenon, <1>46, <1>1, <1>2, <1>3, <1>4, <1>26, <1>27, <1>28, <1>29 DEF StartStep, ClientStep,
       Cross
<1>47. CASE ReclaimStep
    BY Zenon, <1>47, <1>32, <1>33, <1>34, <1>35, <1>36, <1>37, <1>38, <1>39, <1>40, <1>41
       DEF ReclaimStep, Cross
<1> QED
    BY Zenon, <1>23, <1>24, <1>25, <1>30, <1>31, <1>42, <1>43, <1>44, <1>45, <1>46, <1>47 DEF Next,
       Cross

-----------------------------------------------------------------------------
(* Threads and the drivers they own.                                       *)

(* A step that moves no thread keeps the owners. *)
LEMMA OwnerStay == TypeOK /\ OwnerInv /\ Stay => OwnerInv'
<1> SUFFICES ASSUME TypeOK, OwnerInv, Stay PROVE OwnerInv'
    BY Zenon
<1>1. \A t \in Threads : Inside(t)' <=> Inside(t)
    BY Zenon DEF Stay, Inside
<1>2. \A t \in Threads : Inside(t) => cur'[t] = cur[t]
    BY Zenon DEF Stay
<1>3. ThreadOwns'
    BY Zenon, <1>1, <1>2 DEF Stay, ThreadOwns, OwnerInv
<1>4. OneOwner'
    BY Zenon, <1>1, <1>2 DEF OneOwner, OwnerInv
<1>5. OnThreadOwned'
    BY <1>1, <1>2 DEF Stay, OnThreadOwned, OwnerInv
<1>6. SuspendedOwned'
    BY <1>2 DEF Stay, SuspendedOwned, OwnerInv, Inside
<1> QED
    BY Zenon, <1>3, <1>4, <1>5, <1>6 DEF OwnerInv

(* Task::enter gives a driver that is off thread to the thread. *)
LEMMA OwnerEnter ==
    ASSUME TypeOK, OwnerInv, NEW t \in Threads, NEW d \in Drivers, EnterRun(t, d)
    PROVE  OwnerInv'
<1> USE DEF OwnerInv
<1>1. ~Inside(t) /\ Inside(t)' /\ cur'[t] = d /\ pc'[t] = "run" /\ ~isOnThread[d]
    BY Zenon DEF EnterRun, TakeJob, At, Inside, OnThread, TypeOK
<1>2. \A u \in Threads \ {t} : pc'[u] = pc[u] /\ cur'[u] = cur[u] /\ (Inside(u)' <=> Inside(u))
    BY Zenon DEF EnterRun, TakeJob, TypeOK, Inside
<1>3. /\ isOnThread' = [isOnThread EXCEPT ![d] = TRUE]
      /\ isSuspended' = isSuspended /\ isTerminated' = isTerminated
    BY Zenon DEF EnterRun
<1>4. ~isSuspended[d] /\ \A u \in Threads : Inside(u) => cur[u] # d
    BY Zenon, <1>1 DEF ThreadOwns, SuspendedOwned, Inside
<1>5. ThreadOwns'
    BY <1>1, <1>2, <1>3, <1>4, Zenon DEF ThreadOwns, TypeOK
<1>6. OneOwner'
    BY <1>1, <1>2, <1>4, Zenon DEF OneOwner
<1>7. OnThreadOwned'
  <2> SUFFICES ASSUME NEW e \in Drivers, isOnThread'[e], ~isTerminated'[e]
               PROVE  \E u \in Threads : Inside(u)' /\ cur'[u] = e
      BY Zenon DEF OnThreadOwned
  <2>1. CASE e = d
      BY Zenon, <1>1, <2>1
  <2>2. CASE e # d
    <3>1. isOnThread[e] /\ ~isTerminated[e]
        BY Zenon, <1>3, <2>2 DEF TypeOK
    <3>2. PICK u \in Threads : Inside(u) /\ cur[u] = e
        BY Zenon, <3>1 DEF OnThreadOwned
    <3> QED
        BY Zenon, <1>1, <1>2, <3>2
  <2> QED
      BY Zenon, <2>1, <2>2
<1>8. SuspendedOwned'
  <2> SUFFICES ASSUME NEW e \in Drivers, isSuspended[e]
               PROVE  \E u \in Threads : pc'[u] = "suspended" /\ cur'[u] = e
      BY Zenon, <1>3 DEF SuspendedOwned
  <2>1. PICK u \in Threads : pc[u] = "suspended" /\ cur[u] = e
      BY Zenon DEF SuspendedOwned
  <2>2. u # t
      BY Zenon, <1>1, <2>1 DEF Inside
  <2> QED
      BY Zenon, <1>2, <2>1, <2>2
<1> QED
    BY Zenon, <1>5, <1>6, <1>7, <1>8

(* A suspended section begins or ends on the thread of the driver. *)
LEMMA OwnerSuspend ==
    ASSUME TypeOK, OwnerInv, NEW t \in Threads, EnterSuspended(t) \/ LeaveSuspended(t)
    PROVE  OwnerInv'
<1> USE DEF OwnerInv
<1>1. Inside(t) /\ Inside(t)' /\ cur[t] \in Drivers /\ cur' = cur /\ isOnThread' = isOnThread
    BY DEF EnterSuspended, LeaveSuspended, At, ThreadOwns, Inside, OnThread, TypeOK, taskVars
<1>2. \A u \in Threads \ {t} : pc'[u] = pc[u] /\ (Inside(u)' <=> Inside(u))
    BY ZenonT(30) DEF EnterSuspended, LeaveSuspended, TypeOK, Inside
<1>3. \A u \in Threads \ {t} : Inside(u) => cur[u] # cur[t]
    BY Zenon, <1>1 DEF OneOwner
<1>4. /\ pc'[t] = "suspended" <=> isSuspended'[cur[t]]
      /\ \A d \in Drivers \ {cur[t]} : isSuspended'[d] = isSuspended[d]
    BY ZenonT(30), <1>1 DEF EnterSuspended, LeaveSuspended, TypeOK
<1>5. \A d \in Drivers : isTerminated[d] => isTerminated'[d]
    BY ZenonT(30) DEF EnterSuspended, LeaveSuspended, TypeOK, taskVars
<1>6. ThreadOwns'
    BY <1>1, <1>2, <1>3, <1>4, Zenon DEF ThreadOwns
<1>7. OneOwner'
    BY <1>1, <1>2, Zenon DEF OneOwner
<1>8. OnThreadOwned'
    BY <1>1, <1>2, <1>5, Zenon DEF OnThreadOwned
<1>9. SuspendedOwned'
  <2> SUFFICES ASSUME NEW d \in Drivers, isSuspended'[d]
               PROVE  \E u \in Threads : pc'[u] = "suspended" /\ cur'[u] = d
      BY Zenon DEF SuspendedOwned
  <2>1. CASE d = cur[t]
      BY <1>1, <1>4, <2>1, Zenon
  <2>2. CASE d # cur[t]
    <3>1. PICK u \in Threads : pc[u] = "suspended" /\ cur[u] = d
        BY <1>4, <2>2, Zenon DEF SuspendedOwned
    <3> QED
        BY <1>1, <1>2, <2>2, <3>1, Zenon
  <2> QED
      BY Zenon, <2>1, <2>2
<1> QED
    BY Zenon, <1>6, <1>7, <1>8, <1>9

(* Task::leave gives the driver up. *)
LEMMA OwnerLeave ==
    ASSUME TypeOK, OwnerInv, NEW t \in Threads, Leave(t) \/ Unwind(t)
    PROVE  OwnerInv'
<1> USE DEF OwnerInv
<1>1. Inside(t) /\ pc[t] # "suspended" /\ ~Inside(t)' /\ cur[t] \in Drivers /\ ~isSuspended[cur[t]]
    BY DEF Leave, Unwind, GoOffThread, AfterLeave, At, ThreadOwns, Inside, OnThread, TypeOK
<1>2. \A u \in Threads \ {t} : pc'[u] = pc[u] /\ cur'[u] = cur[u] /\ (Inside(u)' <=> Inside(u))
    BY Zenon DEF Leave, Unwind, GoOffThread, TypeOK, Inside
<1>3. /\ isOnThread' = [isOnThread EXCEPT ![cur[t]] = FALSE]
      /\ isSuspended' = isSuspended
      /\ \A d \in Drivers \ {cur[t]} : isTerminated'[d] = isTerminated[d]
    BY Zenon DEF Leave, Unwind, GoOffThread, driverVars, TypeOK
<1>4. \A u \in Threads \ {t} : Inside(u) => cur[u] # cur[t]
    BY Zenon, <1>1 DEF OneOwner
<1>5. ThreadOwns'
  <2> SUFFICES ASSUME NEW u \in Threads, Inside(u)'
               PROVE  /\ cur'[u] \in Drivers /\ isOnThread'[cur'[u]]
                      /\ isSuspended'[cur'[u]] <=> pc'[u] = "suspended"
      BY Zenon DEF ThreadOwns
  <2>1. u # t /\ Inside(u) /\ cur'[u] = cur[u] /\ pc'[u] = pc[u] /\ cur[u] # cur[t]
      BY <1>1, <1>2, <1>4, Zenon
  <2>2. cur[u] \in Drivers /\ isOnThread[cur[u]] /\ (isSuspended[cur[u]] <=> pc[u] = "suspended")
      BY <2>1, ZenonT(30) DEF ThreadOwns
  <2> QED
      BY <1>3, <2>1, <2>2, Zenon DEF TypeOK
<1>6. OneOwner'
    BY ZenonT(30), <1>1, <1>2 DEF OneOwner
<1>7. OnThreadOwned'
  <2> SUFFICES ASSUME NEW e \in Drivers, isOnThread'[e], ~isTerminated'[e]
               PROVE  \E u \in Threads : Inside(u)' /\ cur'[u] = e
      BY Zenon DEF OnThreadOwned
  <2>1. e # cur[t] /\ isOnThread[e] /\ ~isTerminated[e]
      BY Zenon, <1>1, <1>3 DEF TypeOK
  <2>2. PICK u \in Threads : Inside(u) /\ cur[u] = e
      BY Zenon, <2>1 DEF OnThreadOwned
  <2> QED
      BY Zenon, <1>2, <2>1, <2>2
<1>8. SuspendedOwned'
  <2> SUFFICES ASSUME NEW e \in Drivers, isSuspended[e]
               PROVE  \E u \in Threads : pc'[u] = "suspended" /\ cur'[u] = e
      BY <1>3, Zenon DEF SuspendedOwned
  <2>1. PICK u \in Threads : pc[u] = "suspended" /\ cur[u] = e
      BY Zenon DEF SuspendedOwned
  <2> QED
      BY <1>1, <1>2, <2>1, Zenon
<1> QED
    BY Zenon, <1>5, <1>6, <1>7, <1>8

(* Every step keeps the owners. *)
LEMMA OwnerStep == TypeOK /\ OwnerInv /\ [Next]_vars => OwnerInv'
    BY Zenon, StayOrCross, OwnerStay, OwnerEnter, OwnerSuspend, OwnerLeave DEF Cross

-----------------------------------------------------------------------------
(* The books of the task, and which steps write them.                      *)

BooksUnchanged ==
    UNCHANGED <<state, terminateRequested, attached, numFinishedDrivers, numRunningDrivers,
                numTotalDrivers, startPc, toClose>>

(* A call of Task::terminate, whoever makes it. *)
TerminateStep ==
    /\ \E a \in Actors, s \in TaskStates \ {"kRunning"} : Terminate(a, s)
    /\ UNCHANGED <<numTotalDrivers, startPc>>

BookStep ==
    \/ TerminateStep \/ StartStep \/ ResumeTerminated
    \/ (\E t \in Threads : RemoveDriver(t))
    \/ (\E a \in Actors, d \in Drivers : CloseByTask(a, d))

(* The other steps leave the books alone. *)
LEMMA Books == [Next]_vars => BooksUnchanged \/ BookStep
<1> SUFFICES ASSUME [Next]_vars, ~BookStep PROVE BooksUnchanged
    BY Zenon
<1> USE DEF BooksUnchanged
<1>1. ASSUME NEW t \in Threads, NEW d \in Drivers, EnterClosed(t, d) PROVE BooksUnchanged
    BY Zenon, <1>1 DEF EnterClosed, taskVars, callerVars, outputVars
<1>2. ASSUME NEW t \in Threads, NEW d \in Drivers, EnterRefused(t, d) PROVE BooksUnchanged
    BY Zenon, <1>2 DEF EnterRefused, taskVars, callerVars, outputVars
<1>3. ASSUME NEW t \in Threads, NEW d \in Drivers, EnterYield(t, d) PROVE BooksUnchanged
    BY <1>3, Zenon DEF EnterYield, taskVars, callerVars, outputVars
<1>4. ASSUME NEW t \in Threads, NEW d \in Drivers, EnterRun(t, d) PROVE BooksUnchanged
    BY Zenon, <1>4 DEF EnterRun, taskVars, callerVars, outputVars
<1>5. ASSUME NEW t \in Threads, RunStop(t) PROVE BooksUnchanged
    BY Zenon, <1>5 DEF RunStop, taskVars, callerVars, outputVars
<1>6. ASSUME NEW t \in Threads, RunBlock(t) PROVE BooksUnchanged
    BY <1>6, Zenon DEF RunBlock, taskVars, callerVars, outputVars
<1>7. ASSUME NEW t \in Threads, RunCpuSlice(t) PROVE BooksUnchanged
    BY Zenon, <1>7 DEF RunCpuSlice, taskVars, callerVars, outputVars
<1>8. ASSUME NEW t \in Threads, RunAtEnd(t) PROVE BooksUnchanged
    BY Zenon, <1>8 DEF RunAtEnd, taskVars, callerVars, outputVars
<1>9. ASSUME NEW t \in Threads, RunThrow(t) PROVE BooksUnchanged
    BY Zenon, <1>9 DEF RunThrow, taskVars, callerVars, outputVars
<1>10. ASSUME NEW t \in Threads, EnterSuspended(t) PROVE BooksUnchanged
    BY Zenon, <1>10 DEF EnterSuspended, taskVars, callerVars, outputVars
<1>11. ASSUME NEW t \in Threads, LeaveSuspended(t) PROVE BooksUnchanged
    BY Zenon, <1>11 DEF LeaveSuspended, taskVars, callerVars, outputVars
<1>12. ASSUME NEW t \in Threads, Cancelled(t) PROVE TerminateStep
    BY Zenon, <1>12 DEF Cancelled, TerminateStep, Actors, TaskStates, callerVars, outputVars
<1>13. ASSUME NEW t \in Threads, Fail(t) PROVE TerminateStep
    BY Zenon, <1>13 DEF Fail, TerminateStep, Actors, TaskStates, callerVars, outputVars
<1>14. ASSUME NEW t \in Threads, GuardThrown(t) PROVE BooksUnchanged
    BY Zenon, <1>14 DEF GuardThrown, taskVars, callerVars, outputVars
<1>15. ASSUME NEW t \in Threads, CloseOperators(t) PROVE BooksUnchanged
    BY Zenon, <1>15 DEF CloseOperators, taskVars, callerVars, outputVars
<1>16. ASSUME NEW t \in Threads, FinishTask(t) PROVE TerminateStep
    BY Zenon, <1>16 DEF FinishTask, TerminateStep, Actors, TaskStates, callerVars, outputVars
<1>17. ASSUME NEW t \in Threads, Leave(t) PROVE BooksUnchanged
    BY Zenon, <1>17 DEF Leave, taskVars, callerVars, outputVars
<1>18. ASSUME NEW t \in Threads, LeaveTerminated(t) PROVE BooksUnchanged
    BY <1>18, Zenon DEF LeaveTerminated, taskVars, callerVars, outputVars
<1>19. ASSUME NEW t \in Threads, Unwind(t) PROVE BooksUnchanged
    BY Zenon, <1>19 DEF Unwind, taskVars, callerVars, outputVars
<1>20. ASSUME NEW t \in Threads, CheckBlocked(t) PROVE BooksUnchanged
    BY Zenon, <1>20 DEF CheckBlocked, taskVars, callerVars, outputVars
<1>21. ASSUME NEW t \in Threads, SetResume(t) PROVE BooksUnchanged
    BY Zenon, <1>21 DEF SetResume, taskVars, callerVars, outputVars
<1>22. ASSUME NEW t \in Threads, EnqueueYielded(t) PROVE BooksUnchanged
    BY Zenon, <1>22 DEF EnqueueYielded, taskVars, callerVars, outputVars
<1>23. ASSUME NEW d \in Drivers, Realize(d) PROVE BooksUnchanged
    BY Zenon, <1>23 DEF Realize, taskVars, callerVars, outputVars
<1>24. ASSUME NEW d \in Drivers, RealizeError(d) PROVE BooksUnchanged
    BY Zenon, <1>24 DEF RealizeError, taskVars, callerVars, outputVars
<1>25. ASSUME RequestTerminate PROVE TerminateStep
    BY Zenon, <1>25 DEF RequestTerminate, TerminateStep, Actors, TaskStates, callerVars, outputVars
<1>26. ASSUME RequestYield PROVE BooksUnchanged
    BY Zenon, <1>26 DEF RequestYield, taskVars, callerVars, outputVars
<1>27. ASSUME SetAllOutputConsumed PROVE BooksUnchanged
    BY Zenon, <1>27 DEF SetAllOutputConsumed, taskVars, callerVars, outputVars
<1>28. ASSUME NEW due \in {"finish", "fail"}, ClientTerminate(due) PROVE TerminateStep
    BY Zenon, <1>28 DEF ClientTerminate, TerminateStep, Actors, TaskStates, callerVars, outputVars
<1>29. ASSUME RequestPause PROVE BooksUnchanged
    BY Zenon, <1>29 DEF RequestPause, taskVars, callerVars, outputVars, reclaimUnchanged
<1>30. ASSUME RequestAbort PROVE BooksUnchanged
    BY Zenon, <1>30 DEF RequestAbort, taskVars, callerVars, outputVars, reclaimUnchanged,
       SetErrorForAbort
<1>31. ASSUME PauseDone PROVE BooksUnchanged
    BY Zenon, <1>31 DEF PauseDone, taskVars, callerVars, outputVars, reclaimUnchanged
<1>32. ASSUME PauseTimeout PROVE BooksUnchanged
    BY Zenon, <1>32 DEF PauseTimeout, taskVars, callerVars, outputVars, reclaimUnchanged
<1>33. ASSUME ReclaimDone PROVE BooksUnchanged
    BY Zenon, <1>33 DEF ReclaimDone, taskVars, callerVars, outputVars, reclaimUnchanged
<1>34. ASSUME ResumeRunning PROVE BooksUnchanged
    BY Zenon, <1>34 DEF ResumeRunning, taskVars, callerVars, outputVars, reclaimUnchanged
<1>35. ASSUME ReclaimReturns PROVE BooksUnchanged
    BY Zenon, <1>35 DEF ReclaimReturns, taskVars, callerVars, outputVars, reclaimUnchanged
<1>36. ASSUME AbortSetError PROVE BooksUnchanged
    BY Zenon, <1>36 DEF AbortSetError, taskVars, callerVars, outputVars, reclaimUnchanged,
       SetErrorForAbort
<1>37. ASSUME AbortTerminate PROVE TerminateStep
    BY Zenon, <1>37 DEF AbortTerminate, TerminateStep, Actors, TaskStates, callerVars, outputVars,
       reclaimUnchanged
<1>38. ASSUME CompletionTimeout PROVE BooksUnchanged
    BY Zenon, <1>38, AbortLeaves DEF taskVars, callerVars, outputVars, reclaimUnchanged
<1>39. ASSUME AbortStep PROVE BooksUnchanged
    BY Zenon, <1>39, AbortLeaves DEF taskVars, callerVars, outputVars, reclaimUnchanged
<1>40. ASSUME vars' = vars PROVE BooksUnchanged
    BY Zenon, <1>40 DEF vars, taskVars, callerVars, outputVars
<1> HIDE DEF BooksUnchanged
<1>41. ASSUME NEW t \in Threads, NEW d \in Drivers, EnterStep(t, d) PROVE BooksUnchanged
    BY Zenon, <1>41, <1>1, <1>2, <1>3, <1>4 DEF EnterStep, BookStep
<1>42. ASSUME NEW t \in Threads, RunStep(t) PROVE BooksUnchanged
    BY Zenon, <1>42, <1>5, <1>6, <1>7, <1>8, <1>9, <1>10 DEF RunStep, BookStep
<1>43. ASSUME NEW t \in Threads, ExitStep(t) PROVE BooksUnchanged
    BY ZenonT(30), <1>43, <1>12, <1>13, <1>14, <1>15, <1>16, <1>17, <1>18, <1>19, <1>20, <1>21, <1>22
       DEF ExitStep, BookStep
<1>44. CASE ClientStep
    BY Zenon, <1>44, <1>25, <1>26, <1>27, <1>28 DEF ClientStep, BookStep
<1>45. CASE ReclaimStep
    BY ZenonT(30), <1>45, <1>31, <1>32, <1>33, <1>34, <1>35, <1>36, <1>37, <1>38, <1>39 DEF ReclaimStep,
       BookStep
<1> QED
    BY Zenon, <1>11, <1>23, <1>24, <1>29, <1>30, <1>40, <1>41, <1>42, <1>43, <1>44, <1>45 DEF Next,
       BookStep

(* A step of anybody but the reclaimer leaves its pause alone, except that *)
(* the last thread off the task grants it.                                 *)
PauseUnchanged ==
    /\ UNCHANGED <<reclaimPc, pauseRequested, abortDue, visit>>
    /\ finishPromise' = finishPromise \/ numThreads' = 0

(* The steps that touch the pause are the reclaimer's. *)
LEMMA Pauses == TypeOK /\ [Next]_vars => PauseUnchanged \/ RequestPause \/ RequestAbort \/ ReclaimStep
<1> SUFFICES ASSUME TypeOK, [Next]_vars, ~RequestPause, ~RequestAbort, ~ReclaimStep
             PROVE PauseUnchanged
    BY Zenon
<1> USE DEF PauseUnchanged
<1>1. ASSUME StartFactories PROVE PauseUnchanged
    BY Zenon, <1>1 DEF StartFactories, callerVars
<1>2. ASSUME CreateAndStartDrivers PROVE PauseUnchanged
    BY Zenon, <1>2 DEF CreateAndStartDrivers, callerVars
<1>3. ASSUME StartAfterTerminate PROVE PauseUnchanged
    BY Zenon, <1>3 DEF StartAfterTerminate, callerVars
<1>4. ASSUME StartFails PROVE PauseUnchanged
    BY Zenon, <1>4 DEF StartFails, callerVars
<1>5. ASSUME NEW t \in Threads, NEW d \in Drivers, EnterClosed(t, d) PROVE PauseUnchanged
    BY Zenon, <1>5 DEF EnterClosed, callerVars
<1>6. ASSUME NEW t \in Threads, NEW d \in Drivers, EnterRefused(t, d) PROVE PauseUnchanged
    BY Zenon, <1>6 DEF EnterRefused, callerVars
<1>7. ASSUME NEW t \in Threads, NEW d \in Drivers, EnterYield(t, d) PROVE PauseUnchanged
    BY <1>7, Zenon DEF EnterYield, callerVars
<1>8. ASSUME NEW t \in Threads, NEW d \in Drivers, EnterRun(t, d) PROVE PauseUnchanged
    BY <1>8, Zenon DEF EnterRun, callerVars
<1>9. ASSUME NEW t \in Threads, RunStop(t) PROVE PauseUnchanged
    BY Zenon, <1>9 DEF RunStop, callerVars
<1>10. ASSUME NEW t \in Threads, RunBlock(t) PROVE PauseUnchanged
    BY Zenon, <1>10 DEF RunBlock, callerVars
<1>11. ASSUME NEW t \in Threads, RunCpuSlice(t) PROVE PauseUnchanged
    BY Zenon, <1>11 DEF RunCpuSlice, callerVars
<1>12. ASSUME NEW t \in Threads, RunAtEnd(t) PROVE PauseUnchanged
    BY Zenon, <1>12 DEF RunAtEnd, callerVars
<1>13. ASSUME NEW t \in Threads, RunThrow(t) PROVE PauseUnchanged
    BY Zenon, <1>13 DEF RunThrow, callerVars
<1>14. ASSUME NEW t \in Threads, EnterSuspended(t) PROVE PauseUnchanged
    BY <1>14 DEF EnterSuspended, ThreadGone, TypeOK, callerVars
<1>15. ASSUME NEW t \in Threads, LeaveSuspended(t) PROVE PauseUnchanged
    BY Zenon, <1>15 DEF LeaveSuspended, callerVars
<1>16. ASSUME NEW t \in Threads, Cancelled(t) PROVE PauseUnchanged
    BY Zenon, <1>16 DEF Cancelled, callerVars
<1>17. ASSUME NEW t \in Threads, Fail(t) PROVE PauseUnchanged
    BY Zenon, <1>17 DEF Fail, callerVars
<1>18. ASSUME NEW t \in Threads, GuardThrown(t) PROVE PauseUnchanged
    BY Zenon, <1>18 DEF GuardThrown, callerVars
<1>19. ASSUME NEW t \in Threads, CloseOperators(t) PROVE PauseUnchanged
    BY Zenon, <1>19 DEF CloseOperators, callerVars
<1>20. ASSUME NEW t \in Threads, RemoveDriver(t) PROVE PauseUnchanged
    BY Zenon, <1>20 DEF RemoveDriver, callerVars
<1>21. ASSUME NEW t \in Threads, FinishTask(t) PROVE PauseUnchanged
    BY Zenon, <1>21 DEF FinishTask, callerVars
<1>22. ASSUME NEW t \in Threads, Leave(t) PROVE PauseUnchanged
    BY <1>22 DEF Leave, ThreadGone, TypeOK, GoOffThread, callerVars
<1>23. ASSUME NEW t \in Threads, LeaveTerminated(t) PROVE PauseUnchanged
    BY <1>23, Zenon DEF LeaveTerminated, callerVars
<1>24. ASSUME NEW t \in Threads, Unwind(t) PROVE PauseUnchanged
    BY <1>24 DEF Unwind, ThreadGone, TypeOK, GoOffThread, callerVars
<1>25. ASSUME NEW t \in Threads, CheckBlocked(t) PROVE PauseUnchanged
    BY Zenon, <1>25 DEF CheckBlocked, callerVars
<1>26. ASSUME NEW t \in Threads, SetResume(t) PROVE PauseUnchanged
    BY Zenon, <1>26 DEF SetResume, callerVars
<1>27. ASSUME NEW t \in Threads, EnqueueYielded(t) PROVE PauseUnchanged
    BY <1>27, Zenon DEF EnqueueYielded, callerVars
<1>28. ASSUME NEW d \in Drivers, Realize(d) PROVE PauseUnchanged
    BY Zenon, <1>28 DEF Realize, callerVars
<1>29. ASSUME NEW d \in Drivers, RealizeError(d) PROVE PauseUnchanged
    BY Zenon, <1>29 DEF RealizeError, callerVars
<1>30. ASSUME NEW a \in Actors, NEW d \in Drivers, CloseByTask(a, d) PROVE PauseUnchanged
    BY Zenon, <1>30 DEF CloseByTask, callerVars
<1>31. ASSUME RequestTerminate PROVE PauseUnchanged
    BY Zenon, <1>31 DEF RequestTerminate, callerVars
<1>32. ASSUME RequestYield PROVE PauseUnchanged
    BY Zenon, <1>32 DEF RequestYield, callerVars
<1>33. ASSUME SetAllOutputConsumed PROVE PauseUnchanged
    BY Zenon, <1>33 DEF SetAllOutputConsumed, callerVars
<1>34. ASSUME NEW due \in {"finish", "fail"}, ClientTerminate(due) PROVE PauseUnchanged
    BY Zenon, <1>34 DEF ClientTerminate, callerVars
<1>35. ASSUME vars' = vars PROVE PauseUnchanged
    BY Zenon, <1>35 DEF vars, callerVars
<1> HIDE DEF PauseUnchanged
<1>36. ASSUME NEW t \in Threads, NEW d \in Drivers, EnterStep(t, d) PROVE PauseUnchanged
    BY Zenon, <1>36, <1>5, <1>6, <1>7, <1>8 DEF EnterStep
<1>37. ASSUME NEW t \in Threads, RunStep(t) PROVE PauseUnchanged
    BY Zenon, <1>37, <1>9, <1>10, <1>11, <1>12, <1>13, <1>14 DEF RunStep
<1>38. ASSUME NEW t \in Threads, ExitStep(t) PROVE PauseUnchanged
    BY Zenon, <1>38, <1>16, <1>17, <1>18, <1>19, <1>20, <1>21, <1>22, <1>23, <1>24, <1>25, <1>26,
       <1>27 DEF ExitStep
<1>39. CASE StartStep \/ ClientStep
    BY ZenonT(30), <1>39, <1>1, <1>2, <1>3, <1>4, <1>31, <1>32, <1>33, <1>34 DEF StartStep, ClientStep
<1> QED
    BY ZenonT(30), <1>15, <1>28, <1>29, <1>30, <1>35, <1>36, <1>37, <1>38, <1>39 DEF Next

-----------------------------------------------------------------------------
(* Who hands drivers on, to close them.                                    *)

(* Where a thread can be while its driver is still open. *)
OpenPoints == {"run", "suspended", "fail", "guard", "close"}

(* A thread goes on with its driver, which stays as open or as closed as   *)
(* it is, or remains outside of the task.                                  *)
Onward(t) ==
    \/ ~Inside(t) /\ ~Inside(t)'
    \/ /\ Inside(t) /\ Inside(t)' /\ cur'[t] = cur[t]
       /\ \/ pc'[t] = pc[t]
          \/ pc[t] \in OpenPoints /\ pc'[t] \in OpenPoints \cup {"leave"}
          \/ pc[t] = "leave" /\ pc'[t] = CloseOr(cur[t], "unwind")
          \/ pc[t] = "finish" /\ pc'[t] \in {"leave", "unwind"}

(* Actor a takes the off-thread drivers off to close them. *)
Takes(a, off) ==
    /\ off \subseteq OffThreadDrivers
    /\ attached' = attached \ off
    /\ \A b \in Actors : toClose'[b] = IF b = a THEN toClose[b] \cup off ELSE toClose[b]
    /\ \A d \in Drivers : isOnThread'[d] <=> isOnThread[d] \/ d \in off
    /\ terminateRequested \/ off # {} => terminateRequested'

Handing ==
    /\ \E a \in Actors, off \in SUBSET Drivers : Takes(a, off)
    /\ \A t \in Threads : Onward(t)
    /\ UNCHANGED <<closed, startPc>>

(* The steps that open, close or remove a driver. *)
OpenOrClose ==
    \/ StartStep
    \/ \E t \in Threads :
          \/ \E d \in Drivers : EnterRun(t, d)
          \/ CloseOperators(t) \/ RemoveDriver(t) \/ Leave(t) \/ Unwind(t)
    \/ \E a \in Actors, d \in Drivers : CloseByTask(a, d)

(* Task::terminate takes the off-thread drivers of a running task that is  *)
(* not paused, and otherwise none.                                         *)
LEMMA TerminateTakes ==
    ASSUME TypeOK, NEW a \in Actors, NEW s, Terminate(a, s)
    PROVE  \E off \in SUBSET Drivers : Takes(a, off)
<1> DEFINE off == IF pauseRequested \/ state # "kRunning" THEN {} ELSE OffThreadDrivers
<1>1. off \in SUBSET Drivers /\ off \subseteq OffThreadDrivers
    BY Zenon DEF TypeOK, OffThreadDrivers
<1>2. CASE state # "kRunning"
    BY Zenon, <1>1, <1>2 DEF Terminate, taskVars, Takes, TypeOK
<1>3. CASE state = "kRunning"
  <2>1. /\ terminateRequested' = TRUE /\ attached' = attached \ off
        /\ isOnThread' = [d \in Drivers |-> isOnThread[d] \/ d \in off]
        /\ toClose' = [toClose EXCEPT ![a] = @ \cup off]
      BY Zenon, <1>3 DEF Terminate
  <2> HIDE DEF off
  <2>2. Takes(a, off)
      BY Zenon, <1>1, <2>1 DEF Takes, TypeOK
  <2> QED
      BY Zenon, <1>1, <2>2
<1> QED
    BY Zenon, <1>2, <1>3

(* A step that leaves the drivers alone takes none of them. *)
LEMMA TakesNothing ==
    ASSUME TypeOK, UNCHANGED <<attached, toClose, isOnThread, terminateRequested>>
    PROVE  \E a \in Actors, off \in SUBSET Drivers : Takes(a, off)
<1>1. Takes(Client, {})
    BY Zenon DEF Takes
<1> QED
    BY Zenon, <1>1 DEF Actors

(* All the other steps hand drivers on. *)
LEMMA HandingOrNot == TypeOK /\ TerminateInv /\ [Next]_vars => Handing \/ OpenOrClose
<1> SUFFICES ASSUME TypeOK, TerminateInv, [Next]_vars, ~OpenOrClose PROVE Handing
    BY Zenon
<1> DEFINE Same == UNCHANGED <<attached, toClose, isOnThread, terminateRequested, closed, startPc>>
           Moves == \A t \in Threads : Onward(t)
           Takers == \E a \in Actors, off \in SUBSET Drivers : Takes(a, off)
<1>1. ASSUME NEW t \in Threads, NEW d \in Drivers, EnterClosed(t, d) PROVE Handing
  <2>1. Same
      BY Zenon, <1>1 DEF EnterClosed, TakeJob, At, taskVars, driverVars, threadVars, callerVars
  <2>2. Moves
      BY ZenonT(30), <1>1 DEF EnterClosed, TakeJob, At, threadVars, driverVars, Onward, Inside,
         OnThread, OpenPoints, TypeOK
  <2> QED
      BY <2>1, <2>2, TakesNothing, Zenon DEF Handing
<1>2. ASSUME NEW t \in Threads, NEW d \in Drivers, EnterRefused(t, d) PROVE Handing
  <2>1. Same
      BY ZenonT(30), <1>2 DEF EnterRefused, TakeJob, At, taskVars, driverVars, threadVars, callerVars
  <2>2. Moves
      BY ZenonT(30), <1>2 DEF EnterRefused, TakeJob, At, threadVars, driverVars, Onward, Inside,
         OnThread, OpenPoints, TypeOK
  <2> QED
      BY <2>1, <2>2, TakesNothing, Zenon DEF Handing
<1>3. ASSUME NEW t \in Threads, NEW d \in Drivers, EnterYield(t, d) PROVE Handing
  <2>1. Same
      BY ZenonT(30), <1>3 DEF EnterYield, TakeJob, At, taskVars, driverVars, threadVars, callerVars
  <2>2. Moves
      BY ZenonT(30), <1>3 DEF EnterYield, TakeJob, At, threadVars, driverVars, Onward, Inside, OnThread,
         OpenPoints, TypeOK
  <2> QED
      BY <2>1, <2>2, TakesNothing, Zenon DEF Handing
<1>4. ASSUME NEW t \in Threads, RunStop(t) PROVE Handing
  <2>1. Same
      BY ZenonT(30), <1>4 DEF RunStop, ExitLoop, At, taskVars, driverVars, threadVars, callerVars
  <2>2. Moves
      BY ZenonT(30), <1>4 DEF RunStop, ExitLoop, At, threadVars, driverVars, Onward, Inside, OnThread,
         OpenPoints, TypeOK
  <2> QED
      BY <2>1, <2>2, TakesNothing, Zenon DEF Handing
<1>5. ASSUME NEW t \in Threads, RunBlock(t) PROVE Handing
  <2>1. Same
      BY Zenon, <1>5 DEF RunBlock, ExitLoop, At, taskVars, driverVars, threadVars, callerVars
  <2>2. Moves
      BY ZenonT(30), <1>5 DEF RunBlock, ExitLoop, At, threadVars, driverVars, Onward, Inside, OnThread,
         OpenPoints, TypeOK
  <2> QED
      BY <2>1, <2>2, TakesNothing, Zenon DEF Handing
<1>6. ASSUME NEW t \in Threads, RunCpuSlice(t) PROVE Handing
  <2>1. Same
      BY Zenon, <1>6 DEF RunCpuSlice, ExitLoop, At, taskVars, driverVars, threadVars, callerVars
  <2>2. Moves
      BY ZenonT(30), <1>6 DEF RunCpuSlice, ExitLoop, At, threadVars, driverVars, Onward, Inside,
         OnThread, OpenPoints, TypeOK
  <2> QED
      BY <2>1, <2>2, TakesNothing, Zenon DEF Handing
<1>7. ASSUME NEW t \in Threads, RunAtEnd(t) PROVE Handing
  <2>1. Same
      BY Zenon, <1>7 DEF RunAtEnd, ExitLoop, At, CloseOr, taskVars, driverVars, threadVars,
         callerVars
  <2>2. Moves
      BY ZenonT(30), <1>7 DEF RunAtEnd, ExitLoop, At, CloseOr, threadVars, driverVars, Onward, Inside,
         OnThread, OpenPoints, TypeOK
  <2> QED
      BY <2>1, <2>2, TakesNothing, Zenon DEF Handing
<1>8. ASSUME NEW t \in Threads, RunThrow(t) PROVE Handing
  <2>1. Same
      BY Zenon, <1>8 DEF RunThrow, ExitLoop, At, taskVars, driverVars, threadVars, callerVars
  <2>2. Moves
      BY ZenonT(30), <1>8 DEF RunThrow, ExitLoop, At, threadVars, driverVars, Onward, Inside, OnThread,
         OpenPoints, TypeOK
  <2> QED
      BY <2>1, <2>2, TakesNothing, Zenon DEF Handing
<1>9. ASSUME NEW t \in Threads, EnterSuspended(t) PROVE Handing
  <2>1. Same
      BY ZenonT(30), <1>9 DEF EnterSuspended, At, taskVars, driverVars, threadVars, callerVars
  <2>2. Moves
      BY ZenonT(30), <1>9 DEF EnterSuspended, At, threadVars, driverVars, Onward, Inside, OnThread,
         OpenPoints, TypeOK
  <2> QED
      BY <2>1, <2>2, TakesNothing, Zenon DEF Handing
<1>10. ASSUME NEW t \in Threads, LeaveSuspended(t) PROVE Handing
  <2>1. Same
      BY Zenon, <1>10 DEF LeaveSuspended, At, taskVars, driverVars, threadVars, callerVars
  <2>2. Moves
      BY ZenonT(30), <1>10 DEF LeaveSuspended, At, threadVars, driverVars, Onward, Inside, OnThread,
         OpenPoints, TypeOK
  <2> QED
      BY <2>1, <2>2, TakesNothing, Zenon DEF Handing
<1>11. ASSUME NEW t \in Threads, Cancelled(t) PROVE Handing
  <2>1. UNCHANGED <<closed, startPc>> /\ \E st : Terminate(t, st)
      BY <1>11, Zenon DEF Cancelled, At, driverVars, callerVars
  <2>2. Takers
      BY <2>1, TerminateTakes, Zenon DEF Actors
  <2>3. Moves
      BY ZenonT(30), <1>11 DEF Cancelled, At, threadVars, driverVars, Onward, Inside, OnThread,
         OpenPoints, TypeOK
  <2> QED
      BY <2>1, <2>2, <2>3, Zenon DEF Handing
<1>12. ASSUME NEW t \in Threads, Fail(t) PROVE Handing
  <2>1. UNCHANGED <<closed, startPc>> /\ \E st : Terminate(t, st)
      BY <1>12, Zenon DEF Fail, At, driverVars, callerVars
  <2>2. Takers
      BY <2>1, TerminateTakes, Zenon DEF Actors
  <2>3. Moves
      BY ZenonT(30), <1>12 DEF Fail, At, threadVars, driverVars, Onward, Inside, OnThread, OpenPoints,
         TypeOK
  <2> QED
      BY <2>1, <2>2, <2>3, Zenon DEF Handing
<1>13. ASSUME NEW t \in Threads, GuardThrown(t) PROVE Handing
  <2>1. Same
      BY Zenon, <1>13 DEF GuardThrown, At, CloseOr, taskVars, driverVars, threadVars, callerVars
  <2>2. Moves
      BY ZenonT(30), <1>13 DEF GuardThrown, At, CloseOr, threadVars, driverVars, Onward, Inside,
         OnThread, OpenPoints, TypeOK
  <2> QED
      BY <2>1, <2>2, TakesNothing, Zenon DEF Handing
<1>14. ASSUME NEW t \in Threads, FinishTask(t) PROVE Handing
  <2>1. UNCHANGED <<closed, startPc>> /\ \E st : Terminate(t, st)
      BY <1>14, Zenon DEF FinishTask, At, AfterClose, driverVars, callerVars
  <2>2. Takers
      BY <2>1, TerminateTakes, Zenon DEF Actors
  <2>3. Moves
      BY ZenonT(30), <1>14 DEF FinishTask, At, AfterClose, threadVars, driverVars, Onward, Inside,
         OnThread, OpenPoints, TypeOK
  <2> QED
      BY <2>1, <2>2, <2>3, Zenon DEF Handing
<1>15. ASSUME NEW t \in Threads, LeaveTerminated(t) PROVE Handing
  <2>1. Same
      BY Zenon, <1>15 DEF LeaveTerminated, At, CloseOr, taskVars, driverVars, threadVars,
         callerVars
  <2>2. Moves
      BY ZenonT(30), <1>15 DEF LeaveTerminated, At, CloseOr, threadVars, driverVars, Onward, Inside,
         OnThread, OpenPoints, TypeOK
  <2> QED
      BY <2>1, <2>2, TakesNothing, Zenon DEF Handing
<1>16. ASSUME NEW t \in Threads, CheckBlocked(t) PROVE Handing
  <2>1. Same
      BY ZenonT(30), <1>16 DEF CheckBlocked, At, taskVars, driverVars, threadVars, callerVars
  <2>2. Moves
      BY ZenonT(30), <1>16 DEF CheckBlocked, At, threadVars, driverVars, Onward, Inside, OnThread,
         OpenPoints, TypeOK
  <2> QED
      BY <2>1, <2>2, TakesNothing, Zenon DEF Handing
<1>17. ASSUME NEW t \in Threads, SetResume(t) PROVE Handing
  <2>1. Same
      BY Zenon, <1>17 DEF SetResume, At, taskVars, driverVars, threadVars, callerVars
  <2>2. Moves
      BY ZenonT(30), <1>17 DEF SetResume, At, threadVars, driverVars, Onward, Inside, OnThread,
         OpenPoints, TypeOK
  <2> QED
      BY <2>1, <2>2, TakesNothing, Zenon DEF Handing
<1>18. ASSUME NEW t \in Threads, EnqueueYielded(t) PROVE Handing
  <2>1. Same
      BY ZenonT(30), <1>18 DEF EnqueueYielded, At, taskVars, driverVars, threadVars, callerVars
  <2>2. Moves
      BY ZenonT(30), <1>18 DEF EnqueueYielded, At, threadVars, driverVars, Onward, Inside, OnThread,
         OpenPoints, TypeOK
  <2> QED
      BY <2>1, <2>2, TakesNothing, Zenon DEF Handing
<1>19. ASSUME NEW d \in Drivers, Realize(d) PROVE Handing
  <2>1. Same
      BY Zenon, <1>19 DEF Realize, taskVars, driverVars, threadVars, callerVars
  <2>2. Moves
      BY ZenonT(30), <1>19 DEF Realize, threadVars, driverVars, Onward, Inside
  <2> QED
      BY <2>1, <2>2, TakesNothing, Zenon DEF Handing
<1>20. ASSUME NEW d \in Drivers, RealizeError(d) PROVE Handing
  <2>1. Same
      BY Zenon, <1>20 DEF RealizeError, taskVars, driverVars, threadVars, callerVars
  <2>2. Moves
      BY Zenon, <1>20 DEF RealizeError, threadVars, driverVars, Onward, Inside
  <2> QED
      BY <2>1, <2>2, TakesNothing, Zenon DEF Handing
<1>21. ASSUME RequestTerminate PROVE Handing
  <2>1. UNCHANGED <<closed, startPc>> /\ \E st : Terminate(Client, st)
      BY <1>21, Zenon DEF RequestTerminate, driverVars, callerVars
  <2>2. Takers
      BY <2>1, TerminateTakes, Zenon DEF Actors
  <2>3. Moves
      BY Zenon, <1>21 DEF RequestTerminate, threadVars, driverVars, Onward, Inside
  <2> QED
      BY <2>1, <2>2, <2>3, Zenon DEF Handing
<1>22. ASSUME RequestYield PROVE Handing
  <2>1. Same
      BY Zenon, <1>22 DEF RequestYield, taskVars, driverVars, threadVars, callerVars
  <2>2. Moves
      BY ZenonT(30), <1>22 DEF RequestYield, threadVars, driverVars, Onward, Inside
  <2> QED
      BY <2>1, <2>2, TakesNothing, Zenon DEF Handing
<1>23. ASSUME SetAllOutputConsumed PROVE Handing
  <2>1. Same
      BY Zenon, <1>23 DEF SetAllOutputConsumed, taskVars, driverVars, threadVars, callerVars
  <2>2. Moves
      BY Zenon, <1>23 DEF SetAllOutputConsumed, threadVars, driverVars, Onward, Inside
  <2> QED
      BY <2>1, <2>2, TakesNothing, Zenon DEF Handing
<1>24. ASSUME NEW due \in {"finish", "fail"}, ClientTerminate(due) PROVE Handing
  <2>1. UNCHANGED <<closed, startPc>> /\ \E st : Terminate(Client, st)
      BY <1>24, Zenon DEF ClientTerminate, driverVars, callerVars
  <2>2. Takers
      BY <2>1, TerminateTakes, Zenon DEF Actors
  <2>3. Moves
      BY Zenon, <1>24 DEF ClientTerminate, threadVars, driverVars, Onward, Inside
  <2> QED
      BY <2>1, <2>2, <2>3, Zenon DEF Handing
<1>25. ASSUME RequestPause PROVE Handing
  <2>1. Same
      BY Zenon, <1>25 DEF RequestPause, reclaimUnchanged, taskVars, driverVars, threadVars,
         callerVars
  <2>2. Moves
      BY Zenon, <1>25 DEF RequestPause, reclaimUnchanged, threadVars, driverVars, Onward, Inside
  <2> QED
      BY <2>1, <2>2, TakesNothing, Zenon DEF Handing
<1>26. ASSUME RequestAbort PROVE Handing
  <2>1. Same
      BY Zenon, <1>26 DEF RequestAbort, SetErrorForAbort, reclaimUnchanged, taskVars, driverVars,
         threadVars, callerVars
  <2>2. Moves
      BY Zenon, <1>26 DEF RequestAbort, SetErrorForAbort, reclaimUnchanged, threadVars, driverVars,
         Onward, Inside
  <2> QED
      BY <2>1, <2>2, TakesNothing, Zenon DEF Handing
<1>27. ASSUME PauseDone PROVE Handing
  <2>1. Same
      BY Zenon, <1>27 DEF PauseDone, reclaimUnchanged, taskVars, driverVars, threadVars, callerVars
  <2>2. Moves
      BY Zenon, <1>27 DEF PauseDone, reclaimUnchanged, threadVars, driverVars, Onward, Inside
  <2> QED
      BY <2>1, <2>2, TakesNothing, Zenon DEF Handing
<1>28. ASSUME PauseTimeout PROVE Handing
  <2>1. Same
      BY Zenon, <1>28 DEF PauseTimeout, reclaimUnchanged, taskVars, driverVars, threadVars,
         callerVars
  <2>2. Moves
      BY Zenon, <1>28 DEF PauseTimeout, reclaimUnchanged, threadVars, driverVars, Onward, Inside
  <2> QED
      BY <2>1, <2>2, TakesNothing, Zenon DEF Handing
<1>29. ASSUME ReclaimDone PROVE Handing
  <2>1. Same
      BY Zenon, <1>29 DEF ReclaimDone, reclaimUnchanged, taskVars, driverVars, threadVars,
         callerVars
  <2>2. Moves
      BY Zenon, <1>29 DEF ReclaimDone, reclaimUnchanged, threadVars, driverVars, Onward, Inside
  <2> QED
      BY <2>1, <2>2, TakesNothing, Zenon DEF Handing
<1>30. ASSUME ResumeRunning PROVE Handing
  <2>1. Same
      BY Zenon, <1>30 DEF ResumeRunning, reclaimUnchanged, taskVars, driverVars, threadVars,
         callerVars
  <2>2. Moves
      BY Zenon, <1>30 DEF ResumeRunning, reclaimUnchanged, threadVars, driverVars, Onward, Inside
  <2> QED
      BY <2>1, <2>2, TakesNothing, Zenon DEF Handing
<1>31. ASSUME ResumeTerminated PROVE Handing
  <2>1. OffThreadDrivers \in SUBSET Drivers /\ Reclaimer \in Actors
      BY Zenon DEF OffThreadDrivers, TypeOK, Actors
  <2>2. /\ isOnThread' = [d \in Drivers |-> isOnThread[d] \/ d \in OffThreadDrivers]
        /\ attached' = attached \ OffThreadDrivers
        /\ toClose' = [toClose EXCEPT ![Reclaimer] = @ \cup OffThreadDrivers]
        /\ state # "kRunning" /\ terminateRequested' = terminateRequested
        /\ UNCHANGED <<closed, startPc, pc, cur>>
      BY Zenon, <1>31 DEF ResumeTerminated, reclaimUnchanged, driverVars, threadVars
  <2>3. ASSUME terminateRequested PROVE Takes(Reclaimer, OffThreadDrivers)
      BY ZenonT(30), <2>1, <2>2, <2>3 DEF Takes, TypeOK
  <2>4. Moves
      BY Zenon, <2>2 DEF Onward, Inside
  <2> QED
      BY <2>1, <2>2, <2>3, <2>4, Zenon DEF Handing, TerminateInv
<1>32. ASSUME ReclaimReturns PROVE Handing
  <2>1. Same
      BY ZenonT(30), <1>32 DEF ReclaimReturns, reclaimUnchanged, taskVars, driverVars, threadVars,
         callerVars
  <2>2. Moves
      BY Zenon, <1>32 DEF ReclaimReturns, reclaimUnchanged, threadVars, driverVars, Onward, Inside
  <2> QED
      BY <2>1, <2>2, TakesNothing, Zenon DEF Handing
<1>33. ASSUME AbortSetError PROVE Handing
  <2>1. Same
      BY ZenonT(30), <1>33 DEF AbortSetError, SetErrorForAbort, reclaimUnchanged, taskVars, driverVars,
         threadVars, callerVars
  <2>2. Moves
      BY Zenon, <1>33 DEF AbortSetError, SetErrorForAbort, reclaimUnchanged, threadVars,
         driverVars, Onward, Inside
  <2> QED
      BY <2>1, <2>2, TakesNothing, Zenon DEF Handing
<1>34. ASSUME AbortTerminate PROVE Handing
  <2>1. UNCHANGED <<closed, startPc>> /\ \E st : Terminate(Reclaimer, st)
      BY <1>34, Zenon DEF AbortTerminate, reclaimUnchanged, driverVars, callerVars
  <2>2. Takers
      BY <2>1, TerminateTakes, Zenon DEF Actors
  <2>3. Moves
      BY Zenon, <1>34 DEF AbortTerminate, reclaimUnchanged, threadVars, driverVars, Onward, Inside
  <2> QED
      BY <2>1, <2>2, <2>3, Zenon DEF Handing
<1>35. ASSUME CompletionTimeout PROVE Handing
  <2>1. Same
      BY ZenonT(30), <1>35, AbortLeaves DEF reclaimUnchanged, taskVars, driverVars, threadVars,
         callerVars
  <2>2. Moves
      BY Zenon, <1>35, AbortLeaves DEF reclaimUnchanged, threadVars, driverVars, Onward, Inside
  <2> QED
      BY <2>1, <2>2, TakesNothing, Zenon DEF Handing
<1>36. ASSUME AbortStep PROVE Handing
  <2>1. Same
      BY Zenon, <1>36, AbortLeaves DEF reclaimUnchanged, taskVars, driverVars, threadVars, callerVars
  <2>2. Moves
      BY Zenon, <1>36, AbortLeaves DEF reclaimUnchanged, threadVars, driverVars, Onward, Inside
  <2> QED
      BY <2>1, <2>2, TakesNothing, Zenon DEF Handing
<1>37. ASSUME vars' = vars PROVE Handing
  <2>1. Same /\ UNCHANGED <<pc, cur>>
      BY Zenon, <1>37 DEF vars, taskVars, driverVars, threadVars, callerVars
  <2>2. Moves
      BY Zenon, <2>1 DEF Onward, Inside
  <2> QED
      BY <2>1, <2>2, TakesNothing, Zenon DEF Handing
<1>38. ASSUME NEW t \in Threads, NEW d \in Drivers, EnterStep(t, d) PROVE Handing
    BY <1>38, <1>1, <1>2, <1>3, Zenon DEF EnterStep, OpenOrClose
<1>39. ASSUME NEW t \in Threads, RunStep(t) PROVE Handing
    BY <1>39, <1>4, <1>5, <1>6, <1>7, <1>8, <1>9, Zenon DEF RunStep
<1>40. ASSUME NEW t \in Threads, ExitStep(t) PROVE Handing
    BY <1>40, <1>11, <1>12, <1>13, <1>14, <1>15, <1>16, <1>17, <1>18, Zenon DEF ExitStep,
       OpenOrClose
<1>41. CASE ClientStep
    BY <1>41, <1>21, <1>22, <1>23, <1>24, Zenon DEF ClientStep
<1>42. CASE ReclaimStep
    BY <1>42, <1>27, <1>28, <1>29, <1>30, <1>31, <1>32, <1>33, <1>34, <1>35, <1>36, Zenon
       DEF ReclaimStep
<1> QED
    BY <1>38, <1>39, <1>40, <1>41, <1>42, <1>10, <1>19, <1>20, <1>25, <1>26, <1>37, Zenon
       DEF Next, OpenOrClose

-----------------------------------------------------------------------------
(* Pause and termination.                                                  *)

(* isTerminated is final: Task::leave and leaveSuspended only add to it. *)
LEMMA TerminatedStays ==
    ASSUME TypeOK, [Next]_vars, NEW d \in Drivers, isTerminated[d]
    PROVE  isTerminated'[d]
<1>1. CASE Stay
    BY <1>1, Zenon DEF Stay
<1>2. ASSUME NEW t \in Threads, Cross(t) PROVE isTerminated'[d]
    BY <1>2, Zenon DEF Cross, EnterRun, EnterSuspended, LeaveSuspended, Leave, Unwind, LeaveReason,
       taskVars, TypeOK
<1> QED
    BY Zenon, <1>1, <1>2, StayOrCross

(* While the task is paused or terminated a driver that does not run does  *)
(* not start to: Task::enter refuses it and leaveSuspended waits.          *)
LEMMA StaysQuiescent ==
    ASSUME TypeOK, OwnerInv, [Next]_vars, pauseRequested \/ terminateRequested,
           NEW d \in Drivers, Quiescent(d)
    PROVE  Quiescent(d)'
<1> USE DEF Quiescent
<1>1. CASE Stay
    BY Zenon, <1>1 DEF Stay
<1>2. ASSUME NEW t \in Threads, NEW e \in Drivers, EnterRun(t, e) PROVE FALSE
    BY <1>2, Zenon DEF EnterRun, ShouldStop
<1>3. ASSUME NEW t \in Threads, EnterSuspended(t) PROVE Quiescent(d)'
    BY Zenon, <1>3 DEF EnterSuspended, taskVars, TypeOK
<1>4. ASSUME NEW t \in Threads, LeaveSuspended(t) PROVE Quiescent(d)'
    BY Zenon, <1>4 DEF LeaveSuspended, MayReturn, TypeOK
<1>5. ASSUME NEW t \in Threads, Leave(t) \/ Unwind(t) PROVE Quiescent(d)'
    BY Zenon, <1>5 DEF Leave, Unwind, GoOffThread, LeaveReason, driverVars, TypeOK
<1> QED
    BY <1>1, <1>2, <1>3, <1>4, <1>5, StayOrCross, Zenon DEF Cross

(* What Task::terminate does to a running task: every driver is told, or   *)
(* is off thread and stays so; the ones it closes are told.                *)
LEMMA TerminateTells ==
    ASSUME TypeOK, NEW a \in Actors, NEW s \in TaskStates \ {"kRunning"}, Terminate(a, s),
           state = "kRunning"
    PROVE  /\ terminateRequested' /\ state' # "kRunning" /\ attached' \subseteq attached
           /\ \A d \in attached' : isTerminated'[d] \/ ~isOnThread'[d]
           /\ \A b \in Actors : \A d \in toClose'[b] : d \in toClose[b] \/ isTerminated'[d]
<1> DEFINE off == IF pauseRequested THEN {} ELSE OffThreadDrivers
<1>1. off \in SUBSET Drivers /\ (~pauseRequested => off = OffThreadDrivers)
    BY Zenon DEF TypeOK, OffThreadDrivers
<1> HIDE DEF off
<1>2. /\ state' = s /\ terminateRequested' = TRUE
      /\ isTerminated' = [d \in Drivers |-> isTerminated[d]
              \/ d \in {e \in attached : isOnThread[e] \/ isTerminated[e]} \cup off]
      /\ isOnThread' = [d \in Drivers |-> isOnThread[d] \/ d \in off]
      /\ attached' = attached \ off
      /\ toClose' = [toClose EXCEPT ![a] = @ \cup off]
    BY ZenonT(30) DEF Terminate, off
<1>3. \A d \in attached' : isTerminated'[d] \/ ~isOnThread'[d]
    BY Zenon, <1>2 DEF TypeOK
<1>4. \A b \in Actors : \A d \in toClose'[b] : d \in toClose[b] \/ isTerminated'[d]
    BY <1>1, <1>2, Zenon DEF TypeOK
<1> QED
    BY <1>2, <1>3, <1>4, Zenon

(* Termination: the flag and the state agree, every driver has been told. *)
LEMMA TerminateInvStep ==
    ASSUME TypeOK, OwnerInv, TerminateInv, [Next]_vars, TypeOK'
    PROVE  TerminateInv'
<1> DEFINE
      Ended ==
        \/ /\ terminateRequested' <=> terminateRequested
           /\ state' = "kRunning" <=> state = "kRunning"
           /\ terminateRequested => attached' \subseteq attached
        \/ /\ ~terminateRequested /\ terminateRequested' /\ state' # "kRunning"
           /\ \A d \in attached' : isTerminated'[d] \/ ~isOnThread'[d]
      Taken == \A b \in Actors : \A d \in toClose'[b] : d \in toClose[b] \/ isTerminated'[d]
<1>1. Ended /\ Taken
  <2>1. CASE BooksUnchanged
      BY <2>1, Zenon DEF BooksUnchanged
  <2>2. ASSUME NEW a \in Actors, NEW s \in TaskStates \ {"kRunning"}, Terminate(a, s),
               state = "kRunning"
        PROVE  Ended /\ Taken
      BY <2>2, TerminateTells, Zenon DEF TerminateInv, TypeOK
  <2>3. ASSUME NEW a \in Actors, NEW s, Terminate(a, s), state # "kRunning"
        PROVE  Ended /\ Taken
      BY Zenon, <2>3 DEF Terminate, taskVars
  <2>4. CASE StartStep
    <3>1. /\ UNCHANGED <<state, terminateRequested, isTerminated, toClose>>
          /\ attached' = attached \/ state = "kRunning"
        BY Zenon, <2>4 DEF StartStep, StartFactories, CreateAndStartDrivers, StartAfterTerminate,
           StartFails, taskVars
    <3> QED
        BY ZenonT(30), <3>1 DEF TerminateInv
  <2>5. CASE ResumeTerminated
    <3>1. OffThreadDrivers \subseteq Drivers
        BY Zenon DEF OffThreadDrivers, TypeOK
    <3>2. \A d \in OffThreadDrivers : isTerminated'[d]
        BY <2>5, <3>1, Zenon DEF ResumeTerminated
    <3>3. toClose' = [toClose EXCEPT ![Reclaimer] = @ \cup OffThreadDrivers]
        BY Zenon, <2>5 DEF ResumeTerminated
    <3>4. \A b \in Actors : \A d \in toClose'[b] : d \in toClose[b] \/ isTerminated'[d]
        BY Zenon, <3>2, <3>3 DEF TypeOK
    <3> QED
        BY <2>5, <3>4, Zenon DEF ResumeTerminated
  <2>6. ASSUME NEW t \in Threads, RemoveDriver(t) PROVE Ended /\ Taken
      BY <2>6, Zenon DEF RemoveDriver
  <2>7. ASSUME NEW a \in Actors, NEW d \in Drivers, CloseByTask(a, d) PROVE Ended /\ Taken
      BY ZenonT(30), <2>7 DEF CloseByTask, TypeOK
  <2> QED
      BY <2>1, <2>2, <2>3, <2>4, <2>5, <2>6, <2>7, Books, Zenon DEF BookStep, TerminateStep
<1>2. terminateRequested' <=> state' # "kRunning"
    BY <1>1, Zenon DEF TerminateInv
<1>3. terminateRequested' => \A d \in attached' : Quiescent(d)'
  <2>1. CASE terminateRequested
      BY <1>1, <2>1, StaysQuiescent, Zenon DEF TerminateInv, TypeOK
  <2>2. CASE ~terminateRequested
      BY ZenonT(30), <1>1, <2>2 DEF Quiescent, TypeOK
  <2> QED
      BY Zenon, <2>1, <2>2
<1>4. ASSUME NEW d \in Drivers, visit'[d] = "aborted" PROVE terminateRequested'
  <2>1. visit[d] = "aborted" \/ terminateRequested
    <3>1. CASE AbortStep \/ CompletionTimeout
        BY Zenon, <1>4, <3>1, AbortVisits
    <3>2. CASE ~(AbortStep \/ CompletionTimeout)
      <4>1. visit' = visit
          BY <3>2, Pauses, Zenon DEF PauseUnchanged, RequestPause, RequestAbort, SetErrorForAbort, ReclaimStep,
             PauseDone, PauseTimeout, ReclaimDone, ResumeRunning, ResumeTerminated, ReclaimReturns,
             AbortSetError, AbortTerminate
      <4> QED
          BY Zenon, <1>4, <4>1
    <3> QED
        BY Zenon, <3>1, <3>2
  <2> QED
      BY <1>1, <2>1, Zenon DEF TerminateInv
<1>5. \A a \in Actors : \A d \in toClose'[a] : isTerminated'[d]
    BY <1>1, TerminatedStays, Zenon DEF TerminateInv, TypeOK
<1> QED
    BY <1>2, <1>3, <1>4, <1>5, Zenon DEF TerminateInv

-----------------------------------------------------------------------------
(* TaskDriver implements TaskContract.  Most steps of the threads are      *)
(* invisible in the contract; the others are its Run, Park, Drain, Close,  *)
(* Hold and Release.                                                       *)

(* The contract does not see the step. *)
Invisible ==
    /\ UNCHANGED <<closed, isTerminated, isOnThread, isSuspended, terminateRequested>>
    /\ reclaimPc' = "reclaiming" <=> reclaimPc = "reclaiming"

(* A call of Task::terminate, as the contract sees it. *)
TerminateSeen ==
    /\ \E a \in Actors, s \in TaskStates \ {"kRunning"} : Terminate(a, s)
    /\ UNCHANGED <<closed, isSuspended>>
    /\ reclaimPc' = "reclaiming" <=> reclaimPc = "reclaiming"

VisibleStep ==
    \/ TerminateSeen \/ ResumeTerminated \/ PauseDone \/ ReclaimDone
    \/ \E t \in Threads :
          \/ Cross(t) \/ (\E d \in Drivers : EnterRefused(t, d))
          \/ GuardThrown(t) \/ LeaveTerminated(t) \/ CloseOperators(t)
    \/ \E a \in Actors, d \in Drivers : CloseByTask(a, d)

(* Which steps the contract sees. *)
LEMMA Visible == [Next]_vars => Invisible \/ VisibleStep
<1> SUFFICES ASSUME [Next]_vars, ~VisibleStep PROVE Invisible
    BY Zenon
<1> USE DEF Invisible
<1>1. ASSUME StartFactories PROVE Invisible
    BY Zenon, <1>1 DEF StartFactories, taskVars, driverVars, callerVars
<1>2. ASSUME CreateAndStartDrivers PROVE Invisible
    BY Zenon, <1>2 DEF CreateAndStartDrivers, taskVars, driverVars, callerVars
<1>3. ASSUME StartAfterTerminate PROVE Invisible
    BY Zenon, <1>3 DEF StartAfterTerminate, taskVars, driverVars, callerVars
<1>4. ASSUME StartFails PROVE Invisible
    BY Zenon, <1>4 DEF StartFails, taskVars, driverVars, callerVars
<1>5. ASSUME NEW t \in Threads, NEW d \in Drivers, EnterClosed(t, d) PROVE Invisible
    BY Zenon, <1>5 DEF EnterClosed, taskVars, driverVars, callerVars
<1>6. ASSUME NEW t \in Threads, NEW d \in Drivers, EnterYield(t, d) PROVE Invisible
    BY Zenon, <1>6 DEF EnterYield, taskVars, driverVars, callerVars
<1>7. ASSUME NEW t \in Threads, RunStop(t) PROVE Invisible
    BY Zenon, <1>7 DEF RunStop, taskVars, driverVars, callerVars
<1>8. ASSUME NEW t \in Threads, RunBlock(t) PROVE Invisible
    BY Zenon, <1>8 DEF RunBlock, taskVars, driverVars, callerVars
<1>9. ASSUME NEW t \in Threads, RunCpuSlice(t) PROVE Invisible
    BY Zenon, <1>9 DEF RunCpuSlice, taskVars, driverVars, callerVars
<1>10. ASSUME NEW t \in Threads, RunAtEnd(t) PROVE Invisible
    BY Zenon, <1>10 DEF RunAtEnd, taskVars, driverVars, callerVars
<1>11. ASSUME NEW t \in Threads, RunThrow(t) PROVE Invisible
    BY Zenon, <1>11 DEF RunThrow, taskVars, driverVars, callerVars
<1>12. ASSUME NEW t \in Threads, Cancelled(t) PROVE TerminateSeen
    BY Zenon, <1>12 DEF Cancelled, TerminateSeen, Actors, TaskStates, driverVars, callerVars
<1>13. ASSUME NEW t \in Threads, Fail(t) PROVE TerminateSeen
    BY Zenon, <1>13 DEF Fail, TerminateSeen, Actors, TaskStates, driverVars, callerVars
<1>14. ASSUME NEW t \in Threads, RemoveDriver(t) PROVE Invisible
    BY ZenonT(30), <1>14 DEF RemoveDriver, taskVars, driverVars, callerVars
<1>15. ASSUME NEW t \in Threads, FinishTask(t) PROVE TerminateSeen
    BY Zenon, <1>15 DEF FinishTask, TerminateSeen, Actors, TaskStates, driverVars, callerVars
<1>16. ASSUME NEW t \in Threads, CheckBlocked(t) PROVE Invisible
    BY Zenon, <1>16 DEF CheckBlocked, taskVars, driverVars, callerVars
<1>17. ASSUME NEW t \in Threads, SetResume(t) PROVE Invisible
    BY Zenon, <1>17 DEF SetResume, taskVars, driverVars, callerVars
<1>18. ASSUME NEW t \in Threads, EnqueueYielded(t) PROVE Invisible
    BY ZenonT(30), <1>18 DEF EnqueueYielded, taskVars, driverVars, callerVars
<1>19. ASSUME NEW d \in Drivers, Realize(d) PROVE Invisible
    BY Zenon, <1>19 DEF Realize, taskVars, driverVars, callerVars
<1>20. ASSUME NEW d \in Drivers, RealizeError(d) PROVE Invisible
    BY ZenonT(30), <1>20 DEF RealizeError, taskVars, driverVars, callerVars
<1>21. ASSUME RequestTerminate PROVE TerminateSeen
    BY Zenon, <1>21 DEF RequestTerminate, TerminateSeen, Actors, TaskStates, driverVars, callerVars
<1>22. ASSUME RequestYield PROVE Invisible
    BY Zenon, <1>22 DEF RequestYield, taskVars, driverVars, callerVars
<1>23. ASSUME SetAllOutputConsumed PROVE Invisible
    BY Zenon, <1>23 DEF SetAllOutputConsumed, taskVars, driverVars, callerVars
<1>24. ASSUME NEW due \in {"finish", "fail"}, ClientTerminate(due) PROVE TerminateSeen
    BY Zenon, <1>24 DEF ClientTerminate, TerminateSeen, Actors, TaskStates, driverVars, callerVars
<1>25. ASSUME RequestPause PROVE Invisible
    BY Zenon, <1>25 DEF RequestPause, taskVars, driverVars, callerVars, reclaimUnchanged
<1>26. ASSUME RequestAbort PROVE Invisible
    BY Zenon, <1>26 DEF RequestAbort, taskVars, driverVars, callerVars, reclaimUnchanged,
       SetErrorForAbort
<1>27. ASSUME PauseTimeout PROVE Invisible
    BY Zenon, <1>27 DEF PauseTimeout, taskVars, driverVars, callerVars, reclaimUnchanged
<1>28. ASSUME ResumeRunning PROVE Invisible
    BY Zenon, <1>28 DEF ResumeRunning, taskVars, driverVars, callerVars, reclaimUnchanged
<1>29. ASSUME ReclaimReturns PROVE Invisible
    BY Zenon, <1>29 DEF ReclaimReturns, taskVars, driverVars, callerVars, reclaimUnchanged
<1>30. ASSUME AbortSetError PROVE Invisible
    BY Zenon, <1>30 DEF AbortSetError, taskVars, driverVars, callerVars, reclaimUnchanged,
       SetErrorForAbort
<1>31. ASSUME AbortTerminate PROVE TerminateSeen
    BY Zenon, <1>31 DEF AbortTerminate, TerminateSeen, Actors, TaskStates, driverVars, callerVars,
       reclaimUnchanged
<1>32. ASSUME CompletionTimeout PROVE Invisible
    BY Zenon, <1>32, AbortLeaves DEF taskVars, driverVars, callerVars, reclaimUnchanged
<1>33. ASSUME AbortStep PROVE Invisible
    BY Zenon, <1>33, AbortLeaves DEF taskVars, driverVars, callerVars, reclaimUnchanged
<1>34. ASSUME vars' = vars PROVE Invisible
    BY Zenon, <1>34 DEF vars, taskVars, driverVars, callerVars
<1> HIDE DEF Invisible
<1>35. ASSUME NEW t \in Threads, NEW d \in Drivers, EnterStep(t, d) PROVE Invisible
    BY Zenon, <1>35, <1>5, <1>6 DEF EnterStep, VisibleStep, Cross
<1>36. ASSUME NEW t \in Threads, RunStep(t) PROVE Invisible
    BY Zenon, <1>36, <1>7, <1>8, <1>9, <1>10, <1>11 DEF RunStep, VisibleStep, Cross
<1>37. ASSUME NEW t \in Threads, ExitStep(t) PROVE Invisible
    BY Zenon, <1>37, <1>12, <1>13, <1>14, <1>15, <1>16, <1>17, <1>18 DEF ExitStep, VisibleStep,
       Cross
<1>38. CASE StartStep \/ ClientStep
    BY Zenon, <1>38, <1>1, <1>2, <1>3, <1>4, <1>21, <1>22, <1>23, <1>24 DEF StartStep, ClientStep,
       VisibleStep, Cross
<1>39. CASE ReclaimStep
    BY Zenon, <1>39, <1>27, <1>28, <1>29, <1>30, <1>31, <1>32, <1>33 DEF ReclaimStep, VisibleStep,
       Cross
<1> QED
    BY Zenon, <1>19, <1>20, <1>25, <1>26, <1>34, <1>35, <1>36, <1>37, <1>38, <1>39 DEF Next,
       VisibleStep, Cross

(* One driver changes its mode. *)
LEMMA OneMode ==
    ASSUME NEW d \in Drivers,
           \A e \in Drivers \ {d} : /\ closed'[e] = closed[e] /\ isTerminated'[e] = isTerminated[e]
                                    /\ isOnThread'[e] = isOnThread[e]
                                    /\ isSuspended'[e] = isSuspended[e]
    PROVE  Mode' = [Mode EXCEPT ![d] = Mode'[d]]
    BY ZenonT(30) DEF Mode

(* Drivers are told to terminate, and nothing else changes but that they   *)
(* may be marked on thread.                                                *)
LEMMA DrainSeen ==
    ASSUME TypeOK, NEW ds \in SUBSET Drivers, closed' = closed, isSuspended' = isSuspended,
           \A d \in Drivers : isTerminated'[d] <=> isTerminated[d] \/ d \in ds,
           \A d \in Drivers \ ds : isOnThread'[d] = isOnThread[d],
           terminateRequested' \in {terminateRequested, TRUE},
           reclaimPc' = "reclaiming" <=> reclaimPc = "reclaiming"
    PROVE  Contract!Next
<1>1. Mode' = [d \in Drivers |-> IF d \in ds /\ Mode[d] # "closed" THEN "draining" ELSE Mode[d]]
    BY Zenon DEF Mode
<1>2. Contract!Drain(ds)
    BY <1>1, Zenon DEF Contract!Drain, Contract!Drained
<1> QED
    BY ZenonT(30), <1>2 DEF Contract!Next

(* Task::enter, Task::leave and the suspended sections: a driver runs,     *)
(* parks, or drains.                                                       *)
LEMMA CrossSeen ==
    ASSUME IInv, NEW t \in Threads, Cross(t)
    PROVE  [Contract!Next]_(Contract!vars)
<1> USE DEF IInv
<1>1. ASSUME NEW d \in Drivers, EnterRun(t, d) PROVE Contract!Run(d)
  <2>1. /\ ~closed[d] /\ ~isTerminated[d] /\ ~isOnThread[d] /\ ~pauseRequested
        /\ ~terminateRequested /\ closed' = closed /\ isTerminated' = isTerminated
        /\ isSuspended' = isSuspended /\ isOnThread' = [isOnThread EXCEPT ![d] = TRUE]
        /\ terminateRequested' = terminateRequested /\ reclaimPc' = reclaimPc
      BY ZenonT(30), <1>1 DEF EnterRun, ShouldStop, callerVars
  <2>2. ~isSuspended[d] /\ reclaimPc # "reclaiming"
      BY ZenonT(30), <2>1 DEF OwnerInv, SuspendedOwned, ThreadOwns, Inside, PauseInv
  <2>3. Mode[d] = "parked" /\ Mode'[d] = "running"
      BY ZenonT(30), <2>1, <2>2 DEF Mode, TypeOK
  <2>4. Mode' = [Mode EXCEPT ![d] = "running"]
      BY <2>1, <2>3, OneMode, ZenonT(30) DEF TypeOK
  <2> QED
      BY ZenonT(30), <2>1, <2>2, <2>3, <2>4 DEF Contract!Run
<1> DEFINE d == cur[t]
<1>2. ASSUME EnterSuspended(t) \/ LeaveSuspended(t) \/ Leave(t) \/ Unwind(t)
      PROVE  /\ d \in Drivers /\ isOnThread[d] /\ (isSuspended[d] <=> pc[t] = "suspended")
             /\ closed' = closed /\ terminateRequested' = terminateRequested
             /\ reclaimPc' = reclaimPc
    BY ZenonT(30), <1>2 DEF EnterSuspended, LeaveSuspended, Leave, Unwind, At, OwnerInv, ThreadOwns, Inside,
       OnThread, taskVars, driverVars, callerVars
<1> HIDE DEF d
<1>3. CASE EnterSuspended(t)
  <2>1. /\ isTerminated' = isTerminated /\ isOnThread' = isOnThread /\ ~isTerminated[d]
        /\ isSuspended' = [isSuspended EXCEPT ![d] = TRUE] /\ ~isSuspended[d]
      BY <1>2, <1>3, ZenonT(30) DEF EnterSuspended, taskVars, At, d
  <2>2. Mode' = [Mode EXCEPT ![d] = Mode'[d]]
      BY <1>2, <1>3, <2>1, OneMode, Zenon DEF TypeOK
  <2>3. CASE closed[d]
    <3>1. Mode' = Mode
        BY ZenonT(30), <1>2, <1>3, <2>1, <2>2, <2>3 DEF Mode
    <3> QED
        BY ZenonT(30), <1>2, <1>3, <3>1 DEF Contract!vars
  <2>4. CASE ~closed[d]
    <3>1. Mode[d] = "running" /\ Mode'[d] = "parked"
        BY ZenonT(30), <1>2, <1>3, <2>1, <2>4 DEF Mode, TypeOK
    <3>2. Contract!Park(d)
        BY ZenonT(30), <1>2, <1>3, <2>2, <3>1 DEF Contract!Park
    <3> QED
        BY ZenonT(30), <1>2, <1>3, <3>2 DEF Contract!Next
  <2> QED
      BY <2>3, <2>4, SMTT(30)
<1>4. CASE LeaveSuspended(t)
  <2>1. /\ isTerminated' = [isTerminated EXCEPT ![d] = @ \/ terminateRequested]
        /\ isSuspended' = [isSuspended EXCEPT ![d] = FALSE] /\ isSuspended[d]
        /\ isOnThread' = isOnThread /\ MayReturn(d)
      BY ZenonT(30), <1>2, <1>4 DEF LeaveSuspended, At, d
  <2>2. Mode' = [Mode EXCEPT ![d] = Mode'[d]]
      BY <1>2, <1>4, <2>1, OneMode, ZenonT(30) DEF TypeOK
  <2>3. CASE closed[d] \/ isTerminated[d]
    <3>1. Mode'[d] = Mode[d]
        BY ZenonT(30), <1>2, <1>4, <2>1, <2>3 DEF Mode, TypeOK
    <3>2. Mode' = Mode
        BY ZenonT(30), <2>2, <3>1 DEF Mode
    <3> QED
        BY ZenonT(30), <1>2, <1>4, <3>2 DEF Contract!vars
  <2>4. CASE ~closed[d] /\ ~isTerminated[d] /\ terminateRequested
    <3>1. Mode[d] = "parked" /\ Mode'[d] = "draining"
        BY ZenonT(30), <1>2, <1>4, <2>1, <2>4 DEF Mode, TypeOK
    <3>2. Mode' = [e \in Drivers |-> IF e \in {d} /\ Mode[e] # "closed" THEN "draining" ELSE Mode[e]]
        BY ZenonT(30), <2>2, <3>1 DEF Mode
    <3>3. Contract!Drain({d})
        BY ZenonT(30), <1>2, <1>4, <3>2 DEF Contract!Drain, Contract!Drained
    <3> QED
        BY ZenonT(30), <1>2, <1>4, <3>3 DEF Contract!Next
  <2>5. CASE ~closed[d] /\ ~isTerminated[d] /\ ~terminateRequested
    <3>1. Mode[d] = "parked" /\ Mode'[d] = "running"
        BY ZenonT(30), <1>2, <1>4, <2>1, <2>5 DEF Mode, TypeOK
    <3>2. reclaimPc # "reclaiming"
        BY Zenon, <2>1, <2>5 DEF MayReturn, PauseInv
    <3>3. Contract!Run(d)
        BY ZenonT(30), <1>2, <1>4, <2>2, <2>5, <3>1, <3>2 DEF Contract!Run
    <3> QED
        BY Zenon, <1>2, <1>4, <3>3 DEF Contract!Next
  <2> QED
      BY Zenon, <2>3, <2>4, <2>5 DEF TypeOK
<1>5. CASE Leave(t) \/ Unwind(t)
  <2>1. /\ isSuspended' = isSuspended /\ isOnThread' = [isOnThread EXCEPT ![d] = FALSE]
        /\ \A e \in Drivers \ {d} : isTerminated'[e] = isTerminated[e]
        /\ isTerminated[d] => isTerminated'[d]
        /\ ~isSuspended[d]
      BY ZenonT(30), <1>2, <1>5 DEF Leave, Unwind, GoOffThread, LeaveReason, driverVars, At, TypeOK, d
  <2>2. Mode' = [Mode EXCEPT ![d] = Mode'[d]]
      BY <1>2, <1>5, <2>1, OneMode, ZenonT(30) DEF TypeOK
  <2>3. CASE closed[d] \/ isTerminated[d]
    <3>1. Mode'[d] = Mode[d]
        BY <1>2, <1>5, <2>1, <2>3, ZenonT(30) DEF Mode
    <3>2. Mode' = Mode
        BY ZenonT(30), <2>2, <3>1 DEF Mode
    <3> QED
        BY <1>2, <1>5, <3>2, SMTT(30) DEF Contract!vars
  <2>4. CASE ~closed[d] /\ ~isTerminated[d] /\ isTerminated'[d]
    <3>1. Mode[d] = "running" /\ Mode'[d] = "draining"
        BY ZenonT(30), <1>2, <1>5, <2>1, <2>4 DEF Mode, TypeOK
    <3>2. Mode' = [e \in Drivers |-> IF e \in {d} /\ Mode[e] # "closed" THEN "draining" ELSE Mode[e]]
        BY ZenonT(30), <2>2, <3>1 DEF Mode
    <3>3. Contract!Drain({d})
        BY <1>2, <1>5, <3>2, Zenon DEF Contract!Drain, Contract!Drained
    <3> QED
        BY ZenonT(30), <1>2, <1>5, <3>3 DEF Contract!Next
  <2>5. CASE ~closed[d] /\ ~isTerminated[d] /\ ~isTerminated'[d]
    <3>1. Mode[d] = "running" /\ Mode'[d] = "parked"
        BY ZenonT(30), <1>2, <1>5, <2>1, <2>5 DEF Mode, TypeOK
    <3>2. Contract!Park(d)
        BY ZenonT(30), <1>2, <1>5, <2>2, <3>1 DEF Contract!Park
    <3> QED
        BY ZenonT(30), <1>2, <1>5, <3>2 DEF Contract!Next
  <2> QED
      BY <2>3, <2>4, <2>5, SMTT(30)
<1> QED
    BY Zenon, <1>1, <1>3, <1>4, <1>5 DEF Cross, Contract!Next

(* Driver::close on the thread, and closeByTask: only a driver that runs   *)
(* or drains is closed.                                                    *)
LEMMA CloseSeen ==
    ASSUME IInv, NEW d \in Drivers, isTerminated[d] \/ (isOnThread[d] /\ ~isSuspended[d]),
           closed' = [closed EXCEPT ![d] = TRUE],
           UNCHANGED <<isTerminated, isOnThread, isSuspended, terminateRequested, reclaimPc>>
    PROVE  [Contract!Next]_(Contract!vars)
<1>1. Mode' = [Mode EXCEPT ![d] = "closed"]
    BY Zenon DEF Mode, IInv, TypeOK
<1>2. CASE closed[d]
  <2>1. Mode' = Mode
      BY ZenonT(30), <1>1, <1>2 DEF Mode
  <2> QED
      BY Zenon, <2>1 DEF Contract!vars
<1>3. CASE ~closed[d]
  <2>1. Mode[d] \in {"running", "draining"}
      BY Zenon, <1>3 DEF Mode
  <2>2. Contract!Close(d)
      BY Zenon, <1>1, <2>1 DEF Contract!Close
  <2> QED
      BY ZenonT(30), <2>2 DEF Contract!Next
<1> QED
    BY Zenon, <1>2, <1>3

(* Task::terminate and resume after it tell drivers to terminate. *)
LEMMA TerminationSeen ==
    ASSUME IInv, TerminateSeen \/ ResumeTerminated
    PROVE  [Contract!Next]_(Contract!vars)
<1> USE DEF IInv
<1>1. ASSUME NEW a \in Actors, NEW s \in TaskStates \ {"kRunning"}, Terminate(a, s),
             UNCHANGED <<closed, isSuspended>>,
             reclaimPc' = "reclaiming" <=> reclaimPc = "reclaiming"
      PROVE  [Contract!Next]_(Contract!vars)
  <2>1. CASE state # "kRunning"
    <3>1. Mode' = Mode /\ terminateRequested' = terminateRequested
        BY Zenon, <1>1, <2>1 DEF Terminate, taskVars, Mode
    <3> QED
        BY Zenon, <1>1, <3>1 DEF Contract!vars
  <2>2. CASE state = "kRunning"
    <3> DEFINE off == IF pauseRequested THEN {} ELSE OffThreadDrivers
               told == {e \in attached : isOnThread[e] \/ isTerminated[e]} \cup off
    <3>1. told \in SUBSET Drivers /\ off \subseteq told
        BY Zenon DEF TypeOK, OffThreadDrivers
    <3>2. /\ isTerminated' = [e \in Drivers |-> isTerminated[e] \/ e \in told]
          /\ isOnThread' = [e \in Drivers |-> isOnThread[e] \/ e \in off]
          /\ terminateRequested' = TRUE
        BY ZenonT(30), <1>1, <2>2 DEF Terminate
    <3> HIDE DEF off, told
    <3>3. \A e \in Drivers : isTerminated'[e] <=> isTerminated[e] \/ e \in told
        BY <3>2, Zenon
    <3>4. \A e \in Drivers \ told : isOnThread'[e] = isOnThread[e]
        BY Zenon, <3>1, <3>2 DEF TypeOK
    <3> QED
        BY ZenonT(30), <1>1, <3>1, <3>2, <3>3, <3>4, DrainSeen
  <2> QED
      BY Zenon, <2>1, <2>2
<1>2. CASE ResumeTerminated
  <2>1. OffThreadDrivers \in SUBSET Drivers
      BY Zenon DEF TypeOK, OffThreadDrivers
  <2>2. /\ closed' = closed /\ isSuspended' = isSuspended
        /\ terminateRequested' = terminateRequested
        /\ reclaimPc' # "reclaiming" /\ reclaimPc # "reclaiming"
      BY Zenon, <1>2 DEF ResumeTerminated, reclaimUnchanged, driverVars
  <2>3. /\ \A e \in Drivers : isTerminated'[e] <=> isTerminated[e] \/ e \in OffThreadDrivers
        /\ \A e \in Drivers \ OffThreadDrivers : isOnThread'[e] = isOnThread[e]
      BY <1>2, Zenon DEF ResumeTerminated, TypeOK
  <2> HIDE DEF OffThreadDrivers
  <2> QED
      BY ZenonT(30), <2>1, <2>2, <2>3, DrainSeen
<1> QED
    BY Zenon, <1>1, <1>2 DEF TerminateSeen

(* Every step of the task is a step of the contract, or invisible in it. *)
LEMMA StepSeen == IInv /\ [Next]_vars => [Contract!Next]_(Contract!vars)
<1> SUFFICES ASSUME IInv, [Next]_vars PROVE [Contract!Next]_(Contract!vars)
    BY Zenon
<1> USE DEF IInv
<1>1. CASE Invisible
  <2>1. Mode' = Mode
      BY Zenon, <1>1 DEF Invisible, Mode
  <2> QED
      BY Zenon, <1>1, <2>1 DEF Invisible, Contract!vars
<1>2. CASE PauseDone
  <2>1. /\ UNCHANGED <<closed, isTerminated, isOnThread, isSuspended, terminateRequested>>
        /\ Granted /\ reclaimPc # "reclaiming"
        /\ reclaimPc' = IF terminateRequested THEN "resume" ELSE "reclaiming"
      BY Zenon, <1>2 DEF PauseDone, Granted, taskVars, reclaimUnchanged, driverVars
  <2>2. Mode' = Mode /\ \A d \in Drivers : Mode[d] # "running"
      BY Zenon, <2>1 DEF Mode, PauseInv, Quiescent
  <2>3. CASE terminateRequested
      BY Zenon, <2>1, <2>2, <2>3 DEF Contract!vars
  <2>4. CASE ~terminateRequested
    <3>1. Contract!Hold
        BY Zenon, <2>1, <2>2, <2>4 DEF Contract!Hold
    <3> QED
        BY Zenon, <3>1 DEF Contract!Next
  <2> QED
      BY Zenon, <2>3, <2>4
<1>3. CASE ReclaimDone
  <2>1. /\ UNCHANGED <<closed, isTerminated, isOnThread, isSuspended, terminateRequested>>
        /\ reclaimPc' # "reclaiming"
      BY Zenon, <1>3 DEF ReclaimDone, taskVars, reclaimUnchanged, driverVars
  <2>2. Mode' = Mode
      BY Zenon, <2>1 DEF Mode
  <2>3. Contract!Release
      BY Zenon, <2>1, <2>2 DEF Contract!Release
  <2> QED
      BY Zenon, <2>3 DEF Contract!Next
<1>4. ASSUME NEW t \in Threads, NEW d \in Drivers, EnterRefused(t, d)
      PROVE  [Contract!Next]_(Contract!vars)
  <2> DEFINE ds == IF ~isOnThread[d] /\ ShouldStop = "kTerminate" THEN {d} ELSE {}
  <2>1. \A e \in Drivers : isTerminated'[e] <=> isTerminated[e] \/ e \in ds
      BY <1>4, Zenon DEF EnterRefused, TypeOK
  <2>2. UNCHANGED <<closed, isOnThread, isSuspended, terminateRequested, reclaimPc>>
      BY ZenonT(30), <1>4 DEF EnterRefused, callerVars
  <2>3. ds \in SUBSET Drivers
      BY Zenon
  <2> HIDE DEF ds
  <2> QED
      BY Zenon, <2>1, <2>2, <2>3, DrainSeen
<1>5. ASSUME NEW t \in Threads, GuardThrown(t) \/ LeaveTerminated(t)
      PROVE  [Contract!Next]_(Contract!vars)
  <2>1. cur[t] \in Drivers
      BY ZenonT(30), <1>5 DEF GuardThrown, LeaveTerminated, At, OwnerInv, ThreadOwns, Inside, OnThread
  <2>2. \A e \in Drivers : isTerminated'[e] <=> isTerminated[e] \/ e \in {cur[t]}
      BY <1>5, <2>1, SMTT(30) DEF GuardThrown, LeaveTerminated, TypeOK
  <2>3. UNCHANGED <<closed, isOnThread, isSuspended, terminateRequested, reclaimPc>>
      BY <1>5, ZenonT(30) DEF GuardThrown, LeaveTerminated, driverVars, callerVars
  <2> QED
      BY <2>1, <2>2, <2>3, DrainSeen, ZenonT(30)
<1>6. ASSUME NEW t \in Threads, CloseOperators(t) PROVE [Contract!Next]_(Contract!vars)
  <2>1. cur[t] \in Drivers /\ isOnThread[cur[t]] /\ ~isSuspended[cur[t]]
      BY <1>6, ZenonT(30) DEF CloseOperators, At, OwnerInv, ThreadOwns, Inside, OnThread
  <2> QED
      BY <1>6, <2>1, CloseSeen, ZenonT(30) DEF CloseOperators, taskVars, callerVars
<1>7. ASSUME NEW a \in Actors, NEW d \in Drivers, CloseByTask(a, d)
      PROVE  [Contract!Next]_(Contract!vars)
    BY <1>7, CloseSeen, Zenon DEF CloseByTask, TerminateInv, callerVars
<1> QED
    BY Zenon, <1>1, <1>2, <1>3, <1>4, <1>5, <1>6, <1>7, CrossSeen, TerminationSeen, Visible DEF VisibleStep

-----------------------------------------------------------------------------
(* Who closes a driver, and when it leaves drivers_.                       *)

(* Nothing happens to drivers before start has created them. *)
EarlyInv ==
    startPc # "started" =>
        /\ \A t \in Threads : pc[t] = "idle"
        /\ \A d \in Drivers : jobs[d] = 0 /\ armed[d] = 0 /\ ~closed[d]
        /\ \A a \in Actors : toClose[a] = {}
        /\ numFinishedOutput = 0

(* A driver that terminate or resume have taken belongs to that call       *)
(* alone: it is off drivers_, marked on-thread, and no thread has it.      *)
TakenInv ==
    \A a \in Actors : \A d \in toClose[a] :
        /\ terminateRequested /\ isOnThread[d] /\ d \notin attached /\ ~closed[d]
        /\ \A b \in Actors : d \in toClose[b] => a = b
        /\ \A t \in Threads : Inside(t) => cur[t] # d

(* The thread of a driver closes it first and takes it off drivers_ next. *)
StageInv ==
    \A t \in Threads : Inside(t) =>
        /\ cur[t] \in attached <=> pc[t] = "remove" \/ ~closed[cur[t]]
        /\ pc[t] \in OpenPoints => ~closed[cur[t]]
        /\ pc[t] \in {"remove", "finish", "unwind"} => closed[cur[t]]

(* A closed driver is off drivers_, or its thread is about to take it off; *)
(* one that is off drivers_ is closed, or somebody is about to close it.   *)
GoneInv ==
    /\ \A d \in attached : closed[d] => \E t \in Threads : pc[t] = "remove" /\ cur[t] = d
    /\ startPc = "started" =>
         \A d \in Drivers \ attached : closed[d] \/ \E a \in Actors : d \in toClose[a]

CloseInv == EarlyInv /\ TakenInv /\ StageInv /\ GoneInv

(* Handing drivers on keeps who closes them. *)
LEMMA CloseHanding ==
    ASSUME TypeOK, OwnerInv, CloseInv, Handing
    PROVE  TakenInv' /\ StageInv' /\ GoneInv'
<1> USE DEF CloseInv
<1>1. PICK a \in Actors, off \in SUBSET Drivers : Takes(a, off)
    BY Zenon DEF Handing
<1>2. \A d \in off : d \in attached /\ ~isOnThread[d]
    BY Zenon, <1>1 DEF Takes, OffThreadDrivers
<1>3. \A t \in Threads : Inside(t) => cur[t] \in Drivers /\ isOnThread[cur[t]] /\ cur[t] \notin off
    BY Zenon, <1>2 DEF OwnerInv, ThreadOwns
<1>4. \A d \in off : ~closed[d] /\ \A b \in Actors : d \notin toClose[b]
  <2> SUFFICES ASSUME NEW d \in off PROVE ~closed[d] /\ \A b \in Actors : d \notin toClose[b]
      BY Zenon
  <2>1. ~ \E t \in Threads : pc[t] = "remove" /\ cur[t] = d
      BY Zenon, <1>3 DEF Inside, OnThread
  <2> QED
      BY Zenon, <1>2, <2>1 DEF GoneInv, TakenInv
<1>5. /\ attached' = attached \ off /\ closed' = closed /\ startPc' = startPc
      /\ \A b \in Actors : toClose'[b] = IF b = a THEN toClose[b] \cup off ELSE toClose[b]
      /\ \A d \in Drivers : isOnThread'[d] <=> isOnThread[d] \/ d \in off
      /\ terminateRequested \/ off # {} => terminateRequested'
    BY Zenon, <1>1 DEF Takes, Handing
<1>6. \A t \in Threads : Onward(t)
    BY Zenon DEF Handing
<1>7. \A t \in Threads : Inside(t)' => Inside(t) /\ cur'[t] = cur[t]
    BY <1>6, Zenon DEF Onward
<1>8. TakenInv'
  <2> SUFFICES ASSUME NEW b \in Actors, NEW d \in toClose'[b]
               PROVE  /\ terminateRequested' /\ isOnThread'[d] /\ d \notin attached' /\ ~closed'[d]
                      /\ \A c \in Actors : d \in toClose'[c] => b = c
                      /\ \A t \in Threads : Inside(t)' => cur'[t] # d
      BY Zenon DEF TakenInv
  <2>1. CASE d \in toClose[b]
    <3>1. /\ terminateRequested /\ isOnThread[d] /\ d \notin attached /\ ~closed[d]
          /\ \A c \in Actors : d \in toClose[c] => b = c
          /\ \A t \in Threads : Inside(t) => cur[t] # d
        BY <2>1, Zenon DEF TakenInv
    <3>2. d \in Drivers /\ d \notin off
        BY Zenon, <2>1, <1>4 DEF TypeOK
    <3> QED
        BY Zenon, <3>1, <3>2, <1>5, <1>7
  <2>2. CASE d \notin toClose[b]
    <3>1. b = a /\ d \in off
        BY Zenon, <2>2, <1>5
    <3>2. d \in Drivers /\ ~closed[d] /\ \A c \in Actors : d \notin toClose[c]
        BY Zenon, <3>1, <1>4
    <3>3. \A c \in Actors : d \in toClose'[c] => b = c
        BY ZenonT(30), <3>1, <3>2, <1>5
    <3>4. \A t \in Threads : Inside(t)' => cur'[t] # d
      <4> SUFFICES ASSUME NEW t \in Threads, Inside(t)' PROVE cur'[t] # d
          BY Zenon
      <4>1. cur'[t] = cur[t] /\ cur[t] \notin off
          BY <1>3, <1>7, Zenon
      <4> QED
          BY Zenon, <3>1, <4>1
    <3>5. off # {} /\ d \notin attached' /\ isOnThread'[d] /\ ~closed'[d]
        BY Zenon, <3>1, <3>2, <1>5
    <3>6. terminateRequested'
        BY <3>5, <1>5, Zenon
    <3> QED
        BY <3>3, <3>4, <3>5, <3>6, Zenon
  <2> QED
      BY Zenon, <2>1, <2>2
<1>9. StageInv'
  <2> SUFFICES ASSUME NEW t \in Threads, Inside(t)'
               PROVE  /\ cur'[t] \in attached' <=> pc'[t] = "remove" \/ ~closed'[cur'[t]]
                      /\ pc'[t] \in OpenPoints => ~closed'[cur'[t]]
                      /\ pc'[t] \in {"remove", "finish", "unwind"} => closed'[cur'[t]]
      BY Zenon DEF StageInv
  <2>1. /\ Inside(t) /\ cur'[t] = cur[t]
        /\ \/ pc'[t] = pc[t]
           \/ pc[t] \in OpenPoints /\ pc'[t] \in OpenPoints \cup {"leave"}
           \/ pc[t] = "leave" /\ pc'[t] = CloseOr(cur[t], "unwind")
           \/ pc[t] = "finish" /\ pc'[t] \in {"leave", "unwind"}
      BY <1>6, Zenon DEF Onward
  <2>2. /\ cur[t] \in attached <=> pc[t] = "remove" \/ ~closed[cur[t]]
        /\ pc[t] \in OpenPoints => ~closed[cur[t]]
        /\ pc[t] \in {"remove", "finish", "unwind"} => closed[cur[t]]
      BY <2>1, Zenon DEF StageInv
  <2>3. cur[t] \in attached' <=> cur[t] \in attached
      BY ZenonT(30), <2>1, <1>3, <1>5
  <2> QED
      BY Zenon, <2>1, <2>2, <2>3, <1>5 DEF OpenPoints, CloseOr
<1>10. GoneInv'
  <2>1. ASSUME NEW d \in attached', closed'[d]
        PROVE  \E t \in Threads : pc'[t] = "remove" /\ cur'[t] = d
    <3>1. PICK t \in Threads : pc[t] = "remove" /\ cur[t] = d
        BY ZenonT(30), <2>1, <1>5 DEF GoneInv
    <3>2. pc'[t] = "remove" /\ cur'[t] = d
        BY Zenon, <3>1, <1>6 DEF Onward, Inside, OnThread, OpenPoints
    <3> QED
        BY Zenon, <3>2
  <2>2. ASSUME startPc' = "started", NEW d \in Drivers \ attached'
        PROVE  closed'[d] \/ \E b \in Actors : d \in toClose'[b]
      BY ZenonT(30), <2>2, <1>5 DEF GoneInv
  <2> QED
      BY ZenonT(30), <2>1, <2>2 DEF GoneInv
<1> QED
    BY Zenon, <1>8, <1>9, <1>10

(* Task::enter lets a thread have only an open driver of the task. *)
LEMMA CloseEnter ==
    ASSUME TypeOK, OwnerInv, TerminateInv, CloseInv, NEW t \in Threads, NEW d \in Drivers,
           EnterRun(t, d)
    PROVE  TakenInv' /\ StageInv' /\ GoneInv'
<1> USE DEF CloseInv
<1>1. /\ jobs[d] > 0 /\ pc[t] = "idle" /\ pc'[t] = "run" /\ cur'[t] = d
      /\ \A u \in Threads \ {t} : pc'[u] = pc[u] /\ cur'[u] = cur[u] /\ (Inside(u)' <=> Inside(u))
    BY ZenonT(30) DEF EnterRun, TakeJob, At, Inside, TypeOK
<1>2. ~closed[d] /\ ~isTerminated[d]
    BY ZenonT(30) DEF EnterRun
<1>3. /\ UNCHANGED <<attached, closed, startPc, toClose, terminateRequested>>
      /\ \A e \in Drivers : isOnThread[e] => isOnThread'[e]
    BY Zenon DEF EnterRun, callerVars, TypeOK
<1>4. \A a \in Actors : d \notin toClose[a]
    BY <1>2, Zenon DEF TerminateInv
<1>5. startPc = "started"
  <2>1. jobs[d] # 0
      BY <1>1
  <2> QED
      BY ZenonT(30), <2>1 DEF EarlyInv
<1>6. d \in attached
    BY <1>2, <1>4, <1>5, Zenon DEF GoneInv
<1>7. TakenInv'
  <2> SUFFICES ASSUME NEW b \in Actors, NEW e \in toClose[b]
               PROVE  /\ terminateRequested /\ isOnThread'[e] /\ e \notin attached /\ ~closed[e]
                      /\ \A c \in Actors : e \in toClose[c] => b = c
                      /\ \A u \in Threads : Inside(u)' => cur'[u] # e
      BY Zenon, <1>3 DEF TakenInv
  <2>1. /\ terminateRequested /\ isOnThread[e] /\ e \notin attached /\ ~closed[e]
        /\ \A c \in Actors : e \in toClose[c] => b = c
        /\ \A u \in Threads : Inside(u) => cur[u] # e
      BY Zenon DEF TakenInv
  <2>2. e \in Drivers /\ e # d
      BY ZenonT(30), <1>4 DEF TypeOK
  <2>3. \A u \in Threads : Inside(u)' => cur'[u] # e
      BY ZenonT(30), <1>1, <2>1, <2>2
  <2> QED
      BY Zenon, <1>3, <2>1, <2>2, <2>3
<1>8. StageInv'
    BY ZenonT(30), <1>1, <1>2, <1>3, <1>6 DEF StageInv, OpenPoints
<1>9. GoneInv'
  <2>1. \A u \in Threads : pc[u] = "remove" => pc'[u] = "remove" /\ cur'[u] = cur[u]
      BY Zenon, <1>1
  <2> QED
      BY ZenonT(30), <1>3, <2>1 DEF GoneInv
<1> QED
    BY Zenon, <1>7, <1>8, <1>9

(* Task::leave lets only a thread's own driver go. *)
LEMMA CloseLeave ==
    ASSUME TypeOK, OwnerInv, CloseInv, NEW t \in Threads, Leave(t) \/ Unwind(t)
    PROVE  TakenInv' /\ StageInv' /\ GoneInv'
<1> USE DEF CloseInv
<1>1. Inside(t) /\ pc[t] # "remove" /\ ~Inside(t)'
  <2>1. pc[t] \in {"leave", "unwind"} /\ pc'[t] \in {"idle", "block", "yield"}
      BY ZenonT(30) DEF Leave, Unwind, GoOffThread, AfterLeave, At, TypeOK
  <2> QED
      BY Zenon, <2>1 DEF Inside, OnThread
<1>2. \A u \in Threads \ {t} : pc'[u] = pc[u] /\ cur'[u] = cur[u] /\ (Inside(u)' <=> Inside(u))
    BY Zenon DEF Leave, Unwind, GoOffThread, TypeOK, Inside
<1>3. /\ UNCHANGED <<attached, closed, startPc, toClose, terminateRequested>>
      /\ \A e \in Drivers : isOnThread[e] /\ e # cur[t] => isOnThread'[e]
    BY ZenonT(30) DEF Leave, Unwind, GoOffThread, callerVars, driverVars, TypeOK
<1>4. TakenInv'
  <2> SUFFICES ASSUME NEW b \in Actors, NEW e \in toClose[b]
               PROVE  /\ terminateRequested /\ isOnThread'[e] /\ e \notin attached /\ ~closed[e]
                      /\ \A c \in Actors : e \in toClose[c] => b = c
                      /\ \A u \in Threads : Inside(u)' => cur'[u] # e
      BY Zenon, <1>3 DEF TakenInv
  <2>1. /\ terminateRequested /\ isOnThread[e] /\ e \notin attached /\ ~closed[e]
        /\ \A c \in Actors : e \in toClose[c] => b = c
        /\ \A u \in Threads : Inside(u) => cur[u] # e
      BY Zenon DEF TakenInv
  <2>2. e \in Drivers /\ e # cur[t]
      BY ZenonT(30), <1>1, <2>1 DEF TypeOK
  <2>3. \A u \in Threads : Inside(u)' => cur'[u] # e
      BY ZenonT(30), <1>1, <1>2, <2>1
  <2> QED
      BY ZenonT(30), <1>3, <2>1, <2>2, <2>3
<1>5. StageInv'
    BY ZenonT(30), <1>1, <1>2, <1>3 DEF StageInv
<1>6. GoneInv'
  <2>1. \A u \in Threads : pc[u] = "remove" => pc'[u] = "remove" /\ cur'[u] = cur[u]
      BY Zenon, <1>1, <1>2
  <2> QED
      BY <1>3, <2>1 DEF GoneInv
<1> QED
    BY Zenon, <1>4, <1>5, <1>6

(* Driver::close on the driver's own thread: closeOperators. *)
LEMMA CloseOwn ==
    ASSUME TypeOK, OwnerInv, CloseInv, NEW t \in Threads, CloseOperators(t)
    PROVE  TakenInv' /\ StageInv' /\ GoneInv'
<1> USE DEF CloseInv
<1>1. pc[t] = "close" /\ pc'[t] = "remove" /\ cur' = cur /\ Inside(t) /\ Inside(t)'
    BY Zenon DEF CloseOperators, At, Inside, OnThread, TypeOK
<1>2. \A u \in Threads \ {t} : pc'[u] = pc[u] /\ (Inside(u)' <=> Inside(u))
    BY Zenon DEF CloseOperators, TypeOK, Inside
<1>3. cur[t] \in Drivers /\ \A u \in Threads \ {t} : Inside(u) => cur[u] # cur[t]
    BY <1>1, Zenon DEF OwnerInv, ThreadOwns, OneOwner
<1>4. /\ UNCHANGED <<attached, isOnThread, startPc, toClose, terminateRequested>>
      /\ closed'[cur[t]] /\ \A e \in Drivers \ {cur[t]} : closed'[e] = closed[e]
    BY Zenon, <1>3 DEF CloseOperators, callerVars, taskVars, TypeOK
<1>5. TakenInv'
  <2> SUFFICES ASSUME NEW b \in Actors, NEW e \in toClose[b]
               PROVE  /\ terminateRequested /\ isOnThread[e] /\ e \notin attached /\ ~closed'[e]
                      /\ \A c \in Actors : e \in toClose[c] => b = c
                      /\ \A u \in Threads : Inside(u)' => cur[u] # e
      BY ZenonT(30), <1>1, <1>4 DEF TakenInv
  <2>1. /\ terminateRequested /\ isOnThread[e] /\ e \notin attached /\ ~closed[e]
        /\ \A c \in Actors : e \in toClose[c] => b = c
        /\ \A u \in Threads : Inside(u) => cur[u] # e
      BY Zenon DEF TakenInv
  <2>2. e \in Drivers \ {cur[t]}
      BY Zenon, <1>1, <2>1 DEF TypeOK
  <2>3. \A u \in Threads : Inside(u)' => cur[u] # e
      BY ZenonT(30), <1>1, <1>2, <2>1
  <2> QED
      BY ZenonT(30), <1>4, <2>1, <2>2, <2>3
<1>6. StageInv'
  <2> SUFFICES ASSUME NEW u \in Threads, Inside(u)'
               PROVE  /\ cur[u] \in attached <=> pc'[u] = "remove" \/ ~closed'[cur[u]]
                      /\ pc'[u] \in OpenPoints => ~closed'[cur[u]]
                      /\ pc'[u] \in {"remove", "finish", "unwind"} => closed'[cur[u]]
      BY ZenonT(30), <1>1, <1>4 DEF StageInv
  <2>1. CASE u = t
      BY Zenon, <1>1, <1>4, <2>1 DEF StageInv, OpenPoints
  <2>2. CASE u # t
    <3>1. Inside(u) /\ pc'[u] = pc[u] /\ cur[u] # cur[t] /\ cur[u] \in Drivers
        BY <1>2, <1>3, <2>2, Zenon DEF OwnerInv, ThreadOwns
    <3> QED
        BY ZenonT(30), <1>4, <3>1 DEF StageInv
  <2> QED
      BY ZenonT(30), <2>1, <2>2
<1>7. GoneInv'
  <2>1. ASSUME NEW d \in attached, closed'[d]
        PROVE  \E u \in Threads : pc'[u] = "remove" /\ cur[u] = d
    <3>1. CASE d = cur[t]
        BY ZenonT(30), <1>1, <3>1
    <3>2. CASE d # cur[t]
      <4>1. PICK u \in Threads : pc[u] = "remove" /\ cur[u] = d
          BY Zenon, <1>4, <2>1, <3>2 DEF GoneInv, TypeOK
      <4> QED
          BY ZenonT(30), <1>1, <1>2, <4>1
    <3> QED
        BY Zenon, <3>1, <3>2
  <2>2. ASSUME startPc = "started", NEW d \in Drivers \ attached
        PROVE  closed'[d] \/ \E b \in Actors : d \in toClose[b]
      BY ZenonT(30), <1>4, <2>2 DEF GoneInv
  <2> QED
      BY ZenonT(30), <1>1, <1>4, <2>1, <2>2 DEF GoneInv
<1> QED
    BY Zenon, <1>5, <1>6, <1>7

(* Driver::close on the driver's own thread: Task::removeDriver. *)
LEMMA CloseRemove ==
    ASSUME TypeOK, OwnerInv, CloseInv, NEW t \in Threads, RemoveDriver(t)
    PROVE  TakenInv' /\ StageInv' /\ GoneInv'
<1> USE DEF CloseInv
<1>1. /\ pc[t] = "remove" /\ pc'[t] \in {"finish", "leave", "unwind"} /\ cur' = cur
      /\ Inside(t) /\ Inside(t)'
    BY ZenonT(30) DEF RemoveDriver, AfterClose, At, Inside, OnThread, TypeOK
<1>2. \A u \in Threads \ {t} : pc'[u] = pc[u] /\ (Inside(u)' <=> Inside(u))
    BY Zenon DEF RemoveDriver, TypeOK, Inside
<1>3. cur[t] \in Drivers /\ \A u \in Threads \ {t} : Inside(u) => cur[u] # cur[t]
    BY <1>1, Zenon DEF OwnerInv, ThreadOwns, OneOwner
<1>4. /\ UNCHANGED <<closed, isOnThread, startPc, toClose, terminateRequested>>
      /\ attached' = attached \ {cur[t]}
    BY Zenon, <1>3 DEF RemoveDriver, callerVars, driverVars, TypeOK
<1>5. TakenInv'
  <2>1. \A u \in Threads : Inside(u)' <=> Inside(u)
      BY ZenonT(30), <1>1, <1>2
  <2> QED
      BY <1>1, <1>4, <2>1, Zenon DEF TakenInv
<1>6. closed[cur[t]]
    BY ZenonT(30), <1>1 DEF StageInv
<1>7. StageInv'
  <2> SUFFICES ASSUME NEW u \in Threads, Inside(u)'
               PROVE  /\ cur[u] \in attached' <=> pc'[u] = "remove" \/ ~closed[cur[u]]
                      /\ pc'[u] \in OpenPoints => ~closed[cur[u]]
                      /\ pc'[u] \in {"remove", "finish", "unwind"} => closed[cur[u]]
      BY ZenonT(30), <1>1, <1>4 DEF StageInv
  <2>1. CASE u = t
      BY Zenon, <1>1, <1>4, <1>6, <2>1 DEF OpenPoints
  <2>2. CASE u # t
      BY ZenonT(30), <1>2, <1>3, <1>4, <2>2 DEF StageInv
  <2> QED
      BY ZenonT(30), <2>1, <2>2
<1>8. GoneInv'
  <2>1. ASSUME NEW d \in attached', closed[d]
        PROVE  \E u \in Threads : pc'[u] = "remove" /\ cur[u] = d
    <3>1. d \in attached /\ d # cur[t]
        BY Zenon, <1>4, <2>1
    <3>2. PICK u \in Threads : pc[u] = "remove" /\ cur[u] = d
        BY ZenonT(30), <2>1, <3>1 DEF GoneInv
    <3> QED
        BY ZenonT(30), <1>2, <3>1, <3>2
  <2>2. ASSUME startPc = "started", NEW d \in Drivers \ attached'
        PROVE  closed[d] \/ \E b \in Actors : d \in toClose[b]
      BY Zenon, <1>4, <1>6, <2>2 DEF GoneInv
  <2> QED
      BY ZenonT(30), <1>1, <1>4, <2>1, <2>2 DEF GoneInv
<1> QED
    BY Zenon, <1>5, <1>7, <1>8

(* Driver::closeByTask on a driver that was taken. *)
LEMMA CloseTaken ==
    ASSUME TypeOK, OwnerInv, CloseInv, NEW a \in Actors, NEW d \in Drivers, CloseByTask(a, d)
    PROVE  TakenInv' /\ StageInv' /\ GoneInv'
<1> USE DEF CloseInv
<1>1. /\ d \in toClose[a]
      /\ UNCHANGED <<attached, isOnThread, startPc, terminateRequested, pc, cur>>
      /\ toClose'[a] = toClose[a] \ {d} /\ \A b \in Actors \ {a} : toClose'[b] = toClose[b]
      /\ closed'[d] /\ \A e \in Drivers \ {d} : closed'[e] = closed[e]
    BY Zenon DEF CloseByTask, callerVars, threadVars, TypeOK
<1>2. /\ d \notin attached /\ \A b \in Actors : d \in toClose[b] => a = b
      /\ \A t \in Threads : Inside(t) => cur[t] # d
    BY <1>1, Zenon DEF TakenInv
<1>3. \A t \in Threads : Inside(t)' <=> Inside(t)
    BY ZenonT(30), <1>1 DEF Inside
<1>4. TakenInv'
  <2> SUFFICES ASSUME NEW b \in Actors, NEW e \in toClose'[b]
               PROVE  /\ terminateRequested /\ isOnThread[e] /\ e \notin attached /\ ~closed'[e]
                      /\ \A c \in Actors : e \in toClose'[c] => b = c
                      /\ \A u \in Threads : Inside(u) => cur[u] # e
      BY ZenonT(30), <1>1, <1>3 DEF TakenInv
  <2>1. e \in toClose[b] /\ e \in Drivers \ {d}
      BY ZenonT(30), <1>1, <1>2 DEF TypeOK
  <2>2. /\ terminateRequested /\ isOnThread[e] /\ e \notin attached /\ ~closed[e]
        /\ \A c \in Actors : e \in toClose[c] => b = c
        /\ \A u \in Threads : Inside(u) => cur[u] # e
      BY <2>1, Zenon DEF TakenInv
  <2>3. \A c \in Actors : toClose'[c] \subseteq toClose[c]
      BY ZenonT(30), <1>1
  <2> QED
      BY ZenonT(30), <1>1, <2>1, <2>2, <2>3
<1>5. StageInv'
  <2>1. \A t \in Threads : Inside(t) => closed'[cur[t]] = closed[cur[t]]
      BY <1>1, <1>2, Zenon DEF OwnerInv, ThreadOwns
  <2> QED
      BY <1>1, <1>3, <2>1, Zenon DEF StageInv
<1>6. GoneInv'
  <2>1. ASSUME NEW e \in attached, closed'[e]
        PROVE  \E t \in Threads : pc[t] = "remove" /\ cur[t] = e
      BY ZenonT(30), <1>1, <1>2, <2>1 DEF GoneInv, TypeOK
  <2>2. ASSUME startPc = "started", NEW e \in Drivers \ attached
        PROVE  closed'[e] \/ \E b \in Actors : e \in toClose'[b]
    <3>1. CASE e = d
        BY ZenonT(30), <1>1, <3>1
    <3>2. CASE e # d
      <4>1. closed'[e] = closed[e] /\ \A b \in Actors : e \in toClose[b] => e \in toClose'[b]
          BY ZenonT(30), <1>1, <3>2, <2>2
      <4> QED
          BY ZenonT(30), <2>2, <4>1 DEF GoneInv
    <3> QED
        BY Zenon, <3>1, <3>2
  <2> QED
      BY ZenonT(30), <1>1, <2>1, <2>2 DEF GoneInv
<1> QED
    BY Zenon, <1>4, <1>5, <1>6

(* Task::start makes drivers that nobody has touched. *)
LEMMA CloseStart ==
    ASSUME TypeOK, CountInv, CloseInv, StartStep
    PROVE  TakenInv' /\ StageInv' /\ GoneInv'
<1>1. startPc # "started"
    BY Zenon DEF StartStep, StartFactories, CreateAndStartDrivers, StartAfterTerminate, StartFails
<1>2. /\ \A t \in Threads : pc[t] = "idle"
      /\ \A d \in Drivers : ~closed[d]
      /\ \A a \in Actors : toClose[a] = {}
    BY <1>1, Zenon DEF CloseInv, EarlyInv
<1>3. /\ UNCHANGED <<pc, closed, toClose>>
      /\ startPc' = "started" => attached' = Drivers
      /\ attached' \subseteq Drivers
    BY ZenonT(30), <1>1 DEF StartStep, StartFactories, CreateAndStartDrivers, StartAfterTerminate, StartFails,
       taskVars, driverVars, threadVars, TypeOK
<1>4. \A t \in Threads : ~Inside(t)'
    BY Zenon, <1>2, <1>3 DEF Inside, OnThread
<1> QED
    BY ZenonT(30), <1>2, <1>3, <1>4 DEF TakenInv, StageInv, GoneInv

(* Until start has created the drivers no thread and no future has one. *)
LEMMA EarlyStep ==
    ASSUME TypeOK, CountInv, EarlyInv, [Next]_vars
    PROVE  EarlyInv'
<1> SUFFICES ASSUME startPc' # "started"
             PROVE  /\ \A t \in Threads : pc'[t] = "idle"
                    /\ \A d \in Drivers : jobs'[d] = 0 /\ armed'[d] = 0 /\ ~closed'[d]
                    /\ \A a \in Actors : toClose'[a] = {}
                    /\ numFinishedOutput' = 0
    BY Zenon DEF EarlyInv
<1>1. startPc # "started"
    BY Zenon, Books DEF BooksUnchanged, BookStep, TerminateStep, StartStep, StartFactories,
       CreateAndStartDrivers, StartAfterTerminate, StartFails, ResumeTerminated, reclaimUnchanged,
       RemoveDriver, CloseByTask, callerVars
<1>2. /\ \A t \in Threads : pc[t] = "idle"
      /\ \A d \in Drivers : jobs[d] = 0 /\ armed[d] = 0 /\ ~closed[d]
      /\ \A a \in Actors : toClose[a] = {}
      /\ numFinishedOutput = 0 /\ attached = {}
    BY <1>1, Zenon DEF EarlyInv, CountInv
<1>3. ASSUME UNCHANGED <<pc, jobs, armed, closed, numFinishedOutput>>,
             \A a \in Actors : toClose'[a] = {}
      PROVE  /\ \A t \in Threads : pc'[t] = "idle"
             /\ \A d \in Drivers : jobs'[d] = 0 /\ armed'[d] = 0 /\ ~closed'[d]
             /\ \A a \in Actors : toClose'[a] = {}
             /\ numFinishedOutput' = 0
    BY Zenon, <1>2, <1>3
<1>4. ASSUME NEW t \in Threads PROVE ~RunStep(t) /\ ~LeaveSuspended(t)
    BY <1>2, ZenonT(30) DEF RunStep, RunStop, RunBlock, RunCpuSlice, RunAtEnd, RunThrow, EnterSuspended,
       LeaveSuspended, ExitLoop, At
<1>5. ASSUME NEW t \in Threads PROVE ~ExitStep(t)
    BY <1>2, ZenonT(30) DEF ExitStep, Cancelled, Fail, GuardThrown, CloseOperators, RemoveDriver, FinishTask,
       Leave, LeaveTerminated, Unwind, CheckBlocked, SetResume, EnqueueYielded, At
<1>a. \A d \in Drivers : ~(jobs[d] > 0) /\ ~(armed[d] > 0)
    BY <1>2
<1>6. ASSUME NEW d \in Drivers PROVE ~Realize(d) /\ ~RealizeError(d)
    BY <1>a, Zenon DEF Realize, RealizeError
<1>7. ASSUME NEW t \in Threads, NEW d \in Drivers PROVE ~EnterStep(t, d)
    BY <1>a, Zenon DEF EnterStep, EnterClosed, EnterRefused, EnterYield, EnterRun, TakeJob
<1>8. ASSUME NEW a \in Actors, NEW d \in Drivers PROVE ~CloseByTask(a, d)
    BY ZenonT(30), <1>2 DEF CloseByTask
<1>9. ASSUME NEW a \in Actors, NEW s, Terminate(a, s) PROVE \A b \in Actors : toClose'[b] = {}
  <2>1. CASE state # "kRunning"
      BY ZenonT(30), <1>2, <1>9, <2>1 DEF Terminate, taskVars
  <2>2. CASE state = "kRunning"
    <3> DEFINE off == IF pauseRequested THEN {} ELSE OffThreadDrivers
    <3>1. off = {}
        BY ZenonT(30), <1>2 DEF OffThreadDrivers
    <3>2. toClose' = [toClose EXCEPT ![a] = @ \cup off]
        BY Zenon, <1>9, <2>2 DEF Terminate
    <3> QED
        BY ZenonT(30), <1>2, <3>1, <3>2 DEF TypeOK
  <2> QED
      BY Zenon, <2>1, <2>2
<1>10. CASE StartStep
    BY ZenonT(30), <1>1, <1>2, <1>3, <1>10 DEF StartStep, StartFactories, CreateAndStartDrivers,
       StartAfterTerminate, StartFails, taskVars, driverVars, threadVars, outputVars
<1>11. CASE RequestTerminate
    BY <1>3, <1>9, <1>11, Zenon DEF RequestTerminate, driverVars, threadVars, outputVars, Actors
<1>12. ASSUME NEW due \in {"finish", "fail"}, ClientTerminate(due)
       PROVE  UNCHANGED <<pc, jobs, armed, closed, numFinishedOutput>>
              /\ \A a \in Actors : toClose'[a] = {}
    BY <1>9, <1>12, Zenon DEF ClientTerminate, driverVars, threadVars, outputVars, Actors
<1>13. CASE RequestYield \/ SetAllOutputConsumed
    BY ZenonT(30), <1>2, <1>3, <1>13 DEF RequestYield, SetAllOutputConsumed, taskVars, driverVars, threadVars,
       outputVars
<1>14. CASE AbortTerminate
    BY <1>3, <1>9, <1>14, Zenon DEF AbortTerminate, reclaimUnchanged, driverVars, threadVars,
       outputVars, Actors
<1>15. CASE ResumeRunning
  <2>1. jobs' = jobs /\ UNCHANGED <<pc, armed, closed, numFinishedOutput, toClose>>
      BY ZenonT(30), <1>2, <1>15 DEF ResumeRunning, EnqueueAll, Resumed, taskVars, threadVars, outputVars, TypeOK
  <2> QED
      BY ZenonT(30), <1>2, <1>3, <2>1
<1>16. CASE ResumeTerminated
  <2>1. OffThreadDrivers = {} /\ toClose' = [toClose EXCEPT ![Reclaimer] = @ \cup OffThreadDrivers]
      BY ZenonT(30), <1>2, <1>16 DEF ResumeTerminated, OffThreadDrivers
  <2>2. UNCHANGED <<pc, jobs, armed, closed, numFinishedOutput>>
      BY Zenon, <1>16 DEF ResumeTerminated, reclaimUnchanged, driverVars, threadVars, outputVars
  <2> QED
      BY ZenonT(30), <1>2, <1>3, <2>1, <2>2 DEF TypeOK
<1>17. CASE RequestPause \/ RequestAbort \/ PauseDone \/ PauseTimeout \/ ReclaimDone \/ ReclaimReturns
            \/ AbortSetError \/ CompletionTimeout \/ AbortStep
    BY ZenonT(30), <1>2, <1>3, <1>17, AbortLeaves DEF RequestPause, RequestAbort, PauseDone, PauseTimeout, ReclaimDone,
       ReclaimReturns, AbortSetError, SetErrorForAbort, reclaimUnchanged,
       taskVars, driverVars, threadVars, outputVars
<1>18. CASE vars' = vars
    BY ZenonT(30), <1>2, <1>3, <1>18 DEF vars, taskVars, driverVars, threadVars, outputVars
<1> QED
    BY ZenonT(30), <1>3, <1>4, <1>5, <1>6, <1>7, <1>8, <1>10, <1>11, <1>12, <1>13, <1>14, <1>15, <1>16, <1>17,
       <1>18, ZenonT(30) DEF Next, ClientStep, ReclaimStep

(* Every step keeps who closes a driver. *)
LEMMA CloseStep ==
    ASSUME IInv, CloseInv, [Next]_vars
    PROVE  CloseInv'
<1>1. TypeOK /\ OwnerInv /\ TerminateInv /\ CountInv
    BY Zenon DEF IInv
<1>2. EarlyInv'
    BY Zenon, <1>1, EarlyStep DEF CloseInv
<1>3. TakenInv' /\ StageInv' /\ GoneInv'
    BY <1>1, HandingOrNot, CloseHanding, CloseEnter, CloseLeave, CloseOwn, CloseRemove, CloseTaken,
       CloseStart, Zenon DEF OpenOrClose
<1> QED
    BY Zenon, <1>2, <1>3 DEF CloseInv

(* Nobody closes a driver before the task has started. *)
LEMMA InitCloseInv == Init => CloseInv
    BY ZenonT(30) DEF Init, CloseInv, EarlyInv, TakenInv, StageInv, GoneInv, Inside, OnThread

-----------------------------------------------------------------------------
(* When the task is kFinished.                                             *)

OutputDone ==
    /\ \A d \in OutputDrivers : closed[d] /\ d \notin attached
    /\ HasPartitionedOutput => outputConsumed

(* Whoever has decided that the task is finished was right and remains so. *)
FinishInv ==
    /\ numFinishedOutput + Cardinality(OutputDrivers \cap attached) <= Cardinality(OutputDrivers)
    /\ \A t \in Threads : pc[t] = "finish" => state # "kRunning" \/ OutputDone
    /\ "finish" \in clientDue => state # "kRunning" \/ OutputDone
    /\ state = "kFinished" => OutputDone

(* A step that neither decides that the task is finished nor ends it so. *)
Undecided ==
    /\ UNCHANGED <<numFinishedOutput, outputConsumed>>
    /\ "finish" \in clientDue' => "finish" \in clientDue
    /\ \A t \in Threads : pc'[t] = "finish" => pc[t] = "finish"
    /\ state' = "kFinished" => state = "kFinished"

(* Task::terminate sets the state it is given, once. *)
LEMMA TerminateState ==
    ASSUME NEW a, NEW s, Terminate(a, s)
    PROVE  state' = state \/ (state = "kRunning" /\ state' = s)
    BY Zenon DEF Terminate, taskVars

(* Only four critical sections decide about kFinished. *)
LEMMA Decisions ==
    ASSUME TypeOK, [Next]_vars
    PROVE  \/ Undecided \/ SetAllOutputConsumed \/ ClientTerminate("finish")
           \/ \E t \in Threads : RemoveDriver(t) \/ FinishTask(t)
<1> SUFFICES ASSUME ~SetAllOutputConsumed, ~ClientTerminate("finish"),
                    ~ \E t \in Threads : RemoveDriver(t) \/ FinishTask(t)
             PROVE  Undecided
    BY Zenon
<1>1. ASSUME StartFactories PROVE Undecided
    BY Zenon, <1>1 DEF Undecided, StartFactories, taskVars, threadVars, callerVars, outputVars
<1>2. ASSUME CreateAndStartDrivers PROVE Undecided
    BY Zenon, <1>2 DEF Undecided, CreateAndStartDrivers, taskVars, threadVars, callerVars,
       outputVars
<1>3. ASSUME StartAfterTerminate PROVE Undecided
    BY Zenon, <1>3 DEF Undecided, StartAfterTerminate, taskVars, threadVars, callerVars, outputVars
<1>4. ASSUME StartFails PROVE Undecided
    BY Zenon, <1>4 DEF Undecided, StartFails, taskVars, threadVars, callerVars, outputVars
<1>5. ASSUME NEW t \in Threads, NEW d \in Drivers, EnterClosed(t, d) PROVE Undecided
    BY ZenonT(30), <1>5 DEF Undecided, EnterClosed, TakeJob, At, TypeOK, taskVars, threadVars,
       callerVars, outputVars
<1>6. ASSUME NEW t \in Threads, NEW d \in Drivers, EnterRefused(t, d) PROVE Undecided
    BY ZenonT(30), <1>6 DEF Undecided, EnterRefused, TakeJob, At, TypeOK, taskVars, threadVars,
       callerVars, outputVars
<1>7. ASSUME NEW t \in Threads, NEW d \in Drivers, EnterYield(t, d) PROVE Undecided
    BY ZenonT(30), <1>7 DEF Undecided, EnterYield, TakeJob, At, TypeOK, taskVars, threadVars,
       callerVars, outputVars
<1>8. ASSUME NEW t \in Threads, NEW d \in Drivers, EnterRun(t, d) PROVE Undecided
    BY ZenonT(30), <1>8 DEF Undecided, EnterRun, TakeJob, At, TypeOK, taskVars, threadVars, callerVars,
       outputVars
<1>9. ASSUME NEW t \in Threads, RunStop(t) PROVE Undecided
    BY Zenon, <1>9 DEF Undecided, RunStop, ExitLoop, At, TypeOK, taskVars, threadVars, callerVars,
       outputVars
<1>10. ASSUME NEW t \in Threads, RunBlock(t) PROVE Undecided
    BY Zenon, <1>10 DEF Undecided, RunBlock, ExitLoop, At, TypeOK, taskVars, threadVars,
       callerVars, outputVars
<1>11. ASSUME NEW t \in Threads, RunCpuSlice(t) PROVE Undecided
    BY Zenon, <1>11 DEF Undecided, RunCpuSlice, ExitLoop, At, TypeOK, taskVars, threadVars,
       callerVars, outputVars
<1>12. ASSUME NEW t \in Threads, RunAtEnd(t) PROVE Undecided
    BY Zenon, <1>12 DEF Undecided, RunAtEnd, ExitLoop, At, CloseOr, TypeOK, taskVars, threadVars,
       callerVars, outputVars
<1>13. ASSUME NEW t \in Threads, RunThrow(t) PROVE Undecided
    BY Zenon, <1>13 DEF Undecided, RunThrow, ExitLoop, At, TypeOK, taskVars, threadVars,
       callerVars, outputVars
<1>14. ASSUME NEW t \in Threads, EnterSuspended(t) PROVE Undecided
    BY Zenon, <1>14 DEF Undecided, EnterSuspended, At, TypeOK, taskVars, threadVars, callerVars,
       outputVars
<1>15. ASSUME NEW t \in Threads, LeaveSuspended(t) PROVE Undecided
    BY ZenonT(30), <1>15 DEF Undecided, LeaveSuspended, At, TypeOK, taskVars, threadVars, callerVars,
       outputVars
<1>16. ASSUME NEW t \in Threads, Cancelled(t) PROVE Undecided
    BY <1>16, TerminateState DEF Undecided, Cancelled, At, TypeOK, threadVars, callerVars,
       outputVars
<1>17. ASSUME NEW t \in Threads, Fail(t) PROVE Undecided
    BY <1>17, TerminateState DEF Undecided, Fail, At, TypeOK, threadVars, callerVars,
       outputVars
<1>18. ASSUME NEW t \in Threads, GuardThrown(t) PROVE Undecided
    BY Zenon, <1>18 DEF Undecided, GuardThrown, At, CloseOr, TypeOK, taskVars, threadVars,
       callerVars, outputVars
<1>19. ASSUME NEW t \in Threads, CloseOperators(t) PROVE Undecided
    BY ZenonT(30), <1>19 DEF Undecided, CloseOperators, At, TypeOK, taskVars, threadVars, callerVars,
       outputVars
<1>20. ASSUME NEW t \in Threads, Leave(t) PROVE Undecided
    BY ZenonT(30), <1>20 DEF Undecided, Leave, At, GoOffThread, AfterLeave, LeaveReason, TypeOK,
       taskVars, threadVars, callerVars, outputVars
<1>21. ASSUME NEW t \in Threads, LeaveTerminated(t) PROVE Undecided
    BY Zenon, <1>21 DEF Undecided, LeaveTerminated, At, CloseOr, TypeOK, taskVars, threadVars,
       callerVars, outputVars
<1>22. ASSUME NEW t \in Threads, Unwind(t) PROVE Undecided
    BY ZenonT(30), <1>22 DEF Undecided, Unwind, At, GoOffThread, AfterLeave, TypeOK, taskVars,
       threadVars, callerVars, outputVars
<1>23. ASSUME NEW t \in Threads, CheckBlocked(t) PROVE Undecided
    BY ZenonT(30), <1>23 DEF Undecided, CheckBlocked, At, TypeOK, taskVars, threadVars, callerVars,
       outputVars
<1>24. ASSUME NEW t \in Threads, SetResume(t) PROVE Undecided
    BY ZenonT(30), <1>24 DEF Undecided, SetResume, At, TypeOK, taskVars, threadVars, callerVars,
       outputVars
<1>25. ASSUME NEW t \in Threads, EnqueueYielded(t) PROVE Undecided
    BY ZenonT(30), <1>25 DEF Undecided, EnqueueYielded, At, TypeOK, taskVars, threadVars, callerVars,
       outputVars
<1>26. ASSUME NEW d \in Drivers, Realize(d) PROVE Undecided
    BY Zenon, <1>26 DEF Undecided, Realize, taskVars, threadVars, callerVars, outputVars
<1>27. ASSUME NEW d \in Drivers, RealizeError(d) PROVE Undecided
    BY ZenonT(30), <1>27 DEF Undecided, RealizeError, taskVars, threadVars, callerVars, outputVars
<1>28. ASSUME NEW a \in Actors, NEW d \in Drivers, CloseByTask(a, d) PROVE Undecided
    BY Zenon, <1>28 DEF Undecided, CloseByTask, taskVars, threadVars, callerVars, outputVars
<1>29. ASSUME RequestTerminate PROVE Undecided
    BY Zenon, <1>29, TerminateState DEF Undecided, RequestTerminate, threadVars, callerVars,
       outputVars
<1>30. ASSUME RequestYield PROVE Undecided
    BY Zenon, <1>30 DEF Undecided, RequestYield, taskVars, threadVars, callerVars, outputVars
<1>31. ASSUME ClientTerminate("fail") PROVE Undecided
    BY <1>31, TerminateState DEF Undecided, ClientTerminate, threadVars, callerVars,
       outputVars
<1>32. ASSUME RequestPause PROVE Undecided
    BY Zenon, <1>32 DEF Undecided, RequestPause, reclaimUnchanged, taskVars, threadVars,
       callerVars, outputVars
<1>33. ASSUME RequestAbort PROVE Undecided
    BY Zenon, <1>33 DEF Undecided, RequestAbort, SetErrorForAbort, reclaimUnchanged, taskVars,
       threadVars, callerVars, outputVars
<1>34. ASSUME PauseDone PROVE Undecided
    BY Zenon, <1>34 DEF Undecided, PauseDone, reclaimUnchanged, taskVars, threadVars, callerVars,
       outputVars
<1>35. ASSUME PauseTimeout PROVE Undecided
    BY Zenon, <1>35 DEF Undecided, PauseTimeout, reclaimUnchanged, taskVars, threadVars,
       callerVars, outputVars
<1>36. ASSUME ReclaimDone PROVE Undecided
    BY Zenon, <1>36 DEF Undecided, ReclaimDone, reclaimUnchanged, taskVars, threadVars, callerVars,
       outputVars
<1>37. ASSUME ResumeRunning PROVE Undecided
    BY Zenon, <1>37 DEF Undecided, ResumeRunning, reclaimUnchanged, taskVars, threadVars,
       callerVars, outputVars
<1>38. ASSUME ResumeTerminated PROVE Undecided
    BY ZenonT(30), <1>38 DEF Undecided, ResumeTerminated, reclaimUnchanged, taskVars, threadVars,
       callerVars, outputVars
<1>39. ASSUME ReclaimReturns PROVE Undecided
    BY ZenonT(30), <1>39 DEF Undecided, ReclaimReturns, reclaimUnchanged, taskVars, threadVars,
       callerVars, outputVars
<1>40. ASSUME AbortSetError PROVE Undecided
    BY ZenonT(30), <1>40 DEF Undecided, AbortSetError, SetErrorForAbort, reclaimUnchanged, taskVars,
       threadVars, callerVars, outputVars
<1>41. ASSUME AbortTerminate PROVE Undecided
    BY <1>41, TerminateState DEF Undecided, AbortTerminate, reclaimUnchanged, threadVars,
       callerVars, outputVars
<1>42. ASSUME CompletionTimeout PROVE Undecided
    BY ZenonT(30), <1>42, AbortLeaves DEF Undecided, reclaimUnchanged, taskVars, threadVars,
       callerVars, outputVars
<1>43. ASSUME AbortStep PROVE Undecided
    BY Zenon, <1>43, AbortLeaves DEF Undecided, reclaimUnchanged, taskVars, threadVars, callerVars,
       outputVars
<1>44. ASSUME vars' = vars PROVE Undecided
    BY Zenon, <1>44 DEF Undecided, vars, taskVars, threadVars, callerVars, outputVars
<1>45. ASSUME NEW t \in Threads, NEW d \in Drivers, EnterStep(t, d) PROVE Undecided
    BY <1>45, <1>5, <1>6, <1>7, <1>8, Zenon DEF EnterStep
<1>46. ASSUME NEW t \in Threads, RunStep(t) PROVE Undecided
    BY <1>46, <1>9, <1>10, <1>11, <1>12, <1>13, <1>14, Zenon DEF RunStep
<1>47. ASSUME NEW t \in Threads, ExitStep(t) PROVE Undecided
    BY <1>47, <1>16, <1>17, <1>18, <1>19, <1>20, <1>21, <1>22, <1>23, <1>24, <1>25, Zenon
       DEF ExitStep
<1>48. CASE StartStep \/ ClientStep
    BY ZenonT(30), <1>48, <1>1, <1>2, <1>3, <1>4, <1>29, <1>30, <1>31 DEF StartStep, ClientStep
<1>49. CASE ReclaimStep
    BY <1>49, <1>34, <1>35, <1>36, <1>37, <1>38, <1>39, <1>40, <1>41, <1>42, <1>43, Zenon
       DEF ReclaimStep
<1> QED
    BY <1>45, <1>46, <1>47, <1>48, <1>49, <1>15, <1>26, <1>27, <1>28, <1>32, <1>33, <1>44,
       Zenon DEF Next

(* A driver is closed for good. *)
LEMMA ClosedStays ==
    ASSUME TypeOK, TerminateInv, [Next]_vars, NEW d \in Drivers, closed[d]
    PROVE  closed'[d]
<1>1. CASE Handing
    BY Zenon, <1>1 DEF Handing
<1>2. CASE StartStep
    BY Zenon, <1>2 DEF StartStep, StartFactories, CreateAndStartDrivers, StartAfterTerminate, StartFails,
       driverVars
<1>3. ASSUME NEW t \in Threads,
             (\E e \in Drivers : EnterRun(t, e)) \/ RemoveDriver(t) \/ Leave(t) \/ Unwind(t)
      PROVE  closed'[d]
    BY <1>3, Zenon DEF EnterRun, RemoveDriver, Leave, Unwind, driverVars
<1>4. ASSUME NEW t \in Threads, CloseOperators(t) PROVE closed'[d]
    BY ZenonT(30), <1>4 DEF CloseOperators, TypeOK
<1>5. ASSUME NEW a \in Actors, NEW e \in Drivers, CloseByTask(a, e) PROVE closed'[d]
    BY ZenonT(30), <1>5 DEF CloseByTask, TypeOK
<1> QED
    BY <1>1, <1>2, <1>3, <1>4, <1>5, HandingOrNot, Zenon DEF OpenOrClose

(* drivers_ only shrinks after start has filled it. *)
LEMMA AttachedShrinks ==
    ASSUME TypeOK, [Next]_vars, ~CreateAndStartDrivers
    PROVE  attached' \subseteq attached
<1>1. ASSUME NEW a \in Actors, NEW s, Terminate(a, s) PROVE attached' \subseteq attached
    BY Zenon, <1>1 DEF Terminate, taskVars
<1>2. CASE StartStep
    BY Zenon, <1>2 DEF StartStep, StartFactories, StartAfterTerminate, StartFails, taskVars
<1>3. CASE ResumeTerminated
    BY Zenon, <1>3 DEF ResumeTerminated
<1>4. ASSUME NEW t \in Threads, RemoveDriver(t) PROVE attached' \subseteq attached
    BY ZenonT(30), <1>4 DEF RemoveDriver
<1>5. ASSUME NEW a \in Actors, NEW d \in Drivers, CloseByTask(a, d) PROVE attached' \subseteq attached
    BY Zenon, <1>5 DEF CloseByTask
<1>6. CASE BooksUnchanged
    BY Zenon, <1>6 DEF BooksUnchanged
<1> QED
    BY <1>1, <1>2, <1>3, <1>4, <1>5, <1>6, Books, Zenon DEF BookStep, TerminateStep

(* A finished output stays finished. *)
LEMMA OutputDoneStays ==
    ASSUME TypeOK, TerminateInv, CloseInv, [Next]_vars, OutputDone
    PROVE  OutputDone'
<1>1. ~CreateAndStartDrivers
    BY Zenon, OutputDriversAssumption DEF CreateAndStartDrivers, CloseInv, EarlyInv, OutputDone
<1>2. \A d \in OutputDrivers : closed'[d] /\ d \notin attached'
    BY ZenonT(30), <1>1, ClosedStays, AttachedShrinks, OutputDriversAssumption DEF OutputDone
<1>3. outputConsumed => outputConsumed'
    BY ZenonT(30), Decisions DEF Undecided, SetAllOutputConsumed, ClientTerminate, RemoveDriver, FinishTask,
       outputVars
<1> QED
    BY Zenon, <1>2, <1>3 DEF OutputDone

-----------------------------------------------------------------------------
(* Facts about sets of drivers and of threads.                             *)

(* The drivers of a task are finite in number, so sets of them can be      *)
(* counted, and taking some away lowers the count by that many.            *)
LEMMA DriverSets ==
    ASSUME NEW S \in SUBSET Drivers
    PROVE  /\ IsFiniteSet(S) /\ Cardinality(S) \in Nat
           /\ \A T \in SUBSET S : /\ Cardinality(T) \in Nat /\ Cardinality(T) <= Cardinality(S)
                                  /\ Cardinality(S \ T) = Cardinality(S) - Cardinality(T)
<1>1. IsFiniteSet(Drivers)
    BY FS_Interval, NumDriversAssumption DEF Drivers
<1>2. \A T \in SUBSET Drivers : IsFiniteSet(T) /\ Cardinality(T) \in Nat
    BY Zenon, <1>1, FS_Subset, FS_CardinalityType
<1>3. ASSUME NEW T \in SUBSET S
      PROVE  Cardinality(T) <= Cardinality(S) /\ Cardinality(S \ T) = Cardinality(S) - Cardinality(T)
  <2>1. IsFiniteSet(S) /\ S \cap T = T
      BY Zenon, <1>2
  <2>2. Cardinality(S \ T) = Cardinality(S) - Cardinality(T)
      BY <2>1, FS_Difference, Zenon
  <2>3. Cardinality(T) <= Cardinality(S)
      BY ZenonT(30), <2>1, FS_Subset
  <2> QED
      BY Zenon, <2>2, <2>3
<1> QED
    BY ZenonT(30), <1>2, <1>3

(* All the drivers together are numTotalDrivers_. *)
LEMMA AllDrivers == Cardinality(Drivers) = NumDrivers /\ Cardinality({}) = 0
    BY FS_Interval, FS_EmptySet, NumDriversAssumption DEF Drivers

(* A queue with one more job in it is not empty. *)
LEMMA OneMore == \A n \in Nat : n + 1 \in Nat /\ n + 1 > 0
    OBVIOUS

(* Sets of threads can be counted, one thread more or less. *)
LEMMA ThreadSets ==
    ASSUME NEW S \in SUBSET Threads
    PROVE  /\ Cardinality(S) \in Nat /\ (Cardinality(S) = 0 <=> S = {})
           /\ \A t \in Threads \ S : Cardinality(S \cup {t}) = Cardinality(S) + 1
           /\ \A t \in S : Cardinality(S \ {t}) = Cardinality(S) - 1 /\ Cardinality(S) >= 1
<1>1. IsFiniteSet(S)
    BY Zenon, ThreadsAssumption, FS_Subset
<1>2. Cardinality(S) \in Nat /\ (Cardinality(S) = 0 <=> S = {})
    BY Zenon, <1>1, FS_CardinalityType, FS_EmptySet
<1>3. ASSUME NEW t \in Threads \ S PROVE Cardinality(S \cup {t}) = Cardinality(S) + 1
    BY Zenon, <1>1, FS_AddElement
<1>4. ASSUME NEW t \in S PROVE Cardinality(S \ {t}) = Cardinality(S) - 1 /\ Cardinality(S) >= 1
  <2>1. Cardinality(S) # 0
      BY Zenon, <1>2
  <2>2. Cardinality(S \ {t}) = Cardinality(S) - 1
      BY ZenonT(30), <1>1, FS_RemoveElement
  <2> QED
      BY <1>2, <2>1, <2>2
<1> QED
    BY Zenon, <1>2, <1>3, <1>4

-----------------------------------------------------------------------------
(* The types.                                                              *)

(* A thread inside the task is counted. *)
LEMMA Counted ==
    ASSUME TypeOK, ThreadCount, NEW t \in Threads, pc[t] \in OnThread
    PROVE  numThreads >= 1
<1> DEFINE S == {u \in Threads : pc[u] \in OnThread}
<1>1. S \in SUBSET Threads /\ t \in S
    BY Zenon
<1> HIDE DEF S
<1>2. Cardinality(S) >= 1
    BY ZenonT(30), <1>1, ThreadSets
<1> QED
    BY ZenonT(30), <1>2 DEF ThreadCount, S

(* What Task::terminate may change, of the right types. *)
TaskTypes ==
    /\ state \in TaskStates /\ exception \in BOOLEAN /\ terminateRequested \in BOOLEAN
    /\ numRunningDrivers \in Nat /\ numFinishedDrivers \in Nat /\ attached \subseteq Drivers
    /\ isOnThread \in [Drivers -> BOOLEAN] /\ isTerminated \in [Drivers -> BOOLEAN]
    /\ toClose \in [Actors -> SUBSET Drivers]

(* Task::terminate keeps the types. *)
LEMMA TerminateTypes ==
    ASSUME TypeOK, NEW a, NEW s \in TaskStates, Terminate(a, s)
    PROVE  TaskTypes'
<1> DEFINE off == IF pauseRequested THEN {} ELSE OffThreadDrivers
<1>1. off \in SUBSET Drivers
    BY ZenonT(30) DEF TypeOK, OffThreadDrivers
<1>2. Cardinality(off) \in Nat
    BY ZenonT(30), <1>1, DriverSets
<1> HIDE DEF off
<1>3. CASE state # "kRunning"
    BY ZenonT(30), <1>3 DEF Terminate, TaskTypes, TypeOK, taskVars
<1>4. CASE state = "kRunning"
  <2>1. /\ state' = s
        /\ exception' = (exception \/ s \in {"kCanceled", "kAborted"})
        /\ terminateRequested' = TRUE
        /\ numRunningDrivers' = 0
        /\ isTerminated' = [d \in Drivers |-> isTerminated[d]
                \/ d \in {e \in attached : isOnThread[e] \/ isTerminated[e]} \cup off]
        /\ isOnThread' = [d \in Drivers |-> isOnThread[d] \/ d \in off]
        /\ attached' = attached \ off
        /\ numFinishedDrivers' = numFinishedDrivers + Cardinality(off)
        /\ toClose' = [toClose EXCEPT ![a] = @ \cup off]
      BY Zenon, <1>4 DEF Terminate, off
  <2>2. /\ isTerminated' \in [Drivers -> BOOLEAN] /\ isOnThread' \in [Drivers -> BOOLEAN]
        /\ exception' \in BOOLEAN
      BY Zenon, <2>1 DEF TypeOK
  <2>3. toClose' \in [Actors -> SUBSET Drivers]
      BY <1>1, <2>1, Zenon DEF TypeOK
  <2> QED
      BY SMTT(20), <1>2, <2>1, <2>2, <2>3 DEF TaskTypes, TypeOK
<1> QED
    BY ZenonT(30), <1>3, <1>4

(* Every step keeps the types. *)
LEMMA TypeStep == TypeOK /\ ThreadCount /\ CountInv /\ [Next]_vars => TypeOK'
<1> SUFFICES ASSUME TypeOK, ThreadCount, CountInv, [Next]_vars PROVE TypeOK'
    BY Zenon
<1> USE DEF TypeOK
<1>1. ASSUME StartFactories PROVE TypeOK'
    BY ZenonT(30), <1>1, NumDriversAssumption DEF StartFactories, taskVars, driverVars, threadVars,
       callerVars, outputVars, StartPoints
<1>2. ASSUME CreateAndStartDrivers PROVE TypeOK'
    BY SMTT(20), <1>2, NumDriversAssumption DEF CreateAndStartDrivers, taskVars, driverVars,
       threadVars, callerVars, outputVars, EnqueueAll, StartPoints
<1>3. ASSUME StartAfterTerminate PROVE TypeOK'
    BY ZenonT(30), <1>3 DEF StartAfterTerminate, taskVars, driverVars, threadVars, callerVars,
       outputVars, StartPoints
<1>4. ASSUME StartFails PROVE TypeOK'
    BY ZenonT(30), <1>4 DEF StartFails, taskVars, driverVars, threadVars, callerVars, outputVars,
       FirstError, StartPoints
<1>5. ASSUME NEW t \in Threads, NEW d \in Drivers, EnterClosed(t, d) PROVE TypeOK'
    BY SMTT(20), <1>5 DEF EnterClosed, taskVars, driverVars, threadVars, callerVars, outputVars,
       TakeJob, At, ThreadPoints, OnThread, OffThread, FirstError
<1>6. ASSUME NEW t \in Threads, NEW d \in Drivers, EnterRefused(t, d) PROVE TypeOK'
    BY SMTT(20), <1>6 DEF EnterRefused, taskVars, driverVars, threadVars, callerVars, outputVars,
       TakeJob, At, ThreadPoints, OnThread, OffThread
<1>7. ASSUME NEW t \in Threads, NEW d \in Drivers, EnterYield(t, d) PROVE TypeOK'
    BY SMTT(20), <1>7 DEF EnterYield, taskVars, driverVars, threadVars, callerVars, outputVars,
       TakeJob, At, ConsumeYield, ShouldStop, ThreadPoints, OnThread, OffThread
<1>8. ASSUME NEW t \in Threads, NEW d \in Drivers, EnterRun(t, d) PROVE TypeOK'
    BY SMTT(20), <1>8 DEF EnterRun, taskVars, driverVars, threadVars, callerVars, outputVars, TakeJob,
       At, ThreadPoints, OnThread, OffThread
<1>9. ASSUME NEW t \in Threads, RunStop(t) PROVE TypeOK'
    BY SMTT(20), <1>9 DEF RunStop, taskVars, driverVars, threadVars, callerVars, outputVars, ExitLoop,
       At, ConsumeYield, ShouldStop, ThreadPoints, OnThread, OffThread, StopReasons
<1>10. ASSUME NEW t \in Threads, RunBlock(t) PROVE TypeOK'
    BY <1>10, Zenon DEF RunBlock, taskVars, driverVars, threadVars, callerVars, outputVars,
       ExitLoop, At, ThreadPoints, OnThread, OffThread, StopReasons
<1>11. ASSUME NEW t \in Threads, RunCpuSlice(t) PROVE TypeOK'
    BY <1>11, Zenon DEF RunCpuSlice, taskVars, driverVars, threadVars, callerVars, outputVars,
       ExitLoop, At, ThreadPoints, OnThread, OffThread, StopReasons
<1>12. ASSUME NEW t \in Threads, RunAtEnd(t) PROVE TypeOK'
    BY ZenonT(30), <1>12 DEF RunAtEnd, taskVars, driverVars, threadVars, callerVars, outputVars,
       ExitLoop, At, CloseOr, ThreadPoints, OnThread, OffThread, StopReasons
<1>13. ASSUME NEW t \in Threads, RunThrow(t) PROVE TypeOK'
    BY ZenonT(30), <1>13 DEF RunThrow, taskVars, driverVars, threadVars, callerVars, outputVars,
       ExitLoop, At, ThreadPoints, OnThread, OffThread, StopReasons, FirstError
<1>14. ASSUME NEW t \in Threads, EnterSuspended(t) PROVE TypeOK'
  <2>1. numThreads >= 1
      BY ZenonT(30), <1>14, Counted DEF EnterSuspended, At, OnThread
  <2>2. numThreads' \in Nat /\ toYield' \in Nat /\ finishPromise' \in {"none", "pending", "fulfilled"}
      BY SMTT(20), <1>14, <2>1 DEF EnterSuspended, ThreadGone, ConsumeYield, ShouldStop
  <2>3. pc' \in [Threads -> ThreadPoints] /\ isSuspended' \in [Drivers -> BOOLEAN]
      BY <1>14, Zenon DEF EnterSuspended, ThreadPoints
  <2> QED
      BY ZenonT(30), <1>14, <2>2, <2>3 DEF EnterSuspended, taskVars, callerVars, outputVars
<1>15. ASSUME NEW t \in Threads, LeaveSuspended(t) PROVE TypeOK'
  <2>1. pc' \in [Threads -> ThreadPoints] /\ numThreads' \in Nat
      BY SMTT(20), <1>15 DEF LeaveSuspended, ThreadPoints, OnThread
  <2>3. isSuspended' \in [Drivers -> BOOLEAN]
      BY <1>15, Zenon DEF LeaveSuspended
  <2>2. isTerminated' \in [Drivers -> BOOLEAN]
      BY <1>15, Zenon DEF LeaveSuspended
  <2> QED
      BY Zenon, <1>15, <2>1, <2>2, <2>3 DEF LeaveSuspended, callerVars, outputVars
<1>16. ASSUME NEW t \in Threads, Cancelled(t) PROVE TypeOK'
    BY ZenonT(30), <1>16, TerminateTypes DEF Cancelled, taskVars, driverVars, threadVars, callerVars,
       outputVars, At, TaskTypes, TaskStates, ThreadPoints, OnThread, OffThread
<1>17. ASSUME NEW t \in Threads, Fail(t) PROVE TypeOK'
    BY ZenonT(30), <1>17, TerminateTypes DEF Fail, taskVars, driverVars, threadVars, callerVars,
       outputVars, At, TaskTypes, TaskStates, ThreadPoints, OnThread, OffThread
<1>18. ASSUME NEW t \in Threads, GuardThrown(t) PROVE TypeOK'
    BY <1>18, Zenon DEF GuardThrown, taskVars, driverVars, threadVars, callerVars, outputVars, At,
       CloseOr, ThreadPoints, OnThread, OffThread
<1>19. ASSUME NEW t \in Threads, CloseOperators(t) PROVE TypeOK'
    BY <1>19, Zenon DEF CloseOperators, taskVars, driverVars, threadVars, callerVars, outputVars,
       At, ThreadPoints, OnThread, OffThread
<1>20. ASSUME NEW t \in Threads, RemoveDriver(t) PROVE TypeOK'
  <2> DEFINE found == attached \cap {cur[t]}
  <2>1. /\ found \in SUBSET attached /\ Cardinality(found) \in Nat
        /\ Cardinality(found) <= Cardinality(attached)
        /\ Cardinality(found \cap OutputDrivers) \in Nat
      BY DriverSets, Zenon
  <2>2. attached' \subseteq Drivers /\ pc' \in [Threads -> ThreadPoints]
      BY ZenonT(30), <1>20 DEF RemoveDriver, AfterClose, ThreadPoints, OnThread
  <2>3. state = "kRunning" => numRunningDrivers >= Cardinality(found)
      BY <2>1, AllDrivers, Zenon DEF CountInv, DriverAccounting
  <2>4. /\ numFinishedDrivers' \in Nat /\ numFinishedOutput' \in Nat /\ numRunningDrivers' \in Nat
      BY SMTT(20), <1>20, <2>1, <2>3 DEF RemoveDriver, DriverClosed
  <2> QED
      BY ZenonT(30), <1>20, <2>2, <2>4 DEF RemoveDriver, driverVars, callerVars
<1>21. ASSUME NEW t \in Threads, FinishTask(t) PROVE TypeOK'
    BY Zenon, <1>21, TerminateTypes DEF FinishTask, taskVars, driverVars, threadVars, callerVars,
       outputVars, At, AfterClose, TaskTypes, TaskStates, ThreadPoints, OnThread, OffThread
<1>22. ASSUME NEW t \in Threads, Leave(t) PROVE TypeOK'
  <2>1. numThreads >= 1
      BY ZenonT(30), <1>22, Counted DEF Leave, At, OnThread
  <2>2. numThreads' \in Nat /\ toYield' \in Nat /\ finishPromise' \in {"none", "pending", "fulfilled"}
      BY SMTT(20), <1>22, <2>1 DEF Leave, GoOffThread, ThreadGone, LeaveReason, ShouldStop
  <2>3. /\ pc' \in [Threads -> ThreadPoints] /\ cur' \in [Threads -> Drivers \cup {None}]
        /\ stop' \in [Threads -> StopReasons] /\ isOnThread' \in [Drivers -> BOOLEAN]
      BY <1>22, Zenon DEF Leave, GoOffThread, AfterLeave, ThreadPoints, OffThread, StopReasons
  <2>4. isTerminated' \in [Drivers -> BOOLEAN]
      BY <1>22, Zenon DEF Leave
  <2> QED
      BY Zenon, <1>22, <2>2, <2>3, <2>4 DEF Leave, driverVars, callerVars, outputVars
<1>23. ASSUME NEW t \in Threads, LeaveTerminated(t) PROVE TypeOK'
    BY <1>23, Zenon DEF LeaveTerminated, taskVars, driverVars, threadVars, callerVars, outputVars,
       At, CloseOr, ThreadPoints, OnThread, OffThread
<1>24. ASSUME NEW t \in Threads, Unwind(t) PROVE TypeOK'
  <2>1. numThreads >= 1
      BY ZenonT(30), <1>24, Counted DEF Unwind, At, OnThread
  <2>2. numThreads' \in Nat /\ finishPromise' \in {"none", "pending", "fulfilled"}
      BY SMTT(20), <1>24, <2>1 DEF Unwind, GoOffThread, ThreadGone
  <2>3. /\ pc' \in [Threads -> ThreadPoints] /\ cur' \in [Threads -> Drivers \cup {None}]
        /\ stop' \in [Threads -> StopReasons] /\ isOnThread' \in [Drivers -> BOOLEAN]
      BY <1>24, Zenon DEF Unwind, GoOffThread, AfterLeave, ThreadPoints, OffThread, StopReasons
  <2> QED
      BY ZenonT(30), <1>24, <2>2, <2>3 DEF Unwind, driverVars, callerVars, outputVars
<1>25. ASSUME NEW t \in Threads, CheckBlocked(t) PROVE TypeOK'
    BY SMTT(20), <1>25 DEF CheckBlocked, taskVars, driverVars, threadVars, callerVars, outputVars, At,
       ConsumeYield, ShouldStop, ThreadPoints, OnThread, OffThread
<1>26. ASSUME NEW t \in Threads, SetResume(t) PROVE TypeOK'
  <2>1. armed' \in [Drivers -> Nat]
    <3>1. CASE cur[t] \in Drivers
        BY SMTT(20), <1>26, <3>1 DEF SetResume
    <3>2. CASE cur[t] \notin Drivers
        BY <1>26, <3>2, Zenon DEF SetResume
    <3> QED
        BY ZenonT(30), <3>1, <3>2
  <2>2. pc' \in [Threads -> ThreadPoints] /\ cur' \in [Threads -> Drivers \cup {None}]
      BY Zenon, <1>26 DEF SetResume, ThreadPoints, OffThread
  <2> QED
      BY ZenonT(30), <1>26, <2>1, <2>2 DEF SetResume, taskVars, callerVars, outputVars
<1>27. ASSUME NEW t \in Threads, EnqueueYielded(t) PROVE TypeOK'
    BY SMTT(20), <1>27 DEF EnqueueYielded, taskVars, driverVars, threadVars, callerVars, outputVars,
       At, EnqueueAll, ThreadPoints, OnThread, OffThread
<1>28. ASSUME NEW d \in Drivers, Realize(d) PROVE TypeOK'
    BY SMTT(20), <1>28 DEF Realize, taskVars, driverVars, threadVars, callerVars, outputVars,
       EnqueueAll
<1>29. ASSUME NEW d \in Drivers, RealizeError(d) PROVE TypeOK'
    BY SMTT(20), <1>29 DEF RealizeError, taskVars, driverVars, threadVars, callerVars, outputVars,
       FirstError, CallbackChecks
<1>30. ASSUME NEW a \in Actors, NEW d \in Drivers, CloseByTask(a, d) PROVE TypeOK'
    BY ZenonT(30), <1>30 DEF CloseByTask, taskVars, driverVars, threadVars, callerVars, outputVars
<1>31. ASSUME RequestTerminate PROVE TypeOK'
    BY <1>31, TerminateTypes DEF RequestTerminate, taskVars, driverVars, threadVars,
       callerVars, outputVars, TaskTypes, TaskStates
<1>32. ASSUME RequestYield PROVE TypeOK'
    BY ZenonT(30), <1>32 DEF RequestYield, taskVars, driverVars, threadVars, callerVars, outputVars
<1>33. ASSUME SetAllOutputConsumed PROVE TypeOK'
    BY <1>33, Zenon DEF SetAllOutputConsumed, taskVars, driverVars, threadVars, callerVars,
       outputVars
<1>34. ASSUME NEW due \in {"finish", "fail"}, ClientTerminate(due) PROVE TypeOK'
    BY ZenonT(30), <1>34, TerminateTypes DEF ClientTerminate, taskVars, driverVars, threadVars,
       callerVars, outputVars, TaskTypes, TaskStates
<1>35. ASSUME RequestPause PROVE TypeOK'
    BY ZenonT(30), <1>35 DEF RequestPause, taskVars, driverVars, threadVars, callerVars, outputVars,
       reclaimUnchanged, ReclaimPoints
<1>36. ASSUME RequestAbort PROVE TypeOK'
    BY <1>36, Zenon DEF RequestAbort, taskVars, driverVars, threadVars, callerVars, outputVars,
       SetErrorForAbort, reclaimUnchanged, FirstError, ReclaimPoints
<1>37. ASSUME PauseDone PROVE TypeOK'
    BY ZenonT(30), <1>37 DEF PauseDone, taskVars, driverVars, threadVars, callerVars, outputVars,
       reclaimUnchanged, ReclaimPoints
<1>38. ASSUME PauseTimeout PROVE TypeOK'
    BY ZenonT(30), <1>38 DEF PauseTimeout, taskVars, driverVars, threadVars, callerVars, outputVars,
       reclaimUnchanged, ReclaimPoints
<1>39. ASSUME ReclaimDone PROVE TypeOK'
    BY ZenonT(30), <1>39 DEF ReclaimDone, taskVars, driverVars, threadVars, callerVars, outputVars,
       reclaimUnchanged, ReclaimPoints
<1>40. ASSUME ResumeRunning PROVE TypeOK'
  <2>1. isEnqueued' \in [Drivers -> BOOLEAN] /\ jobs' \in [Drivers -> Nat]
    <3> HIDE DEF Resumed
    <3> QED
        BY SMTT(20), <1>40 DEF ResumeRunning, EnqueueAll
  <2> QED
      BY <1>40, <2>1, Zenon DEF ResumeRunning, taskVars, threadVars, outputVars, ReclaimPoints
<1>41. ASSUME ResumeTerminated PROVE TypeOK'
  <2> DEFINE off == OffThreadDrivers
  <2>1. off \in SUBSET attached /\ Cardinality(off) \in Nat
      BY ZenonT(30), DriverSets DEF OffThreadDrivers
  <2>2. /\ isTerminated' \in [Drivers -> BOOLEAN] /\ isOnThread' \in [Drivers -> BOOLEAN]
        /\ attached' \subseteq Drivers
      BY ZenonT(30), <1>41 DEF ResumeTerminated
  <2>3. toClose' \in [Actors -> SUBSET Drivers]
      BY <1>41, <2>1, Zenon DEF ResumeTerminated
  <2>4. numFinishedDrivers' \in Nat /\ numRunningDrivers' \in Nat
      BY SMTT(20), <1>41, <2>1 DEF ResumeTerminated, DriverClosed
  <2> QED
      BY <1>41, <2>2, <2>3, <2>4, Zenon DEF ResumeTerminated, reclaimUnchanged, driverVars, threadVars,
         outputVars, ReclaimPoints
<1>42. ASSUME ReclaimReturns PROVE TypeOK'
    BY ZenonT(30), <1>42 DEF ReclaimReturns, taskVars, driverVars, threadVars, callerVars, outputVars,
       reclaimUnchanged, ReclaimPoints
<1>43. ASSUME AbortSetError PROVE TypeOK'
    BY <1>43, Zenon DEF AbortSetError, taskVars, driverVars, threadVars, callerVars, outputVars,
       SetErrorForAbort, reclaimUnchanged, FirstError, ReclaimPoints
<1>44. ASSUME AbortTerminate PROVE TypeOK'
    BY ZenonT(30), <1>44, TerminateTypes DEF AbortTerminate, taskVars, driverVars, threadVars,
       callerVars, outputVars, reclaimUnchanged, TaskTypes, TaskStates, ReclaimPoints
<1>45. ASSUME CompletionTimeout PROVE TypeOK'
    BY ZenonT(30), <1>45, AbortLeaves, AbortVisits DEF taskVars, driverVars, threadVars, callerVars, outputVars,
       reclaimUnchanged, ReclaimPoints
<1>46. ASSUME AbortStep PROVE TypeOK'
    BY ZenonT(30), <1>46, AbortLeaves, AbortVisits DEF taskVars, driverVars, threadVars, callerVars, outputVars,
       reclaimUnchanged, ReclaimPoints
<1>47. ASSUME vars' = vars PROVE TypeOK'
    BY <1>47, Zenon DEF vars, taskVars, driverVars, threadVars, callerVars, outputVars
<1> HIDE DEF TypeOK
<1>48. ASSUME NEW t \in Threads, NEW d \in Drivers, EnterStep(t, d) PROVE TypeOK'
    BY ZenonT(30), <1>48, <1>5, <1>6, <1>7, <1>8 DEF EnterStep
<1>49. ASSUME NEW t \in Threads, RunStep(t) PROVE TypeOK'
    BY ZenonT(30), <1>49, <1>9, <1>10, <1>11, <1>12, <1>13, <1>14 DEF RunStep
<1>50. ASSUME NEW t \in Threads, ExitStep(t) PROVE TypeOK'
    BY ZenonT(30), <1>50, <1>16, <1>17, <1>18, <1>19, <1>20, <1>21, <1>22, <1>23, <1>24, <1>25, <1>26,
       <1>27 DEF ExitStep
<1>51. CASE StartStep \/ ClientStep
    BY ZenonT(30), <1>51, <1>1, <1>2, <1>3, <1>4, <1>31, <1>32, <1>33, <1>34 DEF StartStep, ClientStep
<1>52. CASE ReclaimStep
    BY ZenonT(30), <1>52, <1>37, <1>38, <1>39, <1>40, <1>41, <1>42, <1>43, <1>44, <1>45, <1>46
       DEF ReclaimStep
<1> QED
    BY Zenon, <1>15, <1>28, <1>29, <1>30, <1>35, <1>36, <1>47, <1>48, <1>49, <1>50, <1>51, <1>52
       DEF Next

-----------------------------------------------------------------------------
(* The count of the threads, and a granted pause.                          *)

(* numThreads_ stays exact. *)
LEMMA ThreadCountStep == TypeOK /\ ThreadCount /\ [Next]_vars => ThreadCount'
<1> SUFFICES ASSUME TypeOK, ThreadCount, [Next]_vars PROVE ThreadCount'
    BY Zenon
<1> DEFINE S == {t \in Threads : pc[t] \in OnThread}
<1>1. S \in SUBSET Threads /\ numThreads = Cardinality(S)
    BY ZenonT(30) DEF ThreadCount
<1>2. SUFFICES numThreads' = Cardinality(S')
    BY ZenonT(30) DEF ThreadCount
<1>3. CASE Stay
  <2>1. S' = S
      BY ZenonT(30), <1>3 DEF Stay
  <2> QED
      BY ZenonT(30), <1>1, <1>3, <2>1 DEF Stay
<1>4. ASSUME NEW t \in Threads, (\E d \in Drivers : EnterRun(t, d)) \/ LeaveSuspended(t)
      PROVE  numThreads' = Cardinality(S')
  <2>1. t \notin S /\ S' = S \cup {t} /\ numThreads' = numThreads + 1
      BY <1>4 DEF EnterRun, LeaveSuspended, TakeJob, At, OnThread, TypeOK
  <2> QED
      BY <1>1, <2>1, ThreadSets, ZenonT(60)
<1>5. ASSUME NEW t \in Threads, EnterSuspended(t) \/ Leave(t) \/ Unwind(t)
      PROVE  numThreads' = Cardinality(S')
  <2>1. t \in S /\ S' = S \ {t} /\ numThreads' = numThreads - 1
      BY ZenonT(30), <1>5 DEF EnterSuspended, Leave, Unwind, GoOffThread, AfterLeave, ThreadGone, At, OnThread,
         TypeOK
  <2> QED
      BY <1>1, <2>1, ThreadSets, ZenonT(60)
<1> QED
    BY <1>3, <1>4, <1>5, StayOrCross, Zenon DEF Cross

(* With no thread inside the task no driver runs. *)
LEMMA NobodyInside ==
    ASSUME TypeOK, ThreadCount, OwnerInv, numThreads = 0, NEW d \in Drivers
    PROVE  Quiescent(d)
<1> DEFINE S == {t \in Threads : pc[t] \in OnThread}
<1>1. S \in SUBSET Threads /\ Cardinality(S) = 0
    BY Zenon DEF ThreadCount
<1> HIDE DEF S
<1>2. S = {}
    BY ZenonT(30), <1>1, ThreadSets
<1>3. \A t \in Threads : Inside(t) => pc[t] = "suspended"
    BY ZenonT(30), <1>2 DEF S, Inside
<1> QED
    BY <1>3, Zenon DEF Quiescent, OwnerInv, OnThreadOwned, ThreadOwns

(* The pause: it is granted when the last thread has gone, and lasts. *)
LEMMA PauseStep ==
    ASSUME TypeOK, OwnerInv, PauseInv, [Next]_vars, TypeOK', ThreadCount', OwnerInv'
    PROVE  PauseInv'
<1>1. reclaimPc' \in {"waiting", "reclaiming", "resume"} => pauseRequested'
    BY Pauses, AbortLeaves, Zenon DEF PauseInv, PauseUnchanged, RequestPause, RequestAbort, SetErrorForAbort,
       ReclaimStep, PauseDone, PauseTimeout, ReclaimDone, ResumeRunning, ResumeTerminated,
       ReclaimReturns, AbortSetError, AbortTerminate
<1>2. Granted' => Granted \/ numThreads' = 0
    BY Pauses, AbortLeaves, Zenon DEF Granted, PauseUnchanged, RequestPause, reclaimUnchanged, RequestAbort,
       SetErrorForAbort, ReclaimStep, PauseDone, PauseTimeout, ReclaimDone, ResumeRunning,
       ResumeTerminated, ReclaimReturns, AbortSetError, AbortTerminate
<1>3. ASSUME Granted, NEW d \in Drivers PROVE Quiescent(d)'
    BY ZenonT(30), <1>3, StaysQuiescent DEF PauseInv, Granted
<1>4. ASSUME numThreads' = 0, NEW d \in Drivers PROVE Quiescent(d)'
  <2>1. (TypeOK /\ ThreadCount /\ OwnerInv /\ numThreads = 0 /\ d \in Drivers => Quiescent(d))'
      BY NobodyInside, PTL
  <2> QED
      BY ZenonT(30), <1>4, <2>1
<1> QED
    BY ZenonT(30), <1>1, <1>2, <1>3, <1>4 DEF PauseInv

-----------------------------------------------------------------------------
(* The counters of the task.                                               *)

(* Taking drivers off drivers_ and counting them as finished keeps the     *)
(* counters, whether the task goes on running, ends or has ended.          *)
LEMMA CountTaken ==
    ASSUME TypeOK, CountInv, NEW ds \in SUBSET attached, attached' = attached \ ds,
           numFinishedDrivers' = numFinishedDrivers + Cardinality(ds),
           \/ /\ state' = "kRunning" /\ state = "kRunning"
              /\ numRunningDrivers' = numRunningDrivers - Cardinality(ds)
           \/ state' # "kRunning" /\ numRunningDrivers' = 0,
           UNCHANGED <<startPc, numTotalDrivers>>
    PROVE  CountInv'
<1>1. /\ Cardinality(ds) \in Nat /\ Cardinality(attached) \in Nat
      /\ Cardinality(attached \ ds) = Cardinality(attached) - Cardinality(ds)
    BY ZenonT(30), DriverSets DEF TypeOK
<1>2. startPc # "started" => ds = {} /\ Cardinality(ds) = 0
    BY ZenonT(30), AllDrivers DEF CountInv
<1>3. startPc # "started" => attached' = {} /\ numRunningDrivers' = 0 /\
                             numFinishedDrivers' = numFinishedDrivers
    BY SMTT(20), <1>2 DEF CountInv, TypeOK
<1>4. DriverAccounting'
    BY <1>1 DEF CountInv, DriverAccounting, TypeOK
<1> QED
    BY ZenonT(30), <1>3, <1>4 DEF CountInv

(* The counters of the task. *)
LEMMA CountStep == TypeOK /\ CountInv /\ TerminateInv /\ [Next]_vars => CountInv'
<1> SUFFICES ASSUME TypeOK, CountInv, TerminateInv, [Next]_vars PROVE CountInv'
    BY Zenon
<1>1. CASE BooksUnchanged
    BY ZenonT(30), <1>1 DEF BooksUnchanged, CountInv, DriverAccounting
<1>2. ASSUME NEW a \in Actors, NEW s \in TaskStates \ {"kRunning"}, Terminate(a, s),
             UNCHANGED <<numTotalDrivers, startPc>>
      PROVE  CountInv'
  <2> DEFINE off == IF pauseRequested THEN {} ELSE OffThreadDrivers
  <2>1. off \in SUBSET attached
      BY ZenonT(30) DEF OffThreadDrivers
  <2> HIDE DEF off
  <2>2. CASE state = "kRunning"
    <3>1. /\ state' = s /\ numRunningDrivers' = 0 /\ attached' = attached \ off
          /\ numFinishedDrivers' = numFinishedDrivers + Cardinality(off)
        BY ZenonT(30), <1>2, <2>2 DEF Terminate, off
    <3> QED
        BY ZenonT(30), <1>2, <2>1, <3>1, CountTaken
  <2>3. CASE state # "kRunning"
      BY ZenonT(30), <1>2, <2>3 DEF Terminate, taskVars, CountInv, DriverAccounting
  <2> QED
      BY ZenonT(30), <2>2, <2>3
<1>3. CASE StartFactories
    BY Zenon, <1>3 DEF StartFactories, taskVars, CountInv, DriverAccounting
<1>4. CASE CreateAndStartDrivers
    BY <1>4, AllDrivers, NumDriversAssumption DEF CreateAndStartDrivers, outputVars, CountInv,
       DriverAccounting
<1>5. CASE StartAfterTerminate \/ StartFails
    BY Zenon, <1>5 DEF StartAfterTerminate, StartFails, outputVars, CountInv, DriverAccounting
<1>6. CASE ResumeTerminated
  <2>1. /\ OffThreadDrivers \in SUBSET attached
        /\ attached' = attached \ OffThreadDrivers
        /\ numFinishedDrivers' = numFinishedDrivers + Cardinality(OffThreadDrivers)
        /\ state' # "kRunning" /\ numRunningDrivers' = numRunningDrivers
        /\ UNCHANGED <<startPc, numTotalDrivers>>
      BY ZenonT(30), <1>6 DEF ResumeTerminated, DriverClosed, reclaimUnchanged, outputVars, OffThreadDrivers
  <2>2. numRunningDrivers = 0
      BY Zenon, <1>6 DEF ResumeTerminated, CountInv, DriverAccounting
  <2> HIDE DEF OffThreadDrivers
  <2> QED
      BY ZenonT(30), <2>1, <2>2, CountTaken
<1>7. ASSUME NEW t \in Threads, RemoveDriver(t) PROVE CountInv'
  <2> DEFINE found == attached \cap {cur[t]}
  <2>1. /\ found \in SUBSET attached /\ attached' = attached \ found
        /\ numFinishedDrivers' = numFinishedDrivers + Cardinality(found)
        /\ UNCHANGED <<state, startPc, numTotalDrivers>>
      BY <1>7, Zenon DEF RemoveDriver, DriverClosed, callerVars
  <2>2. numRunningDrivers' = IF state = "kRunning"
                             THEN numRunningDrivers - Cardinality(found) ELSE numRunningDrivers
      BY <1>7, Zenon DEF RemoveDriver, DriverClosed
  <2>3. state # "kRunning" => numRunningDrivers = 0
      BY Zenon DEF CountInv, DriverAccounting
  <2> HIDE DEF found
  <2> QED
      BY ZenonT(30), <2>1, <2>2, <2>3, CountTaken
<1>8. ASSUME NEW a \in Actors, NEW d \in Drivers, CloseByTask(a, d) PROVE CountInv'
    BY Zenon, <1>8 DEF CloseByTask, callerVars, outputVars, CountInv, DriverAccounting
<1> QED
    BY Zenon, <1>1, <1>2, <1>3, <1>4, <1>5, <1>6, <1>7, <1>8, Books DEF BookStep, TerminateStep, StartStep

-----------------------------------------------------------------------------
(* The invariant, and what follows from it.                                *)

(* The invariant holds when the task is created. *)
LEMMA InitIInv == Init => IInv
<1> SUFFICES ASSUME Init PROVE IInv
    BY Zenon
<1> USE DEF Init
<1>1. TypeOK
    BY Zenon DEF TypeOK, TaskStates, ThreadPoints, OffThread, StopReasons, StartPoints, ReclaimPoints,
       VisitPoints
<1>2. \A t \in Threads : pc[t] \notin OnThread /\ pc[t] # "suspended"
    BY Zenon DEF OnThread
<1>3. ThreadCount
  <2>1. {t \in Threads : pc[t] \in OnThread} = {}
      BY Zenon, <1>2
  <2> QED
      BY <2>1, AllDrivers, SMTT(60) DEF ThreadCount
<1>4. OwnerInv
    BY Zenon, <1>2 DEF OwnerInv, ThreadOwns, OneOwner, OnThreadOwned, SuspendedOwned, Inside
<1>5. PauseInv /\ TerminateInv
    BY Zenon DEF PauseInv, Granted, TerminateInv
<1>6. CountInv
    BY Zenon DEF CountInv, DriverAccounting
<1> QED
    BY ZenonT(30), <1>1, <1>3, <1>4, <1>5, <1>6 DEF IInv

(* The invariant is inductive: every critical section of Task and Driver   *)
(* keeps it.                                                               *)
THEOREM Inductive == Spec => []IInv
<1>1. IInv /\ [Next]_vars => IInv'
    BY Zenon, TypeStep, ThreadCountStep, OwnerStep, PauseStep, TerminateInvStep, CountStep DEF IInv
<1> QED
    BY <1>1, InitIInv, PTL DEF Spec

(* Every variable keeps its type; in particular the unsigned and signed    *)
(* counters of the task never go below zero.                               *)
THEOREM TypeCorrect == Spec => []TypeOK
<1>1. IInv => TypeOK
    BY Zenon DEF IInv
<1> QED
    BY <1>1, Inductive, PTL

(* numThreads_ is the number of threads inside the task. *)
THEOREM ThreadsCounted == Spec => []ThreadCount
<1>1. IInv => ThreadCount
    BY Zenon DEF IInv
<1> QED
    BY <1>1, Inductive, PTL

(* Memory reclaim works on the operators of a paused task none of whose    *)
(* drivers runs: the checks of Operator::MemoryReclaimer::reclaim hold.    *)
THEOREM ReclaimIsExclusive == Spec => []ReclaimExclusive
<1>1. IInv => ReclaimExclusive
    BY ZenonT(30) DEF IInv, PauseInv, Granted, ReclaimExclusive
<1> QED
    BY <1>1, Inductive, PTL

(* The operators that a memory abort has released are not run: their       *)
(* driver is off thread, suspended, told to terminate or has closed them.  *)
(* It holds after a wait that timed out because a driver whose operators   *)
(* are released belongs to a cancelled task, which nobody enters, and      *)
(* terminate has told all drivers but the ones that had closed themselves. *)
THEOREM AbortIsExclusive == Spec => []AbortExclusive
<1>1. ASSUME IInv, CloseInv, NEW d \in Drivers, visit[d] = "aborted" PROVE Quiescent(d) \/ closed[d]
  <2>1. OwnerInv /\ TerminateInv /\ StageInv
      BY Zenon, <1>1 DEF IInv, CloseInv
  <2>2. CASE d \in attached
      BY Zenon, <1>1, <2>1, <2>2 DEF TerminateInv, Quiescent
  <2>3. ASSUME d \notin attached, isOnThread[d], ~isTerminated[d] PROVE closed[d]
    <3>1. PICK t \in Threads : Inside(t) /\ cur[t] = d
        BY Zenon, <2>1, <2>3 DEF OwnerInv, OnThreadOwned
    <3> QED
        BY Zenon, <2>1, <2>3, <3>1 DEF StageInv
  <2> QED
      BY Zenon, <2>2, <2>3 DEF Quiescent
<1>2. IInv /\ CloseInv => AbortExclusive
    BY Zenon, <1>1 DEF AbortExclusive
<1>3. IInv /\ CloseInv /\ [Next]_vars => CloseInv'
    BY Zenon, CloseStep
<1> QED
    BY <1>2, <1>3, InitCloseInv, Inductive, PTL DEF Spec

(* Each driver is counted as finished exactly once, whoever closes it. *)
THEOREM DriversAccounted == Spec => []DriverAccounting
<1>1. IInv => DriverAccounting
    BY Zenon DEF IInv, CountInv
<1> QED
    BY <1>1, Inductive, PTL

(* The threads, the executor, the futures, pause, resume and terminate     *)
(* together implement the contract: no driver starts to run on a held or   *)
(* terminated task, one that drains never runs again, closed is final.     *)
THEOREM TaskImplementsContract == Spec => ImplementsContract
<1>1. Init => Contract!Init
    BY Zenon DEF Init, Contract!Init, Mode
<1> QED
    BY <1>1, StepSeen, Inductive, PTL DEF Spec, ImplementsContract, Contract!Spec

-----------------------------------------------------------------------------
(* Who closes a driver.                                                    *)

(* Every driver has at most one closer, by the invariant. *)
LEMMA OneCloser == IInv /\ CloseInv => SingleCloser
<1> SUFFICES ASSUME IInv, CloseInv, NEW d \in Drivers
             PROVE  Cardinality(Closers(d)) <= IF closed[d] THEN 0 ELSE 1
    BY ZenonT(30) DEF SingleCloser
<1>1. \A t \in Threads : pc[t] = "close" => Inside(t) /\ ~closed[cur[t]]
    BY ZenonT(30) DEF CloseInv, StageInv, Inside, OnThread, OpenPoints
<1>2. \A a \in Actors : d \in toClose[a] =>
           /\ ~closed[d] /\ \A b \in Actors : d \in toClose[b] => a = b
           /\ \A t \in Threads : Inside(t) => cur[t] # d
    BY Zenon DEF CloseInv, TakenInv
<1>3. closed[d] => Closers(d) = {}
    BY ZenonT(30), <1>1, <1>2 DEF Closers
<1>4. \A x, y \in Closers(d) : x = y
  <2> SUFFICES ASSUME NEW x \in Closers(d), NEW y \in Closers(d) PROVE x = y
      BY ZenonT(30)
  <2>1. \A z \in Closers(d) : \/ z \in Threads /\ cur[z] = d /\ pc[z] = "close"
                              \/ z \in Actors /\ d \in toClose[z]
      BY ZenonT(30) DEF Closers
  <2>2. CASE x \in Threads /\ cur[x] = d /\ pc[x] = "close"
    <3>1. y \in Threads /\ cur[y] = d /\ pc[y] = "close"
        BY <1>1, <1>2, <2>1, <2>2, Zenon
    <3> QED
        BY <1>1, <2>2, <3>1, Zenon DEF IInv, OwnerInv, OneOwner
  <2>3. CASE x \in Actors /\ d \in toClose[x]
    <3>1. y \in Actors /\ d \in toClose[y]
        BY <1>1, <1>2, <2>1, <2>3, Zenon
    <3> QED
        BY <1>2, <2>3, <3>1, Zenon
  <2> QED
      BY <2>1, <2>2, <2>3, Zenon
<1>5. CASE Closers(d) = {}
  <2>1. Cardinality(Closers(d)) = 0
      BY Zenon, <1>5, FS_EmptySet
  <2> QED
      BY <2>1
<1>6. CASE Closers(d) # {}
  <2>1. PICK x : Closers(d) = {x}
      BY <1>4, <1>6, Zenon
  <2>2. Cardinality(Closers(d)) = 1
      BY ZenonT(30), <2>1, FS_Singleton
  <2> QED
      BY <1>3, <1>6, <2>2
<1> QED
    BY ZenonT(30), <1>5, <1>6

(* Driver::close on a driver's thread never meets closeByTask, and no      *)
(* driver is closed a second time.                                         *)
THEOREM ClosedByOne == Spec => []SingleCloser
<1>1. IInv /\ CloseInv /\ [Next]_vars => CloseInv'
    BY Zenon, CloseStep
<1> QED
    BY <1>1, InitCloseInv, OneCloser, Inductive, PTL DEF Spec

-----------------------------------------------------------------------------
(* When the task is kFinished.                                             *)

(* The counters of finished drivers of a running task tell the truth: when *)
(* they are complete, every output driver has closed itself.               *)
LEMMA DoneWhenCounted ==
    ASSUME TypeOK, TerminateInv, CountInv, CloseInv, startPc = "started", state = "kRunning",
           numFinishedOutput + Cardinality(OutputDrivers \cap attached) <= Cardinality(OutputDrivers),
           \/ numFinishedDrivers = numTotalDrivers
           \/ numFinishedOutput = Cardinality(OutputDrivers)
    PROVE  \A d \in OutputDrivers : closed[d] /\ d \notin attached
<1> DEFINE rest == OutputDrivers \cap attached
<1>1. rest \in SUBSET Drivers /\ attached \in SUBSET Drivers /\ OutputDrivers \in SUBSET Drivers
    BY ZenonT(30), OutputDriversAssumption DEF TypeOK
<1>2. /\ Cardinality(rest) \in Nat /\ Cardinality(attached) \in Nat
      /\ Cardinality(OutputDrivers) \in Nat
    BY ZenonT(30), <1>1, DriverSets
<1>3. Cardinality(rest) = 0 \/ Cardinality(attached) = 0
    BY <1>2 DEF CountInv, DriverAccounting, TypeOK
<1>4. rest = {} \/ attached = {}
    BY Zenon, <1>1, <1>3, DriverSets, FS_EmptySet
<1>5. \A a \in Actors : toClose[a] = {}
    BY ZenonT(30) DEF CloseInv, TakenInv, TerminateInv
<1> QED
    BY ZenonT(30), <1>1, <1>4, <1>5, OutputDriversAssumption DEF CloseInv, GoneInv

(* The finished output drivers are not counted twice. *)
LEMMA OutputCountStep ==
    ASSUME IInv, CloseInv, FinishInv, [Next]_vars
    PROVE  numFinishedOutput' + Cardinality(OutputDrivers \cap attached') <= Cardinality(OutputDrivers)
<1>1. /\ OutputDrivers \in SUBSET Drivers /\ OutputDrivers \cap attached \in SUBSET Drivers
      /\ TypeOK /\ numFinishedOutput \in Nat
    BY Zenon, OutputDriversAssumption DEF IInv, TypeOK
<1>2. ASSUME NEW S \in SUBSET Drivers, NEW T \in SUBSET S
      PROVE  Cardinality(S) \in Nat /\ Cardinality(T) \in Nat /\ Cardinality(T) <= Cardinality(S)
    BY ZenonT(30), DriverSets
<1>3. CASE CreateAndStartDrivers
  <2>1. numFinishedOutput' = 0 /\ attached' = Drivers
      BY Zenon, <1>3 DEF CreateAndStartDrivers, CloseInv, EarlyInv, outputVars
  <2>2. OutputDrivers \cap attached' = OutputDrivers
      BY ZenonT(30), <1>1, <2>1
  <2>3. Cardinality(OutputDrivers) \in Nat
      BY Zenon, <1>1, <1>2
  <2>4. Cardinality(OutputDrivers \cap attached') = Cardinality(OutputDrivers)
      BY <2>2, Zenon
  <2> QED
      BY <2>1, <2>3, <2>4
<1>4. ASSUME NEW t \in Threads, RemoveDriver(t)
      PROVE  numFinishedOutput' + Cardinality(OutputDrivers \cap attached')
               <= Cardinality(OutputDrivers)
  <2> DEFINE found == attached \cap {cur[t]}
             rest == OutputDrivers \cap attached
             gone == found \cap OutputDrivers
  <2>1. /\ attached' = attached \ found
        /\ numFinishedOutput' = numFinishedOutput + Cardinality(gone)
      BY ZenonT(30), <1>4 DEF RemoveDriver
  <2>2. OutputDrivers \cap attached' = rest \ gone /\ gone \in SUBSET rest /\ rest \in SUBSET Drivers
      BY ZenonT(30), <1>1, <2>1
  <2> HIDE DEF gone, rest
  <2>3. /\ Cardinality(rest \ gone) = Cardinality(rest) - Cardinality(gone)
        /\ Cardinality(rest) \in Nat /\ Cardinality(gone) \in Nat
      BY ZenonT(30), <2>2, DriverSets
  <2>4. numFinishedOutput + Cardinality(rest) <= Cardinality(OutputDrivers)
      BY Zenon DEF FinishInv, rest
  <2>5. Cardinality(OutputDrivers) \in Nat
      BY ZenonT(30), <1>1, <1>2
  <2>6. Cardinality(OutputDrivers \cap attached') = Cardinality(rest \ gone)
      BY <2>2, Zenon
  <2> QED
      BY SMTT(20), <1>1, <2>1, <2>3, <2>4, <2>5, <2>6
<1>5. CASE ~CreateAndStartDrivers /\ ~ \E t \in Threads : RemoveDriver(t)
  <2>1. numFinishedOutput' = numFinishedOutput
      BY ZenonT(30), <1>1, <1>5, Decisions DEF Undecided, SetAllOutputConsumed, ClientTerminate, FinishTask,
         outputVars
  <2>2. attached' \subseteq attached
      BY Zenon, <1>1, <1>5, AttachedShrinks
  <2>3. Cardinality(OutputDrivers \cap attached') <= Cardinality(OutputDrivers \cap attached)
      BY Zenon, <1>1, <1>2, <2>2
  <2>4. /\ Cardinality(OutputDrivers \cap attached') \in Nat
        /\ Cardinality(OutputDrivers \cap attached) \in Nat /\ Cardinality(OutputDrivers) \in Nat
      BY Zenon, <1>1, <1>2, <2>2
  <2>5. numFinishedOutput + Cardinality(OutputDrivers \cap attached) <= Cardinality(OutputDrivers)
      BY ZenonT(30) DEF FinishInv
  <2> QED
      BY SMTT(20), <1>1, <2>1, <2>3, <2>4, <2>5
<1> QED
    BY Zenon, <1>3, <1>4, <1>5

(* A decision that the task is finished is right, and is acted upon while  *)
(* it still is.                                                            *)
LEMMA FinishStep ==
    ASSUME IInv, CloseInv, FinishInv, [Next]_vars, IInv', CloseInv'
    PROVE  FinishInv'
<1> USE DEF IInv
<1>1. numFinishedOutput' + Cardinality(OutputDrivers \cap attached') <= Cardinality(OutputDrivers)
    BY ZenonT(30), OutputCountStep
<1>2. OutputDone => OutputDone'
    BY ZenonT(30), OutputDoneStays
<1>3. state # "kRunning" => state' # "kRunning"
    BY ZenonT(30), Books DEF BooksUnchanged, BookStep, TerminateStep, Terminate, taskVars, StartStep,
       StartFactories, CreateAndStartDrivers, StartAfterTerminate, StartFails, ResumeTerminated,
       RemoveDriver, CloseByTask
<1>4. CASE Undecided
    BY ZenonT(30), <1>1, <1>2, <1>3, <1>4 DEF FinishInv, Undecided
<1>5. CASE SetAllOutputConsumed
  <2>1. /\ state' = state /\ pc' = pc /\ startPc \in {"factories", "started"} /\ outputConsumed'
        /\ UNCHANGED <<numFinishedDrivers, numTotalDrivers, numFinishedOutput, closed, attached>>
        /\ "finish" \in clientDue' =>
              "finish" \in clientDue \/ CheckIfFinished(numFinishedDrivers, numFinishedOutput, TRUE)
      BY ZenonT(30), <1>5 DEF SetAllOutputConsumed, taskVars, threadVars, driverVars
  <2>2. ASSUME CheckIfFinished(numFinishedDrivers, numFinishedOutput, TRUE) PROVE OutputDone'
    <3>1. Cardinality(OutputDrivers) \in Nat /\ Cardinality(OutputDrivers) # 0
        BY ZenonT(30), OutputDriversAssumption, DriverSets, FS_EmptySet
    <3>2. startPc = "started"
        BY ZenonT(30), <2>1, <2>2, <3>1, NumDriversAssumption DEF CheckIfFinished, CountInv, CloseInv, EarlyInv
    <3>3. \A d \in OutputDrivers : closed[d] /\ d \notin attached
        BY ZenonT(30), <2>2, <3>2, DoneWhenCounted DEF CheckIfFinished, FinishInv
    <3> QED
        BY ZenonT(30), <2>1, <3>3 DEF OutputDone
  <2> QED
      BY Zenon, <1>1, <1>2, <2>1, <2>2 DEF FinishInv
<1>6. ASSUME NEW t \in Threads, RemoveDriver(t) PROVE FinishInv'
  <2>1. /\ state' = state /\ startPc' = startPc /\ clientDue' = clientDue
        /\ pc[t] = "remove" /\ outputConsumed' = outputConsumed /\ numTotalDrivers' = numTotalDrivers
        /\ \A u \in Threads \ {t} : pc'[u] = pc[u]
      BY ZenonT(30), <1>6 DEF RemoveDriver, At, callerVars, TypeOK
  <2>2. cur[t] \in attached
      BY ZenonT(30), <2>1 DEF CloseInv, StageInv, Inside, OnThread
  <2>3. pc'[t] = "finish" =>
            CheckIfFinished(numFinishedDrivers', numFinishedOutput', outputConsumed)
      BY ZenonT(30), <1>6, <2>2 DEF RemoveDriver, AfterClose, TypeOK
  <2>4. startPc' = "started"
      BY ZenonT(30), <2>1 DEF CloseInv, EarlyInv
  <2>5. pc'[t] = "finish" => OutputDone'
    <3>1. (TypeOK /\ TerminateInv /\ CountInv /\ CloseInv /\ startPc = "started" /\ state = "kRunning"
            /\ numFinishedOutput + Cardinality(OutputDrivers \cap attached) <= Cardinality(OutputDrivers)
            /\ (\/ numFinishedDrivers = numTotalDrivers
                \/ numFinishedOutput = Cardinality(OutputDrivers))
            => \A d \in OutputDrivers : closed[d] /\ d \notin attached)'
        BY DoneWhenCounted, PTL
    <3> QED
        BY ZenonT(30), <1>1, <2>1, <2>3, <2>4, <3>1 DEF CheckIfFinished, OutputDone
  <2> QED
      BY ZenonT(30), <1>1, <1>2, <2>1, <2>5 DEF FinishInv
<1>7. ASSUME NEW t \in Threads, FinishTask(t) PROVE FinishInv'
  <2>1. /\ pc[t] = "finish" /\ clientDue' = clientDue
        /\ \A u \in Threads : pc'[u] = "finish" => pc[u] = "finish"
        /\ Terminate(t, "kFinished")
      BY ZenonT(30), <1>7 DEF FinishTask, At, AfterClose, callerVars, TypeOK
  <2>2. state' = "kFinished" => state = "kFinished" \/ OutputDone
      BY ZenonT(30), <2>1, TerminateState DEF FinishInv
  <2> QED
      BY ZenonT(30), <1>1, <1>2, <1>3, <2>1, <2>2 DEF FinishInv
<1>8. CASE ClientTerminate("finish")
  <2>1. /\ "finish" \in clientDue /\ "finish" \notin clientDue' /\ pc' = pc
        /\ Terminate(Client, "kFinished")
      BY ZenonT(30), <1>8 DEF ClientTerminate, threadVars
  <2>2. state' = "kFinished" => state = "kFinished" \/ OutputDone
      BY ZenonT(30), <2>1, TerminateState DEF FinishInv
  <2> QED
      BY ZenonT(30), <1>1, <1>2, <1>3, <2>1, <2>2 DEF FinishInv
<1> QED
    BY <1>4, <1>5, <1>6, <1>7, <1>8, Decisions, Zenon

(* A new task has finished nothing. *)
LEMMA InitFinishInv == Init => FinishInv
<1> SUFFICES ASSUME Init PROVE FinishInv
    BY Zenon
<1>1. OutputDrivers \cap attached = {}
    BY ZenonT(30) DEF Init
<1>2. Cardinality(OutputDrivers \cap attached) = 0 /\ Cardinality(OutputDrivers) \in Nat
    BY ZenonT(30), <1>1, AllDrivers, DriverSets, OutputDriversAssumption
<1> QED
    BY <1>2 DEF Init, FinishInv

(* kFinished is reached only when every output driver has closed itself    *)
(* and the output has been consumed, although Task::removeDriver and       *)
(* setAllOutputConsumed decide in one critical section and terminate in    *)
(* another.                                                                *)
THEOREM FinishedIsDone == Spec => []FinishedWhenDone
<1>1. IInv /\ CloseInv /\ FinishInv /\ [Next]_vars /\ IInv' => (CloseInv /\ FinishInv)'
    BY ZenonT(30), CloseStep, FinishStep
<1>2. FinishInv => FinishedWhenDone
    BY ZenonT(30) DEF FinishInv, OutputDone, FinishedWhenDone
<1> QED
    BY <1>1, <1>2, InitCloseInv, InitFinishInv, Inductive, PTL DEF Spec

-----------------------------------------------------------------------------
(* What a running task knows of its drivers.                               *)

(* Nothing has gone wrong: no error, and no memory abort to come. *)
Alive == state = "kRunning" /\ ~exception /\ ~abortDue

(* abortDue is the memory of a reclaim that failed; one that waited for    *)
(* its pause to the end comes to resume with no driver running.            *)
HoldInv ==
    /\ abortDue => reclaimPc \in {"resume", "closing"}
    /\ reclaimPc = "resume" /\ Alive => \A d \in Drivers : Quiescent(d)

ErrorFree ==
    /\ \A d \in Drivers : ~isTerminated[d]
    /\ \A t \in Threads : pc[t] # "guard" /\ stop[t] \notin {"kThrow", "kTerminate"}

(* Why a thread is about to leave. *)
LeaveReasons ==
    \A t \in Threads : pc[t] = "leave" =>
        \/ stop[t] \in {"kBlock", "kYield"}
        \/ stop[t] = "kPause" /\ pauseRequested
        \/ closed[cur[t]]

EnqueuedKept(d) == isEnqueued[d] => jobs[d] > 0 \/ closed[d]

(* hasBlockingFuture is set from runInternal to the callback of the future *)
(* or the next Task::enter, and in between somebody holds the future.      *)
Blocking(d) == \E t \in Threads : cur[t] = d /\ pc[t] = "leave" /\ stop[t] = "kBlock"
Arming(d) == \E t \in Threads : cur[t] = d /\ pc[t] \in {"block", "arm"}

FutureKept(d) ==
    hasBlockingFuture[d] => IF isOnThread[d] THEN Blocking(d) ELSE armed[d] > 0 \/ Arming(d)

(* The way back of a driver; for a paused task it is resume. *)
Waiting(d) == \E t \in Threads : cur[t] = d /\ pc[t] \in {"block", "arm", "yield"}

WayBack(d) ==
    \/ isOnThread[d] \/ jobs[d] > 0 \/ armed[d] > 0 \/ Waiting(d)
    \/ pauseRequested /\ ~isEnqueued[d] /\ ~hasBlockingFuture[d]

DriverKept(d) == EnqueuedKept(d) /\ FutureKept(d) /\ (d \in attached => WayBack(d))

LiveFacts == ErrorFree /\ LeaveReasons /\ \A d \in Drivers : DriverKept(d)

LiveInv == Alive => LiveFacts

-----------------------------------------------------------------------------
(* The steps of a task in which nothing has gone wrong.                    *)

Underway == {"leave", "block", "arm", "yield"}

(* Steps that change nothing of this. *)
Calm ==
    /\ UNCHANGED <<isOnThread, isEnqueued, hasBlockingFuture, jobs, armed>>
    /\ attached' \subseteq attached
    /\ pauseRequested => pauseRequested'
    /\ \A d \in Drivers : (closed[d] => closed'[d]) /\ (isTerminated'[d] => isTerminated[d])
    /\ \A t \in Threads :
          /\ pc[t] \in Underway \/ pc'[t] \in Underway => pc'[t] = pc[t] /\ cur'[t] = cur[t]
          /\ pc'[t] # "guard" /\ stop'[t] = stop[t]

(* Steps that move a driver between threads, queue and futures. *)
Working ==
    \/ CreateAndStartDrivers \/ ResumeRunning
    \/ \E d \in Drivers : Realize(d)
    \/ \E t \in Threads :
          \/ \E d \in Drivers : EnterRefused(t, d) \/ EnterYield(t, d) \/ EnterRun(t, d)
          \/ RunStop(t) \/ RunBlock(t) \/ RunAtEnd(t) \/ RemoveDriver(t)
          \/ Leave(t) \/ Unwind(t) \/ CheckBlocked(t) \/ SetResume(t) \/ EnqueueYielded(t)

(* Task::terminate ends the run of the task. *)
LEMMA TerminateKills ==
    ASSUME NEW a, NEW s \in TaskStates \ {"kRunning"}, Terminate(a, s)
    PROVE  ~Alive'
    BY ZenonT(30) DEF Terminate, taskVars, Alive

(* In a task in which nothing has gone wrong, every step is calm or one of *)
(* the working steps.                                                      *)
LEMMA LiveSteps ==
    ASSUME IInv, CloseInv, HoldInv, LiveInv, ~CpuSlice, [Next]_vars, Alive'
    PROVE  Alive /\ (Calm \/ Working)
<1>0. TypeOK /\ OwnerInv /\ TerminateInv
    BY Zenon DEF IInv
<1>1. ASSUME StartFactories PROVE Alive /\ Calm
  <2>1. Alive
      BY ZenonT(30), <1>0, <1>1 DEF Alive, HoldInv, StartFactories, taskVars, callerVars
  <2>2. Calm
      BY ZenonT(30), <1>0, <1>1, <2>1 DEF Alive, Calm, Underway, StartFactories, taskVars, driverVars,
         threadVars, LiveInv, LiveFacts, ErrorFree
  <2> QED
      BY ZenonT(30), <2>1, <2>2
<1>2. ASSUME CreateAndStartDrivers PROVE Alive
    BY ZenonT(30), <1>0, <1>2 DEF Alive, CreateAndStartDrivers, taskVars, callerVars
<1>3. ASSUME StartAfterTerminate PROVE FALSE
    BY ZenonT(30), <1>0, <1>3 DEF Alive, StartAfterTerminate, taskVars, callerVars
<1>4. ASSUME StartFails PROVE FALSE
    BY ZenonT(30), <1>0, <1>4 DEF Alive, StartFails, taskVars, callerVars
<1>5. ASSUME NEW t \in Threads, NEW d \in Drivers, EnterClosed(t, d) PROVE FALSE
    BY ZenonT(30), <1>0, <1>5 DEF Alive, EnterClosed, TakeJob, At, FirstError, taskVars, callerVars
<1>6. ASSUME NEW t \in Threads, NEW d \in Drivers, EnterRefused(t, d) PROVE Alive
    BY ZenonT(30), <1>0, <1>6 DEF Alive, EnterRefused, TakeJob, At, taskVars, callerVars
<1>7. ASSUME NEW t \in Threads, NEW d \in Drivers, EnterYield(t, d) PROVE Alive
    BY ZenonT(30), <1>0, <1>7 DEF Alive, EnterYield, TakeJob, At, taskVars, callerVars
<1>8. ASSUME NEW t \in Threads, NEW d \in Drivers, EnterRun(t, d) PROVE Alive
    BY ZenonT(30), <1>0, <1>8 DEF Alive, EnterRun, TakeJob, At, taskVars, callerVars
<1>9. ASSUME NEW t \in Threads, RunStop(t) PROVE Alive
    BY ZenonT(30), <1>0, <1>9 DEF Alive, RunStop, ExitLoop, At, taskVars, callerVars
<1>10. ASSUME NEW t \in Threads, RunBlock(t) PROVE Alive
    BY ZenonT(30), <1>0, <1>10 DEF Alive, RunBlock, ExitLoop, At, taskVars, callerVars
<1>11. ASSUME NEW t \in Threads, RunCpuSlice(t) PROVE FALSE
    BY ZenonT(30), <1>0, <1>11 DEF Alive, RunCpuSlice, ExitLoop, At, taskVars, callerVars
<1>12. ASSUME NEW t \in Threads, RunAtEnd(t) PROVE Alive
    BY ZenonT(30), <1>0, <1>12 DEF Alive, RunAtEnd, ExitLoop, At, CloseOr, taskVars, callerVars
<1>13. ASSUME NEW t \in Threads, RunThrow(t) PROVE FALSE
    BY ZenonT(30), <1>0, <1>13 DEF Alive, RunThrow, ExitLoop, At, FirstError, taskVars, callerVars
<1>14. ASSUME NEW t \in Threads, EnterSuspended(t) PROVE Alive /\ Calm
  <2>1. Alive
      BY ZenonT(30), <1>0, <1>14 DEF Alive, HoldInv, EnterSuspended, At, taskVars, callerVars
  <2>2. Calm
      BY ZenonT(30), <1>0, <1>14, <2>1 DEF Alive, Calm, Underway, EnterSuspended, At, taskVars,
         driverVars, threadVars, TypeOK, LiveInv, LiveFacts, ErrorFree
  <2> QED
      BY ZenonT(30), <2>1, <2>2
<1>15. ASSUME NEW t \in Threads, LeaveSuspended(t) PROVE Alive /\ Calm
  <2>1. Alive
      BY ZenonT(30), <1>0, <1>15 DEF Alive, HoldInv, LeaveSuspended, At, taskVars, callerVars
  <2>2. Calm
      BY ZenonT(30), <1>0, <1>15, <2>1 DEF Alive, Calm, Underway, LeaveSuspended, At, taskVars,
         driverVars, threadVars, TypeOK, TerminateInv, LiveInv, LiveFacts, ErrorFree
  <2> QED
      BY Zenon, <2>1, <2>2
<1>16. ASSUME NEW t \in Threads, Cancelled(t) PROVE FALSE
    BY ZenonT(30), <1>0, <1>16, TerminateKills DEF Cancelled, TaskStates
<1>17. ASSUME NEW t \in Threads, Fail(t) PROVE FALSE
    BY ZenonT(30), <1>0, <1>17, TerminateKills DEF Fail, TaskStates
<1>18. ASSUME NEW t \in Threads, GuardThrown(t) PROVE FALSE
    BY ZenonT(30), <1>0, <1>18 DEF Alive, GuardThrown, At, CloseOr, LiveInv, LiveFacts, ErrorFree,
       taskVars, callerVars
<1>19. ASSUME NEW t \in Threads, CloseOperators(t) PROVE Alive /\ Calm
  <2>1. Alive
      BY ZenonT(30), <1>0, <1>19 DEF Alive, HoldInv, CloseOperators, At, taskVars, callerVars
  <2>2. Calm
      BY ZenonT(30), <1>0, <1>19, <2>1 DEF Alive, Calm, Underway, CloseOperators, At, taskVars,
         driverVars, threadVars, TypeOK, LiveInv, LiveFacts, ErrorFree
  <2> QED
      BY Zenon, <2>1, <2>2
<1>20. ASSUME NEW t \in Threads, RemoveDriver(t) PROVE Alive
    BY ZenonT(30), <1>0, <1>20 DEF Alive, RemoveDriver, At, AfterClose, taskVars, callerVars
<1>21. ASSUME NEW t \in Threads, FinishTask(t) PROVE FALSE
    BY ZenonT(30), <1>0, <1>21, TerminateKills DEF FinishTask, TaskStates
<1>22. ASSUME NEW t \in Threads, Leave(t) PROVE Alive
    BY ZenonT(30), <1>0, <1>22 DEF Alive, Leave, At, GoOffThread, AfterLeave, LeaveReason, taskVars,
       callerVars
<1>23. ASSUME NEW t \in Threads, LeaveTerminated(t) PROVE FALSE
  <2>1. Alive /\ Inside(t)
      BY ZenonT(30), <1>0, <1>23 DEF Alive, LeaveTerminated, At, Inside, OnThread, callerVars
  <2>2. cur[t] \in Drivers
      BY ZenonT(30), <1>0, <2>1 DEF OwnerInv, ThreadOwns
  <2> QED
      BY ZenonT(30), <1>0, <1>23, <2>1, <2>2 DEF LeaveTerminated, LeaveReason, ShouldStop, TerminateInv, Alive,
         LiveInv, LiveFacts, ErrorFree
<1>24. ASSUME NEW t \in Threads, Unwind(t) PROVE Alive
    BY ZenonT(30), <1>0, <1>24 DEF Alive, Unwind, At, GoOffThread, AfterLeave, taskVars, callerVars
<1>25. ASSUME NEW t \in Threads, CheckBlocked(t) PROVE Alive
    BY ZenonT(30), <1>0, <1>25 DEF Alive, CheckBlocked, At, taskVars, callerVars
<1>26. ASSUME NEW t \in Threads, SetResume(t) PROVE Alive
    BY ZenonT(30), <1>0, <1>26 DEF Alive, SetResume, At, taskVars, callerVars
<1>27. ASSUME NEW t \in Threads, EnqueueYielded(t) PROVE Alive
    BY ZenonT(30), <1>0, <1>27 DEF Alive, EnqueueYielded, At, taskVars, callerVars
<1>28. ASSUME NEW d \in Drivers, Realize(d) PROVE Alive
    BY ZenonT(30), <1>0, <1>28 DEF Alive, Realize, taskVars, callerVars
<1>29. ASSUME NEW d \in Drivers, RealizeError(d) PROVE FALSE
    BY ZenonT(30), <1>0, <1>29 DEF Alive, RealizeError, FirstError, taskVars, callerVars
<1>30. ASSUME NEW a \in Actors, NEW d \in Drivers, CloseByTask(a, d) PROVE FALSE
    BY ZenonT(30), <1>0, <1>30 DEF Alive, CloseByTask, CloseInv, TakenInv, TerminateInv, taskVars,
       callerVars
<1>31. ASSUME RequestTerminate PROVE FALSE
    BY ZenonT(30), <1>0, <1>31, TerminateKills DEF RequestTerminate, TaskStates
<1>32. ASSUME RequestYield PROVE Alive /\ Calm
  <2>1. Alive
      BY ZenonT(30), <1>0, <1>32 DEF Alive, HoldInv, RequestYield, taskVars, callerVars
  <2>2. Calm
      BY ZenonT(30), <1>0, <1>32, <2>1 DEF Alive, Calm, Underway, RequestYield, taskVars, driverVars,
         threadVars, LiveInv, LiveFacts, ErrorFree
  <2> QED
      BY Zenon, <2>1, <2>2
<1>33. ASSUME SetAllOutputConsumed PROVE Alive /\ Calm
  <2>1. Alive
      BY ZenonT(30), <1>0, <1>33 DEF Alive, HoldInv, SetAllOutputConsumed, taskVars, callerVars
  <2>2. Calm
      BY ZenonT(30), <1>0, <1>33, <2>1 DEF Alive, Calm, Underway, SetAllOutputConsumed, taskVars,
         driverVars, threadVars, LiveInv, LiveFacts, ErrorFree
  <2> QED
      BY Zenon, <2>1, <2>2
<1>34. ASSUME NEW due \in {"finish", "fail"}, ClientTerminate(due) PROVE FALSE
    BY ZenonT(30), <1>0, <1>34, TerminateKills DEF ClientTerminate, TaskStates
<1>35. ASSUME RequestPause PROVE Alive /\ Calm
  <2>1. Alive
      BY ZenonT(30), <1>0, <1>35 DEF Alive, HoldInv, RequestPause, reclaimUnchanged, taskVars,
         callerVars
  <2>2. Calm
      BY ZenonT(30), <1>0, <1>35, <2>1 DEF Alive, Calm, Underway, RequestPause, reclaimUnchanged,
         taskVars, driverVars, threadVars, LiveInv, LiveFacts, ErrorFree
  <2> QED
      BY Zenon, <2>1, <2>2
<1>36. ASSUME RequestAbort PROVE FALSE
    BY ZenonT(30), <1>0, <1>36 DEF Alive, RequestAbort, SetErrorForAbort, reclaimUnchanged, FirstError,
       taskVars, callerVars
<1>37. ASSUME PauseDone PROVE Alive /\ Calm
  <2>1. Alive
      BY ZenonT(30), <1>0, <1>37 DEF Alive, HoldInv, PauseDone, reclaimUnchanged, taskVars, callerVars
  <2>2. Calm
      BY ZenonT(30), <1>0, <1>37, <2>1 DEF Alive, Calm, Underway, PauseDone, reclaimUnchanged, taskVars,
         driverVars, threadVars, LiveInv, LiveFacts, ErrorFree
  <2> QED
      BY Zenon, <2>1, <2>2
<1>38. ASSUME PauseTimeout PROVE FALSE
    BY ZenonT(30), <1>0, <1>38 DEF Alive, PauseTimeout, reclaimUnchanged, taskVars, callerVars
<1>39. ASSUME ReclaimDone PROVE Alive /\ Calm
  <2>1. Alive
      BY ZenonT(30), <1>0, <1>39 DEF Alive, HoldInv, ReclaimDone, reclaimUnchanged, taskVars, callerVars
  <2>2. Calm
      BY ZenonT(30), <1>0, <1>39, <2>1 DEF Alive, Calm, Underway, ReclaimDone, reclaimUnchanged,
         taskVars, driverVars, threadVars, LiveInv, LiveFacts, ErrorFree
  <2> QED
      BY Zenon, <2>1, <2>2
<1>40. ASSUME ResumeRunning PROVE Alive
    BY ZenonT(30), <1>0, <1>40 DEF Alive, ResumeRunning, reclaimUnchanged, taskVars, callerVars
<1>41. ASSUME ResumeTerminated PROVE FALSE
    BY ZenonT(30), <1>0, <1>41 DEF Alive, ResumeTerminated, reclaimUnchanged, taskVars, callerVars
<1>42. ASSUME ReclaimReturns PROVE Alive /\ Calm
  <2>1. Alive
      BY ZenonT(30), <1>0, <1>42 DEF Alive, HoldInv, ReclaimReturns, reclaimUnchanged, taskVars,
         callerVars
  <2>2. Calm
      BY ZenonT(30), <1>0, <1>42, <2>1 DEF Alive, Calm, Underway, ReclaimReturns, reclaimUnchanged,
         taskVars, driverVars, threadVars, LiveInv, LiveFacts, ErrorFree
  <2> QED
      BY Zenon, <2>1, <2>2
<1>43. ASSUME AbortSetError PROVE FALSE
    BY ZenonT(30), <1>0, <1>43 DEF Alive, AbortSetError, SetErrorForAbort, reclaimUnchanged, FirstError,
       taskVars, callerVars
<1>44. ASSUME AbortTerminate PROVE FALSE
    BY ZenonT(30), <1>0, <1>44, TerminateKills DEF AbortTerminate, TaskStates
<1>45. ASSUME CompletionTimeout PROVE Alive /\ Calm
  <2>0. UNCHANGED <<taskVars, reclaimUnchanged, pauseRequested, abortDue>>
      BY Zenon, <1>45, AbortLeaves
  <2>1. Alive
      BY ZenonT(30), <2>0 DEF Alive, taskVars
  <2>2. Calm
      BY ZenonT(30), <2>0, <2>1 DEF Calm, reclaimUnchanged, taskVars, driverVars, threadVars, LiveInv,
         LiveFacts, ErrorFree
  <2> QED
      BY Zenon, <2>1, <2>2
<1>46. ASSUME AbortStep PROVE Alive /\ Calm
  <2>0. UNCHANGED <<taskVars, reclaimUnchanged, pauseRequested, abortDue>>
      BY Zenon, <1>46, AbortLeaves
  <2>1. Alive
      BY ZenonT(30), <2>0 DEF Alive, taskVars
  <2>2. Calm
      BY ZenonT(30), <2>0, <2>1 DEF Calm, reclaimUnchanged, taskVars, driverVars, threadVars, LiveInv,
         LiveFacts, ErrorFree
  <2> QED
      BY Zenon, <2>1, <2>2
<1>47. ASSUME vars' = vars PROVE Alive /\ Calm
    BY Zenon, <1>47 DEF Alive, Calm, vars, taskVars, driverVars, threadVars, callerVars, LiveInv,
       LiveFacts, ErrorFree
<1>48. ASSUME NEW t \in Threads, NEW d \in Drivers, EnterStep(t, d) PROVE Alive /\ (Calm \/ Working)
    BY <1>48, <1>5, <1>6, <1>7, <1>8, Zenon DEF EnterStep, Working
<1>49. ASSUME NEW t \in Threads, RunStep(t) PROVE Alive /\ (Calm \/ Working)
    BY <1>49, <1>9, <1>10, <1>11, <1>12, <1>13, <1>14, Zenon DEF RunStep, Working
<1>50. ASSUME NEW t \in Threads, ExitStep(t) PROVE Alive /\ (Calm \/ Working)
    BY ZenonT(30), <1>50, <1>16, <1>17, <1>18, <1>19, <1>20, <1>21, <1>22, <1>23, <1>24, <1>25, <1>26,
       <1>27, Zenon DEF ExitStep, Working
<1>51. CASE StartStep \/ ClientStep
    BY <1>51, <1>1, <1>2, <1>3, <1>4, <1>31, <1>32, <1>33, <1>34, Zenon DEF StartStep,
       ClientStep, Working
<1>52. CASE ReclaimStep
    BY <1>52, <1>37, <1>38, <1>39, <1>40, <1>41, <1>42, <1>43, <1>44, <1>45, <1>46, Zenon
       DEF ReclaimStep, Working
<1> QED
    BY <1>48, <1>49, <1>50, <1>51, <1>52, <1>15, <1>28, <1>29, <1>30, <1>35, <1>36, <1>47,
       Zenon DEF Next, Working

-----------------------------------------------------------------------------
(* Each kind of step keeps what is known of the drivers.                   *)

(* Calm steps keep everything. *)
LEMMA LiveCalm ==
    ASSUME TypeOK, OwnerInv, LiveFacts, Calm
    PROVE  LiveFacts'
<1>1. \A t \in Threads : pc[t] \in Underway \/ pc'[t] \in Underway =>
          pc'[t] = pc[t] /\ cur'[t] = cur[t] /\ stop'[t] = stop[t]
    BY ZenonT(30) DEF Calm
<1>2. ErrorFree'
    BY ZenonT(30) DEF Calm, LiveFacts, ErrorFree
<1>3. LeaveReasons'
  <2>1. \A t \in Threads : pc[t] = "leave" => cur[t] \in Drivers
      BY Zenon DEF OwnerInv, ThreadOwns, Inside, OnThread
  <2> QED
      BY ZenonT(30), <1>1, <2>1 DEF Calm, LiveFacts, LeaveReasons, Underway
<1>4. ASSUME NEW d \in Drivers PROVE DriverKept(d)'
  <2>1. /\ (Blocking(d) => Blocking(d)') /\ (Arming(d) => Arming(d)')
        /\ Waiting(d) => Waiting(d)'
      BY ZenonT(30), <1>1 DEF Blocking, Arming, Waiting, Underway
  <2>2. DriverKept(d)
      BY Zenon DEF LiveFacts
  <2> QED
      BY ZenonT(30), <2>1, <2>2 DEF Calm, DriverKept, EnqueuedKept, FutureKept, WayBack
<1> QED
    BY ZenonT(30), <1>2, <1>3, <1>4 DEF LiveFacts

(* The other threads stay where they are. *)
Others(t) == \A u \in Threads \ {t} : pc'[u] = pc[u] /\ cur'[u] = cur[u] /\ stop'[u] = stop[u]

(* Who waits for a driver, or holds its future, is another thread. *)
LEMMA WitnessKept ==
    ASSUME NEW t \in Threads, Others(t), NEW d, cur[t] # d \/ pc[t] \notin Underway
    PROVE  /\ (Blocking(d) => Blocking(d)') /\ (Arming(d) => Arming(d)')
           /\ Waiting(d) => Waiting(d)'
    BY ZenonT(30) DEF Others, Blocking, Arming, Waiting, Underway

Flags(d) == <<isOnThread[d], isEnqueued[d], hasBlockingFuture[d], jobs[d], armed[d], closed[d]>>

(* A driver that the thread does not move is kept. *)
LEMMA Unmoved ==
    ASSUME NEW t \in Threads, Others(t), NEW d \in Drivers, cur[t] # d \/ pc[t] \notin Underway,
           UNCHANGED <<Flags(d), pauseRequested>>, attached' \subseteq attached, DriverKept(d)
    PROVE  DriverKept(d)'
<1>1. /\ isOnThread'[d] = isOnThread[d] /\ isEnqueued'[d] = isEnqueued[d]
      /\ hasBlockingFuture'[d] = hasBlockingFuture[d] /\ jobs'[d] = jobs[d] /\ armed'[d] = armed[d]
      /\ closed'[d] = closed[d]
    BY Zenon DEF Flags
<1> QED
    BY ZenonT(30), <1>1, WitnessKept DEF DriverKept, EnqueuedKept, FutureKept, WayBack

(* Task::start enqueues all drivers. *)
LEMMA LiveStart ==
    ASSUME TypeOK, CloseInv, LiveFacts, CreateAndStartDrivers
    PROVE  LiveFacts'
<1>1. /\ UNCHANGED <<isTerminated, hasBlockingFuture, isOnThread, closed, armed, pc, cur, stop,
                     pauseRequested>>
      /\ \A d \in Drivers : jobs'[d] > 0
    BY DEF CreateAndStartDrivers, EnqueueAll, CloseInv, EarlyInv, threadVars
<1>2. ErrorFree' /\ LeaveReasons'
    BY ZenonT(30), <1>1 DEF LiveFacts, ErrorFree, LeaveReasons
<1>3. ASSUME NEW d \in Drivers PROVE DriverKept(d)'
  <2>1. FutureKept(d)'
      BY Zenon, <1>1 DEF LiveFacts, DriverKept, FutureKept, Blocking, Arming
  <2> QED
      BY ZenonT(30), <1>1, <2>1 DEF DriverKept, EnqueuedKept, WayBack
<1> QED
    BY ZenonT(30), <1>2, <1>3 DEF LiveFacts

(* A closed driver of the task is on a thread: only the step that takes it *)
(* off drivers_ is missing.                                                *)
LEMMA ClosedOnThread ==
    ASSUME OwnerInv, CloseInv, NEW d \in attached, closed[d]
    PROVE  isOnThread[d]
    BY Zenon DEF CloseInv, GoneInv, OwnerInv, ThreadOwns, Inside, OnThread

(* Task::resume enqueues whoever has no other way back. *)
LEMMA LiveResume ==
    ASSUME TypeOK, OwnerInv, CloseInv, HoldInv, Alive, LiveFacts, ResumeRunning
    PROVE  LiveFacts'
<1>1. /\ reclaimPc = "resume" /\ ~pauseRequested'
      /\ UNCHANGED <<isTerminated, hasBlockingFuture, isOnThread, closed, armed, pc, cur, stop, attached>>
      /\ \A d \in Drivers :
            /\ isEnqueued'[d] <=> isEnqueued[d] \/ d \in Resumed
            /\ jobs'[d] = IF d \in Resumed /\ ~closed[d] THEN jobs[d] + 1 ELSE jobs[d]
    BY ZenonT(30) DEF ResumeRunning, EnqueueAll, taskVars, threadVars
<1>2. \A d \in Drivers : isOnThread[d] => isSuspended[d]
    BY ZenonT(30), <1>1 DEF HoldInv, Quiescent, LiveFacts, ErrorFree
<1>3. \A t \in Threads : pc[t] # "leave"
    BY ZenonT(30), <1>2 DEF OwnerInv, ThreadOwns, Inside, OnThread
<1>4. ErrorFree' /\ LeaveReasons'
    BY ZenonT(30), <1>1, <1>3 DEF LiveFacts, ErrorFree, LeaveReasons
<1>5. \A e \in Drivers : ~ResumeCheckFails(e)
    BY ZenonT(30), <1>2 DEF ResumeCheckFails, LiveFacts, ErrorFree
<1>6. ASSUME NEW d \in Drivers PROVE DriverKept(d)'
  <2>1. jobs[d] \in Nat /\ (isSuspended[d] => isOnThread[d])
      BY DEF TypeOK, OwnerInv, SuspendedOwned, ThreadOwns, Inside
  <2>2. DriverKept(d)
      BY Zenon DEF LiveFacts
  <2>1a. jobs[d] > 0 \/ (d \in Resumed /\ ~closed[d]) => jobs'[d] > 0
      BY ZenonT(30), <1>1, <2>1, OneMore
  <2>3. EnqueuedKept(d)'
      BY ZenonT(30), <1>1, <2>2, <2>1a DEF DriverKept, EnqueuedKept
  <2>4. /\ (Blocking(d)' <=> Blocking(d)) /\ (Arming(d)' <=> Arming(d))
        /\ Waiting(d)' <=> Waiting(d)
      BY Zenon, <1>1 DEF Blocking, Arming, Waiting
  <2>5. FutureKept(d)'
      BY ZenonT(30), <1>1, <2>2, <2>4 DEF DriverKept, FutureKept
  <2>6. ASSUME d \in attached PROVE WayBack(d)'
    <3>1. CASE isOnThread[d] \/ jobs[d] > 0 \/ armed[d] > 0 \/ Waiting(d)
        BY ZenonT(30), <1>1, <2>4, <2>1a, <3>1 DEF WayBack
    <3>2. CASE ~isOnThread[d] /\ ~isEnqueued[d] /\ ~hasBlockingFuture[d]
      <4>1. \A e \in 1..d : ~ResumeCheckFails(e)
          BY ZenonT(30), <1>5 DEF ResumeCheckFails, TypeOK
      <4>2. d \in Resumed /\ ~closed[d]
          BY ZenonT(30), <2>1, <2>6, <3>2, <4>1, ClosedOnThread DEF Resumed
      <4> QED
          BY Zenon, <2>1a, <4>2 DEF WayBack
    <3> QED
        BY ZenonT(30), <2>2, <2>6, <3>1, <3>2 DEF DriverKept, WayBack
  <2> QED
      BY ZenonT(30), <1>1, <2>3, <2>5, <2>6 DEF DriverKept
<1> QED
    BY Zenon, <1>4, <1>6 DEF LiveFacts

(* The callback of a realized future enqueues the driver, or leaves it to  *)
(* resume.                                                                 *)
LEMMA LiveRealize ==
    ASSUME TypeOK, OwnerInv, CloseInv, LiveFacts, NEW d \in Drivers, Realize(d)
    PROVE  LiveFacts'
<1>1. /\ UNCHANGED <<isTerminated, isOnThread, closed, pc, cur, stop, attached, pauseRequested>>
      /\ ~hasBlockingFuture'[d] /\ CallbackChecks(d)
      /\ ~pauseRequested => isEnqueued'[d] /\ (~closed[d] => jobs'[d] = jobs[d] + 1)
      /\ pauseRequested => isEnqueued'[d] = isEnqueued[d] /\ jobs'[d] = jobs[d]
      /\ \A e \in Drivers \ {d} :
            /\ hasBlockingFuture'[e] = hasBlockingFuture[e] /\ armed'[e] = armed[e]
            /\ isEnqueued'[e] = isEnqueued[e] /\ jobs'[e] = jobs[e]
    BY ZenonT(30) DEF Realize, EnqueueAll, taskVars, threadVars, TypeOK
<1>2. ErrorFree' /\ LeaveReasons'
    BY Zenon, <1>1 DEF LiveFacts, ErrorFree, LeaveReasons
<1>3. \A e \in Drivers : /\ (Blocking(e)' <=> Blocking(e)) /\ (Arming(e)' <=> Arming(e))
                         /\ Waiting(e)' <=> Waiting(e)
    BY ZenonT(30), <1>1 DEF Blocking, Arming, Waiting
<1>4. ASSUME NEW e \in Drivers \ {d} PROVE DriverKept(e)'
  <2>1. DriverKept(e)
      BY ZenonT(30) DEF LiveFacts
  <2> QED
      BY ZenonT(30), <1>1, <1>3, <2>1 DEF DriverKept, EnqueuedKept, FutureKept, WayBack
<1>5. DriverKept(d)'
  <2>1. jobs[d] \in Nat /\ DriverKept(d)
      BY ZenonT(30) DEF LiveFacts, TypeOK
  <2>1a. ~pauseRequested /\ ~closed[d] => jobs'[d] > 0
      BY ZenonT(30), <1>1, <2>1, OneMore
  <2>2. EnqueuedKept(d)' /\ FutureKept(d)'
      BY ZenonT(30), <1>1, <2>1, <2>1a DEF DriverKept, EnqueuedKept, FutureKept
  <2>3. ASSUME d \in attached, ~isOnThread[d] PROVE WayBack(d)'
    <3>1. ~closed[d]
        BY ZenonT(30), <2>3, ClosedOnThread
    <3> QED
        BY ZenonT(30), <1>1, <2>1, <2>1a, <3>1 DEF DriverKept, EnqueuedKept, WayBack
  <2> QED
      BY ZenonT(30), <1>1, <2>2, <2>3 DEF DriverKept, WayBack
<1> QED
    BY ZenonT(30), <1>2, <1>4, <1>5 DEF LiveFacts

(* Task::enter. *)
LEMMA LiveEnter ==
    ASSUME TypeOK, TerminateInv, Alive, LiveFacts, NEW t \in Threads, NEW d \in Drivers,
           EnterRefused(t, d) \/ EnterYield(t, d) \/ EnterRun(t, d)
    PROVE  LiveFacts'
<1>1. /\ pc[t] = "idle" /\ Others(t) /\ stop' = stop
      /\ UNCHANGED <<armed, closed, attached, pauseRequested>>
      /\ \A e \in Drivers \ {d} :
            /\ hasBlockingFuture'[e] = hasBlockingFuture[e] /\ isOnThread'[e] = isOnThread[e]
            /\ isEnqueued'[e] = isEnqueued[e] /\ jobs'[e] = jobs[e]
      /\ ~isEnqueued'[d]
    BY ZenonT(30) DEF EnterRefused, EnterYield, EnterRun, TakeJob, At, Others, taskVars, TypeOK
<1>2. ~terminateRequested /\ ShouldStop # "kTerminate"
    BY Zenon DEF TerminateInv, Alive, ShouldStop
<1>3. pc'[t] \in {"idle", "yield", "run"} /\ \A e \in Drivers : ~isTerminated'[e]
  <2>1. /\ pc \in [Threads -> ThreadPoints] /\ isTerminated \in [Drivers -> BOOLEAN]
        /\ \A e \in Drivers : ~isTerminated[e]
      BY Zenon DEF TypeOK, LiveFacts, ErrorFree
  <2>2. CASE EnterRefused(t, d)
      BY ZenonT(30), <1>2, <2>1, <2>2 DEF EnterRefused, TakeJob
  <2>3. CASE EnterYield(t, d)
      BY ZenonT(30), <2>1, <2>3 DEF EnterYield, TakeJob, taskVars
  <2>4. CASE EnterRun(t, d)
      BY ZenonT(30), <2>1, <2>4 DEF EnterRun, TakeJob
  <2> QED
      BY Zenon, <2>2, <2>3, <2>4
<1>4. ErrorFree' /\ LeaveReasons'
    BY ZenonT(30), <1>1, <1>3 DEF Others, LiveFacts, ErrorFree, LeaveReasons
<1>5. ASSUME NEW e \in Drivers \ {d} PROVE DriverKept(e)'
    BY ZenonT(30), <1>1, Unmoved DEF Flags, Underway, LiveFacts
<1>6. DriverKept(d)'
  <2>1. /\ (Blocking(d) => Blocking(d)') /\ (Arming(d) => Arming(d)')
        /\ Waiting(d) => Waiting(d)'
      BY ZenonT(30), <1>1, WitnessKept DEF Underway
  <2>2. DriverKept(d) /\ EnqueuedKept(d)' /\ ~isTerminated[d]
      BY ZenonT(30), <1>1 DEF EnqueuedKept, LiveFacts, ErrorFree
  <2>3. CASE EnterRefused(t, d)
    <3>1. /\ UNCHANGED <<isOnThread, hasBlockingFuture>>
          /\ isOnThread[d] \/ pauseRequested
        BY ZenonT(30), <1>2, <2>2, <2>3 DEF EnterRefused, ShouldStop
    <3>2. FutureKept(d)'
        BY ZenonT(30), <1>1, <2>1, <2>2, <3>1 DEF DriverKept, FutureKept
    <3>3. WayBack(d)'
      <4>1. CASE isOnThread[d]
          BY ZenonT(30), <3>1, <4>1 DEF WayBack
      <4>2. CASE ~isOnThread[d] /\ hasBlockingFuture[d]
        <5>1. armed[d] > 0 \/ Waiting(d)
            BY ZenonT(30), <2>2, <4>2 DEF DriverKept, FutureKept, Arming, Waiting
        <5> QED
            BY ZenonT(30), <1>1, <2>1, <5>1 DEF WayBack
      <4>3. CASE ~isOnThread[d] /\ ~hasBlockingFuture[d]
          BY ZenonT(30), <1>1, <3>1, <4>3 DEF WayBack
      <4> QED
          BY ZenonT(30), <4>1, <4>2, <4>3
    <3> QED
        BY ZenonT(30), <2>2, <3>2, <3>3 DEF DriverKept
  <2>4. CASE EnterYield(t, d)
    <3>1. pc'[t] = "yield" /\ cur'[t] = d /\ UNCHANGED <<isOnThread, hasBlockingFuture>>
        BY ZenonT(30), <2>4 DEF EnterYield, TakeJob, taskVars, TypeOK
    <3>2. FutureKept(d)'
        BY ZenonT(30), <1>1, <2>1, <2>2, <3>1 DEF DriverKept, FutureKept
    <3>3. WayBack(d)'
        BY ZenonT(30), <3>1 DEF WayBack, Waiting
    <3> QED
        BY Zenon, <2>2, <3>2, <3>3 DEF DriverKept
  <2>5. CASE EnterRun(t, d)
    <3>1. isOnThread'[d] /\ ~hasBlockingFuture'[d]
        BY ZenonT(30), <2>5 DEF EnterRun, TypeOK
    <3> QED
        BY ZenonT(30), <2>2, <3>1 DEF DriverKept, FutureKept, WayBack
  <2> QED
      BY ZenonT(30), <2>3, <2>4, <2>5
<1> QED
    BY ZenonT(30), <1>4, <1>5, <1>6 DEF LiveFacts

(* The driver stops in its loop, or is at its end. *)
LEMMA LiveRun ==
    ASSUME TypeOK, OwnerInv, TerminateInv, CloseInv, Alive, LiveFacts, NEW t \in Threads,
           RunStop(t) \/ RunBlock(t) \/ RunAtEnd(t) \/ RemoveDriver(t)
    PROVE  LiveFacts'
<1>1. /\ pc[t] \in {"run", "remove"} /\ Others(t) /\ cur' = cur
      /\ UNCHANGED <<isTerminated, isOnThread, isEnqueued, jobs, armed, closed, pauseRequested>>
      /\ attached' \subseteq attached
    BY ZenonT(30) DEF RunStop, RunBlock, RunAtEnd, RemoveDriver, ExitLoop, At, Others, taskVars, driverVars,
       TypeOK
<1>2. Inside(t) /\ cur[t] \in Drivers /\ isOnThread[cur[t]]
    BY ZenonT(30), <1>1 DEF OwnerInv, ThreadOwns, Inside, OnThread
<1>3. ShouldStop # "kTerminate"
    BY ZenonT(30) DEF TerminateInv, Alive, ShouldStop
<1>4. /\ pc'[t] \in {"leave", "close", "finish", "unwind"}
      /\ stop'[t] \notin {"kThrow", "kTerminate"}
      /\ pc'[t] = "leave" => \/ stop'[t] \in {"kBlock", "kYield"}
                             \/ stop'[t] = "kPause" /\ pauseRequested
                             \/ closed[cur[t]]
  <2>1. CASE RunStop(t)
    <3>1. pc'[t] = "leave" /\ stop'[t] = ShouldStop /\ ShouldStop # "kNone"
        BY ZenonT(30), <2>1 DEF RunStop, ExitLoop, TypeOK
    <3> QED
        BY ZenonT(30), <1>3, <3>1 DEF ShouldStop
  <2>2. CASE RunBlock(t)
      BY ZenonT(30), <2>2 DEF RunBlock, ExitLoop, TypeOK
  <2>3. CASE RunAtEnd(t)
      BY ZenonT(30), <2>3 DEF RunAtEnd, ExitLoop, CloseOr, TypeOK
  <2>4. CASE RemoveDriver(t)
    <3>1. closed[cur[t]] /\ stop'[t] = stop[t]
        BY ZenonT(30), <1>2, <2>4 DEF RemoveDriver, At, CloseInv, StageInv
    <3>2. pc'[t] \in {"leave", "finish", "unwind"}
        BY ZenonT(30), <2>4 DEF RemoveDriver, AfterClose, TypeOK
    <3> QED
        BY ZenonT(30), <3>1, <3>2 DEF LiveFacts, ErrorFree
  <2> QED
      BY ZenonT(30), <2>1, <2>2, <2>3, <2>4
<1>5. ErrorFree' /\ LeaveReasons'
    BY ZenonT(30), <1>1, <1>4 DEF Others, LiveFacts, ErrorFree, LeaveReasons
<1>6. \A d \in Drivers : cur[t] # d \/ ~RunBlock(t) => hasBlockingFuture'[d] = hasBlockingFuture[d]
    BY ZenonT(30) DEF RunStop, RunBlock, RunAtEnd, RemoveDriver, driverVars, TypeOK
<1>7. ASSUME NEW d \in Drivers, cur[t] # d \/ ~RunBlock(t) PROVE DriverKept(d)'
    BY ZenonT(30), <1>1, <1>6, <1>7, Unmoved DEF Flags, Underway, LiveFacts
<1>8. ASSUME RunBlock(t) PROVE DriverKept(cur[t])'
  <2>1. pc'[t] = "leave" /\ stop'[t] = "kBlock" /\ cur'[t] = cur[t]
      BY ZenonT(30), <1>1, <1>8 DEF RunBlock, ExitLoop, TypeOK
  <2>2. \A d \in Drivers : d = cur[t] => Blocking(d)'
      BY ZenonT(30), <2>1 DEF Blocking
  <2>3. ASSUME NEW d \in Drivers, d = cur[t] PROVE DriverKept(d)'
      BY ZenonT(30), <1>1, <1>2, <2>2, <2>3 DEF LiveFacts, DriverKept, EnqueuedKept, FutureKept, WayBack
  <2> QED
      BY ZenonT(30), <1>1, <1>2, <2>3
<1>9. ASSUME NEW d \in Drivers PROVE DriverKept(d)'
    BY <1>1, <1>7, <1>8, Zenon
<1> QED
    BY ZenonT(30), <1>5, <1>9 DEF LiveFacts

(* Task::leave: the reason says who brings the driver back. *)
LEMMA LiveLeave ==
    ASSUME TypeOK, OwnerInv, TerminateInv, CloseInv, Alive, LiveFacts, NEW t \in Threads,
           Leave(t) \/ Unwind(t)
    PROVE  LiveFacts'
<1>1. /\ pc[t] \in {"leave", "unwind"} /\ Others(t)
      /\ UNCHANGED <<isEnqueued, hasBlockingFuture, jobs, armed, closed, attached, pauseRequested>>
      /\ pc'[t] = AfterLeave(stop[t]) /\ stop'[t] = "kNone"
      /\ cur'[t] = IF AfterLeave(stop[t]) = "idle" THEN None ELSE cur[t]
    BY ZenonT(30) DEF Leave, Unwind, GoOffThread, At, Others, taskVars, driverVars, TypeOK
<1>2. Inside(t) /\ cur[t] \in Drivers /\ isOnThread[cur[t]]
    BY ZenonT(30), <1>1 DEF OwnerInv, ThreadOwns, Inside, OnThread
<1>3. /\ ~isOnThread'[cur[t]] /\ \A d \in Drivers \ {cur[t]} : isOnThread'[d] = isOnThread[d]
      /\ \A d \in Drivers : ~isTerminated'[d]
  <2>1. /\ isOnThread' = [isOnThread EXCEPT ![cur[t]] = FALSE]
        /\ \/ isTerminated' = isTerminated
           \/ isTerminated' = [isTerminated EXCEPT ![cur[t]] = LeaveReason(cur[t]) = "kTerminate"]
      BY ZenonT(30) DEF Leave, Unwind, GoOffThread
  <2>2. LeaveReason(cur[t]) # "kTerminate"
      BY ZenonT(30), <1>2 DEF LeaveReason, ShouldStop, TerminateInv, Alive, LiveFacts, ErrorFree
  <2> QED
      BY ZenonT(30), <1>2, <2>1, <2>2 DEF TypeOK, LiveFacts, ErrorFree
<1>4. ErrorFree' /\ LeaveReasons'
    BY ZenonT(30), <1>1, <1>3 DEF Others, AfterLeave, LiveFacts, ErrorFree, LeaveReasons
<1>5. ASSUME NEW d \in Drivers \ {cur[t]} PROVE DriverKept(d)'
    BY ZenonT(30), <1>1, <1>3, Unmoved DEF Flags, LiveFacts
<1>6. ASSUME NEW d \in Drivers, d = cur[t] PROVE DriverKept(d)'
  <2>1. DriverKept(d)
      BY Zenon DEF LiveFacts
  <2>2. hasBlockingFuture[d] => pc[t] = "leave" /\ stop[t] = "kBlock"
    <3>1. \A u \in Threads : cur[u] = d /\ pc[u] = "leave" => u = t
        BY <1>2, <1>6, Zenon DEF OwnerInv, OneOwner, Inside, OnThread
    <3> QED
        BY ZenonT(30), <1>2, <1>6, <2>1, <3>1 DEF DriverKept, FutureKept, Blocking
  <2>3. EnqueuedKept(d)'
      BY ZenonT(30), <1>1, <2>1 DEF DriverKept, EnqueuedKept
  <2>4. stop[t] = "kBlock" => Arming(d)' /\ Waiting(d)'
      BY ZenonT(30), <1>1, <1>6 DEF AfterLeave, Arming, Waiting
  <2>5. FutureKept(d)'
      BY ZenonT(30), <1>1, <1>3, <1>6, <2>2, <2>4 DEF FutureKept
  <2>6. ASSUME d \in attached PROVE WayBack(d)'
    <3>1. ~closed[d] /\ pc[t] = "leave"
        BY ZenonT(30), <1>1, <1>2, <1>6, <2>6 DEF CloseInv, StageInv
    <3>2. CASE stop[t] = "kBlock"
        BY ZenonT(30), <2>4, <3>2 DEF WayBack
    <3>3. CASE stop[t] = "kYield"
        BY ZenonT(30), <1>1, <1>6, <3>3 DEF AfterLeave, WayBack, Waiting
    <3>4. CASE stop[t] = "kPause" /\ pauseRequested
        BY ZenonT(30), <1>1, <2>1, <2>2, <3>1, <3>4 DEF DriverKept, EnqueuedKept, WayBack
    <3> QED
        BY ZenonT(30), <1>6, <3>1, <3>2, <3>3, <3>4 DEF LiveFacts, LeaveReasons
  <2> QED
      BY ZenonT(30), <1>1, <2>3, <2>5, <2>6 DEF DriverKept
<1> QED
    BY ZenonT(30), <1>4, <1>5, <1>6 DEF LiveFacts

(* Driver::run after Task::leave: setResume, or enqueue. *)
LEMMA LiveBlock ==
    ASSUME TypeOK, OwnerInv, TerminateInv, CloseInv, Alive, LiveFacts, NEW t \in Threads,
           CheckBlocked(t) \/ SetResume(t) \/ EnqueueYielded(t)
    PROVE  LiveFacts'
<1>0. /\ pc[t] \in {"block", "arm", "yield"} /\ stop' = stop
      /\ UNCHANGED <<isTerminated, isOnThread, hasBlockingFuture, closed, attached, pauseRequested>>
      /\ \A d \in Drivers \ {cur[t]} :
            isEnqueued'[d] = isEnqueued[d] /\ jobs'[d] = jobs[d] /\ armed'[d] = armed[d]
  <2> USE DEF At, taskVars, driverVars
  <2>1. CASE CheckBlocked(t)
      BY ZenonT(30), <2>1 DEF CheckBlocked
  <2>2. CASE SetResume(t)
      BY ZenonT(30), <2>2 DEF SetResume, TypeOK
  <2>3. CASE EnqueueYielded(t)
    <3>1. \A d \in Drivers : isEnqueued[d] \in BOOLEAN
        BY Zenon DEF TypeOK
    <3> QED
        BY ZenonT(30), <2>3, <3>1 DEF EnqueueYielded, EnqueueAll
  <2> QED
      BY Zenon, <2>1, <2>2, <2>3
<1>1. /\ pc[t] \in {"block", "arm", "yield"} /\ Others(t) /\ stop' = stop
      /\ UNCHANGED <<isTerminated, isOnThread, hasBlockingFuture, closed, attached, pauseRequested>>
      /\ pc'[t] \in {"idle", "arm"}
      /\ \A d \in Drivers \ {cur[t]} :
            isEnqueued'[d] = isEnqueued[d] /\ jobs'[d] = jobs[d] /\ armed'[d] = armed[d]
  <2>1. Others(t) /\ pc'[t] \in {"idle", "arm"}
      BY ZenonT(30) DEF CheckBlocked, SetResume, EnqueueYielded, Others, TypeOK
  <2> QED
      BY Zenon, <1>0, <2>1
<1>2. ErrorFree' /\ LeaveReasons'
    BY ZenonT(30), <1>1 DEF Others, LiveFacts, ErrorFree, LeaveReasons
<1>3. ASSUME NEW d \in Drivers \ {cur[t]} PROVE DriverKept(d)'
    BY Zenon, <1>1, Unmoved DEF Flags, LiveFacts
<1>4. ASSUME NEW d \in Drivers, d = cur[t] PROVE DriverKept(d)'
  <2>1. DriverKept(d) /\ jobs[d] \in Nat /\ armed[d] \in Nat
      BY ZenonT(30) DEF LiveFacts, TypeOK
  <2>2. Blocking(d) => Blocking(d)'
      BY ZenonT(30), <1>1 DEF Blocking, Others
  <2>3. CASE CheckBlocked(t)
    <3>1. ShouldStop # "kTerminate"
        BY ZenonT(30) DEF TerminateInv, Alive, ShouldStop
    <3>2. /\ pc'[t] = "arm" /\ cur'[t] = d
          /\ UNCHANGED <<isEnqueued, jobs, armed>>
        BY ZenonT(30), <1>4, <2>3, <3>1 DEF CheckBlocked, driverVars, TypeOK
    <3>3. Arming(d)' /\ Waiting(d)'
        BY ZenonT(30), <3>2 DEF Arming, Waiting
    <3> QED
        BY ZenonT(30), <1>1, <2>1, <2>2, <3>2, <3>3 DEF DriverKept, EnqueuedKept, FutureKept, WayBack
  <2>4. CASE SetResume(t)
    <3>0. armed[d] + 1 > 0
        BY Zenon, <2>1, OneMore
    <3>1. /\ UNCHANGED <<isEnqueued, jobs>>
          /\ isOnThread[d] \/ armed'[d] > 0
        BY ZenonT(30), <1>4, <2>4, <3>0 DEF SetResume, TypeOK
    <3> QED
        BY ZenonT(30), <1>1, <2>1, <2>2, <3>1 DEF DriverKept, EnqueuedKept, FutureKept, WayBack
  <2>5. CASE EnqueueYielded(t)
    <3>1. /\ pc[t] = "yield" /\ armed' = armed /\ isEnqueued'[d]
          /\ IF isEnqueued[d] \/ closed[d] THEN jobs'[d] = jobs[d] ELSE jobs'[d] = jobs[d] + 1
        BY ZenonT(30), <1>4, <2>5 DEF EnqueueYielded, EnqueueAll, At
    <3>2. Arming(d) => Arming(d)'
        BY ZenonT(30), <1>1, <3>1 DEF Arming, Others
    <3>3. EnqueuedKept(d)' /\ FutureKept(d)'
        BY SMTT(20), <1>1, <2>1, <2>2, <3>1, <3>2 DEF DriverKept, EnqueuedKept, FutureKept
    <3>4. ASSUME d \in attached PROVE WayBack(d)'
        BY Zenon, <1>1, <3>1, <3>3, <3>4, ClosedOnThread DEF EnqueuedKept, WayBack
    <3> QED
        BY ZenonT(30), <1>1, <3>3, <3>4 DEF DriverKept
  <2> QED
      BY ZenonT(30), <2>3, <2>4, <2>5
<1> QED
    BY ZenonT(30), <1>2, <1>3, <1>4 DEF LiveFacts

-----------------------------------------------------------------------------
(* The invariant, and the theorem.                                         *)

(* A reclaim that was not given up has a paused task when it resumes. *)
LEMMA HoldStep ==
    ASSUME IInv, CloseInv, HoldInv, LiveInv, ~CpuSlice, [Next]_vars
    PROVE  HoldInv'
<1>1. TypeOK /\ OwnerInv /\ PauseInv
    BY Zenon DEF IInv
<1>2. abortDue' => reclaimPc' \in {"resume", "closing"}
    BY <1>1, Pauses, AbortLeaves, Zenon DEF HoldInv, PauseUnchanged, RequestPause, RequestAbort, SetErrorForAbort,
       ReclaimStep, PauseDone, PauseTimeout, ReclaimDone, ResumeRunning, ResumeTerminated,
       ReclaimReturns, AbortSetError, AbortTerminate
<1>3. ASSUME reclaimPc' = "resume", Alive', NEW d \in Drivers PROVE Quiescent(d)'
  <2>1. Alive
      BY ZenonT(30), <1>3, LiveSteps
  <2>2. reclaimPc \in {"resume", "reclaiming"} \/ Granted
      BY <1>1, <1>3, Pauses, AbortLeaves, Zenon DEF Granted, PauseUnchanged, RequestPause, RequestAbort,
         SetErrorForAbort, ReclaimStep, PauseDone, PauseTimeout, ReclaimDone, ResumeRunning,
         ResumeTerminated, ReclaimReturns, AbortSetError, AbortTerminate,
         Alive
  <2>3. pauseRequested /\ Quiescent(d)
      BY ZenonT(30), <1>1, <2>1, <2>2 DEF HoldInv, PauseInv, Granted
  <2> QED
      BY ZenonT(30), <1>1, <2>3, StaysQuiescent
<1> QED
    BY Zenon, <1>2, <1>3 DEF HoldInv

(* Every step of a running task keeps the way back of every driver. *)
LEMMA LiveStep ==
    ASSUME IInv, CloseInv, HoldInv, LiveInv, ~CpuSlice, [Next]_vars
    PROVE  LiveInv'
<1> SUFFICES ASSUME Alive' PROVE LiveFacts'
    BY ZenonT(30) DEF LiveInv
<1>1. TypeOK /\ OwnerInv /\ TerminateInv
    BY Zenon DEF IInv
<1>2. Alive /\ (Calm \/ Working)
    BY ZenonT(30), LiveSteps
<1>3. LiveFacts
    BY ZenonT(30), <1>2 DEF LiveInv
<1> QED
    BY <1>1, <1>2, <1>3, LiveCalm, LiveStart, LiveResume, LiveRealize, LiveEnter, LiveRun, LiveLeave,
       LiveBlock, Zenon DEF Working

(* A new task has nothing to lose. *)
LEMMA InitLive == Init => HoldInv /\ LiveInv
    BY Zenon DEF Init, HoldInv, LiveInv, Alive, LiveFacts, ErrorFree, LeaveReasons, DriverKept, EnqueuedKept,
       FutureKept

(* Without the cpu time slice, a driver of a running task that is not      *)
(* paused always has somebody who will run it, whatever sequence of        *)
(* blocking, yielding, pausing and resuming led there.                     *)
THEOREM NoDriverLost == ~CpuSlice => (Spec => []NoLostDriver)
<1> SUFFICES ASSUME ~CpuSlice PROVE Spec => []NoLostDriver
    BY Zenon
<1> DEFINE J == CloseInv /\ HoldInv /\ LiveInv
<1>1. Init => J
    BY ZenonT(30), InitCloseInv, InitLive
<1>2. IInv /\ J /\ [Next]_vars => J'
    BY ZenonT(30), CloseStep, HoldStep, LiveStep
<1>3. IInv /\ LiveInv => NoLostDriver
    BY ZenonT(30) DEF IInv, LiveInv, Alive, LiveFacts, DriverKept, WayBack, Waiting, NoLostDriver, TypeOK
<1> QED
    BY <1>1, <1>2, <1>3, Inductive, PTL DEF Spec
=============================================================================
