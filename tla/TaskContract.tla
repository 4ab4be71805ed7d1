---------------------------- MODULE TaskContract ----------------------------
(***************************************************************************)
(* What a Task promises about its Drivers, without threads, queues or      *)
(* futures.  A driver runs only while nobody holds the task and the task   *)
(* is not terminated; a holder (memory reclaim) gets the task only when no *)
(* driver runs; a driver told to terminate drains and is closed, for good. *)
(***************************************************************************)
CONSTANT Drivers

VARIABLES mode, held, terminated

vars == <<mode, held, terminated>>

Init ==
    /\ mode = [d \in Drivers |-> "parked"]
    /\ held = FALSE
    /\ terminated = FALSE

Run(d) ==
    /\ mode[d] = "parked" /\ ~held /\ ~terminated
    /\ mode' = [mode EXCEPT ![d] = "running"]
    /\ UNCHANGED <<held, terminated>>

Park(d) ==
    /\ mode[d] = "running"
    /\ mode' = [mode EXCEPT ![d] = "parked"]
    /\ UNCHANGED <<held, terminated>>

Drained(ds) == [d \in Drivers |-> IF d \in ds /\ mode[d] # "closed" THEN "draining" ELSE mode[d]]

(* One driver fails, or the whole task ends and tells some drivers so.     *)
Drain(ds) ==
    /\ mode' = Drained(ds)
    /\ terminated' \in {terminated, TRUE}
    /\ UNCHANGED held

Close(d) ==
    /\ mode[d] \in {"running", "draining"}
    /\ mode' = [mode EXCEPT ![d] = "closed"]
    /\ UNCHANGED <<held, terminated>>

Hold ==
    /\ ~terminated /\ \A d \in Drivers : mode[d] # "running"
    /\ held' = TRUE
    /\ UNCHANGED <<mode, terminated>>

Release ==
    /\ held' = FALSE
    /\ UNCHANGED <<mode, terminated>>

Next ==
    \/ \E d \in Drivers : Run(d) \/ Park(d) \/ Close(d)
    \/ \E ds \in SUBSET Drivers : Drain(ds)
    \/ Hold \/ Release

Spec == Init /\ [][Next]_vars
=============================================================================
