------------------------------ MODULE HashJoin ------------------------------
(***************************************************************************)
(* A hash join with spilling (velox/exec/HashBuild.cpp, HashProbe.cpp):    *)
(* the builders fill tables, meet at the task's barrier, and the last one  *)
(* hands the merged table to the probers through the HashJoinBridge.  What *)
(* was spilled is joined partition by partition: the last prober of a      *)
(* table picks the next partition, and the builders start again on it.     *)
(* The builders spill together, through their SpillOperatorGroup or when   *)
(* the memory arbitrator reclaims memory from the paused task.             *)
(*                                                                         *)
(* An action is what one thread does in one critical section (of the       *)
(* bridge, the group or the task) and up to the next one.  A row stands    *)
(* for a batch; Hash[key][l + 1] is its partition at spill level l.        *)
(***************************************************************************)
EXTENDS Integers, Sequences, FiniteSets, SequencesExt, FiniteSetsExt

CONSTANTS
    Builders, Probers,   \* operators of the two pipelines, one per driver
    BuilderOrder,        \* the builders in the order of Task::drivers_
    Keys, Hash,          \* join keys and their partition at each spill level
    NumPartitions,       \* partitions of a spiller
    MaxSpillLevel,       \* a partition of a deeper level is built without spiller
    Joins                \* the joins to run: type and rows of each operator

NullKey == "null"
NoRow == <<"none", "none">>
BuildRowsOf(j) == UNION {j.build[b] : b \in Builders}
ProbeRowsOf(j) == UNION {j.probe[p] : p \in Probers}

ASSUME JoinsAssumption ==
    \A j \in Joins :
        /\ j.type \in {"inner", "right", "anti"}
        /\ \A r \in BuildRowsOf(j) : r[2] \in Keys \/ (r[2] = NullKey /\ j.type = "anti")
        /\ \A r \in ProbeRowsOf(j) : r[2] \in Keys
ASSUME HashAssumption ==
    \A k \in Keys : DOMAIN Hash[k] = 1..MaxSpillLevel + 1 /\ Range(Hash[k]) \subseteq 1..NumPartitions
ASSUME OrderAssumption == IsInjective(BuilderOrder) /\ Range(BuilderOrder) = Builders

VARIABLES
    join,                       \* the member of Joins that is run
    \* HashBuild
    bstate, bpc, input, fromSpill, table, level, spilled, files, finalized, nullKeys,
    mates,                      \* the peers whose promises the last builder has taken
    \* SpillOperatorGroup
    gstate, needSpill, spillWaiters, stopped,
    \* Task: the barrier of the plan node, and the futures that are realized
    barrier, ready,
    \* HashJoinBridge
    result, restoring, shards, spillSets, promises,
    \* HashProbe
    pstate, ppc, pinput, ptable, pids, reader, pfiles, psets, lastProber, peers,
    \* the table's probed flags and what the join has returned
    probed, output

buildVars == <<bstate, bpc, input, fromSpill, table, level, spilled, files, finalized, nullKeys,
               mates>>
groupVars == <<gstate, needSpill, spillWaiters, stopped>>
bridgeVars == <<result, restoring, shards, spillSets, promises>>
probeVars == <<pstate, ppc, pinput, ptable, pids, reader, pfiles, psets, lastProber, peers>>
vars == <<join, buildVars, groupVars, barrier, ready, bridgeVars, probeVars, probed, output>>

Ids == (0..MaxSpillLevel) \X (1..NumPartitions)
NoId == <<-1, 0>>
NoFiles == [id \in Ids |-> <<>>]
NoResult == [built |-> FALSE, rows |-> {}, restored |-> NoId, ids |-> {}, nullKeys |-> FALSE]
EmptyBarrier == [requested |-> {}, waiting |-> <<>>]

\* The partition of a row at a spill level.
PartitionOf(r, l) == <<l, Hash[r[2]][l + 1]>>

\* setupSpiller creates none beyond the deepest level.
HasSpiller(b) == level[b] <= MaxSpillLevel

TypeOK ==
    /\ join \in Joins
    /\ \A b \in Builders :
        /\ bstate[b] \in {"running", "yield", "waitSpill", "waitBuild", "waitProbe", "finish"}
        /\ bpc[b] \in {"work", "arrive", "merge", "restart", "release", "post"}
        /\ fromSpill[b] \in BOOLEAN /\ spilled[b] \in BOOLEAN /\ finalized[b] \in BOOLEAN
        /\ nullKeys[b] \in BOOLEAN /\ level[b] \in 0..MaxSpillLevel + 1
        /\ table[b] \cup input[b] \cup files[b] \subseteq BuildRowsOf(join)
    /\ gstate \in {"running", "stopped"} /\ needSpill \in BOOLEAN
    /\ spillWaiters \subseteq Builders /\ stopped \subseteq Builders
    /\ barrier.requested \subseteq Builders \cup Probers
    /\ barrier.waiting \in Seq(Builders \cup Probers) /\ ready \subseteq Builders \cup Probers
    /\ result.built \in BOOLEAN /\ restoring \in Ids \cup {NoId} /\ Len(shards) <= Len(BuilderOrder)
    /\ promises \subseteq Builders \cup Probers
    /\ \A p \in Probers :
        /\ pstate[p] \in {"running", "waitBuild", "waitPeers", "finish"}
        /\ ppc[p] \in {"work", "ended", "wakePeers", "getTable"}
        /\ pinput[p] \cup reader[p].rows \cup pfiles[p] \subseteq ProbeRowsOf(join)
        /\ ptable[p] \subseteq BuildRowsOf(join) /\ pids[p] \subseteq Ids
    /\ probed \subseteq BuildRowsOf(join)

Init ==
    /\ join \in Joins
    /\ bstate = [b \in Builders |-> "running"] /\ bpc = [b \in Builders |-> "work"]
    /\ input = join.build /\ fromSpill = [b \in Builders |-> FALSE]
    /\ table = [b \in Builders |-> {}] /\ level = [b \in Builders |-> 0]
    /\ spilled = [b \in Builders |-> FALSE] /\ files = [b \in Builders |-> {}]
    /\ finalized = [b \in Builders |-> FALSE] /\ nullKeys = [b \in Builders |-> FALSE]
    /\ mates = <<>>
    /\ gstate = "running" /\ needSpill = FALSE /\ spillWaiters = {} /\ stopped = {}
    /\ barrier = EmptyBarrier /\ ready = {}
    /\ result = NoResult /\ restoring = NoId /\ shards = <<>> /\ spillSets = NoFiles /\ promises = {}
    /\ pstate = [p \in Probers |-> "running"] /\ ppc = [p \in Probers |-> "getTable"]
    /\ pinput = join.probe
    /\ ptable = [p \in Probers |-> {}] /\ pids = [p \in Probers |-> {}]
    /\ reader = [p \in Probers |-> [open |-> FALSE, rows |-> {}]]
    /\ pfiles = [p \in Probers |-> {}] /\ psets = [p \in Probers |-> [ids |-> {}, rows |-> {}]]
    /\ lastProber = [p \in Probers |-> FALSE] /\ peers = [p \in Probers |-> {}]
    /\ probed = {} /\ output = [o \in {} |-> 0]

-----------------------------------------------------------------------------
(* The spill group and the builders' input.                                *)

Active == Builders \ stopped

\* Mutant: only the operators that are still active are spilled.
SpillActive ==
    /\ files' = [b \in Builders |-> IF b \in Active THEN files[b] \cup table[b] ELSE files[b]]
    /\ table' = [b \in Builders |-> IF b \in Active THEN {} ELSE table[b]]
    /\ spilled' = [b \in Builders |-> TRUE]

\* runSpill: every operator of the group writes its table to disk, the ones
\* that have stopped too.
SpillAll ==
    /\ files' = [b \in Builders |-> files[b] \cup table[b]]
    /\ table' = [b \in Builders |-> {}]
    /\ spilled' = [b \in Builders |-> TRUE]

\* The group spills and lets the waiting operators go on.
RunGroupSpill ==
    /\ SpillAll
    /\ needSpill' = FALSE /\ spillWaiters' = {} /\ ready' = ready \cup spillWaiters

\* Where a row goes: a spilled operator writes it to disk, spillInput.
Store(b, r) ==
    /\ input' = [input EXCEPT ![b] = @ \ {r}]
    /\ IF spilled[b]
       THEN files' = [files EXCEPT ![b] = @ \cup {r}] /\ UNCHANGED table
       ELSE table' = [table EXCEPT ![b] = @ \cup {r}] /\ UNCHANGED files

CanWork(b) ==
    /\ bpc[b] = "work"
    /\ bstate[b] \in {"running", "yield"} \/ (bstate[b] = "waitSpill" /\ b \in ready)

\* addInput of a row that fits, while no peer has asked for a spill, or of any
\* row when this operator has nothing left to spill.
AddInput(b) ==
    /\ CanWork(b)
    /\ \E r \in input[b] :
          /\ ~HasSpiller(b) \/ spilled[b] \/ ~needSpill
          /\ IF r[2] = NullKey
             THEN /\ nullKeys' = [nullKeys EXCEPT ![b] = TRUE]
                  /\ input' = [input EXCEPT ![b] = {}] /\ UNCHANGED <<table, files>>
             ELSE Store(b, r) /\ UNCHANGED nullKeys
    /\ bstate' = [bstate EXCEPT ![b] = "running"] /\ ready' = ready \ {b}
    /\ UNCHANGED <<join, bpc, fromSpill, level, spilled, finalized, mates, groupVars, barrier, bridgeVars,
                   probeVars, probed, output>>

\* addInput of a row that does not fit (requestSpill), or that meets a peer's
\* request (waitSpill): the operator waits unless it is the last active one,
\* which spills for all.  The row is added afterwards.
SpillInput(b) ==
    /\ CanWork(b) /\ input[b] # {} /\ HasSpiller(b) /\ ~spilled[b]
    /\ needSpill \/ table[b] # {}
    /\ gstate = "running"
    /\ IF spillWaiters \cup {b} = Active
       THEN /\ SpillAll
            /\ needSpill' = FALSE /\ spillWaiters' = {}
            /\ ready' = (ready \ {b}) \cup spillWaiters
            /\ bstate' = [bstate EXCEPT ![b] = "running"]
       ELSE /\ needSpill' = TRUE /\ spillWaiters' = spillWaiters \cup {b}
            /\ ready' = ready \ {b}
            /\ bstate' = [bstate EXCEPT ![b] = "waitSpill"]
            /\ UNCHANGED <<files, table, spilled>>
    /\ UNCHANGED <<join, bpc, input, fromSpill, level, finalized, nullKeys, mates, gstate, stopped, barrier,
                   bridgeVars, probeVars, probed, output>>

\* processSpillInput yields between two rows of a restored partition.
Yield(b) ==
    /\ bpc[b] = "work" /\ bstate[b] = "running" /\ fromSpill[b] /\ input[b] # {}
    /\ bstate' = [bstate EXCEPT ![b] = "yield"]
    /\ UNCHANGED <<join, bpc, input, fromSpill, table, level, spilled, files, finalized, nullKeys,
                   mates, groupVars, barrier, ready, bridgeVars, probeVars, probed, output>>

\* Mutant: the operator leaves without running the spill the others wait for.
OperatorStoppedSilently(b) ==
    /\ CanWork(b) /\ input[b] = {} /\ gstate = "running"
    /\ stopped' = stopped \cup {b}
    /\ gstate' = IF stopped' = Builders THEN "stopped" ELSE "running"
    /\ bstate' = [bstate EXCEPT ![b] = "running"] /\ bpc' = [bpc EXCEPT ![b] = "arrive"]
    /\ UNCHANGED <<join, input, fromSpill, table, level, spilled, files, finalized, nullKeys, mates,
                   needSpill, spillWaiters, barrier, ready, bridgeVars, probeVars, probed, output>>

\* noMoreInputInternal: the operator leaves the group, which may be what a
\* spill was waiting for.
OperatorStopped(b) ==
    /\ CanWork(b) /\ input[b] = {} /\ gstate = "running"
    /\ stopped' = stopped \cup {b}
    /\ gstate' = IF stopped' = Builders THEN "stopped" ELSE "running"
    /\ IF needSpill /\ spillWaiters = Active \ {b}
       THEN RunGroupSpill
       ELSE UNCHANGED <<files, table, spilled, needSpill, spillWaiters, ready>>
    /\ bstate' = [bstate EXCEPT ![b] = "running"] /\ bpc' = [bpc EXCEPT ![b] = "arrive"]
    /\ UNCHANGED <<join, input, fromSpill, level, finalized, nullKeys, mates, barrier, bridgeVars, probeVars,
                   probed, output>>

-----------------------------------------------------------------------------
(* Task::allPeersFinished: one barrier per plan node, so that builders and *)
(* probers use the same one.                                               *)

\* x arrives; it is the last when all n peers of its pipeline have.
IsLast(n) == Cardinality(barrier.requested) + 1 = n

Arrive(x, n, wait) ==
    barrier' = IF IsLast(n) THEN EmptyBarrier
               ELSE [requested |-> barrier.requested \cup {x},
                     waiting |-> IF wait THEN Append(barrier.waiting, x) ELSE barrier.waiting]

\* finishHashBuild: all but the last builder wait for the merged table.
FinishHashBuild(b) ==
    /\ bpc[b] = "arrive"
    /\ Arrive(b, Cardinality(Builders), TRUE)
    /\ IF IsLast(Cardinality(Builders))
       THEN /\ bpc' = [bpc EXCEPT ![b] = "merge"] /\ mates' = barrier.waiting
            /\ UNCHANGED bstate
       ELSE /\ bpc' = [bpc EXCEPT ![b] = "work"]
            /\ bstate' = [bstate EXCEPT ![b] = "waitBuild"]
            /\ UNCHANGED mates
    /\ UNCHANGED <<join, input, fromSpill, table, level, spilled, files, finalized, nullKeys, groupVars,
                   ready, bridgeVars, probeVars, probed, output>>

-----------------------------------------------------------------------------
(* The bridge, from the build side.                                        *)

\* finishSpill of all builders, called by the last one, b: one file per builder
\* with rows in a partition, and no partition without rows.
SpilledFiles(b) ==
    [id \in Ids |->
        LET FileOf(c) == {r \in files[c] : PartitionOf(r, level[c]) = id}
            Writes(c) == HasSpiller(c) /\ level[c] = id[1] /\ FileOf(c) # {}
            order == SelectSeq(Append(mates, b), Writes)
        IN  [i \in DOMAIN order |-> FileOf(order[i])]]

AnyNullKeys == \E b \in Builders : nullKeys[b]

\* The last builder merges the tables and the spilled partitions and calls
\* setHashTable, or setAntiJoinHasNullKeys.
SetHashTable(b) ==
    /\ bpc[b] = "merge"
    /\ LET ids == {id \in Ids : SpilledFiles(b)[id] # <<>>}
       IN  IF AnyNullKeys
           THEN /\ result' = [NoResult EXCEPT !.built = TRUE, !.nullKeys = TRUE]
                /\ spillSets' = NoFiles
                /\ bpc' = [bpc EXCEPT ![b] = "release"]
                /\ UNCHANGED <<finalized, table>>
           ELSE /\ result' = [built |-> TRUE, rows |-> UNION {table[c] : c \in Builders},
                              restored |-> restoring, ids |-> ids, nullKeys |-> FALSE]
                /\ spillSets' = [id \in Ids |-> IF id \in ids THEN SpilledFiles(b)[id] ELSE spillSets[id]]
                /\ bpc' = [bpc EXCEPT ![b] = IF spillSets' # NoFiles THEN "restart" ELSE "release"]
                /\ finalized' = [c \in Builders |-> HasSpiller(c)]
                /\ table' = [c \in Builders |-> {}]
    /\ restoring' = NoId
    /\ promises' = {} /\ ready' = ready \cup promises
    /\ UNCHANGED <<join, bstate, input, fromSpill, level, spilled, files, nullKeys, mates, groupVars, barrier,
                   shards, probeVars, probed, output>>

\* Mutant: restart keeps the operators that have stopped.
RestartStopped(b) ==
    /\ bpc[b] = "restart" /\ gstate = "stopped"
    /\ gstate' = "running"
    /\ bpc' = [bpc EXCEPT ![b] = "release"]
    /\ UNCHANGED <<join, bstate, input, fromSpill, table, level, spilled, files, finalized, nullKeys, mates,
                   stopped, needSpill, spillWaiters, barrier, ready, bridgeVars, probeVars, probed, output>>

\* SpillOperatorGroup::restart, when there is spill data to restore.
Restart(b) ==
    /\ bpc[b] = "restart" /\ gstate = "stopped"
    /\ gstate' = "running" /\ stopped' = {}
    /\ bpc' = [bpc EXCEPT ![b] = "release"]
    /\ UNCHANGED <<join, bstate, input, fromSpill, table, level, spilled, files, finalized, nullKeys,
                   mates, needSpill, spillWaiters, barrier, ready, bridgeVars, probeVars, probed, output>>

\* The last builder realizes the promises of its peers.
ReleasePeers(b) ==
    /\ bpc[b] = "release"
    /\ ready' = ready \cup Range(mates) /\ mates' = <<>>
    /\ bpc' = [bpc EXCEPT ![b] = "post"]
    /\ UNCHANGED <<join, bstate, input, fromSpill, table, level, spilled, files, finalized, nullKeys,
                   groupVars, barrier, bridgeVars, probeVars, probed, output>>

CanPost(b) == bpc[b] = "post" \/ (bstate[b] \in {"waitBuild", "waitProbe"} /\ b \in ready)

\* postHashBuildProcess: spillInputOrFuture gives a shard of the partition to
\* restore, makes the builder wait for the probers, or tells it to finish.
PostHashBuild(b) ==
    /\ CanPost(b)
    /\ bpc' = [bpc EXCEPT ![b] = "work"]
    /\ ready' = ready \ {b}
    /\ IF restoring # NoId
       THEN /\ shards # <<>>
            /\ shards' = Front(shards) /\ input' = [input EXCEPT ![b] = Last(shards)]
            /\ bstate' = [bstate EXCEPT ![b] = "running"] /\ fromSpill' = [fromSpill EXCEPT ![b] = TRUE]
            /\ level' = [level EXCEPT ![b] = restoring[1] + 1]
            /\ spilled' = [spilled EXCEPT ![b] = FALSE] /\ files' = [files EXCEPT ![b] = {}]
            /\ table' = [table EXCEPT ![b] = {}] /\ finalized' = [finalized EXCEPT ![b] = FALSE]
            /\ UNCHANGED promises
       ELSE /\ bstate' = [bstate EXCEPT ![b] = IF spillSets = NoFiles THEN "finish" ELSE "waitProbe"]
            /\ promises' = IF spillSets = NoFiles THEN promises ELSE promises \cup {b}
            /\ UNCHANGED <<shards, input, fromSpill, level, spilled, files, table, finalized>>
    /\ UNCHANGED <<join, nullKeys, mates, groupVars, barrier, result, restoring, spillSets, probeVars, probed, output>>

-----------------------------------------------------------------------------
(* The memory arbitrator: HashBuild::reclaim on the paused task.           *)

\* On its thread, where a pause does not reach it.  (A builder of a restored
\* partition leaves its thread only to yield, to wait or to reserve memory, and
\* the last builder to reserve memory for the merged table.)
OnThread(b) ==
    \/ bpc[b] \in {"arrive", "restart", "release", "post"}
    \/ bpc[b] = "merge" /\ AnyNullKeys
    \/ bpc[b] = "work" /\ bstate[b] = "running" /\ fromSpill[b] /\ (~HasSpiller(b) \/ input[b] = {})

\* The task is paused once no driver is on its thread.
Paused == (\A b \in Builders : ~OnThread(b)) /\ (\A p \in Probers : ppc[p] # "wakePeers")

\* Mutant: the finished spiller of the last table is not looked at.
NonReclaimableByState(b) == bstate[b] \notin {"running", "waitBuild"}

NonReclaimableState(b) == bstate[b] \notin {"running", "waitBuild"} \/ finalized[b]

\* Reclaim by b spills all builders if every one of them is reclaimable.  (When b has a spiller
\* and a peer that is being built has none, nonReclaimableState dereferences a null pointer;
\* the process ends there, and the model has no step.)
Reclaim(b) ==
    /\ Paused /\ HasSpiller(b)
    /\ \A c \in Builders : HasSpiller(c) /\ ~NonReclaimableState(c)
    /\ \E c \in Builders : ~spilled[c]
    /\ SpillAll
    /\ UNCHANGED <<join, bstate, bpc, input, fromSpill, level, finalized, nullKeys, mates, groupVars, barrier,
                   ready, bridgeVars, probeVars, probed, output>>

-----------------------------------------------------------------------------
(* The probers.                                                            *)

Emit(rows) ==
    output' = [o \in DOMAIN output \cup rows |->
                 (IF o \in DOMAIN output THEN output[o] ELSE 0) + (IF o \in rows THEN 1 ELSE 0)]

NeedLastProbe == join.type = "right"

\* noMoreInputInternal, with what finishSpill adds to the prober's partitions.
\* Only those who have more to do after this table meet at the barrier.
ProbeInputEnds(p, newIds) ==
    LET sets == [ids |-> psets[p].ids \cup newIds,
                 rows |-> psets[p].rows \cup {<<PartitionOf(r, id[1]), r>> :
                            r \in pfiles[p], id \in newIds}]
        more == sets.ids # {}
        last == IsLast(Cardinality(Probers))
    IN  /\ psets' = [psets EXCEPT ![p] = sets]
        /\ pfiles' = [pfiles EXCEPT ![p] = {}]
        /\ IF ~NeedLastProbe /\ ~more
           THEN /\ ppc' = [ppc EXCEPT ![p] = "ended"]
                /\ pstate' = [pstate EXCEPT ![p] = "running"]
                /\ UNCHANGED <<barrier, lastProber, peers>>
           ELSE /\ Arrive(p, Cardinality(Probers), more)
                /\ lastProber' = [lastProber EXCEPT ![p] = last]
                /\ peers' = [peers EXCEPT ![p] = IF last THEN Range(barrier.waiting) ELSE {}]
                /\ ppc' = [ppc EXCEPT ![p] = "ended"]
                /\ pstate' = [pstate EXCEPT ![p] = IF more /\ ~last THEN "waitPeers" ELSE "running"]

CanGetTable(p) == ppc[p] = "getTable" \/ (pstate[p] = "waitBuild" /\ p \in ready)

\* asyncWaitForHashTable: wait for the table.
AwaitTable(p) ==
    /\ CanGetTable(p) /\ ~result.built
    /\ pstate' = [pstate EXCEPT ![p] = "waitBuild"] /\ ppc' = [ppc EXCEPT ![p] = "work"]
    /\ promises' = promises \cup {p} /\ ready' = ready \ {p}
    /\ UNCHANGED <<join, buildVars, groupVars, barrier, result, restoring, shards, spillSets, pinput,
                   ptable, pids, reader, pfiles, psets, lastProber, peers, probed, output>>

\* asyncWaitForHashTable: take the table; the prober's own rows of the restored
\* partition become its input.  Nothing is probed when the build side has null
\* keys (anti join) or is empty (inner and right join, nothing spilled).
TakeTable(p) ==
    /\ CanGetTable(p) /\ result.built
    /\ LET id == result.restored
           rows == {r \in ProbeRowsOf(join) : <<id, r>> \in psets[p].rows}
           skip == \/ result.nullKeys
                   \/ join.type # "anti" /\ result.rows = {} /\ result.ids = {}
       IN  /\ id # NoId => id \in psets[p].ids
           /\ ptable' = [ptable EXCEPT ![p] = result.rows]
           /\ pids' = [pids EXCEPT ![p] = result.ids]
           /\ reader' = [reader EXCEPT ![p] = [open |-> id # NoId, rows |-> IF skip THEN {} ELSE rows]]
           /\ psets' = [psets EXCEPT ![p].ids = @ \ {id},
                                     ![p].rows = {x \in @ : x[1] # id}]
           /\ pinput' = [pinput EXCEPT ![p] = IF skip THEN {} ELSE @]
    /\ pstate' = [pstate EXCEPT ![p] = "running"] /\ ppc' = [ppc EXCEPT ![p] = "work"]
    /\ ready' = ready \ {p}
    /\ UNCHANGED <<join, buildVars, groupVars, barrier, bridgeVars, pfiles, lastProber,
                   peers, probed, output>>

\* The row's partition was spilled at the build side.
SpillsProbe(p, r) == \E id \in pids[p] : PartitionOf(r, id[1]) = id

\* addInput and getOutput of a row: it is spilled if its partition is, and
\* probed otherwise.
Probe(p) ==
    /\ ppc[p] = "work" /\ pstate[p] = "running"
    /\ \E r \in IF reader[p].open THEN reader[p].rows ELSE pinput[p] :
          LET matches == {t \in ptable[p] : t[2] = r[2]}
          IN  /\ IF reader[p].open
                 THEN reader' = [reader EXCEPT ![p].rows = @ \ {r}] /\ UNCHANGED pinput
                 ELSE pinput' = [pinput EXCEPT ![p] = @ \ {r}] /\ UNCHANGED reader
              /\ IF SpillsProbe(p, r)
                 THEN pfiles' = [pfiles EXCEPT ![p] = @ \cup {r}] /\ UNCHANGED <<probed, output>>
                 ELSE /\ probed' = IF NeedLastProbe THEN probed \cup matches ELSE probed
                      /\ Emit(IF join.type = "anti" THEN IF matches = {} THEN {<<NoRow, r>>} ELSE {}
                              ELSE {<<t, r>> : t \in matches})
                      /\ UNCHANGED pfiles
    /\ UNCHANGED <<join, buildVars, groupVars, barrier, ready, bridgeVars, pstate, ppc,
                   ptable, pids, psets, lastProber, peers>>

\* noMoreInput, or the end of the restored partition.
ProbeNoMoreInput(p) ==
    /\ ppc[p] = "work" /\ pstate[p] = "running"
    /\ (IF reader[p].open THEN reader[p].rows ELSE pinput[p]) = {}
    /\ ProbeInputEnds(p, pids[p])
    /\ UNCHANGED <<join, buildVars, groupVars, ready, bridgeVars, pinput, ptable, pids, reader, probed, output>>

CanEnd(p) ==
    /\ ppc[p] = "ended"
    /\ pstate[p] = "running" \/ (pstate[p] = "waitPeers" /\ p \in ready)

\* The last prober of a right join returns the build rows without a match.
BuildSideOutput(p) ==
    IF NeedLastProbe /\ lastProber[p] THEN {<<t, NoRow>> : t \in ptable[p] \ probed} ELSE {}

\* getOutput at the end of the input, nothing spilled: finish.
ProbeFinish(p) ==
    /\ CanEnd(p) /\ psets[p].ids = {}
    /\ Emit(BuildSideOutput(p))
    /\ pstate' = [pstate EXCEPT ![p] = "finish"] /\ ptable' = [ptable EXCEPT ![p] = {}]
    /\ UNCHANGED <<join, buildVars, groupVars, barrier, ready, bridgeVars, ppc, pinput, pids,
                   reader, pfiles, psets, lastProber, peers, probed>>

\* Which of the spilled partitions is restored first: the begin() of the
\* ordered map, the deepest level before the others.
Before(id, other) == id[1] > other[1] \/ (id[1] = other[1] /\ id[2] < other[2])
FirstOf(sets) ==
    CHOOSE id \in Ids : /\ sets[id] # <<>>
                        /\ \A other \in Ids : sets[other] # <<>> => id = other \/ Before(id, other)

\* SpillPartition::split: consecutive files, the first shards get one more.
Split(fs, n) ==
    LET Size(i) == Len(fs) \div n + (IF i <= Len(fs) % n THEN 1 ELSE 0)
        Start(i) == (i - 1) * (Len(fs) \div n) + (IF i - 1 <= Len(fs) % n THEN i - 1 ELSE Len(fs) % n)
    IN  [i \in 1..n |-> UNION {fs[k] : k \in Start(i) + 1..Start(i) + Size(i)}]

\* getOutput at the end of the input with spill data to restore:
\* prepareForSpillRestore.  The last prober calls probeFinished.
PrepareForSpillRestore(p) ==
    /\ CanEnd(p) /\ psets[p].ids # {}
    /\ Emit(BuildSideOutput(p))
    /\ ptable' = [ptable EXCEPT ![p] = {}] /\ pids' = [pids EXCEPT ![p] = {}]
    /\ reader' = [reader EXCEPT ![p] = [open |-> FALSE, rows |-> {}]]
    /\ pstate' = [pstate EXCEPT ![p] = "running"]
    /\ lastProber' = [lastProber EXCEPT ![p] = FALSE]
    /\ IF lastProber[p]
       THEN /\ restoring' = FirstOf(spillSets)
            /\ shards' = Split(spillSets[restoring'], Cardinality(Builders))
            /\ spillSets' = [spillSets EXCEPT ![restoring'] = <<>>]
            /\ result' = NoResult
            /\ promises' = {} /\ ready' = (ready \ {p}) \cup promises
            /\ ppc' = [ppc EXCEPT ![p] = "wakePeers"]
       ELSE /\ ready' = ready \ {p} /\ ppc' = [ppc EXCEPT ![p] = "getTable"]
            /\ UNCHANGED bridgeVars
    /\ UNCHANGED <<join, buildVars, groupVars, barrier, pinput, pfiles, psets, peers, probed>>

\* Then it wakes the others.
WakePeers(p) ==
    /\ ppc[p] = "wakePeers"
    /\ ready' = ready \cup peers[p] /\ peers' = [peers EXCEPT ![p] = {}]
    /\ ppc' = [ppc EXCEPT ![p] = "getTable"]
    /\ UNCHANGED <<join, buildVars, groupVars, barrier, bridgeVars, pstate, pinput, ptable,
                   pids, reader, pfiles, psets, lastProber, probed, output>>

-----------------------------------------------------------------------------

Build(b) ==
    \/ AddInput(b) \/ OperatorStopped(b) \/ FinishHashBuild(b) \/ SetHashTable(b) \/ Restart(b)
    \/ ReleasePeers(b) \/ PostHashBuild(b)

ProbeStep(p) ==
    \/ AwaitTable(p) \/ TakeTable(p) \/ Probe(p) \/ ProbeNoMoreInput(p) \/ ProbeFinish(p)
    \/ PrepareForSpillRestore(p) \/ WakePeers(p)

Progress ==
    \/ \E b \in Builders : Build(b) \/ SpillInput(b)
    \/ \E p \in Probers : ProbeStep(p)

Next == Progress \/ \E b \in Builders : Yield(b) \/ Reclaim(b)

Spec == Init /\ [][Next]_vars

\* The executor always runs some driver that can run.
FairSpec == Spec /\ WF_vars(Progress)

-----------------------------------------------------------------------------
(* Properties.                                                             *)

\* The rows a join returns: pairs of a build and a probe row.
Expected ==
    LET Match(t) == {r \in ProbeRowsOf(join) : r[2] = t[2]}
        pairs == UNION {{<<t, r>> : r \in Match(t)} : t \in BuildRowsOf(join)}
    IN  CASE join.type = "inner" -> pairs
          [] join.type = "right" -> pairs \cup {<<t, NoRow>> : t \in {u \in BuildRowsOf(join) : Match(u) = {}}}
          [] join.type = "anti"  ->
                IF \E t \in BuildRowsOf(join) : t[2] = NullKey THEN {}
                ELSE {<<NoRow, r>> : r \in {q \in ProbeRowsOf(join) :
                                              \A t \in BuildRowsOf(join) : t[2] # q[2]}}

\* The join returns every row it should, once, however its rows were spilled,
\* restored and spilled again on the two sides.
JoinResult ==
    /\ \A o \in DOMAIN output : o \in Expected /\ output[o] = 1
    /\ (\A p \in Probers : pstate[p] = "finish") => DOMAIN output = Expected

\* The checks of SpillOperatorGroup hold: a builder that adds rows, stops or
\* waits finds the group running with itself in it, and restart finds the
\* group stopped, with nobody waiting.  So do those of the bridge: no second
\* table, no partition left over under the id of a new one, no shard left
\* over, one for each builder that asks for one, and for every prober the
\* partition that was restored.
ChecksHold ==
    /\ \A b \in Builders : CanWork(b) => gstate = "running" /\ b \notin stopped /\ b \notin spillWaiters
    /\ \A b \in Builders : bpc[b] = "restart" => gstate = "stopped"
    /\ gstate = "stopped" => ~needSpill /\ spillWaiters = {}
    /\ needSpill => spillWaiters # {} /\ spillWaiters # Active
    /\ \A b \in Builders : bpc[b] = "merge" =>
          /\ ~result.built /\ shards = <<>>
          /\ \A id \in Ids : SpilledFiles(b)[id] # <<>> =>
                spillSets[id] = <<>> /\ (restoring # NoId => restoring[1] < id[1])
    /\ result.built => restoring = NoId /\ shards = <<>>
    /\ \A b \in Builders : CanPost(b) /\ restoring # NoId => shards # <<>>
    /\ \A p \in Probers :
          /\ CanGetTable(p) /\ result.built /\ result.restored # NoId => result.restored \in psets[p].ids
          /\ CanEnd(p) /\ psets[p].ids # {} /\ lastProber[p] => result.built /\ spillSets # NoFiles

\* The operators are spilled together only while each has the spiller of the
\* table under construction, not one that was finished with the last table.
SpillerLive(b) == HasSpiller(b) /\ ~finalized[b] /\ ~spilled[b]
SpillsLiveTable == [][spilled' # spilled /\ (\A b \in Builders : spilled'[b])
                        => \A b, c \in Builders : SpillerLive(b) /\ level[b] = level[c]]_vars

\* Every operator of both pipelines finishes.
AllFinish ==
    <>((\A b \in Builders : bstate[b] = "finish") /\ (\A p \in Probers : pstate[p] = "finish"))
=============================================================================
