---------------------------- MODULE SplitsProofs ----------------------------
(***************************************************************************)
(* The splits of a task, for every plan and any number of splits, drivers  *)
(* and groups.  No remote split is lost: what a client sends to an         *)
(* exchange is in the store of the node or with the exchange client, and   *)
(* the end of the task empties the stores.  No driver sleeps on a split: a *)
(* store that has promises has no more splits than the drivers that are    *)
(* awake can take, and is not at its end.                                  *)
(***************************************************************************)
EXTENDS Splits, FiniteSetTheorems, TLAPS

-----------------------------------------------------------------------------
(* Stores                                                                  *)

\* s is a SplitsStore.
IsStore(s) ==
    /\ s = [splits |-> s.splits, end |-> s.end, promises |-> s.promises]
    /\ s.splits \in Seq(Nat)

\* Every store of every node is one.
StoresTyped ==
    /\ stores = [n \in Nodes |-> stores[n]]
    /\ \A n \in Nodes : \A g \in DOMAIN stores[n] : IsStore(stores[n][g])

\* Store g of node n is s after the step, and the others are as they were.
StoreSet(n, g, s) ==
    /\ stores' = [m \in Nodes |-> stores'[m]]
    /\ \A m \in Nodes \ {n} : stores'[m] = stores[m]
    /\ DOMAIN stores'[n] = DOMAIN stores[n] \cup {g} /\ stores'[n][g] = s
    /\ \A h \in DOMAIN stores[n] \ {g} : stores'[n][h] = stores[n][h]

(* The store of a group that has none yet is an empty one. *)
LEMMA StoreTyped ==
    ASSUME StoresTyped, NEW n \in Nodes, NEW g
    PROVE  IsStore(Store(n, g))
<1>1. CASE g \in DOMAIN stores[n]
    BY Zenon, <1>1 DEF StoresTyped, Store
<1>2. CASE g \notin DOMAIN stores[n]
  <2>1. IsStore(NoStore)
      BY DEF NoStore, IsStore
  <2> QED
      BY Zenon, <1>2, <2>1 DEF Store
<1> QED
    BY Zenon, <1>1, <1>2

(* The assignment to an element of the map *)
LEMMA SetStoreFacts ==
    ASSUME StoresTyped, NEW n \in Nodes, NEW g, NEW s, SetStore(n, g, s)
    PROVE  StoreSet(n, g, s)
<1>1. stores = [m \in Nodes |-> stores[m]]
    BY Zenon DEF StoresTyped
<1>2. stores' = [stores EXCEPT ![n] = [h \in DOMAIN stores[n] \cup {g} |-> IF h = g THEN s ELSE stores[n][h]]]
    BY Zenon DEF SetStore
<1> QED
    BY Zenon, <1>1, <1>2 DEF StoreSet, StoresTyped

(* keeps the stores well-formed, *)
LEMMA SetStoreTyped ==
    ASSUME StoresTyped, NEW n \in Nodes, NEW g, NEW s, IsStore(s), StoreSet(n, g, s)
    PROVE  StoresTyped'
<1>1. ASSUME NEW m \in Nodes, NEW h \in DOMAIN stores'[m] PROVE IsStore(stores'[m][h])
  <2>1. CASE m # n
      BY Zenon, <1>1, <2>1 DEF StoreSet, StoresTyped
  <2>2. CASE m = n /\ h = g
      BY Zenon, <2>2 DEF StoreSet
  <2>3. CASE m = n /\ h # g
    <3>1. h \in DOMAIN stores[n] \ {g}
        BY Zenon, <1>1, <2>3 DEF StoreSet
    <3> QED
        BY Zenon, <2>3, <3>1 DEF StoreSet, StoresTyped
  <2> QED
      BY Zenon, <2>1, <2>2, <2>3
<1>2. stores' = [m \in Nodes |-> stores'[m]]
    BY Zenon DEF StoreSet
<1> QED
    BY Zenon, <1>1, <1>2 DEF StoresTyped

(* and keeps the splits of all stores but the one that is set. *)
LEMMA SetStoreStored ==
    ASSUME StoresTyped, NEW n \in Nodes, NEW g, NEW s, StoreSet(n, g, s)
    PROVE  /\ \A m \in Nodes \ {n} : Stored(m)' = Stored(m)
           /\ Stored(n)' \subseteq Stored(n) \cup Range(s.splits)
           /\ Range(s.splits) \subseteq Stored(n)'
           /\ Stored(n) \ Range(Store(n, g).splits) \subseteq Stored(n)'
<1>1. \A m \in Nodes \ {n} : Stored(m)' = Stored(m)
    BY DEF StoreSet, Stored
<1>2. Stored(n)' \subseteq Stored(n) \cup Range(s.splits)
  <2> SUFFICES ASSUME NEW i \in Stored(n)', i \notin Range(s.splits) PROVE i \in Stored(n)
      BY Zenon
  <2>1. PICK h \in DOMAIN stores'[n] : i \in Range(stores'[n][h].splits)
      BY Zenon DEF Stored
  <2>2. h \in DOMAIN stores[n] \ {g}
      BY Zenon, <2>1 DEF StoreSet
  <2>3. i \in Range(stores[n][h].splits)
      BY Zenon, <2>1, <2>2 DEF StoreSet
  <2> QED
      BY Zenon, <2>2, <2>3 DEF Stored
<1>3. Range(s.splits) \subseteq Stored(n)'
    BY Zenon DEF StoreSet, Stored
<1>4. Stored(n) \ Range(Store(n, g).splits) \subseteq Stored(n)'
  <2> SUFFICES ASSUME NEW i \in Stored(n), i \notin Range(Store(n, g).splits) PROVE i \in Stored(n)'
      BY Zenon
  <2>1. PICK h \in DOMAIN stores[n] : i \in Range(stores[n][h].splits)
      BY Zenon DEF Stored
  <2>2. h # g
      BY Zenon, <2>1 DEF Store
  <2>3. h \in DOMAIN stores'[n] /\ i \in Range(stores'[n][h].splits)
      BY Zenon, <2>1, <2>2 DEF StoreSet
  <2> QED
      BY Zenon, <2>3 DEF Stored
<1> QED
    BY Zenon, <1>1, <1>2, <1>3, <1>4

-----------------------------------------------------------------------------
(* The inductive invariant                                                 *)

Base ==
    /\ plan \in Plans /\ StoresTyped
    /\ sent \in [Nodes -> Nat] /\ maxSequenceId \in [Nodes -> Nat]
    /\ \A n \in Nodes : maxSequenceId[n] <= sent[n]
    /\ clients \in [plan.remote -> {"none", "open", "closed"}]
    /\ \A d \in DOMAIN at : d.node \in Nodes
    /\ terminating # "no" => ~IsRunning
    /\ \A n \in plan.remote : clients[n] = "closed" => ~IsRunning

\* A remote split that was sent is in the store or with the exchange client, unless the
\* task ended before there was a client.
Kept ==
    \A n \in plan.remote : IsRunning \/ clients[n] = "closed" =>
        \A i \in 1..sent[n] : <<n, i>> \in handed \/ i \in Stored(n)

\* After the end the stores of the exchanges are empty.
Emptied == \A n \in plan.remote : terminating = "done" /\ clients[n] = "closed" => Stored(n) = {}

RemoteInv == Base /\ Kept /\ Emptied

(* What the plans are *)
LEMMA PlanFacts ==
    ASSUME Base
    PROVE  /\ plan.remote \subseteq Nodes /\ plan.remote \cap plan.grouped = {} /\ plan.grouped \subseteq Nodes
           /\ plan.splits \in [Nodes -> Seq(AllGroups)]
           /\ \A n \in plan.remote : \A i \in SplitsOf(n) : plan.splits[n][i] = Ungrouped
<1>1. plan \in Plans /\ plan \in PlanRecord
    BY Zenon, SplitsAssumption DEF Base
<1>2. plan.remote \cap plan.grouped = {}
    BY Zenon, <1>1, SplitsAssumption
<1>3. plan.remote \subseteq Nodes /\ plan.splits \in [Nodes -> Seq(AllGroups)] /\ plan.grouped \subseteq Nodes
    BY Zenon, <1>1 DEF PlanRecord
<1>4. ASSUME NEW n \in plan.remote, NEW i \in SplitsOf(n) PROVE plan.splits[n][i] = Ungrouped
  <2>1. n \in Nodes /\ n \notin plan.grouped
      BY Zenon, <1>2, <1>3
  <2>2. Range(plan.splits[n]) \subseteq IF n \in plan.grouped THEN Groups ELSE {Ungrouped}
      BY Zenon, <1>1, <2>1, SplitsAssumption
  <2> QED
      BY Zenon, <2>1, <2>2 DEF SplitsOf, Range
<1> QED
    BY Zenon, <1>2, <1>3, <1>4

(* A step that moves no split *)
LEMMA Frame ==
    ASSUME RemoteInv, UNCHANGED <<plan, stores, sent, clients, handed, terminating, maxSequenceId>>,
           DOMAIN at' = DOMAIN at, IsRunning' => IsRunning
    PROVE  RemoteInv'
<1>1. \A n : Stored(n)' = Stored(n)
    BY Zenon DEF Stored
<1>2. Base'
  <2>1. StoresTyped'
      BY Zenon DEF RemoteInv, Base, StoresTyped
  <2> QED
      BY Zenon, <2>1 DEF RemoteInv, Base
<1>3. Kept'
    BY Zenon, <1>1 DEF RemoteInv, Kept
<1>4. Emptied'
    BY Zenon, <1>1 DEF RemoteInv, Emptied
<1> QED
    BY Zenon, <1>2, <1>3, <1>4 DEF RemoteInv

(* The creation of drivers *)
LEMMA EnsureFacts ==
    ASSUME NEW concurrent, NEW slots, NEW queue, NEW numRunning, NEW drivers, NEW numLeft,
           EnsureProcessed(concurrent, slots, queue, numRunning, drivers, numLeft)
    PROVE  DOMAIN at' = DOMAIN at /\ (IsRunning' => IsRunning)
    BY Zenon DEF EnsureProcessed, IsRunning

(* Task::start moves no split. *)
LEMMA StartKeeps ==
    ASSUME RemoteInv, StartStep
    PROVE  RemoteInv'
<1>1. CASE PlanDrivers \/ StartTooLate \/ CheckRunning \/ StartFails
  <2>1. UNCHANGED <<plan, stores, sent, clients, handed, terminating, maxSequenceId, at, state_>>
      BY Zenon, <1>1 DEF PlanDrivers, StartTooLate, CheckRunning, StartFails, taskVars, storeVars, groupVars, driverVars, clientVars
  <2> QED
      BY Zenon, <2>1, Frame DEF IsRunning
<1>2. CASE CreateAndStartDrivers
  <2>1. UNCHANGED <<plan, stores, sent, clients, handed, terminating, maxSequenceId>>
      BY Zenon, <1>2 DEF CreateAndStartDrivers, storeVars, driverVars, clientVars
  <2>2. DOMAIN at' = DOMAIN at /\ (IsRunning' => IsRunning)
      BY Zenon, <1>2, EnsureFacts DEF CreateAndStartDrivers
  <2> QED
      BY Zenon, <2>1, <2>2, Frame
<1>3. CASE InitializePartitionOutput
  <2>1. /\ UNCHANGED <<plan, stores, sent, handed, terminating, maxSequenceId, at, state_>>
        /\ clients' = [n \in plan.remote |-> "open"]
      BY Zenon, <1>3 DEF InitializePartitionOutput, taskVars, storeVars, groupVars, driverVars, clientVars
  <2>2. StoresTyped' /\ \A n : Stored(n)' = Stored(n)
      BY Zenon, <2>1 DEF RemoteInv, Base, StoresTyped, Stored
  <2>3. Base'
      BY Zenon, <2>1, <2>2 DEF RemoteInv, Base, IsRunning
  <2>4. Kept' /\ Emptied'
      BY Zenon, <2>1, <2>2 DEF RemoteInv, Kept, Emptied, IsRunning
  <2> QED
      BY Zenon, <2>3, <2>4 DEF RemoteInv
<1> QED
    BY Zenon, <1>1, <1>2, <1>3 DEF StartStep

(* One split is put into a store. *)
LEMMA AddToStore ==
    ASSUME StoresTyped, NEW n \in Nodes, NEW g, NEW i \in Nat, AddSplitToStore(n, g, i)
    PROVE  StoresTyped' /\ i \in Stored(n)' /\ \A m \in Nodes : Stored(m) \subseteq Stored(m)'
<1> DEFINE s == Store(n, g)
           t == [splits |-> Append(s.splits, i), end |-> s.end, promises |-> Front(s.promises)]
<1>1. IsStore(s)
    BY Zenon, StoreTyped
<1>2. /\ t.splits = Append(s.splits, i) /\ IsStore(t)
      /\ Range(t.splits) = Range(s.splits) \cup {i}
  <2>1. s = [splits |-> s.splits, end |-> s.end, promises |-> s.promises] /\ s.splits \in Seq(Nat)
      BY Zenon, <1>1 DEF IsStore
  <2> HIDE DEF s
  <2>3. Append(s.splits, i) \in Seq(Nat) /\ Range(Append(s.splits, i)) = Range(s.splits) \cup {i}
    <3> DEFINE q == s.splits
               r == Append(q, i)
    <3>1. /\ q \in Seq(Nat) /\ r \in Seq(Nat) /\ DOMAIN q = 1..Len(q) /\ DOMAIN r = 1..(Len(q) + 1)
          /\ Len(q) \in Nat /\ r[Len(q) + 1] = i /\ \A j \in 1..Len(q) : r[j] = q[j]
        BY <2>1
    <3> HIDE DEF q, r
    <3>2. Range(r) \subseteq Range(q) \cup {i}
      <4> SUFFICES ASSUME NEW j \in 1..(Len(q) + 1) PROVE r[j] \in Range(q) \cup {i}
          BY Zenon, <3>1 DEF Range
      <4>1. CASE j = Len(q) + 1
          BY Zenon, <3>1, <4>1
      <4>2. CASE j \in 1..Len(q)
        <5>1. r[j] = q[j] /\ j \in DOMAIN q
            BY Zenon, <3>1, <4>2
        <5> QED
            BY Zenon, <5>1 DEF Range
      <4> QED
          BY <3>1, <4>1, <4>2
    <3>3. Range(q) \cup {i} \subseteq Range(r)
        BY <3>1 DEF Range
    <3> QED
        BY Zenon, <3>1, <3>2, <3>3 DEF q, r
  <2> QED
      BY Zenon, <2>3 DEF IsStore
<1>3. SetStore(n, g, t)
    BY Zenon DEF AddSplitToStore
<1> HIDE DEF t
<1>4. StoreSet(n, g, t)
    BY Zenon, <1>3, SetStoreFacts
<1>5. StoresTyped'
    BY Zenon, <1>2, <1>4, SetStoreTyped
<1>6. /\ \A m \in Nodes \ {n} : Stored(m)' = Stored(m)
      /\ Range(t.splits) \subseteq Stored(n)'
      /\ Stored(n) \ Range(s.splits) \subseteq Stored(n)'
    BY Zenon, <1>4, SetStoreStored
<1> QED
    BY Zenon, <1>2, <1>5, <1>6

(* addSplitLocked puts the split of an exchange into its store, and takes  *)
(* none out.                                                               *)
LEMMA AddLocked ==
    ASSUME Base, NEW n \in Nodes, NEW i \in SplitsOf(n), AddSplitLocked(n, i)
    PROVE  /\ StoresTyped' /\ DOMAIN at' = DOMAIN at /\ (IsRunning' => IsRunning)
           /\ n \in plan.remote => i \in Stored(n)'
           /\ \A m \in Nodes : Stored(m) \subseteq Stored(m)'
<1> DEFINE g == plan.splits[n][i]
<1>1. i \in Nat /\ StoresTyped
  <2>1. plan.splits[n] \in Seq(AllGroups)
      BY Zenon, PlanFacts
  <2> QED
      BY <2>1 DEF SplitsOf, Base
<1>2. n \in plan.remote => g = Ungrouped
    BY Zenon, PlanFacts
<1>3. CASE g = Ungrouped \/ g \in seen
  <2>1. AddSplitToStore(n, g, i) /\ UNCHANGED <<at, state_>>
      BY Zenon, <1>3 DEF AddSplitLocked, groupVars
  <2>2. StoresTyped' /\ i \in Stored(n)' /\ \A m \in Nodes : Stored(m) \subseteq Stored(m)'
      BY Zenon, <1>1, <2>1, AddToStore
  <2> QED
      BY Zenon, <2>1, <2>2 DEF IsRunning
<1>4. CASE ~(g = Ungrouped \/ g \in seen)
  <2>1. n \notin plan.remote /\ AddFirstSplit(n, g, i)
      BY Zenon, <1>2, <1>4 DEF AddSplitLocked
  <2>2. CASE start \in {"planned", "checked"}
    <3>1. UNCHANGED <<at, state_, stores>>
        BY Zenon, <2>1, <2>2 DEF AddFirstSplit
    <3> QED
        BY Zenon, <1>1, <2>1, <3>1 DEF StoresTyped, Stored, IsRunning
  <2>3. CASE start \notin {"planned", "checked"}
    <3>1. /\ EnsureProcessed(IF Started THEN plan.concurrent ELSE 1, Slots, Append(queued, g), running, at, left)
          /\ AddSplitToStore(n, g, i)
        BY Zenon, <2>1, <2>3 DEF AddFirstSplit
    <3>2. StoresTyped' /\ i \in Stored(n)' /\ \A m \in Nodes : Stored(m) \subseteq Stored(m)'
        BY Zenon, <1>1, <3>1, AddToStore
    <3> QED
        BY Zenon, <2>1, <3>1, <3>2, EnsureFacts
  <2> QED
      BY Zenon, <2>2, <2>3
<1> QED
    BY Zenon, <1>3, <1>4

(* A split with number i is sent to node n: while the task runs it goes to *)
(* the store unless it is an old one, later to the exchange client.        *)
LEMMA SplitSent ==
    ASSUME RemoteInv, NEW n \in Nodes, NEW i \in SplitsOf(n),
           UNCHANGED <<plan, clients, terminating, maxSequenceId>>,
           \/ i = sent[n] + 1 /\ sent' = [sent EXCEPT ![n] = i]
           \/ i <= sent[n] /\ sent' = sent,
           \/ IsRunning /\ AddSplitLocked(n, i) /\ handed' = handed
           \/ IsRunning /\ i <= sent[n] /\ UNCHANGED <<at, state_, stores, handed>>
           \/ ~IsRunning /\ AddRemoteSplit(n, i) /\ UNCHANGED <<at, state_, stores>>
    PROVE  RemoteInv'
<1>1. Base
    BY Zenon DEF RemoteInv
<1>2. /\ StoresTyped' /\ DOMAIN at' = DOMAIN at /\ (IsRunning' => IsRunning)
      /\ \A m \in Nodes : Stored(m) \subseteq Stored(m)'
      /\ handed \subseteq handed'
      /\ ~IsRunning => \A m \in Nodes : Stored(m)' = Stored(m)
  <2>1. CASE IsRunning /\ AddSplitLocked(n, i) /\ handed' = handed
      BY Zenon, <1>1, <2>1, AddLocked
  <2>2. CASE UNCHANGED <<at, state_, stores>> /\ handed \subseteq handed'
    <3>1. StoresTyped' /\ \A m : Stored(m)' = Stored(m)
        BY ZenonT(30), <1>1, <2>2 DEF Base, StoresTyped, Stored
    <3> QED
        BY Zenon, <2>2, <3>1 DEF IsRunning
  <2>3. AddRemoteSplit(n, i) => handed \subseteq handed'
      BY Zenon DEF AddRemoteSplit
  <2> QED
      BY Zenon, <2>1, <2>2, <2>3
<1>3. /\ sent \in [Nodes -> Nat] /\ sent' \in [Nodes -> Nat] /\ \A m \in Nodes \ {n} : sent'[m] = sent[m]
      /\ sent'[n] \in {sent[n], i} /\ sent[n] <= sent'[n] /\ i \in Nat /\ sent'[n] <= sent[n] + 1
      /\ \A j \in 1..sent'[n] : j \in 1..sent[n] \/ (j = i /\ i = sent[n] + 1)
  <2>1. i \in Nat
    <3>1. plan.splits[n] \in Seq(AllGroups)
        BY Zenon, <1>1, PlanFacts
    <3> QED
        BY <3>1 DEF SplitsOf
  <2>2. sent \in [Nodes -> Nat]
      BY Zenon, <1>1 DEF Base
  <2> QED
      BY <2>1, <2>2
<1>4. Base'
  <2>1. \A m \in Nodes : maxSequenceId'[m] <= sent'[m]
    <3>1. maxSequenceId \in [Nodes -> Nat] /\ \A m \in Nodes : maxSequenceId[m] <= sent[m]
        BY Zenon, <1>1 DEF Base
    <3>2. \A m \in Nodes : sent[m] <= sent'[m] /\ sent[m] \in Nat /\ sent'[m] \in Nat
        BY <1>3
    <3> QED
        BY <3>1, <3>2
  <2> QED
      BY Zenon, <1>1, <1>2, <1>3, <2>1 DEF Base
<1>5. Kept'
  <2> SUFFICES ASSUME NEW m \in plan.remote, IsRunning' \/ clients[m] = "closed", NEW j \in 1..sent'[m]
               PROVE  <<m, j>> \in handed' \/ j \in Stored(m)'
      BY Zenon DEF Kept
  <2>1. m \in Nodes /\ (IsRunning \/ clients[m] = "closed")
      BY Zenon, <1>1, <1>2, PlanFacts
  <2>2. CASE j \in 1..sent[m]
    <3>1. <<m, j>> \in handed \/ j \in Stored(m)
        BY Zenon, <2>1, <2>2 DEF RemoteInv, Kept
    <3>2. Stored(m) \subseteq Stored(m)' /\ handed \subseteq handed'
        BY Zenon, <1>2, <2>1
    <3> QED
        BY Zenon, <3>1, <3>2
  <2>3. CASE m = n /\ j = i /\ i = sent[n] + 1
    <3>1. ~(i <= sent[n])
        BY <1>3, <2>3
    <3>2. CASE IsRunning
        BY Zenon, <1>1, <2>3, <3>1, <3>2, AddLocked
    <3>3. CASE ~IsRunning
      <4>1. clients[m] = "closed" /\ m \in Clients
          BY Zenon, <2>1, <3>3 DEF Clients
      <4>2. AddRemoteSplit(n, i)
          BY Zenon, <3>3
      <4> QED
          BY Zenon, <2>3, <4>1, <4>2 DEF AddRemoteSplit
    <3> QED
        BY Zenon, <3>2, <3>3
  <2>4. j \in 1..sent[m] \/ (m = n /\ j = i /\ i = sent[n] + 1)
    <3>1. CASE m = n
        BY Zenon, <1>3, <3>1
    <3>2. CASE m # n
      <4>1. sent'[m] = sent[m]
          BY Zenon, <1>3, <2>1, <3>2
      <4> QED
          BY Zenon, <4>1
    <3> QED
        BY Zenon, <3>1, <3>2
  <2> QED
      BY Zenon, <2>2, <2>3, <2>4
<1>6. Emptied'
  <2> SUFFICES ASSUME NEW m \in plan.remote, terminating = "done", clients[m] = "closed" PROVE Stored(m)' = {}
      BY Zenon DEF Emptied
  <2>1. m \in Nodes /\ ~IsRunning /\ Stored(m) = {}
      BY Zenon, <1>1, PlanFacts DEF RemoteInv, Base, Emptied
  <2> QED
      BY Zenon, <1>2, <2>1
<1> QED
    BY Zenon, <1>4, <1>5, <1>6 DEF RemoteInv

(* The other steps that change stores: the splits of the exchanges stay.  *)
LEMMA SplitsStay ==
    ASSUME RemoteInv, UNCHANGED <<plan, sent, clients, handed, terminating, maxSequenceId>>,
           DOMAIN at' = DOMAIN at, IsRunning' => IsRunning, StoresTyped',
           \A n \in plan.remote : Stored(n)' = Stored(n)
    PROVE  RemoteInv'
<1>1. Base'
    BY Zenon DEF RemoteInv, Base
<1>2. Kept' /\ Emptied'
    BY Zenon DEF RemoteInv, Kept, Emptied
<1> QED
    BY Zenon, <1>1, <1>2 DEF RemoteInv

(* The calls of the client *)
LEMMA ClientKeeps ==
    ASSUME RemoteInv, NEW n \in Nodes, ClientStep(n)
    PROVE  RemoteInv'
<1>1. Base /\ StoresTyped /\ sent \in [Nodes -> Nat] /\ maxSequenceId \in [Nodes -> Nat]
    BY Zenon DEF RemoteInv, Base
<1>2. CASE AddSplit(n)
  <2>1. sent[n] + 1 \in SplitsOf(n)
    <3>1. plan.splits[n] \in Seq(AllGroups) /\ sent[n] \in Nat /\ sent[n] < Len(plan.splits[n])
        BY Zenon, <1>1, <1>2, PlanFacts DEF AddSplit
    <3> QED
        BY <3>1 DEF SplitsOf
  <2>2. /\ UNCHANGED <<plan, clients, terminating, maxSequenceId>>
        /\ sent' = [sent EXCEPT ![n] = sent[n] + 1]
      BY Zenon, <1>2 DEF AddSplit, startVars
  <2>3. \/ IsRunning /\ AddSplitLocked(n, sent[n] + 1) /\ handed' = handed
        \/ ~IsRunning /\ AddRemoteSplit(n, sent[n] + 1) /\ UNCHANGED <<at, state_, stores>>
      BY Zenon, <1>2 DEF AddSplit, groupVars
  <2> QED
      BY Zenon, <2>1, <2>2, <2>3, SplitSent
<1>3. CASE AddSplitWithSequence(n)
  <2>1. PICK i \in SplitsOf(n) :
          /\ \/ i = sent[n] + 1 /\ sent' = [sent EXCEPT ![n] = i]
             \/ i <= sent[n] /\ sent' = sent
          /\ \/ IsRunning /\ AddSplitLocked(n, i) /\ handed' = handed
             \/ IsRunning /\ i <= maxSequenceId[n] /\ UNCHANGED <<at, state_, stores, handed>>
             \/ ~IsRunning /\ AddRemoteSplit(n, i) /\ UNCHANGED <<at, state_, stores>>
          /\ UNCHANGED <<plan, clients, terminating, maxSequenceId>>
      BY Zenon, <1>3 DEF AddSplitWithSequence, groupVars, startVars
  <2>2. i <= maxSequenceId[n] => i <= sent[n]
    <3>1. i \in Nat /\ maxSequenceId[n] \in Nat /\ sent[n] \in Nat /\ maxSequenceId[n] <= sent[n]
      <4>1. plan.splits[n] \in Seq(AllGroups)
          BY Zenon, <1>1, PlanFacts
      <4>2. i \in Nat
          BY <4>1 DEF SplitsOf
      <4> QED
          BY Zenon, <1>1, <4>2 DEF Base
    <3> QED
        BY <3>1
  <2> QED
      BY Zenon, <2>1, <2>2, SplitSent
<1>4. CASE SetMaxSplitSequenceId(n)
  <2>1. /\ UNCHANGED <<plan, sent, clients, handed, terminating, stores, at, state_>>
        /\ maxSequenceId' = [maxSequenceId EXCEPT ![n] = sent[n]]
      BY Zenon, <1>4 DEF SetMaxSplitSequenceId, startVars, taskVars, groupVars, driverVars, clientVars
  <2>2. maxSequenceId' \in [Nodes -> Nat] /\ \A m \in Nodes : maxSequenceId'[m] <= sent'[m]
      BY <1>1, <2>1 DEF Base
  <2>3. StoresTyped' /\ \A m : Stored(m)' = Stored(m)
      BY Zenon, <1>1, <2>1 DEF StoresTyped, Stored
  <2>4. Base'
      BY Zenon, <1>1, <2>1, <2>2, <2>3 DEF Base, IsRunning
  <2>5. Kept' /\ Emptied'
      BY Zenon, <2>1, <2>3 DEF RemoteInv, Kept, Emptied, IsRunning
  <2> QED
      BY Zenon, <2>4, <2>5 DEF RemoteInv
<1>5. CASE \E g \in Groups : NoMoreSplitsForGroup(n, g)
  <2>1. PICK g \in Groups : NoMoreSplitsForGroup(n, g)
      BY Zenon, <1>5
  <2> DEFINE s == [splits |-> Store(n, g).splits, end |-> TRUE, promises |-> <<>>]
  <2>2. /\ n \in plan.grouped /\ SetStore(n, g, s)
        /\ UNCHANGED <<plan, sent, clients, handed, terminating, maxSequenceId, at, state_>>
      BY Zenon, <2>1 DEF NoMoreSplitsForGroup, startVars, taskVars, driverVars
  <2>3. IsStore(s)
      BY Zenon, <1>1, StoreTyped DEF IsStore
  <2> HIDE DEF s
  <2>4. StoreSet(n, g, s)
      BY Zenon, <1>1, <2>2, SetStoreFacts
  <2>5. StoresTyped' /\ \A m \in Nodes \ {n} : Stored(m)' = Stored(m)
      BY Zenon, <1>1, <2>3, <2>4, SetStoreTyped, SetStoreStored
  <2>6. \A m \in plan.remote : Stored(m)' = Stored(m)
      BY Zenon, <1>1, <2>2, <2>5, PlanFacts
  <2> QED
      BY Zenon, <2>2, <2>5, <2>6, SplitsStay DEF IsRunning
<1>6. CASE NoMoreSplits(n)
  <2>1. /\ EndStores(n)
        /\ UNCHANGED <<plan, sent, clients, handed, terminating, maxSequenceId, at, state_>>
      BY Zenon, <1>6 DEF NoMoreSplits, groupVars, clientVars
  <2>2. CASE DOMAIN stores[n] # {}
    <3>1. stores' = [stores EXCEPT ![n] = [g \in DOMAIN stores[n] |->
                        [splits |-> stores[n][g].splits, end |-> TRUE, promises |-> <<>>]]]
        BY Zenon, <2>1, <2>2 DEF EndStores
    <3>2. /\ stores' = [m \in Nodes |-> stores'[m]] /\ \A m \in Nodes \ {n} : stores'[m] = stores[m]
          /\ DOMAIN stores'[n] = DOMAIN stores[n]
          /\ \A g \in DOMAIN stores[n] :
                stores'[n][g] = [splits |-> stores[n][g].splits, end |-> TRUE, promises |-> <<>>]
        BY Zenon, <1>1, <3>1 DEF StoresTyped
    <3>3. StoresTyped'
      <4>1. ASSUME NEW m \in Nodes, NEW g \in DOMAIN stores'[m] PROVE IsStore(stores'[m][g])
        <5>1. CASE m # n
            BY Zenon, <1>1, <3>2, <4>1, <5>1 DEF StoresTyped
        <5>2. CASE m = n
            BY <1>1, <3>2, <4>1, <5>2 DEF StoresTyped, IsStore
        <5> QED
            BY Zenon, <5>1, <5>2
      <4> QED
          BY Zenon, <3>2, <4>1 DEF StoresTyped
    <3>4. \A m \in Nodes : Stored(m)' = Stored(m)
      <4>1. \A m \in Nodes \ {n} : Stored(m)' = Stored(m)
          BY ZenonT(30), <3>2 DEF Stored
      <4>2. ASSUME NEW g \in DOMAIN stores[n] PROVE stores'[n][g].splits = stores[n][g].splits
        <5>1. stores'[n][g] = [splits |-> stores[n][g].splits, end |-> TRUE, promises |-> <<>>]
            BY Zenon, <3>2
        <5> QED
            BY <5>1
      <4>3. Stored(n)' = Stored(n)
          BY ZenonT(30), <3>2, <4>2 DEF Stored
      <4> QED
          BY Zenon, <4>1, <4>3
    <3>5. \A m \in plan.remote : Stored(m)' = Stored(m)
        BY Zenon, <1>1, <3>4, PlanFacts
    <3> QED
        BY Zenon, <2>1, <3>3, <3>5, SplitsStay DEF IsRunning
  <2>3. CASE DOMAIN stores[n] = {} /\ n \in plan.grouped
    <3>1. stores' = stores
        BY Zenon, <2>1, <2>3 DEF EndStores
    <3> QED
        BY Zenon, <2>1, <3>1, Frame DEF IsRunning
  <2>4. CASE DOMAIN stores[n] = {} /\ n \notin plan.grouped
    <3> DEFINE s == [splits |-> <<>>, end |-> TRUE, promises |-> <<>>]
    <3>1. SetStore(n, Ungrouped, s)
        BY Zenon, <2>1, <2>4 DEF EndStores
    <3>2. IsStore(s) /\ Range(s.splits) = {}
        BY DEF IsStore, Range
    <3>3. Stored(n) = {}
        BY Zenon, <2>4 DEF Stored
    <3> HIDE DEF s
    <3>4. StoreSet(n, Ungrouped, s)
        BY Zenon, <1>1, <3>1, SetStoreFacts
    <3>5. /\ StoresTyped' /\ \A m \in Nodes \ {n} : Stored(m)' = Stored(m)
          /\ Stored(n)' \subseteq Stored(n) \cup Range(s.splits)
        BY Zenon, <1>1, <3>2, <3>4, SetStoreTyped, SetStoreStored
    <3>6. \A m \in Nodes : Stored(m)' = Stored(m)
        BY Zenon, <3>2, <3>3, <3>5
    <3>7. \A m \in plan.remote : Stored(m)' = Stored(m)
        BY Zenon, <1>1, <3>6, PlanFacts
    <3> QED
        BY Zenon, <2>1, <3>5, <3>7, SplitsStay DEF IsRunning
  <2> QED
      BY Zenon, <2>2, <2>3, <2>4
<1> QED
    BY Zenon, <1>2, <1>3, <1>4, <1>5, <1>6 DEF ClientStep

(* What leaves the store of an exchange has reached the exchange client.   *)
LEMMA StoreTaken ==
    ASSUME RemoteInv, NEW n \in Nodes, NEW g, NEW t, IsStore(t), SetStore(n, g, t),
           Range(t.splits) \subseteq Range(Store(n, g).splits), handed \subseteq handed',
           n \in plan.remote => \A i \in Range(Store(n, g).splits) \ Range(t.splits) : <<n, i>> \in handed',
           UNCHANGED <<plan, sent, clients, terminating, maxSequenceId, state_>>, DOMAIN at' = DOMAIN at
    PROVE  RemoteInv'
<1>1. Base /\ StoresTyped /\ plan.remote \subseteq Nodes
    BY Zenon, PlanFacts DEF RemoteInv, Base
<1>2. StoreSet(n, g, t)
    BY Zenon, <1>1, SetStoreFacts
<1>3. StoresTyped'
    BY Zenon, <1>1, <1>2, SetStoreTyped
<1>4. /\ \A m \in Nodes \ {n} : Stored(m)' = Stored(m)
      /\ Stored(n)' \subseteq Stored(n) \cup Range(t.splits)
      /\ Range(t.splits) \subseteq Stored(n)'
      /\ Stored(n) \ Range(Store(n, g).splits) \subseteq Stored(n)'
    BY Zenon, <1>1, <1>2, SetStoreStored
<1>5. Range(Store(n, g).splits) \subseteq Stored(n)
  <2>1. CASE g \in DOMAIN stores[n]
      BY Zenon, <2>1 DEF Store, Stored
  <2>2. CASE g \notin DOMAIN stores[n]
    <3>1. Store(n, g).splits = <<>>
        BY Zenon, <2>2 DEF Store, NoStore
    <3> QED
        BY <3>1 DEF Range
  <2> QED
      BY Zenon, <2>1, <2>2
<1>6. Base'
    BY Zenon, <1>1, <1>3 DEF Base, IsRunning
<1>7. Kept'
  <2> SUFFICES ASSUME NEW m \in plan.remote, IsRunning \/ clients[m] = "closed", NEW i \in 1..sent[m]
               PROVE  <<m, i>> \in handed' \/ i \in Stored(m)'
      BY Zenon DEF Kept, IsRunning
  <2>1. <<m, i>> \in handed \/ i \in Stored(m)
      BY Zenon DEF RemoteInv, Kept
  <2>2. CASE m # n
      BY Zenon, <1>1, <1>4, <2>1, <2>2
  <2>3. CASE m = n
      BY Zenon, <1>4, <2>1, <2>3
  <2> QED
      BY Zenon, <2>2, <2>3
<1>8. Emptied'
  <2> SUFFICES ASSUME NEW m \in plan.remote, terminating = "done", clients[m] = "closed" PROVE Stored(m)' = {}
      BY Zenon DEF Emptied
  <2>1. m \in Nodes /\ Stored(m) = {}
      BY Zenon, <1>1 DEF RemoteInv, Emptied
  <2>2. CASE m # n
      BY Zenon, <1>4, <2>1, <2>2
  <2>3. CASE m = n
      BY Zenon, <1>4, <1>5, <2>1, <2>3
  <2> QED
      BY Zenon, <2>2, <2>3
<1> QED
    BY Zenon, <1>6, <1>7, <1>8 DEF RemoteInv

(* An element is taken out of a sequence. *)
LEMMA RemoveFacts ==
    ASSUME NEW S, NEW q \in Seq(S), NEW k \in DOMAIN q
    PROVE  /\ RemoveAt(q, k) \in Seq(S) /\ Range(RemoveAt(q, k)) \subseteq Range(q)
           /\ Range(q) \subseteq Range(RemoveAt(q, k)) \cup {q[k]}
<1> DEFINE a == SubSeq(q, 1, k - 1)
           b == SubSeq(q, k + 1, Len(q))
           r == a \o b
<1>1. k \in 1..Len(q) /\ Len(q) \in Nat /\ DOMAIN q = 1..Len(q)
    OBVIOUS
<1>2. /\ a \in Seq(S) /\ Len(a) = k - 1
      /\ \A j \in 1..(k - 1) : a[j] = q[j]
  <2>1. a \in Seq(S)
      BY <1>1
  <2>2. Len(a) = k - 1
      BY <1>1
  <2>3. \A j \in 1..(k - 1) : a[j] = q[j]
      BY <1>1
  <2> QED
      BY Zenon, <2>1, <2>2, <2>3
<1>3. /\ b \in Seq(S) /\ Len(b) = Len(q) - k
      /\ \A j \in 1..(Len(q) - k) : b[j] = q[k + j]
  <2>1. b \in Seq(S)
      BY <1>1
  <2>2. Len(b) = Len(q) - k
      BY <1>1
  <2>3. \A j \in 1..(Len(q) - k) : b[j] = q[k + j]
      BY <1>1
  <2> QED
      BY Zenon, <2>1, <2>2, <2>3
<1> HIDE DEF a, b
<1>4. /\ r \in Seq(S) /\ Len(r) = Len(q) - 1 /\ DOMAIN r = 1..(Len(q) - 1)
      /\ \A j \in 1..(k - 1) : r[j] = q[j]
      /\ \A j \in k..(Len(q) - 1) : r[j] = q[j + 1]
  <2>1. r \in Seq(S) /\ Len(r) = Len(q) - 1
    <3>1. a \in Seq(S) /\ b \in Seq(S)
        BY Zenon, <1>2, <1>3
    <3>2. r \in Seq(S) /\ Len(r) = Len(a) + Len(b)
        BY <3>1
    <3> HIDE DEF r
    <3> QED
        BY <1>1, <1>2, <1>3, <3>2
  <2>2. \A j \in 1..(k - 1) : r[j] = q[j]
    <3>1. \A j \in 1..Len(a) : r[j] = a[j]
        BY <1>2, <1>3
    <3> QED
        BY Zenon, <1>2, <3>1
  <2>3. \A j \in k..(Len(q) - 1) : r[j] = b[j - (k - 1)]
    <3>1. \A j \in (Len(a) + 1)..(Len(a) + Len(b)) : r[j] = b[j - Len(a)]
        BY <1>2, <1>3
    <3>2. Len(a) + 1 = k /\ Len(a) + Len(b) = Len(q) - 1
        BY <1>1, <1>2, <1>3
    <3> QED
        BY Zenon, <1>2, <3>1, <3>2
  <2>4. \A j \in k..(Len(q) - 1) : r[j] = q[j + 1]
    <3> SUFFICES ASSUME NEW j \in k..(Len(q) - 1) PROVE r[j] = q[j + 1]
        BY Zenon
    <3>1. j - (k - 1) \in 1..(Len(q) - k) /\ k + (j - (k - 1)) = j + 1
        BY <1>1
    <3> QED
        BY Zenon, <1>3, <2>3, <3>1
  <2> HIDE DEF r
  <2> QED
      BY <2>1, <2>2, <2>4
<1>5. RemoveAt(q, k) = r
    BY Zenon DEF RemoveAt, a, b
<1> HIDE DEF r
<1>6. ASSUME NEW j \in 1..(Len(q) - 1) PROVE r[j] \in Range(q)
  <2>1. CASE j \in 1..(k - 1)
      BY <1>1, <1>4, <2>1 DEF Range
  <2>2. CASE j \in k..(Len(q) - 1)
    <3>1. j + 1 \in DOMAIN q /\ r[j] = q[j + 1]
        BY <1>1, <1>4, <2>2
    <3> QED
        BY Zenon, <3>1 DEF Range
  <2> QED
      BY <1>1, <2>1, <2>2
<1>7. ASSUME NEW j \in 1..Len(q), j # k PROVE q[j] \in Range(r)
  <2>1. CASE j \in 1..(k - 1)
    <3>1. j \in DOMAIN r /\ r[j] = q[j]
        BY <1>1, <1>4, <2>1
    <3> QED
        BY Zenon, <3>1 DEF Range
  <2>2. CASE j \in (k + 1)..Len(q)
    <3> DEFINE l == j - 1
    <3>1. l \in k..(Len(q) - 1) /\ l \in DOMAIN r /\ l + 1 = j
        BY <1>1, <1>4, <2>2
    <3> HIDE DEF l
    <3>2. l \in DOMAIN r /\ r[l] = q[j]
        BY Zenon, <1>4, <3>1
    <3> QED
        BY Zenon, <3>2 DEF Range
  <2> QED
      BY <1>1, <1>7, <2>1, <2>2
<1>8. Range(r) \subseteq Range(q)
    BY Zenon, <1>4, <1>6 DEF Range
<1>9. Range(q) \subseteq Range(r) \cup {q[k]}
  <2> SUFFICES ASSUME NEW j \in 1..Len(q) PROVE q[j] \in Range(r) \cup {q[k]}
      BY Zenon, <1>1 DEF Range
  <2> QED
      BY Zenon, <1>7
<1> QED
    BY Zenon, <1>4, <1>5, <1>8, <1>9

(* It gets shorter by one. *)
LEMMA RemoveLen ==
    ASSUME NEW S, NEW q \in Seq(S), NEW k \in DOMAIN q
    PROVE  Len(RemoveAt(q, k)) \in Nat /\ Len(RemoveAt(q, k)) <= Len(q)
<1> DEFINE a == SubSeq(q, 1, k - 1)
           b == SubSeq(q, k + 1, Len(q))
<1>1. k \in 1..Len(q) /\ Len(q) \in Nat
    OBVIOUS
<1>2. a \in Seq(S) /\ b \in Seq(S)
    BY <1>1
<1>3. Len(a) = k - 1
    BY <1>1
<1>4. Len(b) = Len(q) - k
    BY <1>1
<1>5. RemoveAt(q, k) = a \o b
    BY Zenon DEF RemoveAt
<1> HIDE DEF a, b
<1>6. Len(a \o b) = Len(a) + Len(b)
    BY <1>2
<1> QED
    BY <1>1, <1>3, <1>4, <1>5, <1>6

Distinct(q) == \A j, k \in 1..Len(q) : q[j] = q[k] => j = k

(* A sequence is cut in two. *)
LEMMA CutFacts ==
    ASSUME NEW S, NEW q \in Seq(S), NEW k \in 0..Len(q)
    PROVE  /\ SubSeq(q, 1, k) \in Seq(S) /\ Len(SubSeq(q, 1, k)) = k
           /\ \A j \in 1..k : SubSeq(q, 1, k)[j] = q[j]
           /\ SubSeq(q, k + 1, Len(q)) \in Seq(S) /\ Len(SubSeq(q, k + 1, Len(q))) = Len(q) - k
           /\ \A j \in 1..(Len(q) - k) : SubSeq(q, k + 1, Len(q))[j] = q[k + j]
<1>1. Len(q) \in Nat /\ k \in Nat /\ k <= Len(q)
    OBVIOUS
<1>2. SubSeq(q, 1, k) \in Seq(S)
    BY <1>1
<1>3. Len(SubSeq(q, 1, k)) = k
    BY <1>1
<1>4. \A j \in 1..k : SubSeq(q, 1, k)[j] = q[j]
    BY <1>1
<1>5. SubSeq(q, k + 1, Len(q)) \in Seq(S)
    BY <1>1
<1>6. Len(SubSeq(q, k + 1, Len(q))) = Len(q) - k
    BY <1>1
<1>7. \A j \in 1..(Len(q) - k) : SubSeq(q, k + 1, Len(q))[j] = q[k + j]
    BY <1>1
<1> QED
    BY Zenon, <1>2, <1>3, <1>4, <1>5, <1>6, <1>7

(* A queue with a new group *)
LEMMA AppendDistinct ==
    ASSUME NEW S, NEW q \in Seq(S), NEW g \in S, Distinct(q), g \notin Range(q)
    PROVE  Append(q, g) \in Seq(S) /\ Distinct(Append(q, g)) /\ Range(Append(q, g)) = Range(q) \cup {g}
<1> DEFINE r == Append(q, g)
<1>1. /\ r \in Seq(S) /\ Len(r) = Len(q) + 1 /\ Len(q) \in Nat /\ DOMAIN q = 1..Len(q) /\ DOMAIN r = 1..(Len(q) + 1)
      /\ r[Len(q) + 1] = g /\ \A j \in 1..Len(q) : r[j] = q[j]
    OBVIOUS
<1> HIDE DEF r
<1>2. \A j \in 1..Len(q) : q[j] # g
    BY Zenon, <1>1 DEF Range
<1>3. Distinct(r)
    BY <1>1, <1>2 DEF Distinct
<1>4. \A j \in 1..(Len(q) + 1) : j \in 1..Len(q) \/ j = Len(q) + 1
    BY <1>1
<1>5. Range(r) \subseteq Range(q) \cup {g}
    BY Zenon, <1>1, <1>4 DEF Range
<1>6. Range(q) \cup {g} \subseteq Range(r)
  <2>1. ASSUME NEW j \in 1..Len(q) PROVE q[j] \in Range(r)
    <3>1. j \in DOMAIN r /\ r[j] = q[j]
        BY <1>1
    <3> QED
        BY Zenon, <3>1 DEF Range
  <2>2. g \in Range(r)
    <3>1. Len(q) + 1 \in DOMAIN r
        BY <1>1
    <3> QED
        BY Zenon, <1>1, <3>1 DEF Range
  <2> QED
      BY ZenonT(30), <1>1, <2>1, <2>2 DEF Range
<1> QED
    BY Zenon, <1>1, <1>3, <1>5, <1>6 DEF r

(* A promise is taken from the back. *)
LEMMA FrontFacts ==
    ASSUME NEW S, NEW q \in Seq(S), q # <<>>, Distinct(q)
    PROVE  /\ Len(q) \in DOMAIN q /\ q[Len(q)] \in S /\ q[Len(q)] \in Range(q)
           /\ Front(q) \in Seq(S) /\ Distinct(Front(q))
           /\ Range(Front(q)) = Range(q) \ {q[Len(q)]}
<1> DEFINE r == Front(q)
           m == Len(q)
<1>1. m \in Nat /\ m > 0 /\ DOMAIN q = 1..m /\ m \in DOMAIN q
    OBVIOUS
<1>2. r \in Seq(S)
    BY <1>1 DEF Front
<1>3. Len(r) = m - 1
    BY <1>1 DEF Front
<1>4. \A j \in 1..(m - 1) : r[j] = q[j]
    BY <1>1 DEF Front
<1>5. DOMAIN r = 1..(m - 1)
    BY <1>2, <1>3
<1> HIDE DEF r, m
<1>6. \A j \in 1..(m - 1) : j \in 1..m /\ j # m
    BY <1>1
<1>7. \A j \in 1..m : j \in 1..(m - 1) \/ j = m
    BY <1>1
<1>8. \A j, k \in 1..m : q[j] = q[k] => j = k
    BY Zenon DEF Distinct, m
<1>9. Distinct(r)
    BY Zenon, <1>3, <1>4, <1>6, <1>8 DEF Distinct
<1>10. Range(r) \subseteq Range(q) \ {q[m]}
    BY <1>1, <1>4, <1>5, <1>6, <1>8 DEF Range
<1>11. Range(q) \ {q[m]} \subseteq Range(r)
    BY Zenon, <1>1, <1>4, <1>5, <1>7 DEF Range
<1>12. q[m] \in S /\ q[m] \in Range(q)
    BY <1>1 DEF Range
<1> QED
    BY Zenon, <1>1, <1>2, <1>9, <1>10, <1>11, <1>12 DEF r, m

(* The first group leaves the queue. *)
LEMMA TailFacts ==
    ASSUME NEW S, NEW q \in Seq(S), q # <<>>, Distinct(q)
    PROVE  Tail(q) \in Seq(S) /\ Distinct(Tail(q)) /\ Range(Tail(q)) \subseteq Range(q)
<1> DEFINE r == Tail(q)
           m == Len(q)
<1>1. m \in Nat /\ m > 0 /\ DOMAIN q = 1..m
    OBVIOUS
<1>2. r \in Seq(S)
    OBVIOUS
<1>3. Len(r) = m - 1
    BY <1>1
<1>4. \A j \in 1..(m - 1) : r[j] = q[j + 1]
    BY <1>1
<1>5. DOMAIN r = 1..(m - 1)
    BY <1>2, <1>3
<1> HIDE DEF r, m
<1>6. \A j \in 1..(m - 1) : j + 1 \in 1..m
    BY <1>1
<1>7. \A j, k \in 1..m : q[j] = q[k] => j = k
    BY Zenon DEF Distinct, m
<1>8. \A j, k \in 1..(m - 1) : r[j] = r[k] => j = k
  <2> SUFFICES ASSUME NEW j \in 1..(m - 1), NEW k \in 1..(m - 1), r[j] = r[k] PROVE j = k
      BY Zenon
  <2>1. j + 1 = k + 1
      BY Zenon, <1>4, <1>6, <1>7
  <2> QED
      BY <1>1, <2>1
<1>9. Range(r) \subseteq Range(q)
    BY Zenon, <1>1, <1>4, <1>5, <1>6 DEF Range
<1> QED
    BY Zenon, <1>2, <1>3, <1>8, <1>9 DEF Distinct, r

(* The steps of a driver *)
LEMMA DriverKeeps ==
    ASSUME RemoteInv, NEW d \in DOMAIN at, DriverStep(d), ~PromiseBroken(d)
    PROVE  RemoteInv'
<1>1. Base /\ StoresTyped /\ d.node \in Nodes
    BY Zenon DEF RemoteInv, Base
<1>2. CASE GetSplitOrFuture(d)
  <2> DEFINE n == d.node
             g == d.group
             s == Store(n, g)
  <2>1. UNCHANGED <<plan, sent, clients, terminating, maxSequenceId, state_>>
      BY Zenon, <1>2 DEF GetSplitOrFuture, startVars, taskVars, clientVars
  <2>2. IsStore(s) /\ s.splits \in Seq(Nat)
    <3>1. IsStore(s)
        BY Zenon, <1>1, StoreTyped
    <3> QED
        BY Zenon, <3>1 DEF IsStore
  <2>3. CASE TakeSplit(d)
    <3>1. PICK k \in DOMAIN s.splits :
             /\ SetStore(n, g, [splits |-> RemoveAt(s.splits, k), end |-> s.end, promises |-> s.promises])
             /\ handed' = IF n \in plan.remote THEN handed \cup {<<n, s.splits[k]>>} ELSE handed
             /\ DOMAIN at' = DOMAIN at
        BY Zenon, <2>3 DEF TakeSplit
    <3> DEFINE t == [splits |-> RemoveAt(s.splits, k), end |-> s.end, promises |-> s.promises]
    <3>2. /\ RemoveAt(s.splits, k) \in Seq(Nat) /\ Range(RemoveAt(s.splits, k)) \subseteq Range(s.splits)
          /\ Range(s.splits) \subseteq Range(RemoveAt(s.splits, k)) \cup {s.splits[k]}
        BY Zenon, <2>2, RemoveFacts
    <3>3. IsStore(t) /\ t.splits = RemoveAt(s.splits, k)
        BY Zenon, <3>2 DEF IsStore
    <3> HIDE DEF t, s, n, g
    <3>4. SetStore(n, g, t) /\ n \in Nodes
        BY Zenon, <1>1, <3>1 DEF t, n
    <3>5. /\ Range(t.splits) \subseteq Range(s.splits) /\ handed \subseteq handed'
          /\ n \in plan.remote => \A i \in Range(s.splits) \ Range(t.splits) : <<n, i>> \in handed'
        BY Zenon, <3>1, <3>2, <3>3
    <3> QED
        BY Zenon, <2>1, <3>1, <3>3, <3>4, <3>5, StoreTaken DEF s
  <2>4. CASE ~TakeSplit(d)
    <3>1. PICK t : /\ SetStore(n, g, t) /\ IsStore(t) /\ t.splits = s.splits
                   /\ handed' = handed /\ DOMAIN at' = DOMAIN at
      <4>1. CASE s.splits = <<>> /\ s.end
          BY Zenon, <1>2, <2>2, <2>4, <4>1 DEF GetSplitOrFuture
      <4>2. CASE s.splits = <<>> /\ ~s.end
        <5> DEFINE t == [splits |-> s.splits, end |-> s.end, promises |-> Append(s.promises, d)]
        <5>1. /\ SetStore(n, g, t) /\ handed' = handed /\ DOMAIN at' = DOMAIN at
            BY Zenon, <1>2, <2>4, <4>2 DEF GetSplitOrFuture
        <5>2. IsStore(t) /\ t.splits = s.splits
            BY Zenon, <2>2 DEF IsStore
        <5> QED
            BY Zenon, <5>1, <5>2
      <4> QED
          BY Zenon, <1>2, <2>4, <4>1, <4>2 DEF GetSplitOrFuture
    <3> HIDE DEF s, n, g
    <3>2. n \in Nodes
        BY Zenon, <1>1 DEF n
    <3>3. Range(t.splits) \subseteq Range(s.splits) /\ Range(s.splits) \ Range(t.splits) = {}
        BY Zenon, <3>1
    <3> QED
        BY Zenon, <2>1, <3>1, <3>2, <3>3, StoreTaken DEF s
  <2> QED
      BY Zenon, <2>3, <2>4
<1>3. CASE SplitFinished(d) \/ Block(d)
  <2>1. /\ UNCHANGED <<plan, stores, sent, clients, handed, terminating, maxSequenceId, state_>>
        /\ DOMAIN at' = DOMAIN at
      BY Zenon, <1>3 DEF SplitFinished, Block, startVars, taskVars, storeVars, driverVars, clientVars
  <2> QED
      BY Zenon, <2>1, Frame DEF IsRunning
<1>4. CASE Close(d)
  <2>1. UNCHANGED <<plan, stores, sent, clients, handed, terminating, maxSequenceId>>
      BY Zenon, <1>4 DEF Close, RemoveDriver, startVars, storeVars, driverVars, clientVars
  <2>2. DOMAIN at' = DOMAIN at /\ (IsRunning' => IsRunning)
    <3>1. RemoveDriver(d)
        BY Zenon, <1>4 DEF Close
    <3>2. \/ \E a, b, q, r, x, y : EnsureProcessed(a, b, q, r, x, y)
          \/ at' = [at EXCEPT ![d] = "closed"] /\ state_' = state_
        BY Zenon, <3>1 DEF RemoveDriver
    <3> QED
        BY Zenon, <3>2, EnsureFacts DEF IsRunning
  <2> QED
      BY Zenon, <2>1, <2>2, Frame
<1> QED
    BY Zenon, <1>2, <1>3, <1>4 DEF DriverStep

(* The first part of terminate moves no split, *)
LEMMA TerminateKeeps ==
    ASSUME RemoteInv, NEW end \in {"kFinished", "kCanceled", "kFailed"}, Terminate(end)
    PROVE  RemoteInv'
<1>1. /\ UNCHANGED <<plan, stores, sent, handed, maxSequenceId>>
      /\ IsRunning /\ ~IsRunning' /\ terminating' = "first" /\ DOMAIN at' = DOMAIN at
      /\ clients' = [n \in plan.remote |-> IF clients[n] = "open" THEN "closed" ELSE clients[n]]
    BY Zenon DEF Terminate, IsRunning, storeVars, driverVars, clientVars
<1>2. StoresTyped' /\ \A n : Stored(n)' = Stored(n)
    BY ZenonT(30), <1>1 DEF RemoteInv, Base, StoresTyped, Stored
<1>3. Base'
    BY Zenon, <1>1, <1>2 DEF RemoteInv, Base
<1>4. Kept' /\ Emptied'
    BY Zenon, <1>1, <1>2 DEF RemoteInv, Kept, Emptied
<1> QED
    BY Zenon, <1>3, <1>4 DEF RemoteInv

(* and the second one hands over what is left. *)
LEMMA RestKeeps ==
    ASSUME RemoteInv, TerminateRest
    PROVE  RemoteInv'
<1>1. Base /\ StoresTyped /\ plan.remote \subseteq Nodes
    BY Zenon, PlanFacts DEF RemoteInv, Base
<1>2. /\ UNCHANGED <<plan, sent, clients, maxSequenceId, at, state_>> /\ terminating' = "done" /\ ~IsRunning
      /\ handed' = handed \cup UNION {{n} \X Stored(n) : n \in Clients}
      /\ stores' = [n \in Nodes |-> [g \in DOMAIN stores[n] |->
                        [splits |-> IF n \in Clients THEN <<>> ELSE stores[n][g].splits,
                         end |-> stores[n][g].end, promises |-> <<>>]]]
    BY Zenon, <1>1 DEF TerminateRest, startVars, groupVars, clientVars, Base
<1>3. StoresTyped'
  <2>1. stores' = [n \in Nodes |-> stores'[n]]
      BY Zenon, <1>2
  <2>2. ASSUME NEW n \in Nodes, NEW g \in DOMAIN stores'[n] PROVE IsStore(stores'[n][g])
    <3>1. /\ g \in DOMAIN stores[n]
          /\ stores'[n][g] = [splits |-> IF n \in Clients THEN <<>> ELSE stores[n][g].splits,
                              end |-> stores[n][g].end, promises |-> <<>>]
        BY Zenon, <1>2, <2>2
    <3>2. stores[n][g].splits \in Seq(Nat) /\ <<>> \in Seq(Nat)
        BY <1>1, <3>1 DEF StoresTyped, IsStore
    <3> QED
        BY <3>1, <3>2 DEF IsStore
  <2> QED
      BY Zenon, <2>1, <2>2 DEF StoresTyped
<1>4. ASSUME NEW n \in plan.remote, clients[n] = "closed"
      PROVE  Stored(n)' = {} /\ \A i \in Stored(n) : <<n, i>> \in handed'
  <2>1. n \in Clients /\ n \in Nodes
      BY Zenon, <1>1, <1>4 DEF Clients
  <2>2. \A g \in DOMAIN stores'[n] : stores'[n][g].splits = <<>>
      BY Zenon, <1>2, <2>1
  <2>3. Stored(n)' = {}
      BY <2>2 DEF Stored, Range
  <2> QED
      BY <1>2, <2>1, <2>3
<1>5. Base'
    BY Zenon, <1>1, <1>2, <1>3 DEF Base, IsRunning
<1>6. Kept'
  <2>1. handed \subseteq handed' /\ ~IsRunning'
      BY Zenon, <1>2 DEF IsRunning
  <2> QED
      BY Zenon, <1>2, <1>4, <2>1 DEF RemoteInv, Kept
<1>7. Emptied'
    BY Zenon, <1>2, <1>4 DEF Emptied
<1> QED
    BY Zenon, <1>5, <1>6, <1>7 DEF RemoteInv

(* The invariant holds. *)
LEMMA RemoteHolds == Spec => []RemoteInv
<1>1. Init => RemoteInv
  <2> SUFFICES ASSUME Init PROVE RemoteInv
      BY Zenon
  <2>1. StoresTyped /\ \A n \in Nodes : Stored(n) = {}
    <3>1. stores = [n \in Nodes |-> <<>>] /\ DOMAIN <<>> = {}
        BY DEF Init
    <3>2. \A n \in Nodes : DOMAIN stores[n] = {}
        BY Zenon, <3>1
    <3> QED
        BY Zenon, <3>1, <3>2 DEF StoresTyped, Stored
  <2>2. ASSUME NEW d \in DOMAIN at PROVE d.node \in Nodes
    <3>1. d \in Drivers(plan)
        BY Zenon, <2>2 DEF Init
    <3> QED
        BY <3>1 DEF Drivers
  <2>3. Base
    <3>1. /\ plan \in Plans /\ sent = [n \in Nodes |-> 0] /\ maxSequenceId = [n \in Nodes |-> 0]
          /\ clients = [n \in plan.remote |-> "none"] /\ terminating = "no"
        BY Zenon DEF Init
    <3> QED
        BY <2>1, <2>2, <3>1 DEF Base
  <2>4. Kept /\ Emptied
    <3>1. plan.remote \subseteq Nodes /\ sent = [n \in Nodes |-> 0]
        BY Zenon, <2>3, PlanFacts DEF Init
    <3> QED
        BY <2>1, <3>1 DEF Kept, Emptied, Init
  <2> QED
      BY Zenon, <2>3, <2>4 DEF RemoteInv
<1>2. RemoteInv /\ [Next]_vars => RemoteInv'
  <2> SUFFICES ASSUME RemoteInv, [Next]_vars PROVE RemoteInv'
      BY Zenon
  <2>1. CASE UNCHANGED vars
    <3>1. UNCHANGED <<plan, stores, sent, clients, handed, terminating, maxSequenceId, at, state_>>
        BY Zenon, <2>1 DEF vars, startVars, taskVars, storeVars, groupVars, driverVars, clientVars
    <3> QED
        BY Zenon, <3>1, Frame DEF IsRunning
  <2>2. CASE SetAllOutputConsumed
    <3>1. UNCHANGED <<plan, stores, sent, clients, handed, terminating, maxSequenceId, at, state_>>
        BY Zenon, <2>2 DEF SetAllOutputConsumed, startVars, storeVars, groupVars, driverVars, clientVars
    <3> QED
        BY Zenon, <3>1, Frame DEF IsRunning
  <2>3. CASE Finish \/ Cancel \/ (\E d \in DOMAIN at : PromiseBroken(d))
      BY Zenon, <2>3, TerminateKeeps DEF Finish, Cancel, PromiseBroken
  <2> QED
      BY Zenon, <2>1, <2>2, <2>3, StartKeeps, ClientKeeps, DriverKeeps, RestKeeps DEF Next, Progress, EndStep
<1> QED
    BY <1>1, <1>2, PTL DEF Spec

(* terminate and addRemoteSplit give every remote split that the client    *)
(* sent, before or after the end, to the exchange client.                  *)
THEOREM RemoteSplitsReachClients == Spec => []RemoteSplitsHanded
<1>1. RemoteInv => RemoteSplitsHanded
  <2> SUFFICES ASSUME RemoteInv, terminating = "done", NEW n \in plan.remote, clients[n] = "closed", NEW i \in 1..sent[n]
               PROVE  <<n, i>> \in handed
      BY Zenon DEF RemoteSplitsHanded
  <2> QED
      BY Zenon DEF RemoteInv, Kept, Emptied
<1> QED
    BY <1>1, RemoteHolds, PTL

-----------------------------------------------------------------------------
(* No driver sleeps on a split.                                            *)

AtStates == {"none", "queued", "on", "reading", "blocking", "waiting", "last", "closed"}

\* The drivers that share a store, and those of them that wait for no promise.
Of(n, g) == {d \in DOMAIN at : d.node = n /\ d.group = g}
Awake(n, g) == (Of(n, g) \cap Taken(at)) \ Range(Store(n, g).promises)

\* A store keeps the promises of different drivers that block, none after the end, and no
\* more splits than the other drivers can take.
StoreOk(n, g) ==
    /\ Store(n, g).promises \in Seq(Of(n, g))
    /\ \A j, k \in 1..Len(Store(n, g).promises) :
            Store(n, g).promises[j] = Store(n, g).promises[k] => j = k
    /\ \A d \in Range(Store(n, g).promises) : at[d] \in {"blocking", "waiting"}
    /\ Store(n, g).promises # <<>> =>
            ~Store(n, g).end /\ Len(Store(n, g).splits) <= Cardinality(Awake(n, g))

StoresOk == \A n \in Nodes : \A g \in AllGroups : StoreOk(n, g)

\* The groups that wait are known, and neither they nor unknown ones have drivers.
QueuedOk ==
    /\ queued \in Seq(Groups) /\ Distinct(queued) /\ running \in Int
    /\ Range(queued) \subseteq seen /\ seen \subseteq UsedGroups
    /\ \A d \in DOMAIN at :
            d.group \in Groups /\ (d.group \notin seen \/ d.group \in Range(queued)) => at[d] = "none"
    /\ ~Started => \A d \in DOMAIN at : d.group = Ungrouped => at[d] = "none"

\* What was ended stays so, and a driver at its last split found the end.
EndsOk ==
    /\ \A n \in Nodes : DOMAIN stores[n] \subseteq GroupsOf(plan, n)
    /\ \A d \in DOMAIN at : at[d] = "last" => Store(d.node, d.group).end
    /\ \A n \in Nodes : \A g \in Groups : <<n, g>> \in groupEnds => Store(n, g).end
    /\ \A n \in Nodes : nodeEnd[n] /\ n \notin plan.grouped => Store(n, Ungrouped).end
    /\ \A n \in Nodes : nodeEnd[n] /\ n \in plan.grouped /\ plan.careful => {n} \X UsedGroups \subseteq groupEnds

AtTyped == at \in [Drivers(plan) -> AtStates]

Going == AtTyped /\ QueuedOk /\ EndsOk /\ StoresOk

(* What the drivers are *)
LEMMA DriverFacts ==
    ASSUME Base, AtTyped, NEW d \in DOMAIN at
    PROVE  d.node \in Nodes /\ d.group \in GroupsOf(plan, d.node) /\ d.group \in AllGroups
<1>1. d \in Drivers(plan)
    BY Zenon DEF AtTyped
<1>2. PICK n \in Nodes : d \in [node : {n}, group : GroupsOf(plan, n), id : 1..plan.drivers[n]]
    BY Zenon, <1>1 DEF Drivers
<1>3. d.node = n /\ d.group \in GroupsOf(plan, n)
    BY Zenon, <1>2
<1> QED
    BY Zenon, <1>3 DEF GroupsOf, AllGroups

(* There are finitely many. *)
LEMMA DriversFinite ==
    ASSUME Base
    PROVE  IsFiniteSet(Drivers(plan))
<1> DEFINE R(n) == [node : {n}, group : GroupsOf(plan, n), id : 1..plan.drivers[n]]
           f == [n \in Nodes |-> R(n)]
           X == {f[n] : n \in Nodes}
<1>1. plan.drivers \in [Nodes -> Nat \ {0}]
  <2>1. plan \in PlanRecord
      BY Zenon, SplitsAssumption DEF Base
  <2> QED
      BY Zenon, <2>1 DEF PlanRecord
<1>2. ASSUME NEW n \in Nodes PROVE IsFiniteSet(R(n))
  <2> DEFINE A == GroupsOf(plan, n)
             B == 1..plan.drivers[n]
             h == [t \in A \X B |-> [node |-> n, group |-> t[1], id |-> t[2]]]
             Y == {h[t] : t \in A \X B}
  <2>1. IsFiniteSet(A)
      BY ZenonT(30), SplitsAssumption, FS_Singleton DEF GroupsOf
  <2>2. plan.drivers[n] \in Nat
      BY Zenon, <1>1
  <2>3. IsFiniteSet(B)
      BY <2>2, FS_Interval
  <2> HIDE DEF A, B
  <2>4. IsFiniteSet(A \X B)
      BY ZenonT(30), <2>1, <2>3, FS_Product
  <2>5. IsFiniteSet(Y)
    <3>1. h \in Surjection(A \X B, Y)
        BY Zenon DEF Surjection
    <3> QED
        BY ZenonT(30), <2>4, <3>1, FS_Surjection
  <2>6. R(n) \subseteq Y
    <3> SUFFICES ASSUME NEW r \in [node : {n}, group : A, id : B] PROVE r \in Y
        BY Zenon DEF A, B
    <3>1. <<r.group, r.id>> \in A \X B /\ r = h[<<r.group, r.id>>]
        BY Zenon
    <3> QED
        BY Zenon, <3>1
  <2> HIDE DEF Y
  <2> QED
      BY ZenonT(30), <2>5, <2>6, FS_Subset
<1>3. IsFiniteSet(X)
  <2>1. f \in Surjection(Nodes, X)
      BY Zenon DEF Surjection
  <2> HIDE DEF f, X
  <2> QED
      BY ZenonT(30), <2>1, SplitsAssumption, FS_Surjection
<1>4. \A T \in X : IsFiniteSet(T)
    BY ZenonT(30), <1>2
<1>5. Drivers(plan) = UNION X
    BY Zenon DEF Drivers
<1> HIDE DEF X
<1> QED
    BY ZenonT(30), <1>3, <1>4, <1>5, FS_UNION

(* An assignment to one store leaves the others alone. *)
LEMMA StoreAfter ==
    ASSUME StoresTyped, NEW n \in Nodes, NEW g, NEW s, StoreSet(n, g, s)
    PROVE  /\ Store(n, g)' = s
           /\ \A m \in Nodes : \A h : m # n \/ h # g => Store(m, h)' = Store(m, h)
<1>1. Store(n, g)' = s
    BY Zenon DEF StoreSet, Store
<1>2. ASSUME NEW m \in Nodes, NEW h, m # n \/ h # g PROVE Store(m, h)' = Store(m, h)
  <2>1. CASE m # n
    <3>1. stores'[m] = stores[m]
        BY ZenonT(30), <2>1 DEF StoreSet
    <3> QED
        BY ZenonT(30), <3>1 DEF Store
  <2>2. CASE m = n
    <3>1. h \in DOMAIN stores'[m] <=> h \in DOMAIN stores[m]
        BY ZenonT(30), <1>2, <2>2 DEF StoreSet
    <3>2. h \in DOMAIN stores[m] => stores'[m][h] = stores[m][h]
        BY ZenonT(30), <1>2, <2>2 DEF StoreSet
    <3> QED
        BY ZenonT(30), <3>1, <3>2 DEF Store
  <2> QED
      BY ZenonT(30), <2>1, <2>2
<1> QED
    BY ZenonT(30), <1>1, <1>2

(* A store stays in order when its drivers that wait go on waiting and none  *)
(* of the others leaves.                                                     *)
LEMMA StoreStays ==
    ASSUME Base, AtTyped, NEW n \in Nodes, NEW g, StoreOk(n, g),
           DOMAIN at' = DOMAIN at, Store(n, g)'.promises = Store(n, g).promises,
           Store(n, g).promises # <<>> => ~Store(n, g)'.end,
           Len(Store(n, g)'.splits) <= Len(Store(n, g).splits),
           Len(Store(n, g)'.splits) \in Nat, Len(Store(n, g).splits) \in Nat,
           \A d \in Range(Store(n, g).promises) : at'[d] \in {"blocking", "waiting"},
           Store(n, g).promises # <<>> =>
                \A d \in Of(n, g) : at[d] \notin {"none", "closed"} => at'[d] \notin {"none", "closed"}
    PROVE  StoreOk(n, g)'
<1> DEFINE A == Awake(n, g)
           B == Awake(n, g)'
           q == Store(n, g).promises
<1>1. Of(n, g)' = Of(n, g)
    BY ZenonT(30) DEF Of
<1>2. q # <<>> => Cardinality(A) <= Cardinality(B) /\ Cardinality(A) \in Nat /\ Cardinality(B) \in Nat
  <2> SUFFICES ASSUME q # <<>> PROVE Cardinality(A) <= Cardinality(B) /\ Cardinality(A) \in Nat /\ Cardinality(B) \in Nat
      BY Zenon
  <2>1. A \subseteq B
      BY Zenon, <1>1 DEF Awake, Taken, Of
  <2>2. B \subseteq Drivers(plan)
      BY Zenon, <1>1 DEF Awake, Of, AtTyped
  <2> HIDE DEF A, B
  <2>3. IsFiniteSet(B)
      BY ZenonT(30), <2>2, DriversFinite, FS_Subset
  <2> QED
      BY ZenonT(30), <2>1, <2>3, FS_Subset, FS_CardinalityType
<1>3. q # <<>> => Len(Store(n, g).splits) <= Cardinality(A)
    BY Zenon DEF StoreOk
<1>4. q # <<>> => Len(Store(n, g)'.splits) <= Cardinality(B)
  <2> HIDE DEF A, B, q
  <2> QED
      BY <1>2, <1>3
<1> QED
    BY ZenonT(30), <1>1, <1>4 DEF StoreOk

\* What a call of ensureSplitGroupsAreBeingProcessedLocked does to a queue and the drivers.
QueueStep(queue, drivers) ==
    /\ queued' \in Seq(Groups) /\ Distinct(queued') /\ Range(queued') \subseteq Range(queue) /\ running' \in Int
    /\ DOMAIN at' = DOMAIN at /\ at' = [d \in DOMAIN at |-> at'[d]]
    /\ \A d \in DOMAIN at : at'[d] = drivers[d] \/ (at'[d] = "queued" /\ d.group \in Range(queue))
    /\ \A d \in DOMAIN at : d.group \in Range(queued') => at'[d] = drivers[d]

(* The first groups of the queue leave it and get their drivers. *)
LEMMA EnsureStep ==
    ASSUME NEW concurrent \in Int, NEW slots, NEW queue \in Seq(Groups), NEW numRunning \in Int, NEW drivers, NEW numLeft,
           Distinct(queue), EnsureProcessed(concurrent, slots, queue, numRunning, drivers, numLeft)
    PROVE  QueueStep(queue, drivers)
<1> DEFINE k == Startable(concurrent, queue, numRunning)
           a == SubSeq(queue, 1, k)
           b == SubSeq(queue, k + 1, Len(queue))
<1>1. k \in 0..Len(queue) /\ Len(queue) \in Nat /\ DOMAIN queue = 1..Len(queue)
    BY DEF Startable
<1>2. /\ queued' = b /\ running' = numRunning + k
      /\ at' = [d \in DOMAIN at |-> IF d \in {e \in DOMAIN at : e.group \in Range(a)} THEN "queued" ELSE drivers[d]]
    BY Zenon DEF EnsureProcessed
<1> HIDE DEF k
<1>3. /\ a \in Seq(Groups) /\ Len(a) = k /\ \A j \in 1..k : a[j] = queue[j]
      /\ b \in Seq(Groups) /\ Len(b) = Len(queue) - k
      /\ \A j \in 1..(Len(queue) - k) : b[j] = queue[k + j]
    BY ZenonT(30), <1>1, CutFacts
<1>4. /\ b \in Seq(Groups) /\ Len(b) = Len(queue) - k
      /\ \A j \in 1..(Len(queue) - k) : b[j] = queue[k + j]
    BY Zenon, <1>3
<1>5. DOMAIN a = 1..k /\ DOMAIN b = 1..(Len(queue) - k)
    BY <1>3, <1>4
<1> HIDE DEF a, b
<1>6. Range(a) \subseteq Range(queue) /\ Range(b) \subseteq Range(queue)
  <2>1. ASSUME NEW j \in 1..k PROVE a[j] \in Range(queue)
    <3>1. j \in DOMAIN queue
        BY <1>1
    <3> QED
        BY Zenon, <1>3, <3>1 DEF Range
  <2>2. ASSUME NEW j \in 1..(Len(queue) - k) PROVE b[j] \in Range(queue)
    <3>1. k + j \in DOMAIN queue
        BY <1>1
    <3> QED
        BY Zenon, <1>4, <3>1 DEF Range
  <2> QED
      BY Zenon, <1>5, <2>1, <2>2 DEF Range
<1>7. Distinct(b)
  <2> SUFFICES ASSUME NEW i \in 1..(Len(queue) - k), NEW j \in 1..(Len(queue) - k), b[i] = b[j] PROVE i = j
      BY Zenon, <1>4 DEF Distinct
  <2>1. k + i \in 1..Len(queue) /\ k + j \in 1..Len(queue) /\ queue[k + i] = queue[k + j]
      BY <1>1, <1>4
  <2>2. k + i = k + j
      BY ZenonT(30), <2>1 DEF Distinct
  <2> QED
      BY <1>1, <2>2
<1>8. Range(a) \cap Range(b) = {}
  <2> SUFFICES ASSUME NEW i \in 1..k, NEW j \in 1..(Len(queue) - k), a[i] = b[j] PROVE FALSE
      BY ZenonT(30), <1>5 DEF Range
  <2>1. i \in 1..Len(queue) /\ k + j \in 1..Len(queue) /\ queue[i] = queue[k + j]
      BY <1>1, <1>3, <1>4
  <2>2. i = k + j
      BY Zenon, <2>1 DEF Distinct
  <2> QED
      BY <1>1, <2>2
<1>9. running' \in Int
    BY <1>1, <1>2
<1>10. \A d \in DOMAIN at : at'[d] = IF d.group \in Range(a) THEN "queued" ELSE drivers[d]
    BY Zenon, <1>2
<1>11. DOMAIN at' = DOMAIN at /\ at' = [d \in DOMAIN at |-> at'[d]]
    BY Zenon, <1>2
<1>12. \A d \in DOMAIN at : at'[d] = drivers[d] \/ (at'[d] = "queued" /\ d.group \in Range(queue))
    BY Zenon, <1>6, <1>10
<1>13. \A d \in DOMAIN at : d.group \in Range(queued') => at'[d] = drivers[d]
    BY Zenon, <1>2, <1>8, <1>10
<1> QED
    BY ZenonT(30), <1>2, <1>4, <1>6, <1>7, <1>9, <1>11, <1>12, <1>13 DEF QueueStep

\* Drivers may only be created.
AtGrows ==
    /\ DOMAIN at' = DOMAIN at
    /\ \A d \in DOMAIN at : at'[d] = at[d] \/ (at[d] = "none" /\ at'[d] = "queued")

(* A store that does not change *)
LEMMA StoreUntouched ==
    ASSUME Base, AtTyped, NEW n \in Nodes, NEW g, StoreOk(n, g), Store(n, g)' = Store(n, g), AtGrows
    PROVE  StoreOk(n, g)'
<1>1. IsStore(Store(n, g)) /\ Len(Store(n, g).splits) \in Nat
  <2>1. IsStore(Store(n, g))
      BY ZenonT(30), StoreTyped DEF Base
  <2> QED
      BY <2>1 DEF IsStore
<1>2. \A d \in Range(Store(n, g).promises) : d \in DOMAIN at /\ at[d] \in {"blocking", "waiting"}
  <2>1. Range(Store(n, g).promises) \subseteq Of(n, g)
      BY DEF StoreOk, Range
  <2> QED
      BY ZenonT(30), <2>1 DEF StoreOk, Of
<1>3. \A d \in Range(Store(n, g).promises) : at'[d] \in {"blocking", "waiting"}
    BY Zenon, <1>2 DEF AtGrows
<1>4. \A d \in Of(n, g) : at[d] \notin {"none", "closed"} => at'[d] \notin {"none", "closed"}
    BY Zenon DEF Of, AtGrows
<1>5. Store(n, g).promises # <<>> => ~Store(n, g).end
    BY Zenon DEF StoreOk
<1>6. Len(Store(n, g).splits) <= Len(Store(n, g).splits)
    BY <1>1
<1> QED
    BY ZenonT(30), <1>1, <1>3, <1>4, <1>5, <1>6, StoreStays DEF AtGrows

(* The ends stay what they are when no end is taken back. *)
LEMMA EndsStay ==
    ASSUME Base, EndsOk, UNCHANGED <<plan, groupEnds, nodeEnd>>, DOMAIN at' = DOMAIN at,
           \A n \in Nodes : DOMAIN stores'[n] \subseteq GroupsOf(plan, n),
           \A n \in Nodes : \A g \in AllGroups : Store(n, g).end => Store(n, g)'.end,
           \A d \in DOMAIN at : d.node \in Nodes /\ d.group \in AllGroups,
           \A d \in DOMAIN at : at'[d] = "last" => at[d] = "last" \/ Store(d.node, d.group)'.end
    PROVE  EndsOk'
<1>1. UsedGroups' = UsedGroups
    BY Zenon DEF UsedGroups
<1>2. \A d \in DOMAIN at : at'[d] = "last" => Store(d.node, d.group)'.end
    BY Zenon DEF EndsOk
<1>3. \A n \in Nodes : \A g \in Groups : <<n, g>> \in groupEnds => Store(n, g)'.end
    BY Zenon DEF EndsOk, AllGroups
<1>4. \A n \in Nodes : nodeEnd[n] /\ n \notin plan.grouped => Store(n, Ungrouped)'.end
    BY Zenon DEF EndsOk, AllGroups
<1> QED
    BY Zenon, <1>1, <1>2, <1>3, <1>4 DEF EndsOk

(* A store without promises is in order. *)
LEMMA StoreEmpty ==
    ASSUME NEW n \in Nodes, NEW g, Store(n, g)'.promises = <<>>
    PROVE  StoreOk(n, g)'
<1>1. <<>> \in Seq(Of(n, g)')
    OBVIOUS
<1>2. Len(<<>>) = 0 /\ Range(<<>>) = {}
    BY DEF Range
<1>3. \A j, k \in 1..0 : <<>>[j] = <<>>[k] => j = k
    OBVIOUS
<1> QED
    BY <1>1, <1>2, <1>3 DEF StoreOk

(* The drivers that are awake are finitely many. *)
LEMMA AwakeFinite ==
    ASSUME Base, AtTyped, NEW n, NEW g
    PROVE  IsFiniteSet(Awake(n, g)) /\ Cardinality(Awake(n, g)) \in Nat
<1>1. Awake(n, g) \subseteq Drivers(plan)
    BY Zenon DEF Awake, Of, AtTyped
<1> QED
    BY Zenon, <1>1, DriversFinite, FS_Subset, FS_CardinalityType

(* A split is added and one promise fulfilled. *)
LEMMA StoreAdded ==
    ASSUME Base, AtTyped, AtTyped', UNCHANGED plan, NEW n \in Nodes, NEW g, StoreOk(n, g), AtGrows, NEW i \in Nat,
           Base',
           Store(n, g)' = [splits |-> Append(Store(n, g).splits, i), end |-> Store(n, g).end,
                           promises |-> Front(Store(n, g).promises)]
    PROVE  StoreOk(n, g)'
<1> DEFINE q == Store(n, g).promises
           s == Store(n, g).splits
           A == Awake(n, g)
           B == Awake(n, g)'
           d == q[Len(q)]
<1>1. q \in Seq(Of(n, g)) /\ Distinct(q)
    BY Zenon DEF StoreOk, Distinct
<1>2. CASE q = <<>>
  <2>1. Front(<<>>) = <<>>
      BY DEF Front
  <2>2. Store(n, g)'.promises = <<>>
      BY <1>2, <2>1
  <2> QED
      BY Zenon, <2>2, StoreEmpty
<1>3. CASE q # <<>>
  <2>1. IsStore(Store(n, g))
      BY ZenonT(30), StoreTyped DEF Base
  <2>2. s \in Seq(Nat) /\ Len(s) \in Nat /\ Len(Append(s, i)) = Len(s) + 1
      BY <2>1 DEF IsStore
  <2>3. ~Store(n, g).end /\ Len(s) <= Cardinality(A)
      BY ZenonT(30), <1>3 DEF StoreOk
  <2>4. Of(n, g)' = Of(n, g)
      BY ZenonT(30) DEF Of, AtGrows
  <2>5. /\ d \in Of(n, g) /\ d \in Range(q) /\ Front(q) \in Seq(Of(n, g)) /\ Distinct(Front(q))
        /\ Range(Front(q)) = Range(q) \ {d}
    <3> HIDE DEF q
    <3> QED
        BY ZenonT(30), <1>1, <1>3, FrontFacts
  <2>6. \A e \in Range(q) : e \in Of(n, g) /\ at[e] \in {"blocking", "waiting"}
      BY <1>1 DEF StoreOk, Range
  <2>7. \A e \in Range(q) : at'[e] \in {"blocking", "waiting"}
      BY Zenon, <2>6 DEF AtGrows, Of
  <2>8. A \cup {d} \subseteq B /\ d \notin A
    <3>1. Store(n, g)'.promises = Front(q)
        OBVIOUS
    <3>2. ASSUME NEW e \in A PROVE e \in B
      <4>1. e \in Of(n, g) /\ e \in DOMAIN at /\ at[e] \notin {"none", "closed"} /\ e \notin Range(q)
          BY ZenonT(30) DEF Awake, Of, Taken
      <4>2. at'[e] \notin {"none", "closed"} /\ e \in DOMAIN at'
          BY ZenonT(30), <4>1 DEF AtGrows
      <4> QED
          BY Zenon, <2>4, <2>5, <3>1, <4>1, <4>2 DEF Awake, Taken
    <3>3. d \in B
      <4>1. d \in DOMAIN at' /\ at'[d] \notin {"none", "closed"}
          BY ZenonT(30), <2>5, <2>7 DEF AtGrows, Of
      <4> QED
          BY ZenonT(30), <2>4, <2>5, <3>1, <4>1 DEF Awake, Taken
    <3>4. d \notin A
        BY ZenonT(30), <2>5 DEF Awake
    <3> QED
        BY Zenon, <3>2, <3>3, <3>4
  <2>9. IsFiniteSet(A) /\ IsFiniteSet(B) /\ Cardinality(A) \in Nat /\ Cardinality(B) \in Nat
    <3>1. IsFiniteSet(A) /\ Cardinality(A) \in Nat
        BY ZenonT(30), AwakeFinite
    <3>2. B \subseteq Drivers(plan)
        BY Zenon DEF Awake, Of, AtTyped
    <3> HIDE DEF A, B
    <3> QED
        BY ZenonT(30), <3>1, <3>2, DriversFinite, FS_Subset, FS_CardinalityType
  <2>10. Len(Append(s, i)) <= Cardinality(B)
    <3> HIDE DEF A, B, d, s
    <3>1. IsFiniteSet(A \cup {d}) /\ Cardinality(A \cup {d}) = Cardinality(A) + 1
        BY ZenonT(30), <2>8, <2>9, FS_AddElement
    <3>2. Cardinality(A \cup {d}) <= Cardinality(B)
        BY ZenonT(30), <2>8, <2>9, FS_Subset
    <3> QED
        BY <2>2, <2>3, <2>9, <3>1, <3>2
  <2>11. /\ Store(n, g)'.promises = Front(q) /\ Store(n, g)'.end = Store(n, g).end
         /\ Store(n, g)'.splits = Append(s, i)
      OBVIOUS
  <2>12. \A e \in Range(Front(q)) : at'[e] \in {"blocking", "waiting"}
      BY ZenonT(30), <2>5, <2>7
  <2> HIDE DEF q, s, B, d
  <2> QED
      BY ZenonT(30), <2>3, <2>4, <2>5, <2>10, <2>11, <2>12 DEF StoreOk, Distinct, B
<1> QED
    BY Zenon, <1>2, <1>3

(* The queue and the drivers after groups were added to the one and have     *)
(* started.                                                                  *)
LEMMA QueueMoves ==
    ASSUME Base, Going, NEW queue \in Seq(Groups), NEW drivers, QueueStep(queue, drivers), UNCHANGED plan,
           seen \subseteq seen', seen' \subseteq UsedGroups, Range(queue) \subseteq seen',
           Range(queue) \subseteq Range(queued) \cup (Groups \ seen),
           \A d \in DOMAIN at : drivers[d] \in AtStates,
           \A d \in DOMAIN at : d.group \in Groups /\ at[d] = "none" => drivers[d] = "none",
           ~Started' => \A d \in DOMAIN at : d.group = Ungrouped => drivers[d] = "none"
    PROVE  /\ QueuedOk' /\ AtTyped'
           /\ \A d \in DOMAIN at : at'[d] = drivers[d] \/ (at[d] = "none" /\ at'[d] = "queued")
<1>1. UsedGroups' = UsedGroups
    BY Zenon DEF UsedGroups
<1>2. Range(queue) \subseteq Groups /\ Ungrouped \notin Range(queue)
  <2>1. \A j \in DOMAIN queue : queue[j] \in Groups
      OBVIOUS
  <2> QED
      BY ZenonT(30), <2>1, SplitsAssumption DEF Range
<1>3. ASSUME NEW d \in DOMAIN at, d.group \in Groups, d.group \notin seen' \/ d.group \in Range(queued')
      PROVE  at'[d] = "none"
  <2>1. at'[d] = drivers[d]
      BY Zenon, <1>3 DEF QueueStep
  <2>2. at[d] = "none"
    <3>1. d.group \notin seen \/ d.group \in Range(queued)
        BY Zenon, <1>3 DEF QueueStep
    <3> QED
        BY ZenonT(30), <1>3, <3>1 DEF Going, QueuedOk
  <2> QED
      BY ZenonT(30), <1>3, <2>1, <2>2
<1>4. ASSUME NEW d \in DOMAIN at, d.group = Ungrouped, ~Started' PROVE at'[d] = "none"
    BY ZenonT(30), <1>2, <1>4 DEF QueueStep
<1>5. ASSUME NEW d \in DOMAIN at PROVE at'[d] = drivers[d] \/ (at[d] = "none" /\ at'[d] = "queued")
  <2>1. d.group \in Range(queue) => at[d] = "none"
      BY Zenon, <1>2 DEF Going, QueuedOk
  <2> QED
      BY Zenon, <2>1 DEF QueueStep
<1>6. AtTyped'
  <2>1. at' = [d \in DOMAIN at |-> at'[d]] /\ DOMAIN at = Drivers(plan)
      BY ZenonT(30) DEF AtTyped, Going, QueueStep
  <2>2. \A d \in DOMAIN at : at'[d] \in AtStates
      BY Zenon, <1>5 DEF AtStates
  <2> QED
      BY ZenonT(30), <2>1, <2>2 DEF AtTyped
<1>7. DOMAIN at' = DOMAIN at /\ queued' \in Seq(Groups) /\ Distinct(queued') /\ running' \in Int
      /\ Range(queued') \subseteq seen'
    BY Zenon DEF QueueStep
<1> QED
    BY ZenonT(30), <1>1, <1>3, <1>4, <1>5, <1>6, <1>7 DEF QueuedOk

(* A driver that exists moves on. *)
LEMMA DriverMoves ==
    ASSUME Base, Going, NEW d \in DOMAIN at, NEW x \in AtStates, at[d] # "none", at' = [at EXCEPT ![d] = x],
           UNCHANGED <<plan, start, seen, queued, running>>
    PROVE  QueuedOk' /\ AtTyped'
<1>1. UsedGroups' = UsedGroups /\ Started' = Started
    BY Zenon DEF UsedGroups, Started
<1>2. DOMAIN at' = DOMAIN at /\ \A e \in DOMAIN at : at'[e] = IF e = d THEN x ELSE at[e]
    BY Zenon DEF AtTyped, Going
<1>3. AtTyped'
    BY Zenon DEF AtTyped, Going
<1>4. \A e \in DOMAIN at : at[e] = "none" => at'[e] = "none"
    BY Zenon, <1>2
<1> QED
    BY ZenonT(30), <1>1, <1>2, <1>3, <1>4 DEF Going, QueuedOk

(* A driver that is ready waits for no promise. *)
LEMMA ReadyFacts ==
    ASSUME Base, Going, NEW d \in DOMAIN at, Ready(d), IsRunning
    PROVE  /\ at[d] \in {"on", "queued", "waiting"}
           /\ d \notin Range(Store(d.node, d.group).promises)
           /\ d \in Of(d.node, d.group)
<1>1. at[d] \in {"on", "queued", "waiting"}
    BY Zenon DEF Ready
<1>2. d.node \in Nodes /\ d.group \in AllGroups
    BY Zenon, DriverFacts DEF Going
<1>3. ASSUME d \in Range(Store(d.node, d.group).promises) PROVE FALSE
  <2>1. at[d] \in {"blocking", "waiting"}
      BY ZenonT(30), <1>2, <1>3 DEF Going, StoresOk, StoreOk
  <2>2. d \notin Outstanding
      BY ZenonT(30), <1>1, <2>1 DEF Ready
  <2>3. CASE d.group \in DOMAIN stores[d.node]
      BY ZenonT(30), <1>2, <1>3, <2>2, <2>3 DEF Outstanding, Store
  <2>4. CASE d.group \notin DOMAIN stores[d.node]
    <3>1. Store(d.node, d.group).promises = <<>>
        BY ZenonT(30), <2>4 DEF Store, NoStore
    <3> QED
        BY <1>3, <3>1 DEF Range
  <2> QED
      BY ZenonT(30), <2>3, <2>4
<1> QED
    BY ZenonT(30), <1>1, <1>3 DEF Of

(* Another store, or another driver of the store that stays awake *)
LEMMA StoreOthers ==
    ASSUME Base, Going, NEW d \in DOMAIN at, NEW x \in AtStates, at' = [at EXCEPT ![d] = x],
           NEW n \in Nodes, NEW g \in AllGroups, Store(n, g)' = Store(n, g), UNCHANGED plan,
           d \in Range(Store(n, g).promises) => x \in {"blocking", "waiting"},
           d.node = n /\ d.group = g /\ Store(n, g).promises # <<>> => x \notin {"none", "closed"}
    PROVE  StoreOk(n, g)'
<1>1. DOMAIN at' = DOMAIN at /\ \A e \in DOMAIN at : at'[e] = IF e = d THEN x ELSE at[e]
    BY Zenon DEF AtTyped, Going
<1>2. IsStore(Store(n, g))
    BY ZenonT(30), StoreTyped DEF Base
<1>3. Len(Store(n, g).splits) \in Nat /\ Len(Store(n, g).splits) <= Len(Store(n, g).splits)
    BY <1>2 DEF IsStore
<1>4. StoreOk(n, g)
    BY Zenon DEF Going, StoresOk
<1>5. ASSUME NEW e \in Range(Store(n, g).promises) PROVE at'[e] \in {"blocking", "waiting"}
  <2>1. at[e] \in {"blocking", "waiting"} /\ e \in Of(n, g)
      BY <1>4 DEF StoreOk, Range
  <2> QED
      BY ZenonT(30), <1>1, <2>1 DEF Of
<1>6. ASSUME Store(n, g).promises # <<>>, NEW e \in Of(n, g), at[e] \notin {"none", "closed"}
      PROVE  at'[e] \notin {"none", "closed"}
    BY Zenon, <1>1, <1>6 DEF Of
<1>7. Store(n, g).promises # <<>> => ~Store(n, g)'.end
    BY Zenon, <1>4 DEF StoreOk
<1>8. /\ Store(n, g)'.promises = Store(n, g).promises
      /\ Len(Store(n, g)'.splits) = Len(Store(n, g).splits)
    BY Zenon
<1> QED
    BY ZenonT(30), <1>1, <1>3, <1>4, <1>5, <1>6, <1>7, <1>8, StoreStays DEF Going

(* A split is taken, the end found, or a promise left. *)
LEMMA GetGoing ==
    ASSUME Base, Base', Going, IsRunning, NEW d \in DOMAIN at, GetSplitOrFuture(d)
    PROVE  Going'
<1> DEFINE n == d.node
           g == d.group
           s == Store(n, g)
<1>1. n \in Nodes /\ g \in AllGroups /\ g \in GroupsOf(plan, n)
    BY Zenon, DriverFacts DEF Going
<1>2. Ready(d) /\ UNCHANGED <<plan, start, seen, queued, running, groupEnds, nodeEnd>>
    BY Zenon DEF GetSplitOrFuture, startVars, clientVars
<1>3. /\ at[d] \in {"on", "queued", "waiting"} /\ d \notin Range(s.promises) /\ d \in Of(n, g)
    BY Zenon, <1>2, ReadyFacts
<1>4. IsStore(s) /\ StoresTyped
    BY Zenon, <1>1, StoreTyped DEF Base
<1>5. s.splits \in Seq(Nat) /\ Len(s.splits) \in Nat
    BY <1>4 DEF IsStore
<1>6. StoreOk(n, g)
    BY Zenon, <1>1 DEF Going, StoresOk
<1>7. PICK x, v :
            /\ x \in AtStates /\ at' = [at EXCEPT ![d] = x] /\ StoreSet(n, g, v) /\ v.end = s.end /\ x \notin {"none", "closed"}
            /\ x = "last" => s.end
            /\ \/ x # "blocking" /\ v.promises = s.promises /\ Len(v.splits) \in Nat /\ Len(v.splits) <= Len(s.splits)
               \/ x = "blocking" /\ v.promises = Append(s.promises, d) /\ Len(v.splits) = 0 /\ ~s.end
  <2>1. CASE TakeSplit(d)
    <3>1. PICK k \in DOMAIN s.splits : 
            /\ SetStore(n, g, [splits |-> RemoveAt(s.splits, k), end |-> s.end, promises |-> s.promises])
            /\ \/ at' = [at EXCEPT ![d] = "on"]
               \/ at' = [at EXCEPT ![d] = "reading"]
        BY Zenon, <2>1 DEF TakeSplit
    <3> DEFINE v == [splits |-> RemoveAt(s.splits, k), end |-> s.end, promises |-> s.promises]
    <3>2. StoreSet(n, g, v)
        BY ZenonT(30), <1>1, <1>4, <3>1, SetStoreFacts
    <3>3. Len(RemoveAt(s.splits, k)) \in Nat /\ Len(RemoveAt(s.splits, k)) <= Len(s.splits)
        BY ZenonT(30), <1>5, RemoveLen
    <3>4. v.end = s.end /\ v.promises = s.promises /\ v.splits = RemoveAt(s.splits, k)
        BY Zenon
    <3> HIDE DEF v, s
    <3> QED
        BY ZenonT(30), <3>1, <3>2, <3>3, <3>4 DEF AtStates
  <2>2. CASE s.splits = <<>> /\ s.end /\ at' = [at EXCEPT ![d] = "last"] /\ SetStore(n, g, s)
    <3>1. StoreSet(n, g, s)
        BY ZenonT(30), <1>1, <1>4, <2>2, SetStoreFacts
    <3>2. /\ "last" \in AtStates /\ "last" \notin {"none", "closed"} /\ "last" # "blocking"
          /\ Len(s.splits) <= Len(s.splits)
        BY <1>5 DEF AtStates
    <3> HIDE DEF s
    <3> QED
        BY <1>5, <2>2, <3>1, <3>2, Zenon
  <2>3. CASE /\ s.splits = <<>> /\ ~s.end /\ at' = [at EXCEPT ![d] = "blocking"]
             /\ SetStore(n, g, [splits |-> s.splits, end |-> s.end, promises |-> Append(s.promises, d)])
    <3> DEFINE v == [splits |-> s.splits, end |-> s.end, promises |-> Append(s.promises, d)]
    <3>1. StoreSet(n, g, v)
        BY ZenonT(30), <1>1, <1>4, <2>3, SetStoreFacts
    <3>2. v.end = s.end /\ v.promises = Append(s.promises, d) /\ v.splits = <<>>
        BY ZenonT(30), <2>3
    <3>3. Len(<<>>) = 0
        BY Zenon
    <3> HIDE DEF v, s
    <3> QED
        BY ZenonT(30), <2>3, <3>1, <3>2, <3>3 DEF AtStates
  <2> QED
      BY ZenonT(30), <2>1, <2>2, <2>3 DEF GetSplitOrFuture
<1>8. QueuedOk' /\ AtTyped'
    BY ZenonT(30), <1>2, <1>3, <1>7, DriverMoves
<1>9. Store(n, g)' = v /\ \A m \in Nodes : \A h : m # n \/ h # g => Store(m, h)' = Store(m, h)
    BY <1>1, <1>4, <1>7, StoreAfter
<1>10. DOMAIN at' = DOMAIN at /\ \A e \in DOMAIN at : at'[e] = IF e = d THEN x ELSE at[e]
    BY Zenon, <1>7 DEF AtTyped, Going
<1>11. EndsOk'
  <2>1. \A m \in Nodes : DOMAIN stores'[m] \subseteq GroupsOf(plan, m)
    <3>1. DOMAIN stores'[n] = DOMAIN stores[n] \cup {g} /\ \A m \in Nodes \ {n} : stores'[m] = stores[m]
        BY Zenon, <1>7 DEF StoreSet
    <3> QED
        BY Zenon, <1>1, <3>1 DEF Going, EndsOk
  <2>2. \A m \in Nodes : \A h \in AllGroups : Store(m, h).end => Store(m, h)'.end
      BY Zenon, <1>7, <1>9
  <2>3. \A e \in DOMAIN at : at'[e] = "last" => at[e] = "last" \/ Store(e.node, e.group)'.end
      BY Zenon, <1>7, <1>9, <1>10
  <2>4. \A e \in DOMAIN at : e.node \in Nodes /\ e.group \in AllGroups
      BY Zenon, DriverFacts DEF Going
  <2> QED
      BY Zenon, <1>2, <1>10, <2>1, <2>2, <2>3, <2>4, EndsStay DEF Going
<1>12. ASSUME NEW m \in Nodes, NEW h \in AllGroups PROVE StoreOk(m, h)'
  <2>1. CASE m # n \/ h # g
    <3>1. Store(m, h)' = Store(m, h)
        BY ZenonT(30), <1>9, <2>1
    <3>2. d \notin Range(Store(m, h).promises)
      <4>1. StoreOk(m, h)
          BY Zenon DEF Going, StoresOk
      <4>2. \A e \in Range(Store(m, h).promises) : e \in Of(m, h)
          BY <4>1 DEF StoreOk, Range
      <4> QED
          BY ZenonT(30), <2>1, <4>2 DEF Of
    <3>3. ~(d.node = m /\ d.group = h)
        BY Zenon, <2>1
    <3> QED
        BY ZenonT(30), <1>2, <1>7, <3>1, <3>2, <3>3, StoreOthers
  <2>2. CASE m = n /\ h = g /\ x # "blocking"
    <3>1. Store(n, g)' = v /\ v.promises = s.promises /\ Len(v.splits) \in Nat /\ Len(v.splits) <= Len(s.splits)
        BY Zenon, <1>7, <1>9, <2>2
    <3>2. s.promises # <<>> => ~v.end
        BY Zenon, <1>6, <1>7 DEF StoreOk
    <3>3. \A e \in Range(s.promises) : at'[e] \in {"blocking", "waiting"}
      <4>1. \A e \in Range(s.promises) : e \in Of(n, g) /\ at[e] \in {"blocking", "waiting"}
          BY <1>6 DEF StoreOk, Range
      <4> QED
          BY Zenon, <1>3, <1>10, <4>1 DEF Of
    <3>4. \A e \in Of(n, g) : at[e] \notin {"none", "closed"} => at'[e] \notin {"none", "closed"}
        BY Zenon, <1>7, <1>10 DEF Of
    <3>5. StoreOk(n, g)'
        BY Zenon, <1>1, <1>5, <1>6, <1>10, <3>1, <3>2, <3>3, <3>4, StoreStays DEF Going
    <3> QED
        BY Zenon, <2>2, <3>5
  <2>3. CASE m = n /\ h = g /\ x = "blocking"
    <3>1. Store(n, g)' = v /\ v.promises = Append(s.promises, d) /\ Len(v.splits) = 0 /\ ~v.end
        BY ZenonT(30), <1>7, <1>9, <2>3
    <3>2. s.promises \in Seq(Of(n, g)) /\ Distinct(s.promises)
        BY ZenonT(30), <1>6 DEF StoreOk, Distinct
    <3>3. /\ Append(s.promises, d) \in Seq(Of(n, g)) /\ Distinct(Append(s.promises, d))
          /\ Range(Append(s.promises, d)) = Range(s.promises) \cup {d}
      <4> HIDE DEF s
      <4> QED
          BY <1>3, <3>2, AppendDistinct
    <3>4. Of(n, g)' = Of(n, g)
        BY Zenon, <1>10 DEF Of
    <3>5. \A e \in Range(s.promises) \cup {d} : at'[e] \in {"blocking", "waiting"}
      <4>1. \A e \in Range(s.promises) : e \in Of(n, g) /\ at[e] \in {"blocking", "waiting"}
          BY <1>6 DEF StoreOk, Range
      <4> QED
          BY Zenon, <1>3, <1>10, <2>3, <4>1 DEF Of
    <3>6. Cardinality(Awake(n, g)') \in Nat
      <4>1. Awake(n, g)' \subseteq Drivers(plan)
          BY Zenon, <1>2, <1>8 DEF Awake, Of, AtTyped
      <4> QED
          BY Zenon, <4>1, DriversFinite, FS_Subset, FS_CardinalityType
    <3>7. 0 <= Cardinality(Awake(n, g)')
        BY <3>6
    <3>8. StoreOk(n, g)'
      <4> HIDE DEF s
      <4> QED
          BY <3>1, <3>3, <3>4, <3>5, <3>7 DEF StoreOk, Distinct
    <3> QED
        BY Zenon, <2>3, <3>8
  <2> QED
      BY ZenonT(30), <2>1, <2>2, <2>3
<1> QED
    BY Zenon, <1>8, <1>11, <1>12 DEF Going, StoresOk

(* A driver moves while no store changes. *)
LEMMA MoveGoing ==
    ASSUME Base, Going, NEW d \in DOMAIN at, NEW x \in AtStates, at' = [at EXCEPT ![d] = x],
           at[d] # "none", x \notin {"none", "closed", "last"},
           at[d] \in {"blocking", "waiting"} => x \in {"blocking", "waiting"},
           UNCHANGED <<plan, start, seen, queued, running, stores, groupEnds, nodeEnd>>
    PROVE  Going'
<1>1. QueuedOk' /\ AtTyped'
    BY Zenon, DriverMoves
<1>2. DOMAIN at' = DOMAIN at /\ \A e \in DOMAIN at : at'[e] = IF e = d THEN x ELSE at[e]
    BY Zenon DEF AtTyped, Going
<1>3. \A m \in Nodes : \A h : Store(m, h)' = Store(m, h)
    BY Zenon DEF Store
<1>4. EndsOk'
  <2>1. \A m \in Nodes : DOMAIN stores'[m] \subseteq GroupsOf(plan, m)
      BY Zenon DEF Going, EndsOk
  <2>2. \A m \in Nodes : \A h \in AllGroups : Store(m, h).end => Store(m, h)'.end
      BY Zenon, <1>3
  <2>3. \A e \in DOMAIN at : at'[e] = "last" => at[e] = "last" \/ Store(e.node, e.group)'.end
      BY Zenon, <1>2
  <2>4. \A e \in DOMAIN at : e.node \in Nodes /\ e.group \in AllGroups
      BY ZenonT(30), DriverFacts DEF Going
  <2> QED
      BY Zenon, <1>2, <2>1, <2>2, <2>3, <2>4, EndsStay DEF Going
<1>5. ASSUME NEW m \in Nodes, NEW h \in AllGroups PROVE StoreOk(m, h)'
  <2>1. d \in Range(Store(m, h).promises) => at[d] \in {"blocking", "waiting"}
      BY Zenon DEF Going, StoresOk, StoreOk
  <2>2. d \in Range(Store(m, h).promises) => x \in {"blocking", "waiting"}
      BY ZenonT(30), <2>1
  <2>3. x \notin {"none", "closed"}
      BY ZenonT(30)
  <2> QED
      BY ZenonT(30), <1>3, <2>2, <2>3, StoreOthers
<1> QED
    BY Zenon, <1>1, <1>4, <1>5 DEF Going, StoresOk

(* A driver leaves after its last split: nobody of its store waits. *)
LEMMA CloseGoing ==
    ASSUME Base, Going, IsRunning, NEW d \in DOMAIN at, Close(d)
    PROVE  Going'
<1> DEFINE drivers == [at EXCEPT ![d] = "closed"]
<1>1. /\ at[d] = "last" /\ RemoveDriver(d)
      /\ UNCHANGED <<plan, start, stores, groupEnds, nodeEnd, seen>>
    BY Zenon DEF Close, RemoveDriver, startVars, storeVars, clientVars
<1>2. \A e \in DOMAIN at : drivers[e] = IF e = d THEN "closed" ELSE at[e]
    BY Zenon DEF AtTyped, Going
<1>3. plan.concurrent \in Nat
  <2>1. plan \in PlanRecord
      BY Zenon, SplitsAssumption DEF Base
  <2> QED
      BY Zenon, <2>1 DEF PlanRecord
<1>4. QueuedOk' /\ AtTyped' /\ \A e \in DOMAIN at : at'[e] = drivers[e] \/ (at[e] = "none" /\ at'[e] = "queued")
  <2>1. CASE EnsureProcessed(plan.concurrent, Slots, queued, running - 1, drivers, [left EXCEPT ![d.group] = @ - 1])
    <3>1. queued \in Seq(Groups) /\ Distinct(queued) /\ running - 1 \in Int /\ seen \subseteq UsedGroups
          /\ Range(queued) \subseteq seen
        BY DEF Going, QueuedOk
    <3> HIDE DEF drivers
    <3>2. QueueStep(queued, drivers)
        BY <1>3, <2>1, <3>1, EnsureStep
    <3>3. \A e \in DOMAIN at : drivers[e] \in AtStates
      <4>1. \A e \in DOMAIN at : at[e] \in AtStates
          BY Zenon DEF Going, AtTyped
      <4> QED
          BY Zenon, <1>2, <4>1 DEF AtStates
    <3>4. \A e \in DOMAIN at : e.group \in Groups /\ at[e] = "none" => drivers[e] = "none"
        BY ZenonT(30), <1>1, <1>2
    <3>5. ~Started' => \A e \in DOMAIN at : e.group = Ungrouped => drivers[e] = "none"
        BY ZenonT(30), <1>1, <1>2 DEF Going, QueuedOk, Started
    <3>6. seen' = seen /\ UNCHANGED plan
        BY Zenon, <1>1
    <3> QED
        BY ZenonT(30), <3>1, <3>2, <3>3, <3>4, <3>5, <3>6, QueueMoves
  <2>2. CASE at' = drivers /\ UNCHANGED <<queued, running>>
    <3>1. QueuedOk' /\ AtTyped'
        BY ZenonT(30), <1>1, <2>2, DriverMoves DEF AtStates
    <3> QED
        BY ZenonT(30), <2>2, <3>1
  <2> QED
      BY ZenonT(30), <1>1, <2>1, <2>2 DEF RemoveDriver
<1>5. DOMAIN at' = DOMAIN at
    BY ZenonT(30), <1>1, <1>4 DEF Going, AtTyped
<1>6. \A e \in DOMAIN at : at'[e] = at[e] \/ e = d \/ (at[e] = "none" /\ at'[e] = "queued")
    BY ZenonT(30), <1>2, <1>4
<1>7. d.node \in Nodes /\ d.group \in AllGroups /\ Store(d.node, d.group).end
    BY ZenonT(30), <1>1, DriverFacts DEF Going, EndsOk
<1>8. \A m \in Nodes : \A h : Store(m, h)' = Store(m, h)
    BY ZenonT(30), <1>1 DEF Store
<1>9. EndsOk'
  <2>1. \A m \in Nodes : DOMAIN stores'[m] \subseteq GroupsOf(plan, m)
      BY ZenonT(30), <1>1 DEF Going, EndsOk
  <2>2. \A m \in Nodes : \A h \in AllGroups : Store(m, h).end => Store(m, h)'.end
      BY ZenonT(30), <1>8
  <2>3. \A e \in DOMAIN at : at'[e] = "last" => at[e] = "last" \/ Store(e.node, e.group)'.end
      BY ZenonT(30), <1>1, <1>6
  <2>4. \A e \in DOMAIN at : e.node \in Nodes /\ e.group \in AllGroups
      BY Zenon, DriverFacts DEF Going
  <2> QED
      BY ZenonT(30), <1>1, <1>5, <2>1, <2>2, <2>3, <2>4, EndsStay DEF Going
<1>10. ASSUME NEW m \in Nodes, NEW h \in AllGroups PROVE StoreOk(m, h)'
  <2>1. StoreOk(m, h)
      BY Zenon DEF Going, StoresOk
  <2>2. CASE m = d.node /\ h = d.group
    <3>1. Store(m, h)'.promises = <<>>
        BY ZenonT(30), <1>7, <1>8, <2>1, <2>2 DEF StoreOk
    <3> QED
        BY ZenonT(30), <3>1, StoreEmpty
  <2>3. CASE ~(m = d.node /\ h = d.group)
    <3>1. IsStore(Store(m, h))
        BY ZenonT(30), StoreTyped DEF Base
    <3>2. Len(Store(m, h).splits) \in Nat /\ Len(Store(m, h).splits) <= Len(Store(m, h).splits)
        BY <3>1 DEF IsStore
    <3>3. \A e \in Range(Store(m, h).promises) : at'[e] \in {"blocking", "waiting"}
      <4>1. \A e \in Range(Store(m, h).promises) : e \in Of(m, h) /\ at[e] \in {"blocking", "waiting"}
          BY <2>1 DEF StoreOk, Range
      <4> QED
          BY ZenonT(30), <1>6, <2>3, <4>1 DEF Of
    <3>4. \A e \in Of(m, h) : at[e] \notin {"none", "closed"} => at'[e] \notin {"none", "closed"}
        BY Zenon, <1>6, <2>3 DEF Of
    <3>5. Store(m, h).promises # <<>> => ~Store(m, h)'.end
        BY Zenon, <1>8, <2>1 DEF StoreOk
    <3>6. /\ Store(m, h)'.promises = Store(m, h).promises
          /\ Len(Store(m, h)'.splits) = Len(Store(m, h).splits)
        BY Zenon, <1>8
    <3> QED
        BY ZenonT(30), <1>5, <2>1, <3>2, <3>3, <3>4, <3>5, <3>6, StoreStays DEF Going
  <2> QED
      BY ZenonT(30), <2>2, <2>3
<1> QED
    BY ZenonT(30), <1>4, <1>9, <1>10 DEF Going, StoresOk

(* The drivers *)
LEMMA DriverGoing ==
    ASSUME Base, Base', Going, IsRunning, IsRunning', NEW d \in DOMAIN at, DriverStep(d)
    PROVE  Going'
<1>1. CASE GetSplitOrFuture(d)
    BY Zenon, <1>1, GetGoing
<1>2. CASE SplitFinished(d)
  <2>1. /\ at[d] = "reading" /\ at' = [at EXCEPT ![d] = "on"]
        /\ UNCHANGED <<plan, start, seen, queued, running, stores, groupEnds, nodeEnd>>
      BY Zenon, <1>2 DEF SplitFinished, startVars, storeVars, clientVars
  <2> QED
      BY Zenon, <2>1, MoveGoing DEF AtStates
<1>3. CASE Block(d)
  <2>1. /\ at[d] = "blocking" /\ at' = [at EXCEPT ![d] = "waiting"]
        /\ UNCHANGED <<plan, start, seen, queued, running, stores, groupEnds, nodeEnd>>
      BY ZenonT(30), <1>3 DEF Block, startVars, storeVars, clientVars
  <2> QED
      BY ZenonT(30), <2>1, MoveGoing DEF AtStates
<1>4. CASE Close(d)
    BY ZenonT(30), <1>4, CloseGoing
<1>5. CASE PromiseBroken(d)
    BY ZenonT(30), <1>5 DEF PromiseBroken, Terminate, IsRunning
<1> QED
    BY Zenon, <1>1, <1>2, <1>3, <1>4, <1>5 DEF DriverStep

(* The stores after a split was added to one and drivers were created *)
LEMMA AddedGoing ==
    ASSUME Base, Base', Going, NEW n \in Nodes, NEW g \in GroupsOf(plan, n), NEW i \in Nat, AddSplitToStore(n, g, i),
           AtGrows, AtTyped', QueuedOk', UNCHANGED <<plan, groupEnds, nodeEnd>>
    PROVE  Going'
<1> DEFINE v == [splits |-> Append(Store(n, g).splits, i), end |-> Store(n, g).end,
                 promises |-> Front(Store(n, g).promises)]
<1>1. SetStore(n, g, v) /\ StoresTyped /\ g \in AllGroups
    BY Zenon DEF AddSplitToStore, Base, GroupsOf, AllGroups
<1>2. v.end = Store(n, g).end
    BY Zenon
<1> HIDE DEF v
<1>3. StoreSet(n, g, v)
    BY Zenon, <1>1, SetStoreFacts
<1>4. Store(n, g)' = v /\ \A m \in Nodes : \A h : m # n \/ h # g => Store(m, h)' = Store(m, h)
    BY <1>1, <1>3, StoreAfter
<1>5. EndsOk'
  <2>1. \A m \in Nodes : DOMAIN stores'[m] \subseteq GroupsOf(plan, m)
    <3>1. DOMAIN stores'[n] = DOMAIN stores[n] \cup {g} /\ \A m \in Nodes \ {n} : stores'[m] = stores[m]
        BY Zenon, <1>3 DEF StoreSet
    <3> QED
        BY Zenon, <3>1 DEF Going, EndsOk
  <2>2. \A m \in Nodes : \A h \in AllGroups : Store(m, h).end => Store(m, h)'.end
      BY Zenon, <1>2, <1>4
  <2>3. DOMAIN at' = DOMAIN at /\ \A e \in DOMAIN at : at'[e] = "last" => at[e] = "last" \/ Store(e.node, e.group)'.end
      BY Zenon DEF AtGrows
  <2>4. \A e \in DOMAIN at : e.node \in Nodes /\ e.group \in AllGroups
      BY Zenon, DriverFacts DEF Going
  <2> QED
      BY Zenon, <2>1, <2>2, <2>3, <2>4, EndsStay DEF Going
<1>6. ASSUME NEW m \in Nodes, NEW h \in AllGroups PROVE StoreOk(m, h)'
  <2>1. StoreOk(m, h) /\ AtTyped
      BY Zenon DEF Going, StoresOk
  <2>2. CASE m # n \/ h # g
      BY ZenonT(30), <1>4, <2>1, <2>2, StoreUntouched
  <2>3. CASE m = n /\ h = g
    <3>1. StoreOk(n, g)'
        BY ZenonT(30), <1>4, <2>1, <2>3, StoreAdded DEF v
    <3> QED
        BY Zenon, <2>3, <3>1
  <2> QED
      BY Zenon, <2>2, <2>3
<1> QED
    BY ZenonT(30), <1>5, <1>6 DEF Going, StoresOk

(* Nothing changes but the queue and the groups that were seen. *)
LEMMA QueueGoing ==
    ASSUME Base, Going, AtGrows, AtTyped', QueuedOk', UNCHANGED <<plan, groupEnds, nodeEnd, stores>>
    PROVE  Going'
<1>1. \A m \in Nodes : \A h : Store(m, h)' = Store(m, h)
    BY ZenonT(30) DEF Store
<1>2. EndsOk'
  <2>1. \A m \in Nodes : DOMAIN stores'[m] \subseteq GroupsOf(plan, m)
      BY ZenonT(30) DEF Going, EndsOk
  <2>2. \A m \in Nodes : \A h \in AllGroups : Store(m, h).end => Store(m, h)'.end
      BY ZenonT(30), <1>1
  <2>3. DOMAIN at' = DOMAIN at /\ \A e \in DOMAIN at : at'[e] = "last" => at[e] = "last" \/ Store(e.node, e.group)'.end
      BY ZenonT(30) DEF AtGrows
  <2>4. \A e \in DOMAIN at : e.node \in Nodes /\ e.group \in AllGroups
      BY ZenonT(30), DriverFacts DEF Going
  <2> QED
      BY ZenonT(30), <2>1, <2>2, <2>3, <2>4, EndsStay DEF Going
<1>3. ASSUME NEW m \in Nodes, NEW h \in AllGroups PROVE StoreOk(m, h)'
  <2>1. StoreOk(m, h) /\ AtTyped
      BY Zenon DEF Going, StoresOk
  <2> QED
      BY ZenonT(30), <1>1, <2>1, StoreUntouched
<1> QED
    BY ZenonT(30), <1>2, <1>3 DEF Going, StoresOk

(* A step that leaves drivers, stores and groups alone *)
LEMMA StayGoing ==
    ASSUME Base, Going, UNCHANGED <<plan, seen, queued, running, at, stores, groupEnds, nodeEnd>>, Started' = Started
    PROVE  Going'
<1>1. AtGrows /\ AtTyped'
    BY ZenonT(30) DEF AtGrows, AtTyped, Going
<1>2. QueuedOk'
  <2>1. UsedGroups' = UsedGroups
      BY ZenonT(30) DEF UsedGroups
  <2> QED
      BY ZenonT(30), <2>1 DEF QueuedOk, Going
<1> QED
    BY ZenonT(30), <1>1, <1>2, QueueGoing

(* addSplitLocked *)
LEMMA LockedGoing ==
    ASSUME Base, Base', Going, IsRunning, NEW n \in Nodes, NEW i \in SplitsOf(n), AddSplitLocked(n, i),
           UNCHANGED <<plan, start, groupEnds, nodeEnd>>
    PROVE  Going'
<1> DEFINE g == plan.splits[n][i]
<1>1. plan \in PlanRecord
    BY ZenonT(30), SplitsAssumption DEF Base
<1>2. plan.splits[n] \in Seq(AllGroups) /\ plan.concurrent \in Nat
    BY ZenonT(30), <1>1 DEF PlanRecord
<1>3. i \in Nat /\ g \in Range(plan.splits[n])
    BY <1>2 DEF SplitsOf, Range
<1>4. g \in GroupsOf(plan, n)
    BY ZenonT(30), <1>3, SplitsAssumption DEF Base, GroupsOf
<1>5. UsedGroups' = UsedGroups /\ Started' = Started
    BY ZenonT(30) DEF UsedGroups, Started
<1>6. CASE AddSplitToStore(n, g, i) /\ UNCHANGED groupVars
  <2>1. AtGrows /\ AtTyped'
      BY ZenonT(30), <1>6 DEF AtGrows, AtTyped, Going, groupVars
  <2>2. QueuedOk'
      BY ZenonT(30), <1>5, <1>6 DEF QueuedOk, Going, groupVars
  <2> HIDE DEF g
  <2> QED
      BY ZenonT(30), <1>3, <1>4, <1>6, <2>1, <2>2, AddedGoing
<1>7. CASE g # Ungrouped /\ g \notin seen /\ AddFirstSplit(n, g, i)
  <2>1. g \in Groups /\ g \in UsedGroups /\ seen' = seen \cup {g}
    <3>1. n \in plan.grouped /\ g \in Groups
        BY ZenonT(30), <1>4, <1>7 DEF GroupsOf
    <3> QED
        BY ZenonT(30), <1>3, <1>7, <3>1 DEF UsedGroups, AddFirstSplit
  <2>2. /\ queued \in Seq(Groups) /\ Distinct(queued) /\ running \in Int /\ Range(queued) \subseteq seen
        /\ seen \subseteq UsedGroups
      BY Zenon DEF Going, QueuedOk
  <2>3. g \notin Range(queued)
      BY ZenonT(30), <1>7, <2>2
  <2> DEFINE q == Append(queued, g)
  <2>4. q \in Seq(Groups) /\ Distinct(q) /\ Range(q) = Range(queued) \cup {g} /\ q # <<>>
    <3> HIDE DEF g
    <3>1. q # <<>>
      <4>1. Len(q) = Len(queued) + 1 /\ Len(queued) \in Nat
          BY <2>1, <2>2
      <4> QED
          BY <4>1
    <3> QED
        BY <2>1, <2>2, <2>3, <3>1, AppendDistinct
  <2> HIDE DEF g, q
  <2>5. CASE start \in {"planned", "checked"}
    <3>1. queued' = Tail(q) /\ UNCHANGED <<running, at, stores>>
        BY Zenon, <1>7, <2>5 DEF AddFirstSplit, q
    <3>2. Tail(q) \in Seq(Groups) /\ Distinct(Tail(q)) /\ Range(Tail(q)) \subseteq Range(q)
        BY Zenon, <2>4, TailFacts
    <3>3. AtGrows /\ AtTyped'
        BY ZenonT(30), <3>1 DEF AtGrows, AtTyped, Going
    <3>4. Range(queued') \subseteq seen' /\ seen' \subseteq UsedGroups'
        BY ZenonT(30), <1>5, <2>1, <2>2, <2>4, <3>1, <3>2
    <3>5. ASSUME NEW d \in DOMAIN at, d.group \in Groups, d.group \notin seen' \/ d.group \in Range(queued')
          PROVE  at[d] = "none"
      <4>1. d.group \notin seen \/ d.group \in Range(queued)
          BY ZenonT(30), <1>7, <2>1, <2>4, <3>1, <3>2, <3>5
      <4> QED
          BY ZenonT(30), <3>5, <4>1 DEF Going, QueuedOk
    <3>6. ~Started => \A d \in DOMAIN at : d.group = Ungrouped => at[d] = "none"
        BY Zenon DEF Going, QueuedOk
    <3>7. QueuedOk'
        BY ZenonT(30), <1>5, <2>2, <3>1, <3>2, <3>4, <3>5, <3>6 DEF QueuedOk
    <3> QED
        BY Zenon, <3>1, <3>3, <3>7, QueueGoing
  <2>6. CASE start \notin {"planned", "checked"}
    <3> DEFINE c == IF Started THEN plan.concurrent ELSE 1
    <3>1. EnsureProcessed(c, Slots, q, running, at, left) /\ AddSplitToStore(n, g, i)
        BY Zenon, <1>7, <2>6 DEF AddFirstSplit, q
    <3>2. c \in Int
        BY <1>2
    <3> HIDE DEF c
    <3>3. QueueStep(q, at)
        BY ZenonT(30), <2>2, <2>4, <3>1, <3>2, EnsureStep
    <3>4. /\ seen \subseteq seen' /\ seen' \subseteq UsedGroups /\ Range(q) \subseteq seen'
          /\ Range(q) \subseteq Range(queued) \cup (Groups \ seen)
        BY ZenonT(30), <1>7, <2>1, <2>2, <2>4
    <3>5. \A d \in DOMAIN at : at[d] \in AtStates
        BY ZenonT(30) DEF Going, AtTyped
    <3>6. ~Started' => \A d \in DOMAIN at : d.group = Ungrouped => at[d] = "none"
        BY ZenonT(30), <1>5 DEF Going, QueuedOk
    <3>7. /\ QueuedOk' /\ AtTyped'
          /\ \A d \in DOMAIN at : at'[d] = at[d] \/ (at[d] = "none" /\ at'[d] = "queued")
        BY ZenonT(30), <2>4, <3>3, <3>4, <3>5, <3>6, QueueMoves
    <3>8. AtGrows
        BY Zenon, <3>3, <3>7 DEF AtGrows, QueueStep
    <3> QED
        BY ZenonT(30), <1>3, <1>4, <3>1, <3>7, <3>8, AddedGoing
  <2> QED
      BY ZenonT(30), <2>5, <2>6
<1> QED
    BY ZenonT(30), <1>6, <1>7 DEF AddSplitLocked

(* The end of a group, or of a node *)
LEMMA EndGoing ==
    ASSUME Base, Going, UNCHANGED <<plan, start, seen, queued, running, at>>, NEW n \in Nodes,
           \A m \in Nodes : DOMAIN stores'[m] \subseteq GroupsOf(plan, m),
           \A m \in Nodes : \A h \in AllGroups :
                Store(m, h)' = Store(m, h) \/ (Store(m, h)'.promises = <<>> /\ Store(m, h)'.end),
           \A m \in Nodes : \A h \in Groups : <<m, h>> \in groupEnds' => <<m, h>> \in groupEnds \/ Store(m, h)'.end,
           \A m \in Nodes : nodeEnd'[m] /\ m \notin plan.grouped => nodeEnd[m] \/ Store(m, Ungrouped)'.end,
           \A m \in Nodes : nodeEnd'[m] /\ m \in plan.grouped /\ plan.careful =>
                nodeEnd[m] \/ {m} \X UsedGroups \subseteq groupEnds',
           groupEnds \subseteq groupEnds'
    PROVE  Going'
<1>1. AtGrows /\ AtTyped' /\ AtTyped
    BY Zenon DEF AtGrows, AtTyped, Going
<1>2. UsedGroups' = UsedGroups /\ Started' = Started
    BY DEF UsedGroups, Started
<1>3. QueuedOk'
    BY Zenon, <1>2 DEF QueuedOk, Going
<1>4. EndsOk'
  <2>1. \A m \in Nodes : \A h \in AllGroups : Store(m, h).end => Store(m, h)'.end
      BY Zenon
  <2>2. \A d \in DOMAIN at : at[d] = "last" => Store(d.node, d.group)'.end
    <3>1. \A d \in DOMAIN at : d.node \in Nodes /\ d.group \in AllGroups
        BY Zenon, DriverFacts DEF Going
    <3> QED
        BY Zenon, <2>1, <3>1 DEF Going, EndsOk
  <2>3. \A m \in Nodes : \A h \in Groups : <<m, h>> \in groupEnds' => Store(m, h)'.end
      BY Zenon, <2>1 DEF Going, EndsOk, AllGroups
  <2>4. \A m \in Nodes : nodeEnd'[m] /\ m \notin plan.grouped => Store(m, Ungrouped)'.end
      BY Zenon, <2>1 DEF Going, EndsOk, AllGroups
  <2>5. \A m \in Nodes : nodeEnd'[m] /\ m \in plan.grouped /\ plan.careful => {m} \X UsedGroups \subseteq groupEnds'
    <3> SUFFICES ASSUME NEW m \in Nodes, nodeEnd'[m], m \in plan.grouped, plan.careful, nodeEnd[m]
                 PROVE  {m} \X UsedGroups \subseteq groupEnds'
        BY Zenon
    <3>1. {m} \X UsedGroups \subseteq groupEnds
        BY Zenon DEF Going, EndsOk
    <3> QED
        BY <3>1, Zenon
  <2> QED
      BY Zenon, <1>2, <2>2, <2>3, <2>4, <2>5 DEF EndsOk
<1>5. ASSUME NEW m \in Nodes, NEW h \in AllGroups PROVE StoreOk(m, h)'
  <2>1. CASE Store(m, h)' = Store(m, h)
      BY ZenonT(30), <1>1, <2>1, StoreUntouched DEF Going, StoresOk
  <2>2. CASE Store(m, h)'.promises = <<>>
      BY ZenonT(30), <2>2, StoreEmpty
  <2> QED
      BY ZenonT(30), <2>1, <2>2
<1> QED
    BY ZenonT(30), <1>1, <1>3, <1>4, <1>5 DEF Going, StoresOk

(* The client *)
LEMMA ClientGoing ==
    ASSUME Base, Base', Going, IsRunning, NEW n \in Nodes, ClientStep(n)
    PROVE  Going'
<1>0. plan \in PlanRecord /\ plan.splits[n] \in Seq(AllGroups) /\ sent[n] \in Nat /\ StoresTyped
  <2>1. plan \in PlanRecord
      BY Zenon, SplitsAssumption DEF Base
  <2> QED
      BY Zenon, <2>1 DEF Base, PlanRecord
<1>1. CASE AddSplit(n)
  <2>1. sent[n] + 1 \in SplitsOf(n)
      BY <1>0, <1>1 DEF AddSplit, SplitsOf
  <2>2. AddSplitLocked(n, sent[n] + 1) /\ UNCHANGED <<plan, start, groupEnds, nodeEnd>>
      BY ZenonT(30), <1>1 DEF AddSplit, startVars
  <2> QED
      BY ZenonT(30), <2>1, <2>2, LockedGoing
<1>2. CASE AddSplitWithSequence(n)
  <2>1. PICK i \in SplitsOf(n) :
            /\ AddSplitLocked(n, i) \/ UNCHANGED <<groupVars, stores>>
            /\ UNCHANGED <<startVars, groupEnds, nodeEnd>>
      BY ZenonT(30), <1>2 DEF AddSplitWithSequence
  <2>2. UNCHANGED <<plan, start, groupEnds, nodeEnd>>
      BY ZenonT(30), <2>1 DEF startVars
  <2>3. CASE AddSplitLocked(n, i)
      BY ZenonT(30), <2>2, <2>3, LockedGoing
  <2>4. CASE UNCHANGED <<groupVars, stores>>
      BY ZenonT(30), <2>2, <2>4, StayGoing DEF groupVars, Started
  <2> QED
      BY ZenonT(30), <2>1, <2>3, <2>4
<1>3. CASE SetMaxSplitSequenceId(n)
    BY ZenonT(30), <1>3, StayGoing DEF SetMaxSplitSequenceId, startVars, groupVars, clientVars, Started
<1>4. ASSUME NEW g \in Groups, NoMoreSplitsForGroup(n, g) PROVE Going'
  <2> DEFINE v == [splits |-> Store(n, g).splits, end |-> TRUE, promises |-> <<>>]
  <2>1. /\ UNCHANGED <<plan, start, seen, queued, running, at, nodeEnd>> /\ n \in plan.grouped
        /\ groupEnds' = groupEnds \cup {<<n, g>>} /\ SetStore(n, g, v)
      BY ZenonT(30), <1>4 DEF NoMoreSplitsForGroup, startVars
  <2>2. v.end /\ v.promises = <<>>
      BY ZenonT(30)
  <2> HIDE DEF v
  <2>3. StoreSet(n, g, v)
      BY ZenonT(30), <1>0, <2>1, SetStoreFacts
  <2>4. Store(n, g)' = v /\ \A m \in Nodes : \A h : m # n \/ h # g => Store(m, h)' = Store(m, h)
      BY <1>0, <2>3, StoreAfter
  <2>5. \A m \in Nodes : DOMAIN stores'[m] \subseteq GroupsOf(plan, m)
    <3>1. DOMAIN stores'[n] = DOMAIN stores[n] \cup {g} /\ \A m \in Nodes \ {n} : stores'[m] = stores[m]
        BY Zenon, <2>3 DEF StoreSet
    <3> QED
        BY Zenon, <2>1, <3>1 DEF Going, EndsOk, GroupsOf
  <2>6. \A m \in Nodes : \A h \in AllGroups :
            Store(m, h)' = Store(m, h) \/ (Store(m, h)'.promises = <<>> /\ Store(m, h)'.end)
      BY Zenon, <2>2, <2>4
  <2>7. \A m \in Nodes : \A h \in Groups : <<m, h>> \in groupEnds' => <<m, h>> \in groupEnds \/ Store(m, h)'.end
      BY Zenon, <2>1, <2>2, <2>4
  <2> QED
      BY ZenonT(30), <2>1, <2>5, <2>6, <2>7, EndGoing
<1>5. CASE NoMoreSplits(n)
  <2>1. /\ UNCHANGED <<plan, start, seen, queued, running, at, groupEnds>> /\ EndStores(n)
        /\ nodeEnd' = [nodeEnd EXCEPT ![n] = TRUE] /\ EndsGroups(n)
      BY ZenonT(30), <1>5 DEF NoMoreSplits, groupVars, clientVars
  <2>2. /\ \A m \in Nodes : DOMAIN stores'[m] \subseteq GroupsOf(plan, m)
        /\ \A m \in Nodes : \A h \in AllGroups :
                Store(m, h)' = Store(m, h) \/ (Store(m, h)'.promises = <<>> /\ Store(m, h)'.end)
        /\ n \notin plan.grouped => Store(n, Ungrouped)'.end
    <3>0. \A m \in Nodes : DOMAIN stores[m] \subseteq GroupsOf(plan, m)
        BY ZenonT(30) DEF Going, EndsOk
    <3>1. CASE DOMAIN stores[n] # {}
      <4>1. stores' = [stores EXCEPT ![n] = [g \in DOMAIN stores[n] |->
                            [splits |-> stores[n][g].splits, end |-> TRUE, promises |-> <<>>]]]
          BY ZenonT(30), <2>1, <3>1 DEF EndStores
      <4>2. \A m \in Nodes \ {n} : stores'[m] = stores[m]
          BY ZenonT(30), <1>0, <4>1 DEF StoresTyped
      <4>3. stores'[n] = [g \in DOMAIN stores[n] |->
                            [splits |-> stores[n][g].splits, end |-> TRUE, promises |-> <<>>]]
          BY ZenonT(30), <1>0, <4>1 DEF StoresTyped
      <4>4. /\ DOMAIN stores'[n] = DOMAIN stores[n]
            /\ \A g \in DOMAIN stores[n] : stores'[n][g].promises = <<>> /\ stores'[n][g].end
          BY <4>3
      <4>5. \A m \in Nodes \ {n} : \A h \in AllGroups : Store(m, h)' = Store(m, h)
          BY ZenonT(30), <4>2 DEF Store
      <4>6. \A h \in AllGroups : Store(n, h)' = Store(n, h) \/ (Store(n, h)'.promises = <<>> /\ Store(n, h)'.end)
          BY ZenonT(30), <4>4 DEF Store
      <4>7. n \notin plan.grouped => Store(n, Ungrouped)'.end
        <5>1. n \notin plan.grouped => Ungrouped \in DOMAIN stores[n]
            BY ZenonT(30), <3>0, <3>1 DEF GroupsOf
        <5> QED
            BY ZenonT(30), <4>4, <5>1 DEF Store
      <4> QED
          BY ZenonT(30), <3>0, <4>2, <4>4, <4>5, <4>6, <4>7
    <3>2. CASE DOMAIN stores[n] = {} /\ n \in plan.grouped
      <4>1. UNCHANGED stores
          BY ZenonT(30), <2>1, <3>2 DEF EndStores
      <4> QED
          BY ZenonT(30), <3>0, <3>2, <4>1 DEF Store
    <3>3. CASE DOMAIN stores[n] = {} /\ n \notin plan.grouped
      <4> DEFINE v == [splits |-> <<>>, end |-> TRUE, promises |-> <<>>]
      <4>1. SetStore(n, Ungrouped, v)
          BY ZenonT(30), <2>1, <3>3 DEF EndStores
      <4>2. v.end /\ v.promises = <<>>
          BY Zenon
      <4> HIDE DEF v
      <4>3. StoreSet(n, Ungrouped, v)
          BY ZenonT(30), <1>0, <4>1, SetStoreFacts
      <4>4. Store(n, Ungrouped)' = v /\ \A m \in Nodes : \A h : m # n \/ h # Ungrouped => Store(m, h)' = Store(m, h)
          BY <1>0, <4>3, StoreAfter
      <4>5. \A m \in Nodes : DOMAIN stores'[m] \subseteq GroupsOf(plan, m)
        <5>1. /\ DOMAIN stores'[n] = DOMAIN stores[n] \cup {Ungrouped}
              /\ \A m \in Nodes \ {n} : stores'[m] = stores[m]
            BY ZenonT(30), <4>3 DEF StoreSet
        <5> QED
            BY <3>0, <3>3, <5>1 DEF GroupsOf
      <4> QED
          BY ZenonT(30), <4>2, <4>4, <4>5
    <3> QED
        BY ZenonT(30), <3>1, <3>2, <3>3
  <2>3. \A m \in Nodes \ {n} : nodeEnd'[m] => nodeEnd[m]
      BY <2>1
  <2>4. \A m \in Nodes : nodeEnd'[m] /\ m \notin plan.grouped => nodeEnd[m] \/ Store(m, Ungrouped)'.end
      BY ZenonT(30), <2>2, <2>3
  <2>5. \A m \in Nodes : nodeEnd'[m] /\ m \in plan.grouped /\ plan.careful =>
            nodeEnd[m] \/ {m} \X UsedGroups \subseteq groupEnds'
      BY ZenonT(30), <2>1, <2>3 DEF EndsGroups
  <2> QED
      BY ZenonT(30), <2>1, <2>2, <2>4, <2>5, EndGoing
<1> QED
    BY ZenonT(30), <1>1, <1>2, <1>3, <1>4, <1>5 DEF ClientStep

(* Task::start *)
LEMMA StartGoing ==
    ASSUME Base, Base', Going, IsRunning, StartStep
    PROVE  Going'
<1>1. CASE PlanDrivers \/ CheckRunning \/ InitializePartitionOutput
  <2>1. UNCHANGED <<plan, seen, queued, running, at, stores, groupEnds, nodeEnd>> /\ Started' = Started
    <3>1. CASE PlanDrivers
        BY Zenon, <3>1 DEF PlanDrivers, storeVars, groupVars, clientVars, Started
    <3>2. CASE CheckRunning
        BY Zenon, <3>2 DEF CheckRunning, storeVars, groupVars, clientVars, Started
    <3>3. CASE InitializePartitionOutput
        BY Zenon, <3>3 DEF InitializePartitionOutput, storeVars, groupVars, clientVars, Started
    <3> QED
        BY ZenonT(30), <1>1, <3>1, <3>2, <3>3
  <2> QED
      BY ZenonT(30), <2>1, StayGoing
<1>2. CASE CreateAndStartDrivers
  <2> DEFINE free == DOMAIN at \ GroupedDrivers
             drivers == [d \in DOMAIN at |-> IF d \in free THEN "queued" ELSE at[d]]
  <2>1. /\ EnsureProcessed(plan.concurrent, AllSlots, queued, running, drivers,
                           [left EXCEPT ![Ungrouped] = Cardinality(free)])
        /\ start = "clients" /\ start' = "started"
        /\ UNCHANGED <<plan, seen, stores, groupEnds, nodeEnd>>
      BY Zenon, <1>2 DEF CreateAndStartDrivers, storeVars, clientVars
  <2>2. plan.concurrent \in Int
    <3>1. plan \in PlanRecord
        BY Zenon, SplitsAssumption DEF Base
    <3> QED
        BY <3>1 DEF PlanRecord
  <2>3. queued \in Seq(Groups) /\ Distinct(queued) /\ running \in Int /\ seen \subseteq UsedGroups
        /\ Range(queued) \subseteq seen
      BY Zenon DEF Going, QueuedOk
  <2>4. \A d \in DOMAIN at : drivers[d] = IF d.group = Ungrouped THEN "queued" ELSE at[d]
      BY Zenon DEF GroupedDrivers
  <2>5. \A d \in DOMAIN at : d.group = Ungrouped => at[d] = "none"
      BY Zenon, <2>1 DEF Going, QueuedOk, Started
  <2>6. \A d \in DOMAIN at : drivers[d] \in AtStates
    <3>1. \A d \in DOMAIN at : at[d] \in AtStates
        BY Zenon DEF Going, AtTyped
    <3> QED
        BY Zenon, <2>4, <3>1 DEF AtStates
  <2>7. \A d \in DOMAIN at : d.group \in Groups /\ at[d] = "none" => drivers[d] = "none"
      BY Zenon, <2>4, SplitsAssumption
  <2>8. Started'
      BY Zenon, <2>1 DEF Started
  <2> HIDE DEF drivers
  <2>9. QueueStep(queued, drivers)
      BY Zenon, <2>1, <2>2, <2>3, EnsureStep
  <2>10. /\ QueuedOk' /\ AtTyped'
         /\ \A d \in DOMAIN at : at'[d] = drivers[d] \/ (at[d] = "none" /\ at'[d] = "queued")
      BY Zenon, <2>1, <2>3, <2>6, <2>7, <2>8, <2>9, QueueMoves
  <2>11. AtGrows
      BY ZenonT(30), <2>4, <2>5, <2>9, <2>10 DEF AtGrows, QueueStep
  <2> QED
      BY ZenonT(30), <2>1, <2>10, <2>11, QueueGoing
<1> QED
    BY ZenonT(30), <1>1, <1>2 DEF StartStep, StartTooLate, StartFails

(* A task that has ended does not run again. *)
LEMMA NoRestart ==
    ASSUME ~IsRunning, [Next]_vars
    PROVE  ~IsRunning'
<1>1. CASE UNCHANGED vars
    BY ZenonT(30), <1>1 DEF vars, taskVars, IsRunning
<1>2. CASE StartStep
  <2>1. UNCHANGED state_
      BY ZenonT(30), <1>2 DEF StartStep, PlanDrivers, StartTooLate, CheckRunning, InitializePartitionOutput, CreateAndStartDrivers,
                  StartFails, taskVars
  <2> QED
      BY ZenonT(30), <2>1 DEF IsRunning
<1>3. ASSUME NEW n \in Nodes, ClientStep(n) PROVE ~IsRunning'
  <2>1. CASE AddSplit(n)
      BY Zenon, <2>1 DEF AddSplit, IsRunning
  <2>2. CASE AddSplitWithSequence(n)
      BY Zenon, <2>2 DEF AddSplitWithSequence, IsRunning
  <2>3. CASE SetMaxSplitSequenceId(n) \/ (\E g \in Groups : NoMoreSplitsForGroup(n, g)) \/ NoMoreSplits(n)
      BY Zenon, <2>3 DEF SetMaxSplitSequenceId, NoMoreSplitsForGroup, NoMoreSplits, taskVars, IsRunning
  <2> QED
      BY ZenonT(30), <1>3, <2>1, <2>2, <2>3 DEF ClientStep
<1>4. ASSUME NEW d \in DOMAIN at, DriverStep(d) PROVE ~IsRunning'
  <2>1. CASE GetSplitOrFuture(d) \/ SplitFinished(d) \/ Block(d)
      BY ZenonT(30), <2>1 DEF GetSplitOrFuture, SplitFinished, Block, taskVars, IsRunning
  <2>2. CASE Close(d)
    <3>1. state_' \in {state_, "crashed"}
        BY ZenonT(30), <2>2 DEF Close, RemoveDriver, EnsureProcessed
    <3> QED
        BY ZenonT(30), <3>1 DEF IsRunning
  <2>3. CASE PromiseBroken(d)
      BY ZenonT(30), <2>3 DEF PromiseBroken, Terminate
  <2> QED
      BY ZenonT(30), <1>4, <2>1, <2>2, <2>3 DEF DriverStep
<1>5. CASE EndStep \/ Cancel
    BY ZenonT(30), <1>5 DEF EndStep, Cancel, SetAllOutputConsumed, Finish, Terminate, TerminateRest, IsRunning
<1> QED
    BY ZenonT(30), <1>1, <1>2, <1>3, <1>4, <1>5 DEF Next, Progress

\* While the task runs, the stores are in order.
SleepInv == IsRunning => Going

(* Nothing is in the stores at first. *)
LEMMA SleepInit ==
    ASSUME Init, Base
    PROVE  Going
<1>1. /\ at = [d \in Drivers(plan) |-> "none"] /\ queued = <<>> /\ seen = {} /\ running = 0 /\ groupEnds = {}
      /\ nodeEnd = [n \in Nodes |-> FALSE] /\ stores = [n \in Nodes |-> <<>>] /\ DOMAIN <<>> = {}
    BY DEF Init
<1>2. AtTyped
    BY ZenonT(30), <1>1 DEF AtTyped, AtStates
<1>3. QueuedOk
  <2>1. <<>> \in Seq(Groups) /\ Distinct(<<>>) /\ Range(<<>>) = {}
      BY DEF Distinct, Range
  <2> QED
      BY <1>1, <2>1 DEF QueuedOk
<1>4. \A n \in Nodes : \A g : Store(n, g) = NoStore
    BY ZenonT(30), <1>1 DEF Store
<1>5. EndsOk
    BY Zenon, <1>1 DEF EndsOk
<1>6. ASSUME NEW n \in Nodes, NEW g \in AllGroups PROVE StoreOk(n, g)
  <2>1. Store(n, g).promises = <<>>
      BY <1>4 DEF NoStore
  <2>2. <<>> \in Seq(Of(n, g)) /\ Len(<<>>) = 0 /\ Range(<<>>) = {}
      BY DEF Range
  <2>3. \A j, k \in 1..0 : <<>>[j] = <<>>[k] => j = k
      OBVIOUS
  <2> QED
      BY <2>1, <2>2, <2>3 DEF StoreOk
<1> QED
    BY ZenonT(30), <1>2, <1>3, <1>5, <1>6 DEF Going, StoresOk

(* One step *)
LEMMA SleepStep ==
    ASSUME Base, Base', SleepInv, [Next]_vars
    PROVE  SleepInv'
<1> SUFFICES ASSUME IsRunning' PROVE Going'
    BY ZenonT(30) DEF SleepInv
<1>1. IsRunning /\ Going
    BY ZenonT(30), NoRestart DEF SleepInv
<1>2. CASE UNCHANGED vars
  <2>1. UNCHANGED <<plan, start, seen, queued, running, at, stores, groupEnds, nodeEnd>>
      BY ZenonT(30), <1>2 DEF vars, startVars, storeVars, groupVars, clientVars
  <2> QED
      BY ZenonT(30), <1>1, <2>1, StayGoing DEF Started
<1>3. CASE EndStep
  <2>1. CASE SetAllOutputConsumed
    <3>1. UNCHANGED <<plan, start, seen, queued, running, at, stores, groupEnds, nodeEnd>>
        BY ZenonT(30), <2>1 DEF SetAllOutputConsumed, startVars, storeVars, groupVars, clientVars
    <3> QED
        BY Zenon, <1>1, <3>1, StayGoing DEF Started
  <2>2. CASE Finish
      BY ZenonT(30), <2>2 DEF Finish, Terminate, IsRunning
  <2>3. CASE TerminateRest
      BY ZenonT(30), <1>1, <2>3 DEF TerminateRest, Base
  <2> QED
      BY ZenonT(30), <1>3, <2>1, <2>2, <2>3 DEF EndStep
<1>4. CASE Cancel
    BY ZenonT(30), <1>4 DEF Cancel, Terminate, IsRunning
<1>5. CASE StartStep
    BY ZenonT(30), <1>1, <1>5, StartGoing
<1>6. ASSUME NEW n \in Nodes, ClientStep(n) PROVE Going'
    BY ZenonT(30), <1>1, <1>6, ClientGoing
<1>7. ASSUME NEW d \in DOMAIN at, DriverStep(d) PROVE Going'
    BY ZenonT(30), <1>1, <1>7, DriverGoing
<1> QED
    BY Zenon, <1>2, <1>3, <1>4, <1>5, <1>6, <1>7 DEF Next, Progress

(* A driver whose promise is in a store waits for a split that no awake      *)
(* driver will leave to it.                                                  *)
LEMMA GoingAwake ==
    ASSUME Base, Going, IsRunning
    PROVE  NobodySleepsOnSplits
<1> SUFFICES ASSUME NEW n \in Nodes, NEW g \in DOMAIN stores[n], stores[n][g].promises # <<>>
             PROVE  /\ ~stores[n][g].end /\ (plan.careful => ~nodeEnd[n])
                    /\ Len(stores[n][g].splits)
                            <= Cardinality({d \in Taken(at) \ Outstanding : d.node = n /\ d.group = g})
    BY ZenonT(30) DEF NobodySleepsOnSplits
<1> DEFINE W == {d \in Taken(at) \ Outstanding : d.node = n /\ d.group = g}
           s == stores[n][g]
<1>1. \A m \in Nodes : \A h \in DOMAIN stores[m] : h \in AllGroups /\ h \in GroupsOf(plan, m) /\ Store(m, h) = stores[m][h]
    BY ZenonT(30) DEF Going, EndsOk, GroupsOf, AllGroups, Store
<1>2. StoreOk(n, g) /\ Store(n, g) = s
    BY Zenon, <1>1 DEF Going, StoresOk
<1>3. ~s.end /\ Len(s.splits) <= Cardinality(Awake(n, g))
    BY ZenonT(30), <1>2 DEF StoreOk
<1>4. Awake(n, g) \subseteq W
  <2> SUFFICES ASSUME NEW d \in Awake(n, g) PROVE d \notin Outstanding
      BY ZenonT(30) DEF Awake, Of
  <2>1. d \in Of(n, g) /\ d \notin Range(s.promises)
      BY ZenonT(30), <1>2 DEF Awake
  <2>2. ASSUME NEW m \in Nodes, NEW h \in DOMAIN stores[m], d \in Range(stores[m][h].promises) PROVE FALSE
    <3>1. StoreOk(m, h) /\ Store(m, h) = stores[m][h]
        BY ZenonT(30), <1>1 DEF Going, StoresOk
    <3>2. d \in Of(m, h)
        BY <2>2, <3>1 DEF StoreOk, Range
    <3>3. m = n /\ h = g
        BY Zenon, <2>1, <3>2 DEF Of
    <3> QED
        BY ZenonT(30), <2>1, <2>2, <3>3
  <2> QED
      BY ZenonT(30), <2>2 DEF Outstanding
<1>5. W \subseteq Drivers(plan)
    BY Zenon DEF Taken, Going, AtTyped
<1>6. Len(s.splits) \in Nat
  <2>1. IsStore(s)
      BY Zenon DEF Base, StoresTyped
  <2> QED
      BY <2>1 DEF IsStore
<1>7. Len(s.splits) <= Cardinality(W)
  <2> HIDE DEF W, s
  <2>1. IsFiniteSet(W)
      BY ZenonT(30), <1>5, DriversFinite, FS_Subset
  <2>2. Cardinality(Awake(n, g)) <= Cardinality(W) /\ IsFiniteSet(Awake(n, g))
      BY ZenonT(30), <1>4, <2>1, FS_Subset
  <2>3. Cardinality(W) \in Nat /\ Cardinality(Awake(n, g)) \in Nat
      BY ZenonT(30), <2>1, <2>2, FS_CardinalityType
  <2> QED
      BY <1>3, <1>6, <2>2, <2>3
<1>8. ASSUME plan.careful, nodeEnd[n] PROVE FALSE
  <2>1. PICK d \in Of(n, g) : at[d] # "none"
    <3>1. s.promises \in Seq(Of(n, g)) /\ \A e \in Range(s.promises) : at[e] \in {"blocking", "waiting"}
        BY ZenonT(30), <1>2 DEF StoreOk
    <3>2. 1 \in DOMAIN s.promises
        BY <3>1
    <3>3. s.promises[1] \in Range(s.promises) /\ s.promises[1] \in Of(n, g)
        BY <3>1, <3>2 DEF Range
    <3> QED
        BY ZenonT(30), <3>1, <3>3
  <2>2. CASE n \notin plan.grouped
    <3>1. g = Ungrouped
        BY ZenonT(30), <1>1, <2>2 DEF GroupsOf
    <3> QED
        BY ZenonT(30), <1>2, <1>3, <1>8, <2>2, <3>1 DEF Going, EndsOk
  <2>3. CASE n \in plan.grouped
    <3>1. g \in Groups
        BY ZenonT(30), <1>1, <2>3 DEF GroupsOf
    <3>2. g \in seen /\ g \in UsedGroups
        BY ZenonT(30), <2>1, <3>1 DEF Of, Going, QueuedOk
    <3>3. {n} \X UsedGroups \subseteq groupEnds
        BY ZenonT(30), <1>8, <2>3 DEF Going, EndsOk
    <3>4. <<n, g>> \in groupEnds
        BY ZenonT(30), <3>2, <3>3
    <3> QED
        BY ZenonT(30), <1>2, <1>3, <3>1, <3>4 DEF Going, EndsOk
  <2> QED
      BY ZenonT(30), <2>2, <2>3
<1> QED
    BY ZenonT(30), <1>3, <1>7, <1>8

(* No lost wakeup between getSplitOrFuture and the calls that fulfil its     *)
(* promises: while a driver waits for a split, every split in its store has  *)
(* an awake driver to take it, and the end has not been announced.           *)
THEOREM DriversWoken == Spec => []NobodySleepsOnSplits
<1>1. Init /\ RemoteInv => SleepInv
    BY Zenon, SleepInit DEF RemoteInv, SleepInv
<1>2. RemoteInv /\ RemoteInv' /\ SleepInv /\ [Next]_vars => SleepInv'
    BY Zenon, SleepStep DEF RemoteInv
<1>3. RemoteInv /\ SleepInv => NobodySleepsOnSplits
  <2>1. CASE IsRunning
      BY ZenonT(30), <2>1, GoingAwake DEF RemoteInv, SleepInv
  <2>2. CASE ~IsRunning
      BY ZenonT(30), <2>2 DEF NobodySleepsOnSplits
  <2> QED
      BY Zenon, <2>1, <2>2
<1> QED
    BY <1>1, <1>2, <1>3, RemoteHolds, PTL DEF Spec
=============================================================================
