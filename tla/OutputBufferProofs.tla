------------------------- MODULE OutputBufferProofs -------------------------
(***************************************************************************)
(* The inductive invariant of OutputBuffer, and what follows from it for   *)
(* any number of destinations, producers, drivers and pages and any sizes: *)
(* no page is lost or repeated, the end comes after the last page, nobody  *)
(* who waits is forgotten, and the buffered bytes are counted right.       *)
(***************************************************************************)
EXTENDS OutputBufferBytes, OutputBufferContent, FiniteSetTheorems

-----------------------------------------------------------------------------
(* The facts about finite sets. *)
LEMMA CountedHolds == Counted
<1>1. ASSUME NEW D \in SUBSET Dests PROVE Cardinality(D) \in Nat /\ (Cardinality(D) = 0 <=> D = {})
  <2>1. IsFiniteSet(Dests)
    BY SizesAssumption, FS_Interval, SMTT(30) DEF Dests
  <2>2. IsFiniteSet(D)
    BY <2>1, FS_Subset, Zenon
  <2> QED BY <2>2, FS_CardinalityType, FS_EmptySet, Zenon
<1>2. ASSUME NEW P \in SUBSET Producers
      PROVE  /\ Cardinality(P) \in Nat /\ Cardinality(P) <= Cardinality(Producers)
             /\ Cardinality(P) = Cardinality(Producers) => P = Producers
             /\ \A p \in Producers \ P : Cardinality(P \cup {p}) = Cardinality(P) + 1
  <2>1. IsFiniteSet(Producers)
    BY SizesAssumption, Zenon
  <2>2. /\ IsFiniteSet(P) /\ Cardinality(P) <= Cardinality(Producers)
        /\ Cardinality(P) = Cardinality(Producers) => P = Producers
    BY <2>1, FS_Subset, Zenon
  <2> QED BY <2>2, FS_CardinalityType, FS_AddElement, Zenon
<1>3. ASSUME NEW P \in SUBSET Pages PROVE IsFiniteSet(P) /\ Cardinality(P) \in Nat
  <2>1. IsFiniteSet(Pages)
    BY SizesAssumption, FS_Interval, SMTT(30) DEF Pages
  <2>2. IsFiniteSet(P)
    BY <2>1, FS_Subset, Zenon
  <2> QED BY <2>2, FS_CardinalityType, Zenon
<1>4. ASSUME NEW P \in SUBSET Pages, NEW Q \in SUBSET Pages, P \cap Q = {}
      PROVE  Cardinality(P \cup Q) = Cardinality(P) + Cardinality(Q)
  <2>1. IsFiniteSet(P) /\ IsFiniteSet(Q) /\ Cardinality(P) \in Nat /\ Cardinality(Q) \in Nat
    BY <1>3, Zenon
  <2>2. Cardinality(P \cup Q) = Cardinality(P) + Cardinality(Q) - Cardinality(P \cap Q)
    BY <2>1, FS_Union, Zenon
  <2>3. Cardinality(P \cap Q) = 0
    BY <1>4, FS_EmptySet, Zenon
  <2> QED BY <2>1, <2>2, <2>3, SMTT(30)
<1>5. \A page \in Pages : Cardinality({page}) = 1
  BY FS_Singleton, Zenon
<1>6. ASSUME NEW V \in SUBSET Nat, V # {} PROVE \E x \in V : \A y \in V : x <= y
  <2>1. PICK x \in V : \A y \in V : ~(<<y, x>> \in OpToRel(<, Nat))
    BY <1>6, WFMin, NatLessThanWellFounded, Zenon
  <2>2. ASSUME NEW y \in V PROVE x <= y
    <3>1. x \in Nat /\ y \in Nat
      BY Zenon
    <3>2. ~(y < x)
      BY <2>1, <3>1, Zenon DEF OpToRel
    <3> QED BY <3>1, <3>2, SMTT(30)
  <2> QED BY <2>2, Zenon
<1> QED BY <1>1, <1>2, <1>3, <1>4, <1>5, <1>6, Zenon DEF Counted

-----------------------------------------------------------------------------
(* Every step keeps the inductive invariant. *)

LEMMA StepKept ==
    ASSUME IInv, [Next]_vars, Counted
    PROVE  IInv'
<1> USE DEF IInv
<1>1. Types /\ KindInv /\ ContentInv /\ QueueInv
  BY Zenon DEF ControlInv
<1>2. ASSUME NEW p \in Producers, ProducerStep(p) PROVE IInv'
  <2>1. CASE EnqueueBroadcast(p) \/ EnqueueArbitrary(p) \/ \E d \in Dests : EnqueuePartitioned(p, d)
    <3>1. ControlInv' /\ ~atEnd
      BY <2>1, EnqueueControl, Zenon
    <3> QED BY <1>1, <2>1, <3>1, EnqueueBroadcastContent, EnqueueArbitraryContent,
               EnqueuePartitionedContent, Zenon
  <2>2. CASE NoMoreData(p)
    <3>1. ControlInv' /\ ~atEnd
      BY <2>2, CheckIfDoneControl, Zenon
    <3>2. CheckIfDone(numFinished + 1)
      BY <2>2, Zenon DEF NoMoreData
    <3> QED BY <1>1, <3>1, <3>2, CheckIfDoneContent, Zenon
  <2> QED BY <1>2, <2>1, <2>2, Zenon DEF ProducerStep
<1>3. CASE DriversStep
  <2>1. CASE UpdateNumDrivers
    BY <1>1, <2>1, UpdateNumDriversControl, QuietContent, Zenon
  <2>2. CASE NoMoreDrivers
    <3>1. ControlInv' /\ ~atEnd
      BY <2>2, CheckIfDoneControl, Zenon
    <3>2. CheckIfDone(numFinished)
      BY <2>2, Zenon DEF NoMoreDrivers
    <3> QED BY <1>1, <3>1, <3>2, CheckIfDoneContent, Zenon
  <2> QED BY <1>3, <2>1, <2>2, Zenon DEF DriversStep
<1>4. ASSUME NEW n \in Dests, NEW noMore \in BOOLEAN, UpdateOutputBuffers(n, noMore) PROVE IInv'
  BY <1>1, <1>4, UpdateOutputBuffersControl, UpdateOutputBuffersContent, Zenon
<1>5. ASSUME NEW c \in Callers, Release(c) PROVE IInv'
  BY <1>1, <1>5, ReleaseControl, QuietContent, Zenon
<1>6. ASSUME NEW d \in Dests, GetData(d) PROVE IInv'
  BY <1>1, <1>6, GetDataControl, GetDataContent, Zenon
<1>7. ASSUME NEW d \in Dests, Timeout(d) PROVE IInv'
  BY <1>1, <1>7, ConsumerControl, TimeoutContent, Zenon
<1>8. ASSUME NEW d \in Dests, Receive(d) PROVE IInv'
  BY <1>1, <1>8, ConsumerControl, ReceiveContent, Zenon
<1>9. ASSUME NEW d \in Dests, NEW s \in acks[d], Acknowledge(d, s) PROVE IInv'
  BY <1>1, <1>9, AcknowledgeControl, AcknowledgeContent, Zenon
<1>10. ASSUME NEW d \in Dests, NEW s \in acks[d], LoseAcknowledge(d, s) PROVE IInv'
  BY <1>1, <1>10, ConsumerControl, LoseAcknowledgeContent, Zenon
<1>11. ASSUME NEW d \in Dests, DeleteResults(d) PROVE IInv'
  BY <1>1, <1>11, DeleteResultsControl, DeleteResultsContent, Zenon
<1>12. CASE UNCHANGED vars
  BY <1>1, <1>12, StutterControl, StutterContent, Zenon
<1> HIDE DEF IInv
<1> QED BY <1>2, <1>3, <1>4, <1>5, <1>6, <1>7, <1>8, <1>9, <1>10, <1>11, <1>12, Zenon DEF Next

(* What the steps rely on holds in every state. *)
LEMMA Invariant == Spec => []IInv
<1>1. Init => IInv
  BY CountedHolds, InitControl, InitContent, Zenon DEF IInv, ControlInv
<1>2. IInv /\ [Next]_vars => IInv'
  BY CountedHolds, StepKept, Zenon
<1> QED BY <1>1, <1>2, PTL DEF Spec

-----------------------------------------------------------------------------
(* The theorems. *)

(* No page is lost or delivered twice, in order and to whom it is meant,   *)
(* whatever requests time out, responses and acknowledgements get lost and *)
(* however the drivers, the consumers and updateOutputBuffers interleave.  *)
THEOREM NothingIsLostOrRepeated == Spec => []NothingLostOrRepeated
<1>1. IInv => NothingLostOrRepeated
  BY ContentRight, Zenon DEF IInv, ControlInv
<1> QED BY <1>1, Invariant, PTL

(* A consumer that gets the end marker has got all pages that are meant    *)
(* for it, and all drivers have called noMoreData: checkIfDone enqueues the *)
(* marker behind everything else.                                          *)
THEOREM EndIsAfterAllPages == Spec => []EndAfterAllPages
<1>1. IInv => EndAfterAllPages
  BY EndRight, Zenon DEF IInv, ControlInv
<1> QED BY <1>1, Invariant, PTL

(* A fetch without an answer is registered with its DestinationBuffer,     *)
(* which has nothing for it; a producer is held back only while            *)
(* bufferedBytes_ is at or above continueSize_, or its promise is about to *)
(* be fulfilled.                                                           *)
THEOREM NobodyIsForgotten == Spec => []NobodyForgotten
<1>1. IInv => NobodyForgotten
  BY WaitsRight, Zenon DEF IInv, ControlInv
<1> QED BY <1>1, Invariant, PTL

(* enqueue and updateAfterAcknowledgeLocked keep bufferedBytes_ exact for  *)
(* partitioned and arbitrary output, and never too small for broadcast.    *)
THEOREM BytesAreCounted == Spec => []BytesCounted
<1>1. IInv => BytesCounted
  BY Zenon DEF IInv, ControlInv, BytesInv
<1> QED BY <1>1, Invariant, PTL

(* The variables keep their types; in particular bufferedBytes_ never      *)
(* becomes negative (VELOX_CHECK_GE of updateStatsWithFreedPagesLocked) and *)
(* no more drivers finish than there are.                                  *)
THEOREM TypesAreRight == Spec => []TypeOK
<1>1. IInv => TypeOK
  BY CountedHolds, TypesRight, Zenon DEF IInv, ControlInv
<1> QED BY <1>1, Invariant, PTL
=============================================================================
