------------------------- MODULE OutputBufferBytes --------------------------
(***************************************************************************)
(* What each step of OutputBuffer does to all but the contents: types, the *)
(* count of the drivers, producers that are held back, and the bytes that  *)
(* are counted as buffered.                                                *)
(***************************************************************************)
EXTENDS OutputBufferSteps

-----------------------------------------------------------------------------
(* Types, drivers, kinds and waiting producers. *)

(* Append is concatenation with one item. *)
LEMMA AppendIs ==
    ASSUME NEW s \in Seq(Items), NEW x \in Items
    PROVE  Append(s, x) = s \o <<x>>
OBVIOUS

(* What is left of the shared buffer. *)
LEMMA AfterTyped ==
    ASSUME NEW arb \in Seq(Items), NEW n \in Nat
    PROVE  After(arb, n) \in Seq(Items)
<1>1. n * FetchPages \in Nat
  BY ConstantsTyped
<1>2. CASE Len(arb) > n * FetchPages
  <2>1. n * FetchPages <= Len(arb)
    BY <1>1, <1>2, SeqFacts
  <2> QED BY <1>1, <1>2, <2>1, SuffixFacts, Zenon DEF After
<1>3. CASE ~(Len(arb) > n * FetchPages)
  <2>1. <<End>> \in Seq(Items) /\ <<>> \in Seq(Items)
    BY ConstantsTyped
  <2> QED BY <1>3, <2>1, Zenon DEF After
<1> QED BY <1>2, <1>3, Zenon

(* The answers to waiting fetches. *)
LEMMA NotifyTyped ==
    ASSUME Types, NEW ds, NEW newData \in [Dests -> Seq(Items)], Notify(ds, newData)
    PROVE  /\ notify' \in [Dests -> {"none", "live", "stale"}]
           /\ response' \in [Dests -> Seq(Items) \cup {NoResponse}]
<1>1. \A d \in Dests : Prefix(newData[d], FetchPages) \in Seq(Items)
  BY PrefixFacts, ConstantsTyped, Zenon
<1>2. notify \in [Dests -> {"none", "live", "stale"}]
  BY Zenon DEF Types
<1>3. response \in [Dests -> Seq(Items) \cup {NoResponse}]
  BY Zenon DEF Types
<1>4. notify' \in [Dests -> {"none", "live", "stale"}]
  BY <1>2 DEF Notify
<1>5. response' \in [Dests -> Seq(Items) \cup {NoResponse}]
  <2>1. \A d \in Dests : (IF d \in ds /\ notify[d] = "live"
                          THEN Prefix(newData[d], FetchPages) ELSE response[d])
                             \in Seq(Items) \cup {NoResponse}
    BY <1>1, <1>3, Zenon
  <2> QED BY <2>1, Zenon DEF Notify
<1> QED BY <1>4, <1>5, Zenon

(* The pages freed, the bytes they are worth and the producers woken. *)
LEMMA UpdateTyped ==
    ASSUME Types, Counted, NEW c \in Callers, NEW freed \in SUBSET Pages, NEW newData, NEW log,
           NEW finished \in BOOLEAN, UpdateAfterAcknowledge(c, freed, newData, log, finished)
    PROVE  /\ bufferedBytes' \in Int /\ blocked' \subseteq Producers
           /\ pending' \in [Callers -> [freed : SUBSET Pages, woken : SUBSET Producers,
                                         finished : BOOLEAN]]
<1> DEFINE U == {page \in freed : Unique(c, page, newData, log)}
           gone == PageSize * Cardinality(U)
<1>1. gone \in Nat
  <2>1. Cardinality(U) \in Nat
    <3>1. U \subseteq Pages
      BY Zenon
    <3> HIDE DEF U
    <3> QED BY <3>1, Zenon DEF Counted
  <2> HIDE DEF U
  <2> QED BY <2>1, ConstantsTyped
<1>2. /\ bufferedBytes' = bufferedBytes - gone
      /\ blocked' = blocked \ Woken(gone)
      /\ pending' = [pending EXCEPT ![c] =
                       [freed |-> freed, woken |-> Woken(gone), finished |-> finished]]
  BY Zenon DEF UpdateAfterAcknowledge
<1> HIDE DEF gone
<1>3. /\ bufferedBytes \in Int /\ blocked \subseteq Producers
      /\ pending \in [Callers -> [freed : SUBSET Pages, woken : SUBSET Producers,
                                   finished : BOOLEAN]]
  BY Zenon DEF Types
<1>4. Woken(gone) \subseteq Producers
  BY <1>3, Zenon DEF Woken
<1> QED BY <1>1, <1>2, <1>3, <1>4

(* The destination that the next loading starts with. *)
LEMMA LoadNext ==
    ASSUME NEW turn, NEW arb
    PROVE  LET late == {d \in 1..numBuffers : LeftFor(turn, arb, d) = <<>>}
           IN  LoadWaiting(turn, arb).next =
                 IF late = {} THEN nextLoad
                 ELSE CHOOSE d \in late : \A e \in late : turn[d] <= turn[e]
BY DEF LoadWaiting, Waiting, Ahead, LeftFor

(* What is left after loading. *)
LEMMA LeftTyped ==
    ASSUME Counted, NEW turn, NEW arb \in Seq(Items), NEW d
    PROVE  /\ Cardinality(Waiting) \in Nat /\ Cardinality(Ahead(turn, d)) \in Nat
           /\ LeftFor(turn, arb, d) \in Seq(Items) /\ After(arb, Cardinality(Waiting)) \in Seq(Items)
<1>1. Waiting \subseteq Dests /\ Ahead(turn, d) \subseteq Dests
  BY Zenon DEF Waiting, Ahead
<1>2. Cardinality(Waiting) \in Nat /\ Cardinality(Ahead(turn, d)) \in Nat
  BY <1>1, Zenon DEF Counted
<1> QED BY <1>2, AfterTyped, Zenon DEF LeftFor

(* The buffers after loading. *)
LEMMA LoadTyped ==
    ASSUME Types, Counted, NEW turn \in [1..numBuffers -> Nat], NEW arb \in Seq(Items)
    PROVE  /\ LoadWaiting(turn, arb).arb \in Seq(Items)
           /\ LoadWaiting(turn, arb).data \in [Dests -> Seq(Items)]
           /\ LoadWaiting(turn, arb).next \in 1..numBuffers
<1>1. data \in [Dests -> Seq(Items)] /\ nextLoad \in 1..numBuffers
  BY Zenon DEF Types
<1>2. LoadWaiting(turn, arb).arb \in Seq(Items)
  <2>1. After(arb, Cardinality(Waiting)) \in Seq(Items)
    BY LeftTyped, Zenon
  <2> QED BY <2>1, LoadArb, Zenon
<1>3. LoadWaiting(turn, arb).data \in [Dests -> Seq(Items)]
  <2>1. ASSUME NEW d \in Dests
        PROVE  Enqueued(data[d], Taken(LeftFor(turn, arb, d))) \in Seq(Items)
    <3>1. Taken(LeftFor(turn, arb, d)) \in Seq(Items)
      BY LeftTyped, PrefixFacts, ConstantsTyped, Zenon DEF Taken
    <3> QED BY <1>1, <3>1, EnqueuedTyped, Zenon
  <2>2. \A d \in Dests : (IF d \in Waiting
                          THEN Enqueued(data[d], Taken(LeftFor(turn, arb, d)))
                          ELSE data[d]) \in Seq(Items)
    BY <1>1, <2>1, Zenon
  <2>3. LoadedData(turn, arb) \in [Dests -> Seq(Items)]
    BY <2>2, Zenon DEF LoadedData
  <2> QED BY <2>3, LoadData, Zenon
<1>4. LoadWaiting(turn, arb).next \in 1..numBuffers
  <2> DEFINE late == {d \in 1..numBuffers : LeftFor(turn, arb, d) = <<>>}
  <2>1. LoadWaiting(turn, arb).next =
          IF late = {} THEN nextLoad ELSE CHOOSE d \in late : \A e \in late : turn[d] <= turn[e]
    BY LoadNext, Zenon
  <2>2. late \subseteq 1..numBuffers
    BY Zenon
  <2> HIDE DEF late
  <2>3. CASE late # {}
    <3>1. \E d \in late : \A e \in late : turn[d] <= turn[e]
      BY <2>2, <2>3, FirstTurn, Zenon
    <3> QED BY <2>1, <2>2, <2>3, <3>1, Zenon
  <2> QED BY <1>1, <2>1, <2>3, Zenon
<1> QED BY <1>2, <1>3, <1>4, Zenon

(* A producer that has enqueued, and may be held back. *)
LEMMA ProduceTyped ==
    ASSUME Types, NEW p \in Producers, bufferedBytes' \in Int, Produce(p)
    PROVE  /\ produced' \in 0..MaxPages /\ produced + 1 \in Pages
           /\ producer' \in [Producers -> {"ready", "blocked", "done"}] /\ blocked' \subseteq Producers
<1>1. /\ produced \in 0..MaxPages /\ blocked \subseteq Producers
      /\ producer \in [Producers -> {"ready", "blocked", "done"}]
  BY Zenon DEF Types
<1>2. produced' \in 0..MaxPages /\ produced + 1 \in Pages
  BY <1>1, SizesAssumption DEF Produce, Pages
<1>3. /\ producer' \in [Producers -> {"ready", "blocked", "done"}] /\ blocked' \subseteq Producers
  BY <1>1 DEF Produce, BlockIfFull
<1> QED BY <1>2, <1>3, Zenon

(* Types after EnqueuePartitioned. *)
LEMMA EnqueuePartitionedTyped ==
    ASSUME Types, NEW p \in Producers, NEW d \in Dests, EnqueuePartitioned(p, d)
    PROVE  Types'
<1>1. bufferedBytes' \in Int
  BY ConstantsTyped DEF EnqueuePartitioned, Types
<1>2. Produce(p) /\ Notify({d}, data')
  BY Zenon DEF EnqueuePartitioned
<1>3. /\ produced' \in 0..MaxPages /\ produced + 1 \in Pages
      /\ producer' \in [Producers -> {"ready", "blocked", "done"}] /\ blocked' \subseteq Producers
  BY <1>1, <1>2, ProduceTyped, Zenon
<1>4. data' \in [Dests -> Seq(Items)]
  <2>1. <<produced + 1>> \in Seq(Items) /\ data \in [Dests -> Seq(Items)]
    BY <1>3, ConstantsTyped DEF Types
  <2>2. Enqueued(data[d], <<produced + 1>>) \in Seq(Items)
    BY <2>1, EnqueuedTyped, Zenon
  <2> QED BY <2>1, <2>2 DEF EnqueuePartitioned
<1>5. /\ notify' \in [Dests -> {"none", "live", "stale"}]
      /\ response' \in [Dests -> Seq(Items) \cup {NoResponse}]
  BY <1>2, <1>4, NotifyTyped, Zenon
<1>6. target' \in [Pages -> Dests]
  BY <1>3 DEF EnqueuePartitioned, Types
<1> QED BY <1>1, <1>2, <1>3, <1>4, <1>5, <1>6
        DEF Types, EnqueuePartitioned, Produce, driverVars

(* Types after EnqueueBroadcast. *)
LEMMA EnqueueBroadcastTyped ==
    ASSUME Types, NEW p \in Producers, EnqueueBroadcast(p)
    PROVE  Types'
<1>1. bufferedBytes' \in Int
  BY ConstantsTyped DEF EnqueueBroadcast, Types
<1>2. Produce(p) /\ Notify({d \in Dests : Live(d)}, data')
  BY Zenon DEF EnqueueBroadcast
<1>3. /\ produced' \in 0..MaxPages /\ produced + 1 \in Pages
      /\ producer' \in [Producers -> {"ready", "blocked", "done"}] /\ blocked' \subseteq Producers
  BY <1>1, <1>2, ProduceTyped, Zenon
<1>4. data' \in [Dests -> Seq(Items)]
  <2>1. <<produced + 1>> \in Seq(Items) /\ data \in [Dests -> Seq(Items)]
    BY <1>3, ConstantsTyped DEF Types
  <2>2. \A d \in Dests : Enqueued(data[d], <<produced + 1>>) \in Seq(Items)
    BY <2>1, EnqueuedTyped, Zenon
  <2> QED BY <2>1, <2>2, Zenon DEF EnqueueBroadcast
<1>5. /\ notify' \in [Dests -> {"none", "live", "stale"}]
      /\ response' \in [Dests -> Seq(Items) \cup {NoResponse}]
  BY <1>2, <1>4, NotifyTyped, Zenon
<1>6. dataToBroadcast' \in Seq(Items) /\ Range(dataToBroadcast') \subseteq Pages
  <2>1. /\ dataToBroadcast \in Seq(Items) /\ Range(dataToBroadcast) \subseteq Pages
        /\ produced + 1 \in Items
    BY <1>3, ConstantsTyped, Zenon DEF Types
  <2>2. <<produced + 1>> \in Seq(Items) /\ Range(<<produced + 1>>) = {produced + 1}
    BY <2>1, RangeOne, Zenon
  <2>3. /\ Append(dataToBroadcast, produced + 1) \in Seq(Items)
        /\ Range(Append(dataToBroadcast, produced + 1)) \subseteq Pages
    <3>1. Append(dataToBroadcast, produced + 1) = dataToBroadcast \o <<produced + 1>>
      BY <2>1, AppendIs, Zenon
    <3>2. dataToBroadcast \o <<produced + 1>> \in Seq(Items)
      BY <2>1, <2>2, ConcatFacts, Zenon
    <3>3. Range(dataToBroadcast \o <<produced + 1>>) = Range(dataToBroadcast) \cup {produced + 1}
      BY <2>1, <2>2, RangeConcat, Zenon
    <3> QED BY <1>3, <2>1, <3>1, <3>2, <3>3, Zenon
  <2> QED BY <2>1, <2>3, Zenon DEF EnqueueBroadcast
<1> QED BY <1>1, <1>2, <1>3, <1>4, <1>5, <1>6
        DEF Types, EnqueueBroadcast, Produce, driverVars

(* Types after EnqueueArbitrary. *)
LEMMA EnqueueArbitraryTyped ==
    ASSUME Types, Counted, NEW p \in Producers, EnqueueArbitrary(p)
    PROVE  Types'
<1> DEFINE arb == Append(arbitrary, produced + 1)
           ds == {d \in Dests : LoadWaiting(RoundRobin, arb).data[d] # data[d]}
<1>1. bufferedBytes' \in Int
  BY ConstantsTyped DEF EnqueueArbitrary, Types
<1>2. /\ Produce(p) /\ Notify(ds, data')
      /\ data' = LoadWaiting(RoundRobin, arb).data /\ arbitrary' = LoadWaiting(RoundRobin, arb).arb
      /\ nextLoad' = LoadWaiting(RoundRobin, arb).next
  BY Zenon DEF EnqueueArbitrary
<1>3. /\ produced' \in 0..MaxPages /\ produced + 1 \in Pages
      /\ producer' \in [Producers -> {"ready", "blocked", "done"}] /\ blocked' \subseteq Producers
  BY <1>1, <1>2, ProduceTyped, Zenon
<1>4. arb \in Seq(Items)
  BY <1>3, ConstantsTyped DEF Types
<1> HIDE DEF arb, ds
<1>5. data' \in [Dests -> Seq(Items)] /\ arbitrary' \in Seq(Items) /\ nextLoad' \in 1..numBuffers
  BY <1>2, <1>4, LoadTyped, TurnsTyped, Zenon
<1>6. /\ notify' \in [Dests -> {"none", "live", "stale"}]
      /\ response' \in [Dests -> Seq(Items) \cup {NoResponse}]
  BY <1>2, <1>5, NotifyTyped, Zenon
<1> QED BY <1>1, <1>2, <1>3, <1>5, <1>6
        DEF Types, EnqueueArbitrary, Produce, driverVars

(* Types after CheckIfDone. *)
LEMMA CheckIfDoneTyped ==
    ASSUME Types, Counted, NEW n \in Nat, CheckIfDone(n),
           producer' \in [Producers -> {"ready", "blocked", "done"}], noMoreDriversDue' \in BOOLEAN
    PROVE  Types'
<1> DEFINE arb == Enqueued(arbitrary, <<End>>)
           loaded == LoadWaiting(InOrder, arb)
           ended == [d \in Dests |-> IF Live(d) THEN Enqueued(data[d], <<End>>) ELSE data[d]]
<1>1. /\ data' = IF ~AllFinished(n) THEN data
                 ELSE IF kind = "kArbitrary" THEN loaded.data ELSE ended
      /\ arbitrary' = IF AllFinished(n) /\ kind = "kArbitrary" THEN loaded.arb ELSE arbitrary
      /\ Notify(IF AllFinished(n) THEN {d \in Dests : Live(d)} ELSE {}, data')
  BY Zenon DEF CheckIfDone
<1>2. <<End>> \in Seq(Items) /\ data \in [Dests -> Seq(Items)] /\ arbitrary \in Seq(Items)
  BY ConstantsTyped DEF Types
<1>3. arb \in Seq(Items)
  BY <1>2, EnqueuedTyped, Zenon
<1>4. ended \in [Dests -> Seq(Items)]
  <2>1. \A d \in Dests : Enqueued(data[d], <<End>>) \in Seq(Items)
    BY <1>2, EnqueuedTyped, Zenon
  <2> QED BY <1>2, <2>1, Zenon
<1> HIDE DEF arb, ended
<1>5. loaded.data \in [Dests -> Seq(Items)] /\ loaded.arb \in Seq(Items)
  BY <1>3, LoadTyped, TurnsTyped, Zenon
<1> HIDE DEF loaded
<1>6. data' \in [Dests -> Seq(Items)] /\ arbitrary' \in Seq(Items)
  BY <1>1, <1>2, <1>4, <1>5, Zenon
<1>7. /\ notify' \in [Dests -> {"none", "live", "stale"}]
      /\ response' \in [Dests -> Seq(Items) \cup {NoResponse}]
  BY <1>1, <1>6, NotifyTyped, Zenon
<1>8. numFinished' \in Nat /\ atEnd' \in BOOLEAN
  BY Zenon DEF CheckIfDone, AllFinished
<1> QED BY <1>6, <1>7, <1>8 DEF Types, CheckIfDone

(* Types after NoMoreData. *)
LEMMA NoMoreDataTyped ==
    ASSUME Types, Counted, NEW p \in Producers, NoMoreData(p)
    PROVE  Types'
<1>1. /\ numFinished + 1 \in Nat /\ producer' \in [Producers -> {"ready", "blocked", "done"}]
      /\ noMoreDriversDue' \in BOOLEAN
  BY DEF NoMoreData, Types
<1> QED BY <1>1, CheckIfDoneTyped, Zenon DEF NoMoreData

(* Types after NoMoreDrivers. *)
LEMMA NoMoreDriversTyped ==
    ASSUME Types, Counted, NoMoreDrivers
    PROVE  Types'
<1>1. /\ numFinished \in Nat /\ producer' \in [Producers -> {"ready", "blocked", "done"}]
      /\ noMoreDriversDue' \in BOOLEAN
  BY DEF NoMoreDrivers, Types
<1> QED BY <1>1, CheckIfDoneTyped, Zenon DEF NoMoreDrivers

(* Types after GetData. *)
LEMMA GetDataTyped ==
    ASSUME Types, Counted, NEW d \in Dests, MatchInv(d), NewInv(d), GetData(d)
    PROVE  Types'
<1>1. ~deleted[d]
  BY Zenon DEF GetData
<1>2. /\ Acked(d) \in Nat /\ Freed(d, Acked(d)) \in SUBSET Pages /\ Loaded(d) \in Seq(Items)
      /\ Grown(d) \in {numBuffers, d} /\ (d <= numBuffers => Grown(d) = numBuffers)
  BY <1>1, GetDataParts, Zenon DEF Grown
<1>3. /\ d \in Callers
  BY Zenon DEF Callers
<1>4. /\ bufferedBytes' \in Int /\ blocked' \subseteq Producers
      /\ pending' \in [Callers -> [freed : SUBSET Pages, woken : SUBSET Producers,
                                  finished : BOOLEAN]]
  <2>1. UpdateAfterAcknowledge(d, Freed(d, Acked(d)), [WithBuffers(Grown(d)) EXCEPT ![d] = Kept(d)],
                               dataToBroadcast, FALSE)
    BY GetDataIs, Zenon
  <2> QED BY <1>2, <1>3, <2>1, UpdateTyped, Zenon
<1>5. data' \in [Dests -> Seq(Items)]
  <2> DEFINE W == WithBuffers(Grown(d))
  <2>1. W \in [Dests -> Seq(Items)]
    BY WithBuffersTyped, Zenon
  <2>2. data' = [W EXCEPT ![d] = Loaded(d)]
    BY GetDataIs, Zenon
  <2> HIDE DEF W
  <2> QED BY <1>2, <2>1, <2>2, Zenon
<1>6. arbitrary' \in Seq(Items)
  <2>1. <<End>> \in Seq(Items) /\ arbitrary \in Seq(Items)
    BY ConstantsTyped DEF Types
  <2>2. Suffix(arbitrary, FetchPages) \in Seq(Items)
    BY <2>1, ConstantsTyped DEF Suffix
  <2>3. Rest(arbitrary) \in Seq(Items)
    BY <2>1, <2>2, Zenon DEF Rest
  <2> QED BY <2>1, <2>3, GetDataIs, Zenon
<1>7. /\ sequence \in [Dests -> Nat] /\ request \in [Dests -> BOOLEAN]
      /\ notify \in [Dests -> {"none", "live", "stale"}]
      /\ response \in [Dests -> Seq(Items) \cup {NoResponse}]
  BY Zenon DEF Types
<1>8. sequence' \in [Dests -> Nat] /\ request' \in [Dests -> BOOLEAN]
  <2>1. sequence[d] + Acked(d) \in Nat
    BY <1>2, <1>7
  <2>2. /\ sequence' = [sequence EXCEPT ![d] = @ + Acked(d)]
        /\ request' = [request EXCEPT ![d] = TRUE]
    BY GetDataIs, Zenon
  <2> QED BY <1>7, <2>1, <2>2, Zenon
<1>9. /\ notify' \in [Dests -> {"none", "live", "stale"}]
      /\ response' \in [Dests -> Seq(Items) \cup {NoResponse}]
  <2>1. Prefix(Loaded(d), FetchPages) \in Seq(Items)
    BY <1>2, PrefixFacts, ConstantsTyped, Zenon
  <2>2. (IF Loaded(d) = <<>> THEN NoResponse ELSE Prefix(Loaded(d), FetchPages))
          \in Seq(Items) \cup {NoResponse}
    BY <2>1, Zenon
  <2> DEFINE r == IF Loaded(d) = <<>> THEN NoResponse ELSE Prefix(Loaded(d), FetchPages)
  <2>a. response' = [response EXCEPT ![d] = r]
    BY GetDataIs, Zenon
  <2> HIDE DEF r
  <2>3. response' \in [Dests -> Seq(Items) \cup {NoResponse}]
    BY <1>7, <2>2, <2>a, Zenon DEF r
  <2>4. (IF Loaded(d) = <<>> THEN "live" ELSE notify[d]) \in {"none", "live", "stale"}
    BY <1>7, Zenon
  <2>5. notify' \in [Dests -> {"none", "live", "stale"}]
    BY <1>7, <2>4, GetDataIs, Zenon
  <2> QED BY <2>3, <2>5, Zenon
<1>10. numBuffers' \in InitDests..NumDests /\ nextLoad' \in 1..numBuffers'
  <2>1. numBuffers \in InitDests..NumDests /\ nextLoad \in 1..numBuffers
    BY Zenon DEF Types
  <2>2. d \in 1..NumDests /\ (d <= numBuffers => Grown(d) = numBuffers) /\ Grown(d) \in {numBuffers, d}
    BY <1>2, Zenon DEF Dests
  <2>3. numBuffers' = Grown(d) /\ nextLoad' = nextLoad
    BY GetDataIs, Zenon
  <2> QED BY <2>1, <2>2, <2>3, SizesAssumption
<1>11. UNCHANGED <<kind, noMoreBuffers, dataToBroadcast, driverVars, deleted, consumed,
                   producerVars, got, acks>>
  BY GetDataIs, Zenon
<1> QED BY <1>4, <1>5, <1>6, <1>8, <1>9, <1>10, <1>11, Zenon DEF Types, driverVars, producerVars

(* Types after UpdateNumDrivers. *)
LEMMA UpdateNumDriversTyped ==
    ASSUME Types, Counted, UpdateNumDrivers
    PROVE  Types'
<1>1. numDrivers' \in Nat /\ noMoreDriversDue' \in BOOLEAN
  BY Zenon DEF UpdateNumDrivers, Counted
<1> QED BY <1>1, Zenon DEF Types, UpdateNumDrivers, bufferVars, destVars, producerVars, consumerVars

(* Types after Release. *)
LEMMA ReleaseTyped ==
    ASSUME Types, NEW c \in Callers, Release(c)
    PROVE  Types'
<1>1. Idle \in [freed : SUBSET Pages, woken : SUBSET Producers, finished : BOOLEAN]
  BY DEF Idle
<1>2. pending \in [Callers -> [freed : SUBSET Pages, woken : SUBSET Producers, finished : BOOLEAN]]
  BY Zenon DEF Types
<1>3. /\ pending' \in [Callers -> [freed : SUBSET Pages, woken : SUBSET Producers,
                                  finished : BOOLEAN]]
  BY <1>1, <1>2, Zenon DEF Release
<1>4. dataToBroadcast' \in Seq(Items) /\ Range(dataToBroadcast') \subseteq Pages
  <2>1. <<>> \in Seq(Items) /\ Range(<<>>) = {}
    BY RangeNone, Zenon
  <2> QED BY <2>1, Zenon DEF Release, Types
<1>5. producer' \in [Producers -> {"ready", "blocked", "done"}]
  <2>1. producer \in [Producers -> {"ready", "blocked", "done"}]
    BY Zenon DEF Types
  <2> QED BY <2>1 DEF Release
<1>6. consumed' \in BOOLEAN
  BY Zenon DEF Release
<1> QED BY <1>3, <1>4, <1>5, <1>6, Zenon DEF Types, Release, driverVars, destVars, consumerVars

(* Types after UpdateOutputBuffers. *)
LEMMA UpdateOutputBuffersTyped ==
    ASSUME Types, Counted, NEW n \in Dests, NEW noMore \in BOOLEAN, UpdateOutputBuffers(n, noMore)
    PROVE  Types'
<1> DEFINE size == IF n > numBuffers THEN n ELSE numBuffers
           live == {d \in 1..size : ~deleted[d]}
<1>1. numBuffers' = size /\ data' = WithBuffers(size)
  BY Zenon DEF UpdateOutputBuffers
<1>2. data' \in [Dests -> Seq(Items)]
  BY <1>1, WithBuffersTyped, Zenon
<1>3. numBuffers' \in InitDests..NumDests /\ nextLoad' \in 1..numBuffers'
  <2>1. numBuffers \in InitDests..NumDests /\ nextLoad \in 1..numBuffers /\ n \in 1..NumDests
    BY Zenon DEF Types, Dests
  <2>2. nextLoad' = nextLoad
    BY Zenon DEF UpdateOutputBuffers
  <2> QED BY <1>1, <2>1, <2>2, SizesAssumption
<1>4. /\ bufferedBytes' \in Int /\ blocked' \subseteq Producers
      /\ pending' \in [Callers -> [freed : SUBSET Pages, woken : SUBSET Producers,
                                  finished : BOOLEAN]]
  <2>1. CASE noMore /\ kind # "kPartitioned"
    <3>1. UpdateAfterAcknowledge(Updater, Range(dataToBroadcast), data', <<>>, IsFinished(live, TRUE))
      BY <2>1, Zenon DEF UpdateOutputBuffers
    <3>2. Updater \in Callers /\ IsFinished(live, TRUE) \in BOOLEAN
      BY Zenon DEF Callers, IsFinished
    <3>3. Range(dataToBroadcast) \in SUBSET Pages
      BY Zenon DEF Types
    <3> QED BY <3>1, <3>2, <3>3, UpdateTyped, Zenon
  <2>2. CASE ~(noMore /\ kind # "kPartitioned")
    BY <2>2, Zenon DEF UpdateOutputBuffers, Types
  <2> QED BY <2>1, <2>2, Zenon
<1> QED BY <1>2, <1>3, <1>4, Zenon
        DEF Types, UpdateOutputBuffers, driverVars, producerVars, consumerVars

(* Types after Timeout. *)
LEMMA TimeoutTyped ==
    ASSUME Types, NEW d \in Dests, Timeout(d)
    PROVE  Types'
<1>1. request' \in [Dests -> BOOLEAN]
  BY Zenon DEF Types, Timeout
<1>2. response' \in [Dests -> Seq(Items) \cup {NoResponse}]
  BY Zenon DEF Types, Timeout
<1>3. notify' \in [Dests -> {"none", "live", "stale"}]
  BY DEF Types, Timeout
<1> QED BY <1>1, <1>2, <1>3, Zenon DEF Types, Timeout, bufferVars, driverVars, producerVars

(* Types after Receive. *)
LEMMA ReceiveTyped ==
    ASSUME Types, NEW d \in Dests, Receive(d)
    PROVE  Types' /\ response[d] \in Seq(Items) /\ got'[d] = got[d] \o response[d]
<1>1. got[d] \in Seq(Items) /\ response[d] \in Seq(Items)
  BY Zenon DEF Types, Receive
<1>2. got[d] \o response[d] \in Seq(Items)
  BY <1>1, ConcatFacts, Zenon
<1>3. got' \in [Dests -> Seq(Items)] /\ got'[d] = got[d] \o response[d]
  BY <1>2, Zenon DEF Types, Receive
<1>4. request' \in [Dests -> BOOLEAN]
  BY Zenon DEF Types, Receive
<1>5. response' \in [Dests -> Seq(Items) \cup {NoResponse}]
  BY Zenon DEF Types, Receive
<1>6. acks' \in [Dests -> SUBSET Nat]
  <2>1. acks \in [Dests -> SUBSET Nat]
    BY Zenon DEF Types
  <2>2. Len(got'[d]) \in Nat
    BY <1>3, SeqFacts, Zenon
  <2>3. (IF HasEnd(got'[d]) THEN acks[d] ELSE acks[d] \cup {Len(got'[d])}) \in SUBSET Nat
    BY <2>1, <2>2, Zenon
  <2> QED BY <2>1, <2>3, Zenon DEF Receive
<1> QED BY <1>1, <1>3, <1>4, <1>5, <1>6, Zenon
        DEF Types, Receive, bufferVars, driverVars, destVars, producerVars

(* The acknowledgements on their way. *)
LEMMA AcksTyped ==
    ASSUME Types, NEW d \in Dests, NEW s, acks' = [acks EXCEPT ![d] = @ \ {s}]
    PROVE  acks' \in [Dests -> SUBSET Nat]
BY DEF Types

(* Types after Acknowledge. *)
LEMMA AcknowledgeTyped ==
    ASSUME Types, Counted, NEW d \in Dests, MatchInv(d), NEW s \in acks[d], Acknowledge(d, s)
    PROVE  Types'
<1>1. s \in Nat /\ s <= NumPages(got[d])
  BY Zenon DEF Types, MatchInv
<1>2. acks' \in [Dests -> SUBSET Nat]
  BY AcksTyped, Zenon DEF Acknowledge
<1>3. /\ data' \in [Dests -> Seq(Items)] /\ sequence' \in [Dests -> Nat]
      /\ bufferedBytes' \in Int /\ blocked' \subseteq Producers
      /\ pending' \in [Callers -> [freed : SUBSET Pages, woken : SUBSET Producers,
                                  finished : BOOLEAN]]
  <2>1. CASE deleted[d]
    BY <2>1, Zenon DEF Types, Acknowledge
  <2>2. CASE ~deleted[d]
    <3> DEFINE n == NumAcked(d, s)
    <3>1. n \in Nat /\ Suffix(data[d], n) \in Seq(Items) /\ Freed(d, n) \in SUBSET Pages
      BY <1>1, <2>2, AckFacts, Zenon
    <3>2. /\ data' = [data EXCEPT ![d] = Suffix(@, n)]
          /\ sequence' = [sequence EXCEPT ![d] = @ + n]
          /\ UpdateAfterAcknowledge(d, Freed(d, n), data', dataToBroadcast, FALSE)
      BY <2>2, Zenon DEF Acknowledge
    <3> HIDE DEF n
    <3>3. data' \in [Dests -> Seq(Items)]
      BY <3>1, <3>2, Zenon DEF Types
    <3>4. sequence[d] \in Nat /\ sequence \in [Dests -> Nat]
      BY Zenon DEF Types
    <3>5. sequence[d] + n \in Nat
      BY <3>1, <3>4
    <3>6. sequence' \in [Dests -> Nat]
      BY <3>2, <3>4, <3>5, Zenon
    <3>7. d \in Callers
      BY Zenon DEF Callers
    <3> QED BY <3>1, <3>2, <3>3, <3>6, <3>7, UpdateTyped, Zenon
  <2> QED BY <2>1, <2>2, Zenon
<1> QED BY <1>2, <1>3, Zenon DEF Types, Acknowledge, bufferVars, driverVars, producerVars

(* Types after LoseAcknowledge. *)
LEMMA LoseAcknowledgeTyped ==
    ASSUME Types, NEW d \in Dests, NEW s \in acks[d], LoseAcknowledge(d, s)
    PROVE  Types'
<1>1. acks' \in [Dests -> SUBSET Nat]
  BY AcksTyped, Zenon DEF LoseAcknowledge
<1> QED BY <1>1, Zenon DEF Types, LoseAcknowledge, bufferVars, driverVars, destVars, producerVars

(* Types after DeleteResults. *)
LEMMA DeleteResultsTyped ==
    ASSUME Types, Counted, NEW d \in Dests, DeleteResults(d)
    PROVE  Types'
<1>1. data \in [Dests -> Seq(Items)] /\ deleted \in [Dests -> BOOLEAN] /\ <<>> \in Seq(Items)
  BY DEF Types
<1>2. data' \in [Dests -> Seq(Items)] /\ deleted' \in [Dests -> BOOLEAN]
  BY <1>1, Zenon DEF DeleteResults
<1>3. /\ notify' \in [Dests -> {"none", "live", "stale"}]
      /\ response' \in [Dests -> Seq(Items) \cup {NoResponse}]
  BY <1>2, NotifyTyped, Zenon DEF DeleteResults
<1>4. Range(data[d]) \ {End} \in SUBSET Pages
  BY <1>1, RangeTyped, Zenon
<1>5. /\ bufferedBytes' \in Int /\ blocked' \subseteq Producers
      /\ pending' \in [Callers -> [freed : SUBSET Pages, woken : SUBSET Producers,
                                  finished : BOOLEAN]]
  <2> DEFINE f == IsFinished({e \in 1..numBuffers : ~deleted'[e]}, noMoreBuffers)
  <2>1. f \in BOOLEAN /\ d \in Callers
    BY Zenon DEF Callers, IsFinished
  <2>2. UpdateAfterAcknowledge(d, Range(data[d]) \ {End}, data', dataToBroadcast, f)
    BY Zenon DEF DeleteResults
  <2> HIDE DEF f
  <2> QED BY <1>4, <2>1, <2>2, UpdateTyped, Zenon
<1> QED BY <1>2, <1>3, <1>5, Zenon DEF Types, DeleteResults, bufferVars, driverVars, producerVars

(* The producers that are done are counted. *)
LEMMA DoneCounted ==
    ASSUME Counted
    PROVE  /\ Done \in SUBSET Producers /\ Cardinality(Done) \in Nat /\ Cardinality(Producers) \in Nat
           /\ Cardinality(Done) <= Cardinality(Producers)
           /\ Cardinality(Done) = Cardinality(Producers) => Done = Producers
<1>1. Done \in SUBSET Producers /\ Producers \in SUBSET Producers
  BY Zenon DEF Done
<1> QED BY <1>1, Zenon DEF Counted

(* While a producer is not done the end was not announced and is not due. *)
LEMMA NotYetEnd ==
    ASSUME Types, Counted, DriverInv, NEW p \in Producers, producer[p] # "done"
    PROVE  ~atEnd /\ ~noMoreDriversDue /\ numFinished < numDrivers
<1>1. Done # Producers
  BY Zenon DEF Done
<1>2. /\ Cardinality(Done) \in Nat /\ Cardinality(Producers) \in Nat
      /\ Cardinality(Done) <= Cardinality(Producers)
      /\ Cardinality(Done) # Cardinality(Producers)
  BY <1>1, DoneCounted, Zenon
<1>3. numDrivers \in Nat /\ numFinished = Cardinality(Done) /\ numDrivers >= Cardinality(Producers)
  BY Zenon DEF Types, DriverInv
<1>4. numFinished < numDrivers
  BY <1>2, <1>3
<1>5. numFinished # numDrivers
  BY <1>2, <1>3, <1>4
<1> QED BY <1>4, <1>5, Zenon DEF DriverInv

(* Steps that are not about drivers. *)
LEMMA SameDrivers ==
    ASSUME DriverInv, UNCHANGED driverVars, Done' = Done
    PROVE  DriverInv'
BY Zenon DEF DriverInv, driverVars

(* Held back in one place: after an enqueue. *)
LEMMA ProduceHeld ==
    ASSUME Types, DriverInv, HeldInv, NEW p \in Producers, Produce(p)
    PROVE  DriverInv' /\ HeldInv'
<1>1. /\ producer[p] = "ready" /\ UNCHANGED <<driverVars, pending>>
      /\ producer \in [Producers -> {"ready", "blocked", "done"}]
      /\ \E full \in BOOLEAN :
            /\ producer' = [producer EXCEPT ![p] = IF full THEN "blocked" ELSE @]
            /\ blocked' = IF full THEN blocked \cup {p} ELSE blocked
  BY Zenon DEF Produce, BlockIfFull, Types
<1>2. PICK full \in BOOLEAN :
            /\ producer' = [producer EXCEPT ![p] = IF full THEN "blocked" ELSE @]
            /\ blocked' = IF full THEN blocked \cup {p} ELSE blocked
  BY <1>1, Zenon
<1>3. p \notin blocked /\ \A c \in Callers : p \notin pending[c].woken
  BY <1>1, Zenon DEF HeldInv
<1>4. \A q \in Producers : producer'[q] = IF q = p /\ full THEN "blocked" ELSE producer[q]
  BY <1>1, <1>2, Zenon
<1>5. Done' = Done
  BY <1>1, <1>4, Zenon DEF Done
<1>6. blocked \subseteq Producers /\ \A c \in Callers : pending[c].woken \subseteq Producers
  BY Zenon DEF Types
<1>7. pending' = pending
  BY <1>1, Zenon
<1>8. HeldInv'
  <2>1. ASSUME NEW q \in blocked'
        PROVE  producer'[q] = "blocked" /\ \A c \in Callers : q \notin pending[c].woken
    <3>1. q \in blocked \/ (q = p /\ full)
      BY <1>2
    <3>2. CASE q \in blocked
      BY <1>3, <1>4, <1>6, <3>2, Zenon DEF HeldInv
    <3>3. CASE q = p /\ full
      BY <1>3, <1>4, <3>3, Zenon
    <3> QED BY <3>1, <3>2, <3>3, Zenon
  <2>2. ASSUME NEW c \in Callers, NEW q \in pending[c].woken
        PROVE  /\ producer'[q] = "blocked"
               /\ \A other \in Callers \ {c} : q \notin pending[other].woken
    BY <1>3, <1>4, <1>6, Zenon DEF HeldInv
  <2> QED BY <1>7, <2>1, <2>2, Zenon DEF HeldInv
<1> QED BY <1>1, <1>5, <1>8, SameDrivers, Zenon

(* Held back in one place: after noMoreData. *)
LEMMA NoMoreDataHeld ==
    ASSUME Types, Counted, DriverInv, HeldInv, NEW p \in Producers, NoMoreData(p)
    PROVE  DriverInv' /\ HeldInv'
<1>1. /\ producer[p] = "ready" /\ producer' = [producer EXCEPT ![p] = "done"]
      /\ producer \in [Producers -> {"ready", "blocked", "done"}]
      /\ blocked' = blocked /\ pending' = pending
      /\ numFinished' = numFinished + 1 /\ numDrivers' = numDrivers
      /\ atEnd' = (numFinished + 1 = numDrivers) /\ noMoreDriversDue' = noMoreDriversDue
  BY Zenon DEF NoMoreData, CheckIfDone, AllFinished, Types
<1>2. \A q \in Producers : producer'[q] = IF q = p THEN "done" ELSE producer[q]
  BY <1>1, Zenon
<1>3. p \notin blocked /\ \A c \in Callers : p \notin pending[c].woken
  BY <1>1, Zenon DEF HeldInv
<1>4. blocked \subseteq Producers /\ \A c \in Callers : pending[c].woken \subseteq Producers
  BY Zenon DEF Types
<1>5. HeldInv'
  BY <1>1, <1>2, <1>3, <1>4, Zenon DEF HeldInv
<1>6. Done' = Done \cup {p} /\ p \notin Done
  BY <1>1, <1>2, Zenon DEF Done
<1>7. Done \in SUBSET Producers
  BY DoneCounted, Zenon
<1>8. Cardinality(Done') = Cardinality(Done) + 1
  BY <1>6, <1>7, Zenon DEF Counted
<1>9. ~noMoreDriversDue
  BY <1>1, NotYetEnd, Zenon
<1>10. DriverInv'
  BY <1>1, <1>8, <1>9, Zenon DEF DriverInv
<1> QED BY <1>5, <1>10, Zenon

(* Held back in one place: after the steps about drivers. *)
LEMMA DriversHeld ==
    ASSUME Types, Counted, DriverInv, HeldInv, DriversStep
    PROVE  DriverInv' /\ HeldInv'
<1>1. blocked' = blocked /\ pending' = pending /\ producer' = producer
  BY Zenon DEF DriversStep, UpdateNumDrivers, NoMoreDrivers, CheckIfDone, producerVars
<1>2. HeldInv'
  BY <1>1, Zenon DEF HeldInv
<1>3. Done' = Done
  BY <1>1, Zenon DEF Done
<1>4. CASE UpdateNumDrivers
  <2>1. /\ numDrivers > Cardinality(Producers) /\ numDrivers' = Cardinality(Producers)
        /\ noMoreDriversDue' = (numFinished = numDrivers')
        /\ numFinished' = numFinished /\ atEnd' = atEnd
    BY <1>4, Zenon DEF UpdateNumDrivers
  <2>2. /\ Cardinality(Done) \in Nat /\ Cardinality(Producers) \in Nat
        /\ Cardinality(Done) <= Cardinality(Producers) /\ numDrivers \in Nat
        /\ numFinished = Cardinality(Done)
    BY DoneCounted, Zenon DEF Types, DriverInv
  <2>3. numFinished # numDrivers /\ numDrivers' >= Cardinality(Producers)
    BY <2>1, <2>2
  <2>4. ~atEnd
    BY <2>3, Zenon DEF DriverInv
  <2> QED BY <1>2, <1>3, <2>1, <2>2, <2>3, <2>4, Zenon DEF DriverInv
<1>5. CASE NoMoreDrivers
  <2>1. /\ noMoreDriversDue' = FALSE /\ numFinished' = numFinished /\ numDrivers' = numDrivers
        /\ atEnd' = (numFinished = numDrivers)
    BY <1>5, Zenon DEF NoMoreDrivers, CheckIfDone, AllFinished
  <2> QED BY <1>2, <1>3, <2>1, Zenon DEF DriverInv
<1> QED BY <1>4, <1>5, Zenon DEF DriversStep

(* Held back in one place: after the promises are fulfilled. *)
LEMMA ReleaseHeld ==
    ASSUME Types, DriverInv, HeldInv, NEW c \in Callers, Release(c)
    PROVE  DriverInv' /\ HeldInv'
<1>1. /\ pending' = [pending EXCEPT ![c] = Idle] /\ blocked' = blocked /\ UNCHANGED driverVars
      /\ \A p \in Producers : producer'[p] = IF p \in pending[c].woken THEN "ready" ELSE producer[p]
  BY Zenon DEF Release
<1>2. /\ DOMAIN pending = Callers /\ blocked \subseteq Producers
      /\ \A x \in Callers : pending[x].woken \subseteq Producers
  BY Zenon DEF Types
<1>3. /\ pending'[c].woken = {} /\ \A x \in Callers \ {c} : pending'[x] = pending[x]
  BY <1>1, <1>2 DEF Idle
<1>4. Done' = Done
  BY <1>1, Zenon DEF Done, HeldInv
<1>5. HeldInv'
  <2>1. ASSUME NEW p \in blocked
        PROVE  producer'[p] = "blocked" /\ \A x \in Callers : p \notin pending'[x].woken
    BY <1>1, <1>2, <1>3, Zenon DEF HeldInv
  <2>2. ASSUME NEW x \in Callers, NEW p \in pending'[x].woken
        PROVE  producer'[p] = "blocked" /\ \A y \in Callers \ {x} : p \notin pending'[y].woken
    <3>1. x # c /\ p \in pending[x].woken
      BY <1>3, <2>2, Zenon
    <3>2. p \notin pending[c].woken /\ p \in Producers /\ producer[p] = "blocked"
      BY <1>2, <3>1, Zenon DEF HeldInv
    <3> QED BY <1>1, <1>3, <3>1, <3>2, Zenon DEF HeldInv
  <2> QED BY <1>1, <2>1, <2>2, Zenon DEF HeldInv
<1> QED BY <1>1, <1>4, <1>5, SameDrivers, Zenon

(* Held back in one place: after updateAfterAcknowledgeLocked. *)
LEMMA UpdateHeld ==
    ASSUME Types, DriverInv, HeldInv, NEW c \in Callers, pending[c] = Idle, NEW freed, NEW newData,
           NEW log, NEW finished, UpdateAfterAcknowledge(c, freed, newData, log, finished),
           UNCHANGED <<driverVars, producer>>
    PROVE  DriverInv' /\ HeldInv'
<1>1. PICK woken \in SUBSET blocked :
         /\ blocked' = blocked \ woken
         /\ pending' = [pending EXCEPT ![c] =
                          [freed |-> freed, woken |-> woken, finished |-> finished]]
  BY Zenon DEF UpdateAfterAcknowledge, Woken
<1>2. DOMAIN pending = Callers
  BY Zenon DEF Types
<1>3. pending'[c].woken = woken /\ \A x \in Callers \ {c} : pending'[x] = pending[x]
  BY <1>1, <1>2
<1>4. Done' = Done
  BY Zenon DEF Done
<1>5. HeldInv'
  BY <1>1, <1>3, Zenon DEF HeldInv
<1> QED BY <1>4, <1>5, SameDrivers, Zenon

(* Steps that keep the kinds apart because they change none of this. *)
LEMMA KindKept ==
    ASSUME KindInv, UNCHANGED <<kind, numBuffers, noMoreBuffers, dataToBroadcast>>,
           kind # "kArbitrary" => arbitrary' = arbitrary, kind = "kBroadcast" => produced' = produced,
           pending'[Updater] = pending[Updater]
    PROVE  KindInv'
BY Zenon DEF KindInv

(* Enqueueing uses the buffers of its kind. *)
LEMMA EnqueueKind ==
    ASSUME Types, KindInv, NEW p \in Producers,
           EnqueueBroadcast(p) \/ EnqueueArbitrary(p) \/ \E d \in Dests : EnqueuePartitioned(p, d)
    PROVE  KindInv'
<1>1. UNCHANGED <<kind, numBuffers, noMoreBuffers, pending>> /\ produced' = produced + 1
  BY Zenon DEF EnqueueBroadcast, EnqueueArbitrary, EnqueuePartitioned, Produce
<1>2. CASE ~EnqueueBroadcast(p)
  <2>1. kind # "kBroadcast" /\ dataToBroadcast' = dataToBroadcast
    BY <1>2 DEF EnqueueArbitrary, EnqueuePartitioned
  <2>2. kind # "kArbitrary" => arbitrary' = arbitrary
    BY <1>2, Zenon DEF EnqueueArbitrary, EnqueuePartitioned
  <2> QED BY <1>1, <2>1, <2>2, KindKept, Zenon
<1>3. CASE EnqueueBroadcast(p)
  <2>1. /\ kind = "kBroadcast" /\ arbitrary' = arbitrary
        /\ dataToBroadcast' = IF noMoreBuffers THEN dataToBroadcast
                              ELSE Append(dataToBroadcast, produced + 1)
    BY <1>3, Zenon DEF EnqueueBroadcast
  <2>2. dataToBroadcast \in Seq(Items) /\ produced \in Nat
    BY SizesAssumption DEF Types
  <2>3. ASSUME ~noMoreBuffers
        PROVE  /\ Len(dataToBroadcast') = produced'
               /\ \A i \in 1..produced' : dataToBroadcast'[i] = i
    <3>1. Len(dataToBroadcast) = produced /\ \A i \in 1..produced : dataToBroadcast[i] = i
      BY <2>1, <2>3, Zenon DEF KindInv
    <3>2. dataToBroadcast' = Append(dataToBroadcast, produced + 1)
      BY <2>1, <2>3, Zenon
    <3> QED BY <1>1, <2>2, <3>1, <3>2
  <2>4. kind # "kArbitrary" => arbitrary' = <<>>
    BY <2>1, Zenon DEF KindInv
  <2>5. kind # "kPartitioned"
    BY <2>1
  <2> QED BY <1>1, <2>1, <2>3, <2>4, <2>5, Zenon DEF KindInv
<1> QED BY <1>2, <1>3, Zenon

(* So does the end. *)
LEMMA CheckIfDoneKind ==
    ASSUME KindInv, NEW n, CheckIfDone(n)
    PROVE  KindInv'
<1>1. /\ UNCHANGED <<kind, numBuffers, noMoreBuffers, dataToBroadcast, produced, pending>>
      /\ kind # "kArbitrary" => arbitrary' = arbitrary
  BY Zenon DEF CheckIfDone
<1> QED BY <1>1, KindKept, Zenon

(* The end of a call. *)
LEMMA ReleaseKind ==
    ASSUME Types, KindInv, NEW c \in Callers, Release(c)
    PROVE  KindInv'
<1>1. /\ UNCHANGED <<kind, numBuffers, noMoreBuffers, arbitrary, produced>>
      /\ pending[c] # Idle /\ pending' = [pending EXCEPT ![c] = Idle]
      /\ dataToBroadcast' = IF c = Updater THEN <<>> ELSE dataToBroadcast
  BY Zenon DEF Release
<1>2. DOMAIN pending = Callers /\ Updater \in Callers
  BY Zenon DEF Types, Callers
<1>3. CASE c # Updater
  BY <1>1, <1>2, <1>3, KindKept, Zenon
<1>4. CASE c = Updater
  <2>1. noMoreBuffers
    BY <1>1, <1>4, Zenon DEF KindInv
  <2> QED BY <1>1, <1>4, <2>1, Zenon DEF KindInv
<1> QED BY <1>3, <1>4, Zenon

(* A destination is not the coordinator. *)
LEMMA NotUpdater ==
    ASSUME NEW d \in Dests
    PROVE  d # Updater
BY SizesAssumption DEF Dests, Updater

(* A call for a destination is not the one of the coordinator. *)
LEMMA UpdateKind ==
    ASSUME Types, NEW d \in Dests, NEW freed, NEW newData, NEW log, NEW finished,
           UpdateAfterAcknowledge(d, freed, newData, log, finished)
    PROVE  pending'[Updater] = pending[Updater]
<1>1. DOMAIN pending = Callers /\ Updater \in Callers
  BY Zenon DEF Types, Callers
<1> QED BY <1>1, NotUpdater, Zenon DEF UpdateAfterAcknowledge

(* updateOutputBuffers and the broadcast pages. *)
LEMMA UpdateOutputBuffersKind ==
    ASSUME Types, KindInv, NEW n \in Dests, NEW noMore \in BOOLEAN, UpdateOutputBuffers(n, noMore)
    PROVE  KindInv'
<1>1. /\ ~noMoreBuffers /\ noMoreBuffers' = noMore /\ pending[Updater] = Idle
      /\ kind = "kPartitioned" => n = numBuffers
      /\ numBuffers' = IF n > numBuffers THEN n ELSE numBuffers
      /\ UNCHANGED <<kind, dataToBroadcast, arbitrary, produced>>
      /\ ~noMore => pending' = pending
  BY Zenon DEF UpdateOutputBuffers, producerVars
<1>2. kind = "kPartitioned" => numBuffers' = numBuffers
  BY <1>1, Zenon
<1> QED BY <1>1, <1>2, Zenon DEF KindInv

(* getData and the kinds. *)
LEMMA GetDataKind ==
    ASSUME Types, KindInv, NEW d \in Dests, GetData(d)
    PROVE  KindInv'
<1>1. /\ UNCHANGED <<kind, noMoreBuffers, dataToBroadcast>> /\ produced' = produced
      /\ numBuffers' = Grown(d) /\ arbitrary' = IF Loads THEN Rest(arbitrary) ELSE arbitrary
      /\ UpdateAfterAcknowledge(d, Freed(d, Acked(d)), [WithBuffers(Grown(d)) EXCEPT ![d] = Kept(d)],
                                dataToBroadcast, FALSE)
  BY GetDataIs, Zenon DEF producerVars
<1>2. pending'[Updater] = pending[Updater]
  BY <1>1, UpdateKind, Zenon
<1>3. kind # "kArbitrary" => arbitrary' = arbitrary
  BY <1>1, Zenon DEF Loads
<1>4. numBuffers = NumDests => Grown(d) = numBuffers
  BY SizesAssumption DEF Dests, Grown
<1> QED BY <1>1, <1>2, <1>3, <1>4, Zenon DEF KindInv

(* acknowledge and the kinds. *)
LEMMA AcknowledgeKind ==
    ASSUME Types, KindInv, NEW d \in Dests, NEW s, Acknowledge(d, s)
    PROVE  KindInv'
<1>1. UNCHANGED <<kind, numBuffers, noMoreBuffers, dataToBroadcast, arbitrary, produced>>
  BY Zenon DEF Acknowledge, bufferVars, producerVars
<1>2. pending'[Updater] = pending[Updater]
  BY UpdateKind, Zenon DEF Acknowledge
<1> QED BY <1>1, <1>2, KindKept, Zenon

(* deleteResults and the kinds. *)
LEMMA DeleteResultsKind ==
    ASSUME Types, KindInv, NEW d \in Dests, DeleteResults(d)
    PROVE  KindInv'
<1>1. UNCHANGED <<kind, numBuffers, noMoreBuffers, dataToBroadcast, arbitrary, produced>>
  BY Zenon DEF DeleteResults, bufferVars, producerVars
<1>2. pending'[Updater] = pending[Updater]
  BY UpdateKind, Zenon DEF DeleteResults
<1> QED BY <1>1, <1>2, KindKept, Zenon

-----------------------------------------------------------------------------
(* Producers that are held back. *)

(* Woken below continueSize_, which is not above maxSize_. *)
LEMMA ContinueBelowMax == ContinueSize \in Int /\ MaxSize \in Int /\ ContinueSize <= MaxSize
BY SizesAssumption DEF ContinueSize

(* A producer is held back above maxSize_ only. *)
LEMMA ProduceWaits ==
    ASSUME Types, ProducerInv, NEW p \in Producers, Produce(p), bufferedBytes' \in Int,
           bufferedBytes <= bufferedBytes'
    PROVE  ProducerInv'
<1> DEFINE full == bufferedBytes' > MaxSize
<1>1. /\ producer[p] = "ready" /\ pending' = pending
      /\ producer' = [producer EXCEPT ![p] = IF full THEN "blocked" ELSE @]
      /\ blocked' = IF full THEN blocked \cup {p} ELSE blocked
      /\ producer \in [Producers -> {"ready", "blocked", "done"}]
  BY Zenon DEF Produce, BlockIfFull, Types
<1>2. full => bufferedBytes' >= ContinueSize
  BY ContinueBelowMax
<1>3. bufferedBytes >= ContinueSize => bufferedBytes' >= ContinueSize
  BY ContinueBelowMax DEF Types
<1> HIDE DEF full
<1>4. "ready" # "blocked"
  OBVIOUS
<1> SUFFICES ASSUME NEW q \in Producers, producer'[q] = "blocked"
             PROVE  \/ q \in blocked' /\ bufferedBytes' >= ContinueSize
                    \/ \E c \in Callers : q \in pending'[c].woken
  BY Zenon DEF ProducerInv
<1>5. CASE q = p
  BY <1>1, <1>2, <1>4, <1>5, Zenon
<1>6. CASE q # p
  <2>1. producer[q] = "blocked"
    BY <1>1, <1>6, Zenon
  <2> QED BY <1>1, <1>3, <2>1, Zenon DEF ProducerInv
<1> QED BY <1>5, <1>6, Zenon

(* Freeing wakes all once there is room. *)
LEMMA UpdateWaits ==
    ASSUME Types, Counted, ProducerInv, NEW c \in Callers, pending[c] = Idle, NEW freed \in SUBSET Pages,
           NEW newData, NEW log, NEW finished,
           UpdateAfterAcknowledge(c, freed, newData, log, finished), producer' = producer
    PROVE  ProducerInv'
<1> DEFINE U == {page \in freed : Unique(c, page, newData, log)}
           gone == PageSize * Cardinality(U)
<1>1. gone \in Nat
  <2>1. Cardinality(U) \in Nat
    <3>1. U \subseteq Pages
      BY Zenon
    <3> HIDE DEF U
    <3> QED BY <3>1, Zenon DEF Counted
  <2> HIDE DEF U
  <2> QED BY <2>1, ConstantsTyped
<1>2. /\ bufferedBytes' = bufferedBytes - gone /\ blocked' = blocked \ Woken(gone)
      /\ pending' = [pending EXCEPT ![c] =
                       [freed |-> freed, woken |-> Woken(gone), finished |-> finished]]
  BY Zenon DEF UpdateAfterAcknowledge
<1> HIDE DEF gone
<1>3. DOMAIN pending = Callers /\ bufferedBytes \in Int
  BY Zenon DEF Types
<1>4. pending'[c].woken = Woken(gone) /\ \A x \in Callers \ {c} : pending'[x] = pending[x]
  BY <1>2, <1>3
<1>5. pending[c].woken = {}
  BY DEF Idle
<1>6. \/ Woken(gone) = blocked
      \/ Woken(gone) = {} /\ (bufferedBytes >= ContinueSize => bufferedBytes' >= ContinueSize)
  <2>1. \A b \in Int, g \in Nat, k \in Int : ~(g > 0 /\ b - g < k) => (b >= k => b - g >= k)
    OBVIOUS
  <2> QED BY <1>1, <1>2, <1>3, <2>1, ContinueBelowMax, Zenon DEF Woken
<1> SUFFICES ASSUME NEW q \in Producers, producer[q] = "blocked"
             PROVE  \/ q \in blocked' /\ bufferedBytes' >= ContinueSize
                    \/ \E x \in Callers : q \in pending'[x].woken
  BY Zenon DEF ProducerInv
<1>7. CASE \E x \in Callers : q \in pending[x].woken
  BY <1>4, <1>5, <1>7, Zenon
<1>8. CASE q \in blocked /\ bufferedBytes >= ContinueSize
  BY <1>2, <1>4, <1>6, <1>8, Zenon
<1> QED BY <1>7, <1>8, Zenon DEF ProducerInv

(* Who was woken goes on. *)
LEMMA ReleaseWaits ==
    ASSUME Types, ProducerInv, NEW c \in Callers, Release(c)
    PROVE  ProducerInv'
<1>1. /\ pending' = [pending EXCEPT ![c] = Idle] /\ blocked' = blocked /\ bufferedBytes' = bufferedBytes
      /\ \A p \in Producers : producer'[p] = IF p \in pending[c].woken THEN "ready" ELSE producer[p]
  BY Zenon DEF Release
<1>2. DOMAIN pending = Callers
  BY Zenon DEF Types
<1>3. \A x \in Callers \ {c} : pending'[x] = pending[x]
  BY <1>1, <1>2, Zenon
<1>4. "ready" # "blocked"
  OBVIOUS
<1> SUFFICES ASSUME NEW q \in Producers, producer'[q] = "blocked"
             PROVE  \/ q \in blocked' /\ bufferedBytes' >= ContinueSize
                    \/ \E x \in Callers : q \in pending'[x].woken
  BY Zenon DEF ProducerInv
<1>5. q \notin pending[c].woken /\ producer[q] = "blocked"
  BY <1>1, <1>4, Zenon
<1> QED BY <1>1, <1>3, <1>5, Zenon DEF ProducerInv

(* Steps that free nothing. *)
LEMMA SameWaits ==
    ASSUME ProducerInv, UNCHANGED <<bufferedBytes, blocked, pending>>,
           \A q \in Producers : producer'[q] = "blocked" => producer[q] = "blocked"
    PROVE  ProducerInv'
BY Zenon DEF ProducerInv

-----------------------------------------------------------------------------
(* The bytes that are counted. *)

(* What is buffered was produced. *)
LEMMA BufferedSoFar ==
    ASSUME Types, KindInv, ContentInv, QueueInv, BytesInv
    PROVE  Buffered \subseteq 1..produced
<1> SUFFICES ASSUME NEW page \in Buffered PROVE page \in 1..produced
  BY Zenon
<1>1. page \in Pages /\ page # End
  BY DEF Buffered, Pages, End
<1>2. ASSUME NEW d \in Dests, page \in Range(data[d]) PROVE page \in 1..produced
  <2>1. Range(Sent(d)) \subseteq (1..produced) \cup {End}
    BY SentSoFar, Zenon DEF QueueInv
  <2> QED BY <1>1, <1>2, <2>1, DataSent, Zenon
<1>3. ASSUME page \in Range(arbitrary) PROVE page \in 1..produced
  <2>1. kind = "kArbitrary"
    BY <1>3, RangeNone, Zenon DEF KindInv
  <2> QED BY <1>1, <1>3, <2>1, Zenon DEF ContentInv, ShareInv
<1>4. ASSUME ~noMoreBuffers, page \in Range(dataToBroadcast) PROVE page \in 1..produced
  <2>1. kind = "kBroadcast"
    BY <1>4, RangeNone, Zenon DEF KindInv
  <2>2. dataToBroadcast \in Seq(Items)
    BY Zenon DEF Types
  <2>3. DOMAIN dataToBroadcast = 1..produced
    BY <1>4, <2>1, <2>2, SeqFacts, Zenon DEF KindInv
  <2>4. \A i \in 1..produced : dataToBroadcast[i] = i
    BY <1>4, <2>1, Zenon DEF KindInv
  <2> QED BY <1>4, <2>3, <2>4, Zenon DEF Range
<1> QED BY <1>2, <1>3, <1>4, Zenon DEF Buffered

(* Except for broadcast output a page is buffered in one place. *)
LEMMA HeldOnce ==
    ASSUME Types, KindInv, ContentInv, QueueInv, BytesInv, kind # "kBroadcast",
           NEW d \in Dests, NEW page \in Range(data[d]), page # End
    PROVE  /\ \A e \in Dests \ {d} : page \notin Range(data[e])
           /\ page \notin Range(arbitrary) /\ page \notin Range(dataToBroadcast)
<1>1. page \in Range(Sent(d)) /\ \A e \in Dests : Range(data[e]) \subseteq Range(Sent(e))
  BY DataSent, Zenon
<1>2. page \notin Range(dataToBroadcast)
  BY RangeNone, Zenon DEF KindInv
<1>3. CASE kind = "kArbitrary"
  <2>1. ShareInv
    BY <1>3, Zenon DEF ContentInv
  <2>2. ASSUME NEW e \in Dests \ {d} PROVE page \notin Range(data[e])
    <3>1. Range(Sent(d)) \cap Range(Sent(e)) \subseteq {End}
      BY <2>1, Zenon DEF ShareInv
    <3> QED BY <1>1, <3>1, Zenon
  <2>3. ASSUME page \in Range(arbitrary) PROVE FALSE
    <3>1. page < page
      BY <1>1, <2>1, <2>3, Zenon DEF ShareInv
    <3>2. page \in Int
      <4>1. arbitrary \in Seq(Items)
        BY Zenon DEF Types
      <4> QED BY <2>3, <4>1, RangeTyped, ConstantsTyped, Zenon
    <3> QED BY <3>1, <3>2
  <2> QED BY <1>2, <2>2, <2>3, Zenon
<1>4. CASE kind = "kPartitioned"
  <2>1. arbitrary = <<>> /\ numBuffers = NumDests
    BY <1>4 DEF KindInv
  <2>2. \A e \in Dests : Range(Sent(e)) \subseteq PagesFor(e) \cup {End}
    BY <1>4, <2>1 DEF ContentInv, CopyInv, Dests
  <2>3. \A e \in Dests : \A q \in Range(Sent(e)) : q # End => target[q] = e
    BY <1>4, <2>2, Zenon DEF PagesFor
  <2>4. \A e \in Dests \ {d} : page \notin Range(data[e])
    BY <1>1, <2>3, Zenon
  <2> QED BY <1>2, <2>1, <2>4, RangeNone, Zenon
<1>5. kind = "kArbitrary" \/ kind = "kPartitioned"
  BY KindsAssumption DEF Types
<1> QED BY <1>3, <1>4, <1>5, Zenon

(* Pages are freed by call c. *)
LEMMA BytesFreed ==
    ASSUME Types, Counted, KindInv, ContentInv, QueueInv, BytesInv,
           NEW c \in Callers, pending[c] = Idle, NEW freed, freed \subseteq Buffered,
           NEW newData, NEW log, NEW finished,
           UpdateAfterAcknowledge(c, freed, newData, log, finished),
           Buffered' \subseteq Buffered,
           \A page \in freed : Unique(c, page, newData, log) => page \notin Buffered',
           kind # "kBroadcast" => /\ Buffered' = Buffered \ freed
                                  /\ \A page \in freed : Unique(c, page, newData, log),
           \A d \in Dests : deleted'[d] => data'[d] = <<>>, UNCHANGED <<kind, produced>>
    PROVE  BytesInv'
<1> DEFINE U == {page \in freed : Unique(c, page, newData, log)}
           B == Buffered
           C == Buffered'
           R == B \ (C \cup U)
<1>1. B \in SUBSET Pages /\ C \in SUBSET Pages /\ U \in SUBSET Pages /\ R \in SUBSET Pages
  BY Zenon DEF Buffered
<1>2. C \cap U = {} /\ C \cup U \in SUBSET Pages /\ (C \cup U) \cap R = {} /\ (C \cup U) \cup R = B
  <2>1. C \cap U = {} /\ C \subseteq B /\ U \subseteq B
    BY Zenon
  <2> HIDE DEF B, C, U
  <2> QED BY <1>1, <2>1, Zenon
<1>3. bufferedBytes' = bufferedBytes - PageSize * Cardinality(U)
  BY Zenon DEF UpdateAfterAcknowledge
<1>4. /\ Cardinality(B) \in Nat /\ Cardinality(C) \in Nat /\ Cardinality(U) \in Nat /\ Cardinality(R) \in Nat
      /\ Cardinality(C \cup U) = Cardinality(C) + Cardinality(U)
      /\ Cardinality(B) = Cardinality(C \cup U) + Cardinality(R)
  BY <1>1, <1>2, Zenon DEF Counted
<1>5. PageSize \in Nat /\ bufferedBytes \in Int
  BY ConstantsTyped, Zenon DEF Types
<1>6. kind # "kBroadcast" => C \cup U = B
  BY <1>1, <1>2, Zenon
<1>7. /\ kind = "kBroadcast" => bufferedBytes >= PageSize * Cardinality(B)
      /\ kind # "kBroadcast" => bufferedBytes = PageSize * Cardinality(B)
  BY Zenon DEF BytesInv, BytesCounted
<1>8. /\ kind = "kBroadcast" /\ bufferedBytes' >= PageSize * Cardinality(C) => BytesCounted'
      /\ kind # "kBroadcast" /\ bufferedBytes' = PageSize * Cardinality(C) => BytesCounted'
  BY Zenon DEF BytesCounted
<1> HIDE DEF B, C, U, R
<1>9. kind = "kBroadcast" =>
        bufferedBytes - PageSize * Cardinality(U) >= PageSize * Cardinality(C)
  <2>1. Cardinality(B) = (Cardinality(C) + Cardinality(U)) + Cardinality(R)
    BY <1>4, Zenon
  <2> QED BY <1>4, <1>5, <1>7, <2>1, FreeAtLeast, Zenon
<1>10. kind # "kBroadcast" =>
         bufferedBytes - PageSize * Cardinality(U) = PageSize * Cardinality(C)
  <2>1. kind # "kBroadcast" => Cardinality(B) = Cardinality(C) + Cardinality(U)
    BY <1>4, <1>6, Zenon
  <2>2. PageSize * (Cardinality(C) + Cardinality(U)) - PageSize * Cardinality(U) = PageSize * Cardinality(C)
    BY <1>4, <1>5, FreeExact, Zenon
  <2> QED BY <1>7, <2>1, <2>2, Zenon
<1>11. BytesCounted'
  BY <1>3, <1>8, <1>9, <1>10, Zenon
<1>12. ASSUME NEW e \in Callers
       PROVE  /\ pending'[e].freed \subseteq 1..produced'
              /\ kind' # "kBroadcast" => pending'[e].freed \cap Buffered' = {}
  <2>1. CASE e = c
    <3>1. pending'[e].freed = freed
      BY <2>1, Zenon DEF UpdateAfterAcknowledge, Types
    <3> QED BY <3>1, BufferedSoFar, Zenon
  <2>2. CASE e # c
    <3>1. pending'[e] = pending[e]
      BY <2>2, Zenon DEF UpdateAfterAcknowledge, Types
    <3> QED BY <3>1, Zenon DEF BytesInv
  <2> QED BY <2>1, <2>2, Zenon
<1> QED BY <1>11, <1>12, Zenon DEF BytesInv

(* The same pages are buffered. *)
LEMMA BytesSame ==
    ASSUME BytesInv, Buffered' = Buffered, UNCHANGED <<kind, bufferedBytes>>,
           1..produced \subseteq 1..produced',
           \A c \in Callers : pending'[c].freed \subseteq pending[c].freed,
           \A d \in Dests : deleted'[d] => data'[d] = <<>>
    PROVE  BytesInv'
<1>1. BytesCounted'
  BY Zenon DEF BytesInv, BytesCounted
<1> QED BY <1>1, Zenon DEF BytesInv

(* The next page is buffered. *)
LEMMA BytesAdded ==
    ASSUME Types, Counted, KindInv, ContentInv, QueueInv, BytesInv,
           produced + 1 \in Pages, produced' = produced + 1, bufferedBytes' = bufferedBytes + PageSize,
           Buffered' \subseteq Buffered \cup {produced + 1},
           kind # "kBroadcast" => Buffered' = Buffered \cup {produced + 1},
           \A d \in Dests : deleted'[d] => data'[d] = <<>>, UNCHANGED <<kind, pending>>
    PROVE  BytesInv'
<1> DEFINE x == produced + 1
           B == Buffered
           C == Buffered'
           R == (B \cup {x}) \ C
<1>1. produced \in Nat
  BY SizesAssumption DEF Types
<1>2. x \notin 1..produced /\ 1..produced \subseteq 1..x
  BY <1>1
<1>3. B \in SUBSET Pages /\ C \in SUBSET Pages /\ {x} \in SUBSET Pages /\ R \in SUBSET Pages
  BY Zenon DEF Buffered
<1>4. B \cap {x} = {} /\ C \cap R = {} /\ C \cup R = B \cup {x}
  <2>1. B \cap {x} = {}
    BY <1>2, BufferedSoFar, Zenon
  <2>2. C \subseteq B \cup {x}
    BY Zenon
  <2> HIDE DEF B, C
  <2>3. C \cap R = {} /\ C \cup R = B \cup {x}
    BY <2>2, Zenon
  <2> QED BY <2>1, <2>3, Zenon
<1>5. /\ Cardinality(B) \in Nat /\ Cardinality(C) \in Nat /\ Cardinality(R) \in Nat
      /\ Cardinality(B \cup {x}) = Cardinality(B) + 1
      /\ Cardinality(B \cup {x}) = Cardinality(C) + Cardinality(R)
  <2> HIDE DEF B, C, R, x
  <2>1. /\ Cardinality(B) \in Nat /\ Cardinality(C) \in Nat /\ Cardinality(R) \in Nat
        /\ Cardinality(C \cup R) = Cardinality(C) + Cardinality(R)
    BY <1>3, <1>4, Zenon DEF Counted
  <2>2. Cardinality(B \cup {x}) = Cardinality(B) + Cardinality({x})
    BY <1>3, <1>4, Zenon DEF Counted
  <2>3. Cardinality({x}) = 1
    BY <1>3, Zenon DEF Counted
  <2> QED BY <1>4, <2>1, <2>2, <2>3, Zenon
<1>6. PageSize \in Nat /\ bufferedBytes \in Int
  BY ConstantsTyped, Zenon DEF Types
<1>7. /\ kind = "kBroadcast" => bufferedBytes >= PageSize * Cardinality(B)
      /\ kind # "kBroadcast" => bufferedBytes = PageSize * Cardinality(B)
  BY Zenon DEF BytesInv, BytesCounted
<1>8. /\ kind = "kBroadcast" /\ bufferedBytes' >= PageSize * Cardinality(C) => BytesCounted'
      /\ kind # "kBroadcast" /\ bufferedBytes' = PageSize * Cardinality(C) => BytesCounted'
  BY Zenon DEF BytesCounted
<1>9. kind # "kBroadcast" => C = B \cup {x}
  BY Zenon
<1> HIDE DEF B, C, R
<1>10. Cardinality(B) + 1 = Cardinality(C) + Cardinality(R)
  BY <1>5, Zenon
<1>11. kind = "kBroadcast" => bufferedBytes + PageSize >= PageSize * Cardinality(C)
  BY <1>5, <1>6, <1>7, <1>10, AddAtLeast, Zenon
<1>12. kind # "kBroadcast" => bufferedBytes + PageSize = PageSize * Cardinality(C)
  <2>1. kind # "kBroadcast" => Cardinality(C) = Cardinality(B) + 1
    BY <1>5, <1>9, Zenon
  <2>2. PageSize * (Cardinality(B) + 1) = PageSize * Cardinality(B) + PageSize
    BY <1>5, <1>6, AddExact, Zenon
  <2> QED BY <1>7, <2>1, <2>2, Zenon
<1>13. BytesCounted'
  BY <1>8, <1>11, <1>12, Zenon
<1>14. \A c \in Callers : pending[c].freed \subseteq 1..produced
  BY Zenon DEF BytesInv
<1>15. kind # "kBroadcast" => \A c \in Callers : pending[c].freed \cap Buffered = {}
  BY Zenon DEF BytesInv
<1> QED BY <1>2, <1>13, <1>14, <1>15, Zenon DEF BytesInv

(* The pages in the destinations and elsewhere. *)
InDests == {page \in Pages : \E d \in Dests : page \in Range(data[d])}
InShared ==
    {page \in Pages : page \in Range(arbitrary) \/ (~noMoreBuffers /\ page \in Range(dataToBroadcast))}

(* What is buffered, in the destinations and shared. *)
LEMMA BufferedIs == Buffered = InDests \cup InShared /\ Buffered' = InDests' \cup InShared'
BY Zenon DEF Buffered, InDests, InShared

(* The destinations of T have got x. *)
LEMMA FedData ==
    ASSUME Types, NEW T \in SUBSET Dests, NEW x \in Items, FeedsAll(T, x), BytesInv
    PROVE  /\ T = {} => InDests' = InDests
           /\ x = End => InDests' = InDests
           /\ T # {} /\ x \in Pages => InDests' = InDests \cup {x}
           /\ \A d \in Dests : deleted'[d] => data'[d] = <<>>
<1>1. ASSUME NEW d \in Dests, d \in T PROVE Range(data'[d]) = Range(data[d]) \cup {x} /\ Live(d)
  <2>1. Feeds(d, <<x>>)
    BY <1>1, Zenon DEF FeedsAll
  <2>2. data[d] \in Seq(Items) /\ <<x>> \in Seq(Items) /\ Range(<<x>>) = {x} /\ <<x>> # <<>>
    BY DestTyped, RangeOne, OneItem, Zenon
  <2>3. Range(data[d] \o <<x>>) = Range(data[d]) \cup {x}
    BY <2>2, RangeConcat, Zenon
  <2> QED BY <2>1, <2>2, <2>3, Zenon DEF Feeds
<1>2. ASSUME NEW d \in Dests, d \notin T PROVE data'[d] = data[d]
  BY <1>2, NothingEnqueued, Zenon DEF FeedsAll, Feeds
<1>3. \A d \in Dests : deleted'[d] = deleted[d]
  BY Zenon DEF FeedsAll, Feeds
<1>4. ASSUME NEW page
      PROVE  (\E d \in Dests : page \in Range(data'[d])) <=>
                (\E d \in Dests : page \in Range(data[d])) \/ (page = x /\ T # {})
  BY <1>1, <1>2, Zenon
<1>5. \A d \in Dests : deleted'[d] => data'[d] = <<>>
  BY <1>1, <1>2, <1>3, Zenon DEF Live, BytesInv
<1>6. End \notin Pages
  BY DEF End, Pages
<1>7. T = {} => InDests' = InDests
  BY <1>4, Zenon DEF InDests
<1>8. x = End => InDests' = InDests
  BY <1>4, <1>6, Zenon DEF InDests
<1>9. ASSUME T # {}, x \in Pages PROVE InDests' = InDests \cup {x}
  BY <1>4, <1>9, Zenon DEF InDests
<1> QED BY <1>5, <1>7, <1>8, <1>9, Zenon

(* The bytes after EnqueuePartitioned. *)
LEMMA EnqueuePartitionedBytes ==
    ASSUME Types, Counted, KindInv, ContentInv, QueueInv, BytesInv, ~atEnd,
           NEW p \in Producers, NEW d \in Dests, EnqueuePartitioned(p, d)
    PROVE  BytesInv'
<1> DEFINE x == produced + 1
           T == {e \in {d} : Live(e)}
<1>1. /\ produced < MaxPages /\ produced' = x
      /\ UNCHANGED <<kind, noMoreBuffers, dataToBroadcast, deleted, pending>>
      /\ bufferedBytes' = IF Live(d) THEN bufferedBytes + PageSize ELSE bufferedBytes
  BY Zenon DEF EnqueuePartitioned, Produce
<1>2. x \in Pages /\ x \in Items
  BY <1>1, NextPage, Zenon
<1>3. FeedsAll(T, x) /\ arbitrary' = arbitrary
  BY EnqueuePartitionedFeeds, Zenon
<1>4. T \in SUBSET Dests
  BY Zenon
<1>5. /\ \A e \in Dests : deleted'[e] => data'[e] = <<>>
      /\ T = {} => InDests' = InDests
      /\ T # {} => InDests' = InDests \cup {x}
  <2> HIDE DEF T, x
  <2> QED BY <1>2, <1>3, <1>4, FedData, Zenon
<1>6. CASE Live(d)
  <2>1. T # {}
    BY <1>6, Zenon
  <2>2. Buffered' = Buffered \cup {x}
    <3>1. InShared' = InShared
      BY <1>1, <1>3, Zenon DEF InShared
    <3> QED BY <1>5, <2>1, <3>1, BufferedIs, Zenon
  <2> QED BY <1>1, <1>2, <1>5, <1>6, <2>2, BytesAdded, Zenon
<1>7. CASE ~Live(d)
  <2>1. T = {}
    BY <1>7, Zenon
  <2>2. Buffered' = Buffered
    <3>1. InShared' = InShared
      BY <1>1, <1>3, Zenon DEF InShared
    <3> QED BY <1>5, <2>1, <3>1, BufferedIs, Zenon
  <2>3. 1..produced \subseteq 1..produced'
    BY <1>1, SizesAssumption DEF Types
  <2> QED BY <1>1, <1>5, <1>7, <2>2, <2>3, BytesSame, Zenon
<1> QED BY <1>6, <1>7, Zenon

(* The bytes after EnqueueBroadcast. *)
LEMMA EnqueueBroadcastBytes ==
    ASSUME Types, Counted, KindInv, ContentInv, QueueInv, BytesInv, ~atEnd,
           NEW p \in Producers, EnqueueBroadcast(p)
    PROVE  BytesInv'
<1> DEFINE x == produced + 1
           T == {e \in Dests : Live(e)}
<1>1. /\ produced < MaxPages /\ produced' = x /\ kind = "kBroadcast"
      /\ UNCHANGED <<kind, noMoreBuffers, deleted, pending>>
      /\ bufferedBytes' = bufferedBytes + PageSize
      /\ dataToBroadcast' = IF noMoreBuffers THEN dataToBroadcast ELSE Append(dataToBroadcast, x)
  BY Zenon DEF EnqueueBroadcast, Produce
<1>2. x \in Pages /\ x \in Items
  BY <1>1, NextPage, Zenon
<1>3. FeedsAll(T, x) /\ arbitrary' = arbitrary
  BY EnqueueBroadcastFeeds, Zenon
<1>4. T \in SUBSET Dests
  BY Zenon
<1>5. /\ \A e \in Dests : deleted'[e] => data'[e] = <<>>
      /\ T = {} => InDests' = InDests
      /\ T # {} => InDests' = InDests \cup {x}
  <2> HIDE DEF T, x
  <2> QED BY <1>2, <1>3, <1>4, FedData, Zenon
<1>6. ~noMoreBuffers => Range(dataToBroadcast') \subseteq Range(dataToBroadcast) \cup {x}
  <2>1. dataToBroadcast \in Seq(Items) /\ <<x>> \in Seq(Items) /\ Range(<<x>>) = {x}
    BY <1>2, RangeOne, Zenon DEF Types
  <2>2. Append(dataToBroadcast, x) = dataToBroadcast \o <<x>>
    BY <1>2, <2>1
  <2> QED BY <1>1, <2>1, <2>2, RangeConcat, Zenon
<1>7. Buffered' \subseteq Buffered \cup {x}
  <2>1. InDests' \subseteq InDests \cup {x}
    BY <1>5, Zenon
  <2>2. InShared' \subseteq InShared \cup {x}
    <3> HIDE DEF x
    <3> QED BY <1>1, <1>3, <1>6, Zenon DEF InShared
  <2> QED BY <2>1, <2>2, BufferedIs, Zenon
<1> QED BY <1>1, <1>2, <1>5, <1>7, BytesAdded, Zenon

(* The bytes after EnqueueArbitrary. *)
LEMMA EnqueueArbitraryBytes ==
    ASSUME Types, Counted, KindInv, ContentInv, QueueInv, BytesInv, ~atEnd,
           NEW p \in Producers, EnqueueArbitrary(p)
    PROVE  BytesInv'
<1> DEFINE x == produced + 1
<1>1. /\ produced < MaxPages /\ produced' = x /\ kind = "kArbitrary"
      /\ UNCHANGED <<kind, noMoreBuffers, dataToBroadcast, deleted, pending>>
      /\ bufferedBytes' = bufferedBytes + PageSize
  BY Zenon DEF EnqueueArbitrary, Produce
<1>2. x \in Pages /\ x \in Items /\ arbitrary \in Seq(Items)
  BY <1>1, NextPage, Zenon DEF Types
<1>3. ASSUME FeedsAll({}, x), arbitrary' = arbitrary \o <<x>> PROVE BytesInv'
  <2>1. Range(arbitrary') = Range(arbitrary) \cup {x}
    BY <1>2, <1>3, RangeOne, RangeConcat, Zenon
  <2>2. InDests' = InDests /\ \A e \in Dests : deleted'[e] => data'[e] = <<>>
    <3>1. {} \in SUBSET Dests
      BY Zenon
    <3> QED BY <1>2, <1>3, <3>1, FedData, Zenon
  <2>3. Buffered' = Buffered \cup {x}
    <3>1. InShared' = InShared \cup {x}
      <4> HIDE DEF x
      <4> QED BY <1>1, <1>2, <2>1, Zenon DEF InShared
    <3> QED BY <2>2, <3>1, BufferedIs, Zenon
  <2> QED BY <1>1, <1>2, <2>2, <2>3, BytesAdded, Zenon
<1>4. ASSUME NEW d \in Dests, FeedsAll({d}, x), arbitrary = <<>>, arbitrary' = <<>> PROVE BytesInv'
  <2>1. {d} \in SUBSET Dests /\ {d} # {}
    BY Zenon
  <2>2. InDests' = InDests \cup {x} /\ \A e \in Dests : deleted'[e] => data'[e] = <<>>
    BY <1>2, <1>4, <2>1, FedData, Zenon
  <2>3. Buffered' = Buffered \cup {x}
    <3>1. InShared' = InShared
      BY <1>1, <1>4, Zenon DEF InShared
    <3> QED BY <2>2, <3>1, BufferedIs, Zenon
  <2> QED BY <1>1, <1>2, <2>2, <2>3, BytesAdded, Zenon
<1> QED BY <1>3, <1>4, EnqueueArbitraryFeeds, Zenon

(* The bytes after CheckIfDone. *)
LEMMA CheckIfDoneBytes ==
    ASSUME Types, Counted, KindInv, ContentInv, QueueInv, BytesInv, ~atEnd, NEW n, CheckIfDone(n)
    PROVE  BytesInv'
<1>1. UNCHANGED <<kind, noMoreBuffers, dataToBroadcast, bufferedBytes, pending, produced>>
  BY Zenon DEF CheckIfDone
<1>2. End \in Items /\ End \notin Pages /\ arbitrary \in Seq(Items)
  <2>1. End \notin Pages
    BY DEF End, Pages
  <2> QED BY <2>1, ConstantsTyped, Zenon DEF Types
<1>3. \E T \in SUBSET Dests : FeedsAll(T, End) /\ arbitrary' \in {arbitrary, arbitrary \o <<End>>}
  <2>1. {} \in SUBSET Dests /\ Waiting \in SUBSET Dests /\ {e \in Dests : Live(e)} \in SUBSET Dests
    BY Zenon DEF Waiting
  <2>2. CASE AllFinished(n)
    BY <2>1, <2>2, DoneFeeds, Zenon
  <2>3. CASE ~AllFinished(n)
    BY <2>1, <2>3, NotDoneFeeds, Zenon
  <2> QED BY <2>2, <2>3, Zenon
<1>4. InDests' = InDests /\ \A e \in Dests : deleted'[e] => data'[e] = <<>>
  BY <1>2, <1>3, FedData, Zenon
<1>5. InShared' = InShared
  <2>1. Range(arbitrary \o <<End>>) = Range(arbitrary) \cup {End}
    BY <1>2, RangeOne, RangeConcat, Zenon
  <2>2. \A page \in Pages : page \in Range(arbitrary') <=> page \in Range(arbitrary)
    BY <1>2, <1>3, <2>1, Zenon
  <2> QED BY <1>1, <2>2, Zenon DEF InShared
<1>6. Buffered' = Buffered
  BY <1>4, <1>5, BufferedIs, Zenon
<1> QED BY <1>1, <1>4, <1>6, BytesSame, Zenon

(* The end of a call frees nothing more. *)
LEMMA ReleaseBytes ==
    ASSUME Types, KindInv, BytesInv, NEW c \in Callers, Release(c)
    PROVE  BytesInv'
<1>1. UNCHANGED <<kind, noMoreBuffers, arbitrary, bufferedBytes, data, deleted, produced>>
  BY Zenon DEF Release, destVars
<1>2. dataToBroadcast' = dataToBroadcast \/ noMoreBuffers
  BY Zenon DEF Release, KindInv
<1>3. Buffered' = Buffered
  BY <1>1, <1>2, Zenon DEF Buffered
<1>4. ASSUME NEW e \in Callers PROVE pending'[e].freed \subseteq pending[e].freed
  <2>1. pending'[e] = IF e = c THEN Idle ELSE pending[e]
    BY Zenon DEF Release, Types
  <2>2. Idle.freed = {}
    BY DEF Idle
  <2> QED BY <2>1, <2>2, Zenon
<1> QED BY <1>1, <1>3, <1>4, BytesSame, Zenon DEF BytesInv

(* Steps that move no items. *)
LEMMA QuietBytes ==
    ASSUME BytesInv, UNCHANGED <<kind, noMoreBuffers, dataToBroadcast, arbitrary, bufferedBytes,
                                 data, deleted, pending, produced>>
    PROVE  BytesInv'
<1>1. Buffered' = Buffered
  BY Zenon DEF Buffered
<1> QED BY <1>1, BytesSame, Zenon DEF BytesInv

(* The first n items of destination d are freed. *)
LEMMA DestFrees ==
    ASSUME Types, Counted, KindInv, ContentInv, QueueInv, BytesInv, NEW d \in Dests,
           pending[d] = Idle, ~deleted[d], NEW n \in Nat, n <= Len(data[d]), NEW newData, NEW finished,
           UpdateAfterAcknowledge(d, Freed(d, n), newData, dataToBroadcast, finished),
           kind # "kBroadcast" => \A e \in Dests \ {d} : newData[e] = data[e],
           kind # "kBroadcast" => Range(newData[d]) = Range(Suffix(data[d], n)),
           \A page \in Pages : page \in Buffered' <=>
              (\E e \in Dests : page \in Range(newData[e])) \/ page \in InShared,
           Buffered' \subseteq Buffered,
           \A e \in Dests : deleted'[e] => data'[e] = <<>>, UNCHANGED <<kind, produced>>
    PROVE  BytesInv'
<1> DEFINE s == data[d]
           freed == Freed(d, n)
<1>1. s \in Seq(Items) /\ PagesThenEnd(s)
  BY DestTyped, DataInOrder, Zenon DEF QueueInv
<1>2. /\ Range(s) = Range(SubSeq(s, 1, n)) \cup Range(Suffix(s, n))
      /\ Range(SubSeq(s, 1, n)) \cap Range(Suffix(s, n)) = {}
  BY <1>1, Apart, Zenon
<1>3. freed = Range(SubSeq(s, 1, n)) \ {End}
  BY Zenon DEF Freed
<1>4. freed \subseteq Pages /\ freed \subseteq Range(s)
  BY FreedTyped, Zenon
<1> HIDE DEF s, freed
<1>5. freed \subseteq Buffered /\ Buffered \subseteq Pages /\ Buffered' \subseteq Pages
  BY <1>4, Zenon DEF Buffered, s
<1>6. ASSUME NEW page \in freed, kind # "kBroadcast"
      PROVE  /\ \A e \in Dests \ {d} : page \notin Range(data[e])
             /\ page \notin Range(arbitrary) /\ page \notin Range(dataToBroadcast)
             /\ page \notin Range(Suffix(s, n))
  <2>1. page \in Range(data[d]) /\ page # End
    BY <1>3, <1>4, Zenon DEF s
  <2> QED BY <1>2, <1>3, <1>6, <2>1, HeldOnce, Zenon
<1>7. ASSUME NEW page \in freed, kind # "kBroadcast"
      PROVE  Unique(d, page, newData, dataToBroadcast)
  <2>1. \A e \in Dests : page \notin Range(newData[e])
    BY <1>6, <1>7, Zenon DEF s
  <2>2. \A other \in Callers : page \notin pending[other].freed
    BY <1>5, <1>7, Zenon DEF BytesInv
  <2> QED BY <1>6, <1>7, <2>1, <2>2, Zenon DEF Unique
<1>8. ASSUME NEW page \in freed, Unique(d, page, newData, dataToBroadcast) PROVE page \notin Buffered'
  <2>1. page \notin Range(arbitrary)
    <3>1. CASE kind = "kBroadcast"
      <4>1. arbitrary = <<>>
        BY <3>1 DEF KindInv
      <4> QED BY <4>1, RangeNone, Zenon
    <3> QED BY <1>6, <3>1, Zenon
  <2>2. page \notin InShared
    BY <1>8, <2>1, Zenon DEF InShared, Unique
  <2> QED BY <1>4, <1>8, <2>2, Zenon DEF Unique
<1>9. ASSUME kind # "kBroadcast", NEW page \in Buffered, page \notin freed PROVE page \in Buffered'
  <2>1. page \in Pages /\ (page \in InDests \/ page \in InShared)
    BY <1>5, <1>9, BufferedIs, Zenon
  <2>2. ASSUME NEW e \in Dests, page \in Range(data[e])
        PROVE  \E f \in Dests : page \in Range(newData[f])
    <3>1. CASE e # d
      BY <1>9, <2>2, <3>1, Zenon
    <3>2. CASE e = d
      <4>1. page # End
        BY <2>1 DEF Pages, End
      <4> QED BY <1>2, <1>3, <1>9, <2>2, <3>2, <4>1, Zenon DEF s
    <3> QED BY <3>1, <3>2, Zenon
  <2> QED BY <2>1, <2>2, Zenon DEF InDests
<1>10. kind # "kBroadcast" => Buffered' = Buffered \ freed
  BY <1>7, <1>8, <1>9, Zenon
<1>11. d \in Callers
  BY Zenon DEF Callers
<1>12. UpdateAfterAcknowledge(d, freed, newData, dataToBroadcast, finished)
  BY Zenon DEF freed
<1> QED BY <1>5, <1>7, <1>8, <1>10, <1>11, <1>12, BytesFreed, Zenon

(* The bytes after Acknowledge. *)
LEMMA AcknowledgeBytes ==
    ASSUME Types, Counted, KindInv, ContentInv, QueueInv, BytesInv, NEW d \in Dests,
           NEW s \in acks[d], Acknowledge(d, s)
    PROVE  BytesInv'
<1> DEFINE n == NumAcked(d, s)
<1>1. UNCHANGED <<kind, noMoreBuffers, dataToBroadcast, arbitrary, deleted, produced>> /\ pending[d] = Idle
  BY Zenon DEF Acknowledge, bufferVars, producerVars
<1>2. CASE deleted[d]
  <2>1. UNCHANGED <<data, bufferedBytes, pending>>
    BY <1>2, Zenon DEF Acknowledge
  <2> QED BY <1>1, <2>1, QuietBytes, Zenon
<1>3. CASE ~deleted[d]
  <2>1. /\ data' = [data EXCEPT ![d] = Suffix(@, n)]
        /\ UpdateAfterAcknowledge(d, Freed(d, n), data', dataToBroadcast, FALSE)
    BY <1>3, Zenon DEF Acknowledge
  <2>2. MatchInv(d) /\ s \in Nat /\ s <= NumPages(got[d])
    BY DestTyped, Zenon DEF QueueInv, MatchInv
  <2>3. n \in Nat /\ n <= Len(data[d])
    BY <1>3, <2>2, AckFacts, Zenon
  <2> HIDE DEF n
  <2>4. data'[d] = Suffix(data[d], n) /\ \A e \in Dests \ {d} : data'[e] = data[e]
    BY <2>1, Zenon DEF Types
  <2>5. data[d] \in Seq(Items) /\ PagesThenEnd(data[d])
    BY <1>3, <2>2, DestTyped, DataInOrder, Zenon
  <2>6. Range(data'[d]) \subseteq Range(data[d])
    <3>1. Range(data[d]) = Range(SubSeq(data[d], 1, n)) \cup Range(Suffix(data[d], n))
      BY <2>3, <2>5, Apart, Zenon
    <3> QED BY <2>4, <3>1, Zenon
  <2>7. InDests' \subseteq InDests
    BY <2>4, <2>6, Zenon DEF InDests
  <2>8. InShared' = InShared
    BY <1>1, Zenon DEF InShared
  <2>9. Buffered' \subseteq Buffered
    BY <2>7, <2>8, BufferedIs, Zenon
  <2>10. \A page \in Pages : page \in Buffered' <=>
            (\E e \in Dests : page \in Range(data'[e])) \/ page \in InShared
    BY <2>8, BufferedIs, Zenon DEF InDests
  <2>11. \A e \in Dests : deleted'[e] => data'[e] = <<>>
    BY <1>1, <1>3, <2>4, Zenon DEF BytesInv
  <2> QED BY <1>1, <1>3, <2>1, <2>3, <2>4, <2>9, <2>10, <2>11, DestFrees, Zenon
<1> QED BY <1>2, <1>3, Zenon

(* All items, and none after them. *)
LEMMA WholeSeq ==
    ASSUME NEW s \in Seq(Items)
    PROVE  SubSeq(s, 1, Len(s)) = s /\ Suffix(s, Len(s)) = <<>> /\ Len(s) \in Nat /\ Len(s) <= Len(s)
BY DEF Suffix

(* The bytes after DeleteResults. *)
LEMMA DeleteResultsBytes ==
    ASSUME Types, Counted, KindInv, ContentInv, QueueInv, BytesInv, NEW d \in Dests, DeleteResults(d)
    PROVE  BytesInv'
<1> DEFINE n == Len(data[d])
<1>1. /\ UNCHANGED <<kind, noMoreBuffers, dataToBroadcast, arbitrary, produced>>
      /\ pending[d] = Idle /\ ~deleted[d]
      /\ data' = [data EXCEPT ![d] = <<>>] /\ deleted' = [deleted EXCEPT ![d] = TRUE]
  BY Zenon DEF DeleteResults, bufferVars, producerVars
<1>2. PICK fin : UpdateAfterAcknowledge(d, Range(data[d]) \ {End}, data', dataToBroadcast, fin)
  BY Zenon DEF DeleteResults
<1>3. data[d] \in Seq(Items)
  BY DestTyped, Zenon
<1>4. Freed(d, n) = Range(data[d]) \ {End} /\ Suffix(data[d], n) = <<>> /\ n \in Nat /\ n <= Len(data[d])
  BY <1>3, WholeSeq, Zenon DEF Freed
<1>5. /\ data'[d] = <<>> /\ \A e \in Dests \ {d} : data'[e] = data[e]
      /\ \A e \in Dests \ {d} : deleted'[e] = deleted[e]
  BY <1>1, Zenon DEF Types
<1>6. InDests' \subseteq InDests
  BY <1>5, RangeNone, Zenon DEF InDests
<1>7. InShared' = InShared
  BY <1>1, Zenon DEF InShared
<1>8. Buffered' \subseteq Buffered
  BY <1>6, <1>7, BufferedIs, Zenon
<1>9. \A page \in Pages : page \in Buffered' <=>
         (\E e \in Dests : page \in Range(data'[e])) \/ page \in InShared
  BY <1>7, BufferedIs, Zenon DEF InDests
<1>10. \A e \in Dests : deleted'[e] => data'[e] = <<>>
  BY <1>5, Zenon DEF BytesInv
<1>11. UpdateAfterAcknowledge(d, Freed(d, n), data', dataToBroadcast, fin)
  BY <1>2, <1>4, Zenon
<1>12. Range(data'[d]) = Range(Suffix(data[d], n))
  BY <1>4, <1>5, Zenon
<1> HIDE DEF n
<1> QED BY <1>1, <1>4, <1>5, <1>8, <1>9, <1>10, <1>11, <1>12, DestFrees, Zenon

(* What new destinations are given is buffered already. *)
LEMMA NewBuffered ==
    ASSUME Types, KindInv, BytesInv, QueueInv, NEW m, ~noMoreBuffers \/ m = numBuffers, NEW e \in Dests
    PROVE  /\ \A page \in Range(WithBuffers(m)[e]) : page = End \/ page \in Buffered
           /\ Range(data[e]) \subseteq Range(WithBuffers(m)[e])
           /\ deleted[e] => WithBuffers(m)[e] = <<>>
<1>1. data[e] \in Seq(Items) /\ dataToBroadcast \in Seq(Items) /\ Range(dataToBroadcast) \subseteq Pages
  BY DestTyped, Zenon DEF Types
<1>2. Range(data[e]) \ {End} \subseteq Buffered
  BY <1>1, RangeTyped, Zenon DEF Buffered
<1>3. CASE WithBuffers(m)[e] = data[e]
  BY <1>2, <1>3, Zenon DEF BytesInv
<1>4. CASE WithBuffers(m)[e] # data[e]
  <2>1. ~(e <= numBuffers) /\ m # numBuffers
    BY <1>4, WithBuffersIs, Zenon
  <2>2. e > numBuffers
    BY <2>1 DEF Dests, Types
  <2>3. data[e] = <<>> /\ ~deleted[e]
    BY <2>2, Zenon DEF QueueInv, NewInv
  <2>4. WithBuffers(m)[e] = dataToBroadcast \o (IF atEnd THEN <<End>> ELSE <<>>)
    BY <1>4, WithBuffersIs, Zenon
  <2>5. Range(WithBuffers(m)[e]) \subseteq Range(dataToBroadcast) \cup {End}
    <3>1. /\ <<>> \in Seq(Items) /\ Range(<<>>) = {} /\ <<End>> \in Seq(Items) /\ Range(<<End>>) = {End}
      BY RangeNone, RangeOne, ConstantsTyped, Zenon
    <3>2. Range(dataToBroadcast \o <<End>>) = Range(dataToBroadcast) \cup {End}
      BY <1>1, <3>1, RangeConcat, Zenon
    <3>3. dataToBroadcast \o <<>> = dataToBroadcast
      BY <1>1
    <3> QED BY <2>4, <3>2, <3>3, Zenon
  <2>6. Range(dataToBroadcast) \subseteq Buffered
    BY <1>1, <2>1, Zenon DEF Buffered
  <2> QED BY <2>3, <2>5, <2>6, RangeNone, Zenon
<1> QED BY <1>3, <1>4, Zenon

(* The bytes after UpdateOutputBuffers. *)
LEMMA UpdateOutputBuffersBytes ==
    ASSUME Types, Counted, KindInv, ContentInv, QueueInv, BytesInv, NEW n \in Dests, NEW noMore \in BOOLEAN,
           UpdateOutputBuffers(n, noMore)
    PROVE  BytesInv'
<1>1. /\ UNCHANGED <<kind, dataToBroadcast, arbitrary, deleted, produced>>
      /\ pending[Updater] = Idle /\ ~noMoreBuffers /\ noMoreBuffers' = noMore
  BY Zenon DEF UpdateOutputBuffers, producerVars
<1>2. PICK m : data' = WithBuffers(m)
  BY Zenon DEF UpdateOutputBuffers
<1>3. \A e \in Dests : /\ \A page \in Range(data'[e]) : page = End \/ page \in Buffered
                       /\ Range(data[e]) \subseteq Range(data'[e])
                       /\ deleted'[e] => data'[e] = <<>>
  BY <1>1, <1>2, NewBuffered, Zenon
<1>4. End \notin Pages
  BY DEF End, Pages
<1>5. InDests' \subseteq Buffered /\ InDests \subseteq InDests'
  BY <1>3, <1>4, Zenon DEF InDests
<1>6. InShared' \subseteq InShared
  BY <1>1, Zenon DEF InShared
<1>7. Buffered' \subseteq Buffered
  BY <1>5, <1>6, BufferedIs, Zenon
<1>8. ASSUME noMore = FALSE \/ kind # "kBroadcast" PROVE Buffered' = Buffered
  <2>1. InShared' = InShared
    BY <1>1, <1>8, RangeNone, Zenon DEF InShared, KindInv
  <2> QED BY <1>5, <1>7, <2>1, BufferedIs, Zenon
<1>9. CASE noMore /\ kind # "kPartitioned"
  <2>1. PICK fin : UpdateAfterAcknowledge(Updater, Range(dataToBroadcast), data', <<>>, fin)
    BY <1>9, Zenon DEF UpdateOutputBuffers
  <2>2. Range(dataToBroadcast) \subseteq Buffered
    BY <1>1, Zenon DEF Buffered, Types
  <2>3. ASSUME NEW page \in Range(dataToBroadcast), Unique(Updater, page, data', <<>>)
        PROVE  page \notin Buffered'
    <3>1. kind = "kBroadcast"
      BY RangeNone, Zenon DEF KindInv
    <3>2. arbitrary' = <<>>
      BY <1>1, <3>1 DEF KindInv
    <3>3. \A e \in Dests : page \notin Range(data'[e])
      BY <2>3, Zenon DEF Unique
    <3> QED BY <1>1, <1>9, <3>2, <3>3, RangeNone, Zenon DEF Buffered
  <2>4. ASSUME kind # "kBroadcast"
        PROVE  Buffered' = Buffered \ Range(dataToBroadcast) /\ Range(dataToBroadcast) = {}
    BY <1>8, <2>4, RangeNone, Zenon DEF KindInv
  <2>5. Updater \in Callers
    BY Zenon DEF Callers
  <2> QED BY <1>1, <1>3, <1>7, <2>1, <2>2, <2>3, <2>4, <2>5, BytesFreed, Zenon
<1>10. CASE ~(noMore /\ kind # "kPartitioned")
  <2>1. UNCHANGED <<bufferedBytes, pending>>
    BY <1>10, Zenon DEF UpdateOutputBuffers
  <2>2. Buffered' = Buffered
    BY <1>8, <1>10, Zenon
  <2> QED BY <1>1, <1>3, <2>1, <2>2, BytesSame, Zenon
<1> QED BY <1>9, <1>10, Zenon

-----------------------------------------------------------------------------
(* The bytes that a fetch frees. *)

(* The bytes after GetData. *)
LEMMA GetDataBytes ==
    ASSUME Types, Counted, KindInv, ContentInv, QueueInv, BytesInv, NEW d \in Dests, GetData(d)
    PROVE  BytesInv'
<1> DEFINE W == WithBuffers(Grown(d))
           newData == [W EXCEPT ![d] = Kept(d)]
           n == Acked(d)
<1>1. /\ pending[d] = Idle /\ ~request[d] /\ ~AtEnd(d) /\ ~deleted[d]
      /\ d > numBuffers => ~noMoreBuffers
      /\ data' = [W EXCEPT ![d] = Loaded(d)]
      /\ arbitrary' = IF Loads THEN Rest(arbitrary) ELSE arbitrary
      /\ UpdateAfterAcknowledge(d, Freed(d, n), newData, dataToBroadcast, FALSE)
      /\ UNCHANGED <<kind, noMoreBuffers, dataToBroadcast, deleted, produced>>
  BY GetDataIs, Zenon DEF producerVars
<1>2. W \in [Dests -> Seq(Items)] /\ arbitrary \in Seq(Items)
  BY WithBuffersTyped, Zenon DEF Types
<1>3. MatchInv(d) /\ NewInv(d)
  BY Zenon DEF QueueInv
<1>4. /\ n \in Nat /\ n <= Len(data[d]) /\ Kept(d) \in Seq(Items) /\ Taken(arbitrary) \in Seq(Items)
      /\ d <= numBuffers => Grown(d) = numBuffers /\ Kept(d) = Suffix(data[d], n)
      /\ d > numBuffers => Grown(d) = d /\ Kept(d) = W[d]
  BY <1>1, <1>3, GetDataParts, Zenon
<1>5. Kept(d) = Suffix(W[d], n)
  BY Zenon DEF Kept
<1> HIDE DEF W, n
<1>6. newData[d] = Kept(d) /\ \A e \in Dests \ {d} : newData[e] = W[e] /\ data'[e] = W[e]
  BY <1>1, <1>2, Zenon
<1>7. data'[d] = Loaded(d)
  BY <1>1, <1>2, Zenon
<1> HIDE DEF newData
<1>8. kind # "kBroadcast" => \A e \in Dests : W[e] = data[e]
  BY WithBuffersIs, Zenon DEF W
<1>9. d <= numBuffers \/ d > numBuffers
  BY DEF Dests, Types
<1>10. \A e \in Dests : /\ \A page \in Range(W[e]) : page = End \/ page \in Buffered
                        /\ deleted[e] => W[e] = <<>>
  BY <1>1, <1>4, <1>9, NewBuffered, Zenon DEF W
<1>11. \A page \in Range(Kept(d)) : page = End \/ page \in Buffered
  <2>1. CASE d <= numBuffers
    <3>1. data[d] \in Seq(Items) /\ PagesThenEnd(data[d])
      BY <1>1, <1>3, DestTyped, DataInOrder, Zenon
    <3>2. Range(data[d]) = Range(SubSeq(data[d], 1, n)) \cup Range(Suffix(data[d], n))
      BY <1>4, <3>1, Apart, Zenon
    <3>3. Range(data[d]) \ {End} \subseteq Buffered
      BY <3>1, RangeTyped, Zenon DEF Buffered
    <3> QED BY <1>4, <2>1, <3>2, <3>3, Zenon
  <2>2. CASE d > numBuffers
    BY <1>4, <1>10, <2>2, Zenon
  <2> QED BY <1>9, <2>1, <2>2, Zenon
<1>12. End \notin Pages
  BY DEF End, Pages
<1>13. Loads => \A page \in Pages :
                  (page \in Range(Loaded(d)) \/ page \in Range(arbitrary')) <=>
                     (page \in Range(Kept(d)) \/ page \in Range(arbitrary))
  <2> SUFFICES ASSUME Loads
               PROVE  \A page \in Pages :
                        (page \in Range(Loaded(d)) \/ page \in Range(Rest(arbitrary))) <=>
                           (page \in Range(Kept(d)) \/ page \in Range(arbitrary))
    BY <1>1, Zenon
  <2>1. ShareInv
    BY Zenon DEF Loads, ContentInv
  <2>2. Range(arbitrary) = Range(Taken(arbitrary)) \cup Range(Rest(arbitrary))
    BY <1>2, <2>1, TakenFacts, Zenon DEF ShareInv
  <2>3. CASE HasEnd(Kept(d))
    <3>1. Ended(d)
      BY <1>1, <2>3, FetchTakes, Zenon
    <3>2. arbitrary = <<End>>
      BY <2>1, <3>1, Zenon DEF ShareInv
    <3>3. Range(arbitrary) = {End}
      BY <3>2, RangeOne, ConstantsTyped, Zenon
    <3>4. Loaded(d) = Kept(d)
      BY <2>3, Zenon DEF Loaded, Enqueued
    <3> QED BY <1>12, <2>2, <3>3, <3>4, Zenon
  <2>4. CASE ~HasEnd(Kept(d))
    <3>1. Loaded(d) = Kept(d) \o Taken(arbitrary)
      BY <2>4, Zenon DEF Loaded, Enqueued
    <3>2. Range(Loaded(d)) = Range(Kept(d)) \cup Range(Taken(arbitrary))
      BY <1>4, <3>1, RangeConcat, Zenon
    <3> QED BY <2>2, <3>2, Zenon
  <2> QED BY <2>3, <2>4, Zenon
<1>14. ASSUME NEW page \in Pages
       PROVE  page \in Buffered' <=> (\E e \in Dests : page \in Range(newData[e])) \/ page \in InShared
  <2>1. (page \in Range(Loaded(d)) \/ page \in Range(arbitrary')) <=>
           (page \in Range(Kept(d)) \/ page \in Range(arbitrary))
    <3>1. CASE Loads
      BY <1>13, <3>1, Zenon
    <3>2. CASE ~Loads
      BY <1>1, <3>2, Zenon DEF Loaded
    <3> QED BY <3>1, <3>2, Zenon
  <2>2. page \in Buffered' <=> \/ page \in Range(data'[d]) \/ page \in Range(arbitrary')
                               \/ \E e \in Dests \ {d} : page \in Range(data'[e])
                               \/ ~noMoreBuffers /\ page \in Range(dataToBroadcast)
    BY <1>1, Zenon DEF Buffered
  <2>3. ((\E e \in Dests : page \in Range(newData[e])) \/ page \in InShared) <=>
           \/ page \in Range(newData[d]) \/ page \in Range(arbitrary)
           \/ \E e \in Dests \ {d} : page \in Range(newData[e])
           \/ ~noMoreBuffers /\ page \in Range(dataToBroadcast)
    BY Zenon DEF InShared
  <2>4. (\E e \in Dests \ {d} : page \in Range(data'[e])) <=>
           \E e \in Dests \ {d} : page \in Range(newData[e])
    BY <1>6, Zenon
  <2> QED BY <1>6, <1>7, <2>1, <2>2, <2>3, <2>4, Zenon
<1>15. Buffered' \subseteq Buffered
  <2>1. \A e \in Dests : \A page \in Range(newData[e]) : page = End \/ page \in Buffered
    BY <1>6, <1>10, <1>11, Zenon
  <2>2. InShared \subseteq Buffered /\ Buffered' \subseteq Pages
    BY BufferedIs, Zenon DEF Buffered
  <2> QED BY <1>12, <1>14, <2>1, <2>2, Zenon
<1>16. \A e \in Dests : deleted'[e] => data'[e] = <<>>
  BY <1>1, <1>6, <1>10, Zenon
<1>17. kind # "kBroadcast" => /\ \A e \in Dests \ {d} : newData[e] = data[e]
                              /\ Range(newData[d]) = Range(Suffix(data[d], n))
  BY <1>5, <1>6, <1>8, Zenon
<1> QED BY <1>1, <1>4, <1>14, <1>15, <1>16, <1>17, DestFrees, Zenon

-----------------------------------------------------------------------------
(* What the invariant says of a consumer. *)

(* The invariant implies NobodyForgotten. *)
LEMMA WaitsRight ==
    ASSUME QueueInv, ProducerInv
    PROVE  NobodyForgotten
BY Zenon DEF QueueInv, WaitInv, ProducerInv, NobodyForgotten

(* The invariant implies TypeOK. *)
LEMMA TypesRight ==
    ASSUME Types, Counted, DriverInv, BytesInv
    PROVE  TypeOK
<1>1. dataToBroadcast \in Seq(Pages)
  <2>1. dataToBroadcast \in Seq(Items) /\ Range(dataToBroadcast) \subseteq Pages
    BY Zenon DEF Types
  <2>2. \A i \in 1..Len(dataToBroadcast) : dataToBroadcast[i] \in Pages
    BY <2>1, SeqFacts, Zenon DEF Range
  <2> QED BY <2>1, <2>2
<1>2. numFinished \in 0..numDrivers
  <2>1. /\ Cardinality(Done) <= Cardinality(Producers) /\ Cardinality(Done) \in Nat
        /\ Cardinality(Producers) \in Nat
    BY DoneCounted, Zenon
  <2>2. numDrivers \in Nat
    BY Zenon DEF Types
  <2> QED BY <2>1, <2>2 DEF DriverInv
<1>3. bufferedBytes \in Nat
  <2>1. Cardinality(Buffered) \in Nat
    <3>1. Buffered \in SUBSET Pages
      BY Zenon DEF Buffered
    <3> QED BY <3>1, Zenon DEF Counted
  <2>2. PageSize * Cardinality(Buffered) \in Nat /\ bufferedBytes \in Int
    BY <2>1, TimesSum, ConstantsTyped, Zenon DEF Types
  <2>3. bufferedBytes >= PageSize * Cardinality(Buffered) \/ bufferedBytes = PageSize * Cardinality(Buffered)
    BY Zenon DEF BytesInv, BytesCounted
  <2> QED BY <2>2, <2>3
<1>4. Items = Pages \cup {End}
  BY Zenon DEF Items
<1> QED BY <1>1, <1>2, <1>3, <1>4, Zenon DEF Types, TypeOK

-----------------------------------------------------------------------------
(* The inductive invariant, and what each step keeps of it: all but the    *)
(* contents.                                                               *)

ControlInv == Types /\ DriverInv /\ HeldInv /\ KindInv /\ ProducerInv /\ BytesInv

IInv == ControlInv /\ ContentInv /\ QueueInv

(* Enqueueing does not lower the buffered bytes. *)
LEMMA ProducedBytes ==
    ASSUME Types, NEW p \in Producers,
           EnqueueBroadcast(p) \/ EnqueueArbitrary(p) \/ \E d \in Dests : EnqueuePartitioned(p, d)
    PROVE  Produce(p) /\ bufferedBytes' \in Int /\ bufferedBytes <= bufferedBytes'
<1>1. Produce(p) /\ (bufferedBytes' = bufferedBytes + PageSize \/ bufferedBytes' = bufferedBytes)
  BY Zenon DEF EnqueueBroadcast, EnqueueArbitrary, EnqueuePartitioned
<1>2. bufferedBytes \in Int /\ PageSize \in Nat
  BY ConstantsTyped, Zenon DEF Types
<1> QED BY <1>1, <1>2

(* All but the contents after the three kinds of enqueue. *)
LEMMA EnqueueControl ==
    ASSUME IInv, Counted, NEW p \in Producers,
           EnqueueBroadcast(p) \/ EnqueueArbitrary(p) \/ \E d \in Dests : EnqueuePartitioned(p, d)
    PROVE  ControlInv' /\ ~atEnd
<1> USE DEF IInv, ControlInv
<1>1. Produce(p) /\ bufferedBytes' \in Int /\ bufferedBytes <= bufferedBytes'
  BY ProducedBytes, Zenon
<1>2. ~atEnd
  <2>1. producer[p] = "ready"
    BY <1>1, Zenon DEF Produce
  <2>2. producer[p] # "done"
    BY <2>1
  <2> QED BY <2>2, NotYetEnd, Zenon
<1>3. Types'
  BY EnqueueBroadcastTyped, EnqueueArbitraryTyped, EnqueuePartitionedTyped, Zenon
<1>4. DriverInv' /\ HeldInv'
  BY <1>1, ProduceHeld, Zenon
<1>5. KindInv'
  BY EnqueueKind, Zenon
<1>6. ProducerInv'
  BY <1>1, ProduceWaits, Zenon
<1>7. BytesInv'
  BY <1>2, EnqueueBroadcastBytes, EnqueueArbitraryBytes, EnqueuePartitionedBytes, Zenon
<1> QED BY <1>2, <1>3, <1>4, <1>5, <1>6, <1>7, Zenon

(* All but the contents after CheckIfDone. *)
LEMMA CheckIfDoneControl ==
    ASSUME IInv, Counted, NoMoreDrivers \/ \E p \in Producers : NoMoreData(p)
    PROVE  ControlInv' /\ ~atEnd
<1> USE DEF IInv, ControlInv
<1>1. PICK n : CheckIfDone(n)
  BY Zenon DEF NoMoreDrivers, NoMoreData
<1>2. ~atEnd
  <2>1. CASE NoMoreDrivers
    BY <2>1, Zenon DEF NoMoreDrivers, DriverInv
  <2>2. ASSUME NEW p \in Producers, NoMoreData(p) PROVE ~atEnd
    <3>1. producer[p] # "done"
      BY <2>2 DEF NoMoreData
    <3> QED BY <3>1, NotYetEnd, Zenon
  <2> QED BY <2>1, <2>2, Zenon
<1>3. Types'
  BY NoMoreDriversTyped, NoMoreDataTyped, Zenon
<1>4. DriverInv' /\ HeldInv'
  BY NoMoreDataHeld, DriversHeld, Zenon DEF DriversStep
<1>5. KindInv'
  BY <1>1, CheckIfDoneKind, Zenon
<1>6. ProducerInv'
  <2>1. UNCHANGED <<bufferedBytes, blocked, pending>>
    BY <1>1, Zenon DEF CheckIfDone
  <2>2. \A q \in Producers : producer'[q] = "blocked" => producer[q] = "blocked"
    <3>1. CASE producer' = producer
      BY <3>1, Zenon
    <3>2. ASSUME NEW p \in Producers, producer' = [producer EXCEPT ![p] = "done"]
          PROVE  \A q \in Producers : producer'[q] = "blocked" => producer[q] = "blocked"
      BY <3>2 DEF Types
    <3> QED BY <3>1, <3>2, Zenon DEF NoMoreDrivers, NoMoreData
  <2> QED BY <2>1, <2>2, SameWaits, Zenon
<1>7. BytesInv'
  BY <1>1, <1>2, CheckIfDoneBytes, Zenon
<1> QED BY <1>2, <1>3, <1>4, <1>5, <1>6, <1>7, Zenon

(* All but the contents after UpdateNumDrivers. *)
LEMMA UpdateNumDriversControl ==
    ASSUME IInv, Counted, UpdateNumDrivers
    PROVE  ControlInv'
<1> USE DEF IInv, ControlInv
<1>1. UNCHANGED <<bufferVars, bufferedBytes, blocked, atEnd, destVars, pending, consumed, producerVars,
                  consumerVars>>
  BY Zenon DEF UpdateNumDrivers
<1>2. Types' /\ DriverInv' /\ HeldInv'
  BY UpdateNumDriversTyped, DriversHeld, Zenon DEF DriversStep
<1>3. KindInv'
  BY <1>1, KindKept, Zenon DEF bufferVars, producerVars
<1>4. ProducerInv'
  BY <1>1, SameWaits, Zenon DEF producerVars
<1>5. BytesInv'
  BY <1>1, QuietBytes, Zenon DEF bufferVars, destVars, producerVars
<1> QED BY <1>2, <1>3, <1>4, <1>5, Zenon

(* All but the contents after Release. *)
LEMMA ReleaseControl ==
    ASSUME IInv, Counted, NEW c \in Callers, Release(c)
    PROVE  ControlInv'
BY ReleaseTyped, ReleaseHeld, ReleaseKind, ReleaseWaits, ReleaseBytes, Zenon DEF IInv, ControlInv

(* Steps that leave the drivers alone. *)
LEMMA ProducersKept ==
    ASSUME IInv, UNCHANGED <<driverVars, producer, bufferedBytes, blocked, pending>>
    PROVE  DriverInv' /\ HeldInv' /\ ProducerInv'
<1> USE DEF IInv, ControlInv
<1>1. Done' = Done
  BY Zenon DEF Done
<1>2. DriverInv'
  BY <1>1, SameDrivers, Zenon
<1>3. HeldInv'
  BY Zenon DEF HeldInv
<1>4. ProducerInv'
  BY SameWaits, Zenon
<1> QED BY <1>2, <1>3, <1>4, Zenon

(* All but the contents after UpdateOutputBuffers. *)
LEMMA UpdateOutputBuffersControl ==
    ASSUME IInv, Counted, NEW n \in Dests, NEW noMore \in BOOLEAN, UpdateOutputBuffers(n, noMore)
    PROVE  ControlInv'
<1> USE DEF IInv, ControlInv
<1>1. Types' /\ KindInv' /\ BytesInv'
  BY UpdateOutputBuffersTyped, UpdateOutputBuffersKind, UpdateOutputBuffersBytes, Zenon
<1>2. pending[Updater] = Idle /\ UNCHANGED <<driverVars, producer>> /\ Updater \in Callers
  BY Zenon DEF UpdateOutputBuffers, producerVars, Callers
<1>3. Range(dataToBroadcast) \in SUBSET Pages
  BY Zenon DEF Types
<1>4. \/ \E newData, finished :
           UpdateAfterAcknowledge(Updater, Range(dataToBroadcast), newData, <<>>, finished)
      \/ UNCHANGED <<bufferedBytes, blocked, pending>>
  BY Zenon DEF UpdateOutputBuffers
<1>5. DriverInv' /\ HeldInv' /\ ProducerInv'
  BY <1>2, <1>3, <1>4, UpdateHeld, UpdateWaits, ProducersKept, Zenon
<1> QED BY <1>1, <1>5, Zenon

(* All but the contents after GetData. *)
LEMMA GetDataControl ==
    ASSUME IInv, Counted, NEW d \in Dests, GetData(d)
    PROVE  ControlInv'
<1> USE DEF IInv, ControlInv
<1>1. MatchInv(d) /\ NewInv(d) /\ d \in Callers
  BY Zenon DEF QueueInv, Callers
<1>2. Types' /\ KindInv' /\ BytesInv'
  BY <1>1, GetDataTyped, GetDataKind, GetDataBytes, Zenon
<1>3. /\ pending[d] = Idle /\ ~AtEnd(d) /\ ~deleted[d] /\ UNCHANGED <<driverVars, producer>>
      /\ \E newData, log, finished : UpdateAfterAcknowledge(d, Freed(d, Acked(d)), newData, log, finished)
  BY GetDataIs, Zenon DEF producerVars
<1>4. Freed(d, Acked(d)) \in SUBSET Pages
  BY <1>1, <1>3, GetDataParts, Zenon
<1>5. DriverInv' /\ HeldInv' /\ ProducerInv'
  BY <1>1, <1>3, <1>4, UpdateHeld, UpdateWaits, Zenon
<1> QED BY <1>2, <1>5, Zenon

(* All but the contents after the steps of a consumer alone. *)
LEMMA ConsumerControl ==
    ASSUME IInv, NEW d \in Dests,
           Timeout(d) \/ Receive(d) \/ \E s \in acks[d] : LoseAcknowledge(d, s)
    PROVE  ControlInv'
<1> USE DEF IInv, ControlInv
<1>1. Types'
  BY TimeoutTyped, ReceiveTyped, LoseAcknowledgeTyped, Zenon
<1>2. UNCHANGED <<bufferVars, bufferedBytes, blocked, driverVars, data, deleted, pending, producerVars>>
  BY Zenon DEF Timeout, Receive, LoseAcknowledge, destVars
<1>3. DriverInv' /\ HeldInv' /\ ProducerInv'
  BY <1>2, ProducersKept, Zenon DEF producerVars
<1>4. KindInv'
  BY <1>2, KindKept, Zenon DEF bufferVars, producerVars
<1>5. BytesInv'
  BY <1>2, QuietBytes, Zenon DEF bufferVars, producerVars
<1> QED BY <1>1, <1>3, <1>4, <1>5, Zenon

(* All but the contents after Acknowledge. *)
LEMMA AcknowledgeControl ==
    ASSUME IInv, Counted, NEW d \in Dests, NEW s \in acks[d], Acknowledge(d, s)
    PROVE  ControlInv'
<1> USE DEF IInv, ControlInv
<1>1. MatchInv(d) /\ d \in Callers
  BY Zenon DEF QueueInv, Callers
<1>2. Types' /\ KindInv' /\ BytesInv'
  BY <1>1, AcknowledgeTyped, AcknowledgeKind, AcknowledgeBytes, Zenon
<1>3. /\ pending[d] = Idle /\ UNCHANGED <<driverVars, producer>>
      /\ deleted[d] => UNCHANGED <<bufferedBytes, blocked, pending>>
      /\ ~deleted[d] => \E newData, log, finished :
            UpdateAfterAcknowledge(d, Freed(d, NumAcked(d, s)), newData, log, finished)
  BY Zenon DEF Acknowledge, producerVars
<1>4. ~deleted[d] => Freed(d, NumAcked(d, s)) \in SUBSET Pages
  <2>1. s \in Nat /\ s <= NumPages(got[d])
    BY <1>1, DestTyped, Zenon DEF MatchInv
  <2> QED BY <1>1, <2>1, AckFacts, Zenon
<1>5. DriverInv' /\ HeldInv' /\ ProducerInv'
  BY <1>1, <1>3, <1>4, UpdateHeld, UpdateWaits, ProducersKept, Zenon
<1> QED BY <1>2, <1>5, Zenon

(* All but the contents after DeleteResults. *)
LEMMA DeleteResultsControl ==
    ASSUME IInv, Counted, NEW d \in Dests, DeleteResults(d)
    PROVE  ControlInv'
<1> USE DEF IInv, ControlInv
<1>1. Types' /\ KindInv' /\ BytesInv'
  BY DeleteResultsTyped, DeleteResultsKind, DeleteResultsBytes, Zenon
<1>2. /\ pending[d] = Idle /\ UNCHANGED <<driverVars, producer>> /\ d \in Callers
      /\ \E newData, log, finished :
            UpdateAfterAcknowledge(d, Range(data[d]) \ {End}, newData, log, finished)
  BY Zenon DEF DeleteResults, producerVars, Callers
<1>3. Range(data[d]) \ {End} \in SUBSET Pages
  BY DestTyped, RangeTyped, Zenon
<1>4. DriverInv' /\ HeldInv' /\ ProducerInv'
  BY <1>2, <1>3, UpdateHeld, UpdateWaits, Zenon
<1> QED BY <1>1, <1>4, Zenon

(* Nothing happens. *)
LEMMA StutterControl ==
    ASSUME IInv, UNCHANGED vars
    PROVE  ControlInv'
<1> USE DEF IInv, ControlInv
<1>1. UNCHANGED <<bufferVars, bufferedBytes, blocked, driverVars, destVars, pending, consumed,
                  producerVars, consumerVars>>
  BY Zenon DEF vars
<1>2. Types'
  BY <1>1, Zenon DEF Types, bufferVars, driverVars, destVars, producerVars, consumerVars
<1>3. DriverInv' /\ HeldInv' /\ ProducerInv'
  BY <1>1, ProducersKept, Zenon DEF producerVars
<1>4. KindInv'
  BY <1>1, KindKept, Zenon DEF bufferVars, producerVars
<1>5. BytesInv'
  BY <1>1, QuietBytes, Zenon DEF bufferVars, destVars, producerVars
<1> QED BY <1>2, <1>3, <1>4, <1>5, Zenon

(* The types in the initial states. *)
LEMMA InitTypes ==
    ASSUME Init, Counted
    PROVE  Types
<1>1. /\ kind \in Kinds /\ noMoreBuffers \in BOOLEAN /\ blocked \subseteq Producers
      /\ atEnd \in BOOLEAN /\ noMoreDriversDue \in BOOLEAN /\ consumed \in BOOLEAN
      /\ notify \in [Dests -> {"none", "live", "stale"}] /\ deleted \in [Dests -> BOOLEAN]
      /\ producer \in [Producers -> {"ready", "blocked", "done"}]
      /\ request \in [Dests -> BOOLEAN]
  BY Zenon DEF Init
<1>2. /\ numBuffers \in InitDests..NumDests /\ nextLoad \in 1..numBuffers
  BY SizesAssumption DEF Init
<1>3. <<>> \in Seq(Items) /\ Range(<<>>) = {}
  BY RangeNone, Zenon
<1>4. dataToBroadcast \in Seq(Items) /\ Range(dataToBroadcast) \subseteq Pages /\ arbitrary \in Seq(Items)
  BY <1>3, Zenon DEF Init
<1>5. data \in [Dests -> Seq(Items)] /\ got \in [Dests -> Seq(Items)]
  BY <1>3, Zenon DEF Init
<1>6. bufferedBytes \in Int /\ numFinished \in Nat /\ produced \in 0..MaxPages
  BY SizesAssumption DEF Init
<1>7. numDrivers \in Nat
  <2>1. Cardinality(Producers) \in Nat /\ numDrivers = Cardinality(Producers) + ExtraDrivers
    BY Zenon DEF Counted, Init
  <2> QED BY <2>1, SizesAssumption
<1>8. sequence \in [Dests -> Nat] /\ target \in [Pages -> Dests]
  BY SizesAssumption DEF Init, Dests
<1>9. /\ pending \in [Callers -> [freed : SUBSET Pages, woken : SUBSET Producers, finished : BOOLEAN]]
      /\ response \in [Dests -> Seq(Items) \cup {NoResponse}] /\ acks \in [Dests -> SUBSET Nat]
  BY Zenon DEF Init, Idle
<1> QED BY <1>1, <1>2, <1>4, <1>5, <1>6, <1>7, <1>8, <1>9, Zenon DEF Types

(* The initial states. *)
LEMMA InitControl ==
    ASSUME Init, Counted
    PROVE  ControlInv
<1>1. Types
  BY InitTypes, Zenon
<1>2. Cardinality({}) = 0 /\ Cardinality(Producers) \in Nat
  BY Zenon DEF Counted
<1>3. DriverInv
  <2>1. Done = {}
    BY DEF Init, Done
  <2>2. /\ numFinished = 0 /\ ~atEnd /\ ~noMoreDriversDue
        /\ numDrivers = Cardinality(Producers) + ExtraDrivers
    BY Zenon DEF Init
  <2>3. numDrivers >= Cardinality(Producers)
    BY <1>2, <2>2, SizesAssumption
  <2> QED BY <1>2, <2>1, <2>2, <2>3, Zenon DEF DriverInv
<1>4. \A c \in Callers : pending[c] = Idle
  BY Zenon DEF Init
<1>5. HeldInv
  BY <1>4, Zenon DEF Init, HeldInv, Idle
<1>6. KindInv
  <2>1. \A i \in 1..0 : FALSE
    OBVIOUS
  <2>2. Len(<<>>) = 0
    OBVIOUS
  <2>3. dataToBroadcast = <<>> /\ arbitrary = <<>> /\ produced = 0
    BY Zenon DEF Init
  <2>4. kind = "kPartitioned" => numBuffers = NumDests
    BY Zenon DEF Init
  <2>5. pending[Updater] = Idle
    BY <1>4, Zenon DEF Callers
  <2> QED BY <2>1, <2>2, <2>3, <2>4, <2>5, Zenon DEF KindInv
<1>7. ProducerInv
  BY DEF Init, ProducerInv
<1>8. BytesInv
  <2>1. Range(<<>>) = {}
    BY RangeNone, Zenon
  <2>2. \A d \in Dests : data[d] = <<>>
    BY Zenon DEF Init
  <2>3. Buffered = {}
    BY <2>1, <2>2, Zenon DEF Init, Buffered
  <2>4. PageSize * 0 = 0 /\ 0 >= PageSize * 0
    BY SizesAssumption
  <2>5. BytesCounted
    BY <1>2, <2>3, <2>4, Zenon DEF Init, BytesCounted
  <2>6. \A c \in Callers : pending[c].freed = {}
    <3>1. Idle.freed = {}
      BY DEF Idle
    <3> QED BY <1>4, <3>1, Zenon
  <2> QED BY <2>2, <2>3, <2>5, <2>6, Zenon DEF BytesInv
<1> QED BY <1>1, <1>3, <1>5, <1>6, <1>7, <1>8, Zenon DEF ControlInv
=============================================================================
