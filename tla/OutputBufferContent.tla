------------------------ MODULE OutputBufferContent -------------------------
(***************************************************************************)
(* What each step of OutputBuffer does to the contents: what a consumer    *)
(* has, what is on its way and what is still buffered for it stay in order *)
(* and complete, through timeouts, repeated fetches, late and lost         *)
(* acknowledgements, deletions and destinations that come late.            *)
(***************************************************************************)
EXTENDS OutputBufferSteps

-----------------------------------------------------------------------------
(* What every destination was sent. *)

(* The items sent, when some are added. *)
LEMMA SentMore ==
    ASSUME Types, NEW e \in Dests, MatchInv(e), NEW u \in Seq(Items), Sent(e)' = Sent(e) \o u
    PROVE  Range(Sent(e)') = Range(Sent(e)) \cup Range(u)
BY SentTyped, RangeConcat, Zenon

(* Partitioned and broadcast output: one page more. *)
LEMMA CopyPage ==
    ASSUME NEW e, NEW x, CopyInv(e), ~atEnd, ~atEnd', x # End, Live(e)' <=> Live(e),
           Range(Sent(e)') \subseteq Range(Sent(e)) \cup {x}, Range(Sent(e)) \subseteq Range(Sent(e)'),
           x \in Range(Sent(e)') => x \in PagesFor(e)',
           PagesFor(e) \subseteq PagesFor(e)', PagesFor(e)' \subseteq PagesFor(e) \cup {x},
           Live(e) /\ x \in PagesFor(e)' => x \in Range(Sent(e)')
    PROVE  CopyInv(e)'
<1>1. ~Ended(e)
  BY Zenon DEF CopyInv
<1>2. ~Ended(e)'
  BY <1>1, Zenon DEF Ended
<1>3. Range(Sent(e)') \subseteq PagesFor(e)' \cup {End}
  BY Zenon DEF CopyInv
<1>4. Live(e) => PagesFor(e)' \subseteq Range(Sent(e)')
  BY Zenon DEF CopyInv
<1> QED BY <1>2, <1>3, <1>4, Zenon DEF CopyInv

(* Partitioned and broadcast output: the end. *)
LEMMA CopyEnd ==
    ASSUME NEW e, CopyInv(e), atEnd', Live(e)' <=> Live(e), PagesFor(e)' = PagesFor(e),
           Live(e) => Range(Sent(e)') = Range(Sent(e)) \cup {End},
           ~Live(e) => Range(Sent(e)') = Range(Sent(e))
    PROVE  CopyInv(e)'
BY Zenon DEF CopyInv, Ended

(* Partitioned and broadcast output: nothing new. *)
LEMMA CopySame ==
    ASSUME NEW e, CopyInv(e), atEnd' = atEnd, Live(e)' <=> Live(e), PagesFor(e)' = PagesFor(e),
           Sent(e)' = Sent(e)
    PROVE  CopyInv(e)'
BY Zenon DEF CopyInv, Ended

(* Nothing new was sent to anybody. *)
LEMMA ContentSame ==
    ASSUME ContentInv, Types, \A e \in Dests : Sent(e)' = Sent(e),
           UNCHANGED <<kind, numBuffers, arbitrary, atEnd, produced, target, deleted>>
    PROVE  ContentInv'
<1>1. CASE kind = "kArbitrary"
  <2>1. \A e \in Dests : Ended(e)' = Ended(e) /\ GaveUp(e)' = GaveUp(e)
    BY Zenon DEF Ended, GaveUp
  <2>2. ShareInv'
    BY <1>1, <2>1, Zenon DEF ContentInv, ShareInv
  <2> QED BY <1>1, <2>2, Zenon DEF ContentInv
<1>2. CASE kind # "kArbitrary"
  <2> SUFFICES ASSUME NEW e \in 1..numBuffers PROVE CopyInv(e)'
    BY <1>2, Zenon DEF ContentInv
  <2>1. e \in Dests
    BY SizesAssumption DEF Types, Dests
  <2>2. Live(e)' = Live(e) /\ PagesFor(e)' = PagesFor(e) /\ CopyInv(e)
    BY <1>2, Zenon DEF Live, PagesFor, ContentInv
  <2> QED BY <2>1, <2>2, CopySame, Zenon
<1> QED BY <1>1, <1>2, Zenon

(* The pages produced after the next one. *)
LEMMA NewPage ==
    ASSUME Types, produced < MaxPages
    PROVE  1..(produced + 1) = (1..produced) \cup {produced + 1} /\ produced + 1 \notin 1..produced
BY SizesAssumption DEF Types

(* enqueue of partitioned output. *)
LEMMA EnqueuePartitionedContent ==
    ASSUME Types, KindInv, ContentInv, QueueInv, ~atEnd, NEW p \in Producers, NEW d \in Dests,
           EnqueuePartitioned(p, d)
    PROVE  ContentInv' /\ QueueInv'
<1> DEFINE x == produced + 1
           T == {e \in {d} : Live(e)}
<1>1. /\ kind = "kPartitioned" /\ UNCHANGED <<kind, numBuffers, pending, deleted, atEnd>>
      /\ produced' = x /\ produced < MaxPages /\ target' = [target EXCEPT ![x] = d]
  BY Zenon DEF EnqueuePartitioned, Produce, driverVars
<1>2. x \in Pages /\ x \in Items /\ x # End
  BY <1>1, NextPage, Zenon
<1>3. 1..x = (1..produced) \cup {x} /\ x \notin 1..produced
  BY <1>1, NewPage, Zenon
<1>4. FeedsAll(T, x)
  BY EnqueuePartitionedFeeds, Zenon
<1>5. x = produced + 1
  OBVIOUS
<1> HIDE DEF x, T
<1>6. QueueInv' /\ \A e \in Dests : Sent(e)' = IF e \in T THEN Sent(e) \o <<x>> ELSE Sent(e)
  BY <1>1, <1>2, <1>4, <1>5, FeedQueue, Zenon
<1>7. ASSUME NEW e \in 1..numBuffers PROVE CopyInv(e)'
  <2>1. e \in Dests /\ CopyInv(e) /\ MatchInv(e)
    <3>1. e \in Dests
      BY SizesAssumption DEF Types, Dests
    <3> QED BY <1>1, <1>7, <3>1, Zenon DEF ContentInv, QueueInv
  <2>2. target'[x] = d /\ \A page \in 1..produced : target'[page] = target[page]
    <3>1. target \in [Pages -> Dests]
      BY Zenon DEF Types
    <3>2. 1..produced \subseteq Pages
      BY SizesAssumption DEF Types, Pages
    <3> QED BY <1>1, <1>2, <1>3, <3>1, <3>2, Zenon
  <2>3. /\ PagesFor(e) \subseteq PagesFor(e)' /\ PagesFor(e)' \subseteq PagesFor(e) \cup {x}
        /\ x \in PagesFor(e)' <=> e = d
    BY <1>1, <1>3, <2>2, Zenon DEF PagesFor
  <2>4. Live(e)' <=> Live(e)
    BY <1>1, Zenon DEF Live
  <2>5. e \in T <=> e = d /\ Live(e)
    BY Zenon DEF T
  <2>6. /\ e \in T => Range(Sent(e)') = Range(Sent(e)) \cup {x}
        /\ e \notin T => Range(Sent(e)') = Range(Sent(e))
    <3>1. <<x>> \in Seq(Items) /\ Range(<<x>>) = {x}
      BY <1>2, RangeOne, Zenon
    <3> QED BY <1>6, <2>1, <3>1, SentMore, Zenon
  <2>7. x \notin PagesFor(e) /\ x \notin Range(Sent(e))
    BY <1>2, <1>3, <2>1, Zenon DEF PagesFor, CopyInv
  <2> QED BY <1>1, <1>2, <2>1, <2>3, <2>4, <2>5, <2>6, <2>7, CopyPage, Zenon
<1> QED BY <1>1, <1>6, <1>7, Zenon DEF ContentInv

(* enqueue of broadcast output. *)
LEMMA EnqueueBroadcastContent ==
    ASSUME Types, KindInv, ContentInv, QueueInv, ~atEnd, NEW p \in Producers, EnqueueBroadcast(p)
    PROVE  ContentInv' /\ QueueInv'
<1> DEFINE x == produced + 1
           T == {e \in Dests : Live(e)}
<1>1. /\ kind = "kBroadcast" /\ UNCHANGED <<kind, numBuffers, pending, deleted, atEnd>>
      /\ produced' = x /\ produced < MaxPages
  BY Zenon DEF EnqueueBroadcast, Produce, driverVars
<1>2. x \in Pages /\ x \in Items /\ x # End
  BY <1>1, NextPage, Zenon
<1>3. 1..x = (1..produced) \cup {x} /\ x \notin 1..produced
  BY <1>1, NewPage, Zenon
<1>4. FeedsAll(T, x)
  BY EnqueueBroadcastFeeds, Zenon
<1>5. x = produced + 1
  OBVIOUS
<1> HIDE DEF x, T
<1>6. QueueInv' /\ \A e \in Dests : Sent(e)' = IF e \in T THEN Sent(e) \o <<x>> ELSE Sent(e)
  BY <1>1, <1>2, <1>4, <1>5, FeedQueue, Zenon
<1>7. ASSUME NEW e \in 1..numBuffers PROVE CopyInv(e)'
  <2>1. e \in Dests /\ CopyInv(e) /\ MatchInv(e)
    <3>1. e \in Dests
      BY SizesAssumption DEF Types, Dests
    <3>2. kind # "kArbitrary"
      BY <1>1
    <3> QED BY <1>7, <3>1, <3>2, Zenon DEF ContentInv, QueueInv
  <2>2. kind # "kPartitioned" /\ kind' # "kPartitioned"
    BY <1>1
  <2>3. /\ PagesFor(e) \subseteq PagesFor(e)' /\ PagesFor(e)' \subseteq PagesFor(e) \cup {x}
        /\ x \in PagesFor(e)'
    BY <1>1, <1>3, <2>2, Zenon DEF PagesFor
  <2>4. Live(e)' <=> Live(e)
    BY <1>1, Zenon DEF Live
  <2>5. e \in T <=> Live(e)
    BY <2>1, Zenon DEF T
  <2>6. /\ e \in T => Range(Sent(e)') = Range(Sent(e)) \cup {x}
        /\ e \notin T => Range(Sent(e)') = Range(Sent(e))
    <3>1. <<x>> \in Seq(Items) /\ Range(<<x>>) = {x}
      BY <1>2, RangeOne, Zenon
    <3> QED BY <1>6, <2>1, <3>1, SentMore, Zenon
  <2> QED BY <1>1, <1>2, <2>1, <2>3, <2>4, <2>5, <2>6, CopyPage, Zenon
<1>8. kind' # "kArbitrary"
  BY <1>1
<1> QED BY <1>1, <1>6, <1>7, <1>8, Zenon DEF ContentInv

(* Before the end nobody has the end marker. *)
LEMMA NoneEnded ==
    ASSUME ShareInv, ~atEnd, NEW e \in Dests
    PROVE  End \notin Range(Sent(e)) /\ End \notin Range(arbitrary)
<1>1. Range(<<End>>) = {End}
  BY RangeOne, ConstantsTyped, Zenon
<1> QED BY <1>1, Zenon DEF ShareInv, Ended

(* A page goes to the shared buffer, or to a destination that waits for it. *)
LEMMA SharePage ==
    ASSUME Types, ShareInv, ~atEnd, atEnd' = atEnd, produced < MaxPages, NEW x, x = produced + 1,
           produced' = x, deleted' = deleted, NEW T, T \subseteq Dests,
           \A e \in Dests : Range(Sent(e)') = IF e \in T THEN Range(Sent(e)) \cup {x} ELSE Range(Sent(e)),
           \/ T = {} /\ arbitrary' = arbitrary \o <<x>>
           \/ arbitrary = <<>> /\ arbitrary' = <<>> /\ \E d \in Dests : T = {d}
    PROVE  ShareInv'
<1>1. x \in Pages /\ x \in Items /\ x # End
  BY NextPage, Zenon
<1>2. 1..x = (1..produced) \cup {x} /\ x \notin 1..produced
  BY NewPage, Zenon
<1>3. \A y \in (1..produced) \cup {End} : y < x
  BY SizesAssumption DEF Types, End
<1>4. arbitrary \in Seq(Items) /\ PagesThenEnd(arbitrary) /\ Range(arbitrary) \subseteq (1..produced) \cup {End}
  BY Zenon DEF Types, ShareInv
<1>5. End \notin Range(arbitrary) /\ \A e \in Dests : End \notin Range(Sent(e))
  <2>1. 1 \in Dests
    BY SizesAssumption DEF Dests
  <2> QED BY <2>1, NoneEnded, Zenon
<1>6. /\ <<x>> \in Seq(Items) /\ Range(<<x>>) = {x} /\ PagesThenEnd(<<x>>)
      /\ Range(<<>>) = {} /\ PagesThenEnd(<<>>)
  BY <1>1, RangeOne, RangeNone, OrderOne, Zenon
<1>7. /\ PagesThenEnd(arbitrary')
      /\ T = {} => Range(arbitrary') = Range(arbitrary) \cup {x}
      /\ T # {} => Range(arbitrary') = {} /\ Range(arbitrary) = {}
  <2>1. CASE T = {} /\ arbitrary' = arbitrary \o <<x>>
    <3>1. PagesThenEnd(arbitrary \o <<x>>)
      <4>1. \A y \in Range(arbitrary) : y # End /\ y < x
        BY <1>3, <1>4, <1>5, Zenon
      <4>2. \A y \in Range(arbitrary), z \in Range(<<x>>) : y # End /\ (z = End \/ y < z)
        BY <1>6, <4>1, Zenon
      <4> QED BY <1>4, <1>6, <4>2, OrderMore, Zenon
    <3>2. Range(arbitrary \o <<x>>) = Range(arbitrary) \cup {x}
      <4>1. Range(arbitrary \o <<x>>) = Range(arbitrary) \cup Range(<<x>>)
        BY <1>4, <1>6, RangeConcat, Zenon
      <4> QED BY <1>6, <4>1, Zenon
    <3> QED BY <2>1, <3>1, <3>2, Zenon
  <2>2. CASE arbitrary = <<>> /\ arbitrary' = <<>> /\ \E d \in Dests : T = {d}
    BY <1>6, <2>2, Zenon
  <2> QED BY <2>1, <2>2, Zenon
<1>8. \A e \in Dests : Range(Sent(e)) \subseteq (1..produced) \cup {End}
  BY Zenon DEF ShareInv
<1>9. Range(arbitrary') \subseteq (1..x) \cup {End} /\ End \notin Range(arbitrary')
  BY <1>1, <1>2, <1>4, <1>5, <1>7, Zenon
<1>10. ASSUME NEW d \in Dests
       PROVE  /\ Range(Sent(d)') \subseteq (1..x) \cup {End} /\ ~Ended(d)'
              /\ \A i \in Range(Sent(d)'), j \in Range(arbitrary') : j # End => i < j
              /\ \A e \in Dests \ {d} : Range(Sent(d)') \cap Range(Sent(e)') \subseteq {End}
  <2>1. Range(Sent(d)') \subseteq (1..x) \cup {End} /\ ~Ended(d)'
    BY <1>1, <1>2, <1>5, <1>8, Zenon DEF Ended
  <2>2. \A i \in Range(Sent(d)'), j \in Range(arbitrary') : j # End => i < j
    <3>1. CASE T = {}
      BY <1>3, <1>7, <1>8, <3>1, Zenon DEF ShareInv
    <3>2. CASE T # {}
      BY <1>7, <3>2, Zenon
    <3> QED BY <3>1, <3>2, Zenon
  <2>3. ASSUME NEW e \in Dests \ {d} PROVE Range(Sent(d)') \cap Range(Sent(e)') \subseteq {End}
    <3>1. Range(Sent(d)) \cap Range(Sent(e)) \subseteq {End}
      BY Zenon DEF ShareInv
    <3>2. x \notin Range(Sent(d)) /\ x \notin Range(Sent(e)) /\ ~(d \in T /\ e \in T)
      BY <1>1, <1>2, <1>8, Zenon
    <3> QED BY <3>1, <3>2, Zenon
  <2> QED BY <2>1, <2>2, <2>3, Zenon
<1>11. ASSUME NEW page \in 1..x
       PROVE  \/ page \in Range(arbitrary')
              \/ \E d \in Dests : page \in Range(Sent(d)') \/ GaveUp(d)'
  <2>1. CASE page = x
    BY <1>7, <2>1, Zenon
  <2>2. CASE page \in 1..produced /\ page \in Range(arbitrary)
    BY <1>7, <2>2, Zenon
  <2>3. ASSUME page \in 1..produced, NEW d \in Dests, page \in Range(Sent(d)) \/ GaveUp(d)
        PROVE  page \in Range(Sent(d)') \/ GaveUp(d)'
    BY <1>10, <2>3, Zenon DEF GaveUp
  <2> QED BY <1>2, <2>1, <2>2, <2>3, Zenon DEF ShareInv
<1> QED BY <1>7, <1>9, <1>10, <1>11, Zenon DEF ShareInv

(* The end goes to the shared buffer and to all that wait. *)
LEMMA ShareEnd ==
    ASSUME Types, ShareInv, ~atEnd, atEnd', produced' = produced, deleted' = deleted,
           NEW T, T \subseteq Dests, T # {} => arbitrary = <<>>, arbitrary' = arbitrary \o <<End>>,
           \A e \in Dests : Range(Sent(e)') = IF e \in T THEN Range(Sent(e)) \cup {End} ELSE Range(Sent(e)),
           \A e \in T : ~deleted[e]
    PROVE  ShareInv'
<1>1. arbitrary \in Seq(Items) /\ PagesThenEnd(arbitrary) /\ Range(arbitrary) \subseteq (1..produced) \cup {End}
  BY Zenon DEF Types, ShareInv
<1>2. End \notin Range(arbitrary) /\ \A e \in Dests : End \notin Range(Sent(e))
  <2>1. 1 \in Dests
    BY SizesAssumption DEF Dests
  <2> QED BY <2>1, NoneEnded, Zenon
<1>3. /\ <<End>> \in Seq(Items) /\ Range(<<End>>) = {End} /\ PagesThenEnd(<<End>>)
  BY ConstantsTyped, RangeOne, OrderOne, Zenon
<1>4. PagesThenEnd(arbitrary')
  BY <1>1, <1>2, <1>3, OrderMore, Zenon
<1>5. Range(arbitrary') = Range(arbitrary) \cup {End}
  BY <1>1, <1>3, RangeConcat, Zenon
<1>6. T # {} => arbitrary' = <<End>>
  <2>1. <<>> \o <<End>> = <<End>>
    BY ConstantsTyped
  <2> QED BY <2>1, Zenon
<1>7. ASSUME NEW d \in Dests
      PROVE  /\ Range(Sent(d)') \subseteq (1..produced) \cup {End}
             /\ Ended(d)' => arbitrary' = <<End>>
             /\ \A i \in Range(Sent(d)'), j \in Range(arbitrary') : j # End => i < j
             /\ \A e \in Dests \ {d} : Range(Sent(d)') \cap Range(Sent(e)') \subseteq {End}
  <2>1. Range(Sent(d)') \subseteq (1..produced) \cup {End}
    BY Zenon DEF ShareInv
  <2>2. Ended(d)' => arbitrary' = <<End>>
    BY <1>2, <1>6, Zenon DEF Ended
  <2>3. \A i \in Range(Sent(d)'), j \in Range(arbitrary') : j # End => i < j
    <3>1. CASE T = {}
      BY <1>5, <3>1, Zenon DEF ShareInv
    <3>2. CASE T # {}
      BY <1>3, <1>6, <3>2, Zenon
    <3> QED BY <3>1, <3>2, Zenon
  <2>4. ASSUME NEW e \in Dests \ {d} PROVE Range(Sent(d)') \cap Range(Sent(e)') \subseteq {End}
    <3>1. Range(Sent(d)) \cap Range(Sent(e)) \subseteq {End}
      BY Zenon DEF ShareInv
    <3> QED BY <3>1, Zenon
  <2> QED BY <2>1, <2>2, <2>3, <2>4, Zenon
<1>8. ASSUME NEW page \in 1..produced
      PROVE  \/ page \in Range(arbitrary')
             \/ \E d \in Dests : page \in Range(Sent(d)') \/ GaveUp(d)'
  <2>1. CASE page \in Range(arbitrary)
    BY <1>5, <2>1, Zenon
  <2>2. ASSUME NEW d \in Dests, page \in Range(Sent(d)) \/ GaveUp(d)
        PROVE  page \in Range(Sent(d)') \/ GaveUp(d)'
    <3>1. CASE page \in Range(Sent(d))
      BY <3>1, Zenon
    <3>2. CASE GaveUp(d)
      <4>1. d \notin T
        BY <3>2, Zenon DEF GaveUp
      <4> QED BY <3>2, <4>1, Zenon DEF GaveUp, Ended
    <3> QED BY <2>2, <3>1, <3>2, Zenon
  <2> QED BY <2>1, <2>2, Zenon DEF ShareInv
<1> QED BY <1>1, <1>4, <1>5, <1>7, <1>8, Zenon DEF ShareInv

(* What every destination was sent grows. *)
LEMMA SentAllMore ==
    ASSUME Types, QueueInv, NEW x \in Items, NEW T,
           \A e \in Dests : Sent(e)' = IF e \in T THEN Sent(e) \o <<x>> ELSE Sent(e)
    PROVE  \A e \in Dests : Range(Sent(e)') = IF e \in T THEN Range(Sent(e)) \cup {x} ELSE Range(Sent(e))
<1> SUFFICES ASSUME NEW e \in Dests
             PROVE  Range(Sent(e)') = IF e \in T THEN Range(Sent(e)) \cup {x} ELSE Range(Sent(e))
  BY Zenon
<1>1. <<x>> \in Seq(Items) /\ Range(<<x>>) = {x} /\ MatchInv(e)
  BY RangeOne, Zenon DEF QueueInv
<1>2. CASE e \in T
  BY <1>1, <1>2, SentMore, Zenon
<1>3. CASE e \notin T
  BY <1>3, Zenon
<1> QED BY <1>2, <1>3, Zenon

(* enqueue of arbitrary output. *)
LEMMA EnqueueArbitraryContent ==
    ASSUME Types, Counted, KindInv, ContentInv, QueueInv, ~atEnd, NEW p \in Producers, EnqueueArbitrary(p)
    PROVE  ContentInv' /\ QueueInv'
<1> DEFINE x == produced + 1
<1>1. /\ kind = "kArbitrary" /\ UNCHANGED <<kind, numBuffers, pending, deleted, atEnd>>
      /\ produced' = x /\ produced < MaxPages
  BY Zenon DEF EnqueueArbitrary, Produce, driverVars
<1>2. x \in Items /\ x = produced + 1
  BY <1>1, NextPage, Zenon
<1>3. \/ FeedsAll({}, x) /\ arbitrary' = arbitrary \o <<x>>
      \/ \E d \in Dests : /\ FeedsAll({d}, x) /\ Live(d) /\ arbitrary = <<>> /\ arbitrary' = <<>>
  BY EnqueueArbitraryFeeds, Zenon
<1> HIDE DEF x
<1>4. PICK T : /\ T \subseteq Dests /\ FeedsAll(T, x)
               /\ \/ T = {} /\ arbitrary' = arbitrary \o <<x>>
                  \/ arbitrary = <<>> /\ arbitrary' = <<>> /\ \E d \in Dests : T = {d}
  <2>1. CASE FeedsAll({}, x) /\ arbitrary' = arbitrary \o <<x>>
    <3>1. {} \subseteq Dests
      BY Zenon
    <3> QED BY <2>1, <3>1, Zenon
  <2>2. ASSUME NEW d \in Dests, FeedsAll({d}, x), arbitrary = <<>>, arbitrary' = <<>>
        PROVE  \E T : /\ T \subseteq Dests /\ FeedsAll(T, x)
                      /\ arbitrary = <<>> /\ arbitrary' = <<>> /\ \E c \in Dests : T = {c}
    <3>1. {d} \subseteq Dests
      BY Zenon
    <3> QED BY <2>2, <3>1, Zenon
  <2> QED BY <1>3, <2>1, <2>2, Zenon
<1>5. QueueInv' /\ \A e \in Dests : Sent(e)' = IF e \in T THEN Sent(e) \o <<x>> ELSE Sent(e)
  BY <1>1, <1>2, <1>4, FeedQueue, Zenon
<1>6. \A e \in Dests : Range(Sent(e)') = IF e \in T THEN Range(Sent(e)) \cup {x} ELSE Range(Sent(e))
  BY <1>2, <1>5, SentAllMore, Zenon
<1>7. ShareInv
  BY <1>1, Zenon DEF ContentInv
<1>8. ShareInv'
  BY <1>1, <1>2, <1>4, <1>6, <1>7, SharePage, Zenon
<1> QED BY <1>1, <1>5, <1>8, Zenon DEF ContentInv

(* checkIfDone, for the last driver and for the others. *)
LEMMA CheckIfDoneContent ==
    ASSUME Types, Counted, KindInv, ContentInv, QueueInv, ~atEnd, NEW n, CheckIfDone(n)
    PROVE  ContentInv' /\ QueueInv'
<1>1. UNCHANGED <<kind, numBuffers, pending, deleted, produced, target>> /\ atEnd' = AllFinished(n)
  BY Zenon DEF CheckIfDone
<1>2. End \in Items
  BY ConstantsTyped, Zenon
<1>3. CASE ~AllFinished(n)
  <2> DEFINE T == {}
  <2>1. FeedsAll(T, End) /\ arbitrary' = arbitrary /\ \A e \in Dests : e \notin T
    BY <1>3, NotDoneFeeds, Zenon
  <2> HIDE DEF T
  <2>2. QueueInv' /\ \A e \in Dests : Sent(e)' = IF e \in T THEN Sent(e) \o <<End>> ELSE Sent(e)
    BY <1>1, <1>2, <2>1, FeedQueue, Zenon
  <2>3. atEnd' = atEnd
    BY <1>1, <1>3 DEF AllFinished, Types
  <2>4. \A e \in Dests : Sent(e)' = Sent(e)
    BY <2>1, <2>2, Zenon
  <2>5. ContentInv'
    BY <1>1, <2>1, <2>3, <2>4, ContentSame, Zenon
  <2> QED BY <2>2, <2>5, Zenon
<1>4. CASE AllFinished(n) /\ kind = "kArbitrary"
  <2>1. FeedsAll(Waiting, End) /\ arbitrary' = arbitrary \o <<End>>
    BY <1>4, DoneFeeds, Zenon
  <2>2. QueueInv' /\ \A e \in Dests : Sent(e)' = IF e \in Waiting THEN Sent(e) \o <<End>> ELSE Sent(e)
    BY <1>1, <1>2, <2>1, FeedQueue, Zenon
  <2>3. \A e \in Dests : Range(Sent(e)') = IF e \in Waiting THEN Range(Sent(e)) \cup {End} ELSE Range(Sent(e))
    BY <1>2, <2>2, SentAllMore, Zenon
  <2>4. Waiting \subseteq Dests /\ (Waiting # {} => arbitrary = <<>>) /\ \A e \in Waiting : ~deleted[e]
    BY SomeoneWaits, Zenon DEF Waiting, Live
  <2>5. ShareInv'
    BY <1>1, <1>4, <2>1, <2>3, <2>4, ShareEnd, Zenon DEF ContentInv
  <2> QED BY <1>1, <1>4, <2>2, <2>5, Zenon DEF ContentInv
<1>5. CASE AllFinished(n) /\ kind # "kArbitrary"
  <2> DEFINE T == {e \in Dests : Live(e)}
  <2>1. FeedsAll(T, End)
    BY <1>5, DoneFeeds, Zenon
  <2>2. \A e \in Dests : e \in T <=> Live(e)
    BY Zenon
  <2> HIDE DEF T
  <2>3. QueueInv' /\ \A e \in Dests : Sent(e)' = IF e \in T THEN Sent(e) \o <<End>> ELSE Sent(e)
    BY <1>1, <1>2, <2>1, FeedQueue, Zenon
  <2>4. \A e \in Dests : Range(Sent(e)') = IF e \in T THEN Range(Sent(e)) \cup {End} ELSE Range(Sent(e))
    BY <1>2, <2>3, SentAllMore, Zenon
  <2>5. ASSUME NEW e \in 1..numBuffers PROVE CopyInv(e)'
    <3>1. e \in Dests
      BY SizesAssumption DEF Types, Dests
    <3>2. CopyInv(e) /\ (Live(e)' <=> Live(e)) /\ PagesFor(e)' = PagesFor(e)
      BY <1>1, <1>5, Zenon DEF ContentInv, Live, PagesFor
    <3>3. atEnd'
      BY <1>1, <1>5, Zenon
    <3> QED BY <2>2, <2>4, <3>1, <3>2, <3>3, CopyEnd, Zenon
  <2> QED BY <1>1, <1>5, <2>3, <2>5, Zenon DEF ContentInv
<1> QED BY <1>3, <1>4, <1>5, Zenon

(* A destination that does not change. *)
LEMMA SameQueue ==
    ASSUME Types, NEW e \in Dests, MatchInv(e), WaitInv(e), NewInv(e), SameDest(e),
           pending'[e] = pending[e], numBuffers' \in Int, numBuffers <= numBuffers',
           arbitrary = <<>> => arbitrary' = <<>>
    PROVE  MatchInv(e)' /\ WaitInv(e)' /\ NewInv(e)' /\ Sent(e)' = Sent(e)
<1>1. MatchInv(e)' /\ Sent(e)' = Sent(e)
  BY SameMatch, SameSent, Zenon
<1>2. /\ e <= numBuffers => e <= numBuffers'
      /\ e > numBuffers' => e > numBuffers
      /\ ~(e <= numBuffers) => e > numBuffers
  BY SizesAssumption DEF Types, Dests
<1>3. WaitInv(e)'
  <2>1. Live(e) => Live(e)'
    BY <1>2, Zenon DEF Live, SameDest
  <2>2. Live(e)' /\ request[e] => Live(e)
    BY <1>2, Zenon DEF Live, SameDest, NewInv
  <2> QED BY <2>1, <2>2, Zenon DEF WaitInv, SameDest
<1>4. NewInv(e)'
  BY <1>2, Zenon DEF NewInv, SameDest
<1> QED BY <1>1, <1>3, <1>4, Zenon

(* The destinations that a call is not for. *)
LEMMA OthersQueue ==
    ASSUME Types, QueueInv, NEW d \in Dests, numBuffers' = numBuffers, arbitrary' = arbitrary,
           \A e \in Dests \ {d} : SameDest(e) /\ pending'[e] = pending[e],
           MatchInv(d)', WaitInv(d)', d <= numBuffers
    PROVE  QueueInv' /\ \A e \in Dests \ {d} : Sent(e)' = Sent(e)
<1>1. numBuffers \in Int /\ numBuffers <= numBuffers
  BY SizesAssumption DEF Types
<1>2. \A e \in Dests \ {d} : MatchInv(e)' /\ WaitInv(e)' /\ NewInv(e)' /\ Sent(e)' = Sent(e)
  BY <1>1, SameQueue, Zenon DEF QueueInv
<1>3. NewInv(d)'
  <2>1. ~(d > numBuffers)
    BY <1>1, SizesAssumption DEF Dests
  <2> QED BY <2>1, Zenon DEF NewInv
<1> QED BY <1>2, <1>3, Zenon DEF QueueInv

(* A destination with a fetch or an acknowledgement exists. *)
LEMMA OldDest ==
    ASSUME Types, NEW d \in Dests, NewInv(d), request[d] \/ response[d] # NoResponse \/ acks[d] # {}
    PROVE  d <= numBuffers
<1>1. ~(d > numBuffers)
  BY Zenon DEF NewInv
<1> QED BY <1>1, SizesAssumption DEF Types, Dests

(* A start that has the end marker is everything. *)
LEMMA StartsEnd ==
    ASSUME NEW s \in Seq(Items), NEW t \in Seq(Items), Starts(s, t), PagesThenEnd(t), End \in Range(s)
    PROVE  Range(s) = Range(t)
<1>1. /\ Len(s) \in Nat /\ Len(t) \in Nat /\ DOMAIN s = 1..Len(s) /\ DOMAIN t = 1..Len(t)
  BY SeqFacts, Zenon
<1>2. PICK i \in 1..Len(s) : s[i] = End
  BY <1>1, Zenon DEF Range
<1>3. i \in 1..Len(t) /\ t[i] = End
  <2>1. Len(s) <= Len(t) /\ s[i] = t[i]
    BY <1>2, Zenon DEF Starts
  <2>2. \A m, n \in Nat : m <= n => 1..m \subseteq 1..n
    OBVIOUS
  <2> QED BY <1>1, <1>2, <2>1, <2>2, Zenon
<1>4. ~(i < Len(t))
  <2>1. Len(t) \in DOMAIN t /\ i \in DOMAIN t
    <3>1. \A n \in Nat : \A k \in 1..n : n \in 1..n
      OBVIOUS
    <3> QED BY <1>1, <1>3, <3>1, Zenon
  <2> QED BY <1>3, <2>1, Zenon DEF PagesThenEnd
<1>5. Len(s) = Len(t)
  <2>1. \A m, n \in Nat : \A k \in 1..m : m <= n /\ ~(k < n) => m = n
    OBVIOUS
  <2> QED BY <1>1, <1>2, <1>4, <2>1, Zenon DEF Starts
<1> QED BY <1>1, <1>5, Zenon DEF Starts, Range

(* A deleted destination takes less. *)
LEMMA ContentCut ==
    ASSUME Types, ContentInv, NEW d \in Dests, MatchInv(d), deleted'[d],
           \A e \in Dests \ {d} : Sent(e)' = Sent(e) /\ deleted'[e] = deleted[e],
           Sent(d)' \in Seq(Items), Starts(Sent(d)', Sent(d)),
           UNCHANGED <<kind, numBuffers, arbitrary, atEnd, produced, target>>
    PROVE  ContentInv'
<1>1. Sent(d) \in Seq(Items) /\ PagesThenEnd(Sent(d))
  BY SentTyped, Zenon
<1>2. Range(Sent(d)') \subseteq Range(Sent(d))
  BY <1>1, StartsRange, Zenon
<1>3. Ended(d)' => Ended(d) /\ Range(Sent(d)') = Range(Sent(d))
  BY <1>1, <1>2, StartsEnd, Zenon DEF Ended
<1>4. CASE kind = "kArbitrary"
  <2>1. ShareInv
    BY <1>4, Zenon DEF ContentInv
  <2>2. ASSUME NEW e \in Dests
        PROVE  /\ Range(Sent(e)') \subseteq Range(Sent(e)) /\ (Ended(e)' => Ended(e))
               /\ Range(Sent(e)') = Range(Sent(e)) \/ GaveUp(e)'
               /\ GaveUp(e) => GaveUp(e)'
    <3>1. CASE e = d
      BY <1>2, <1>3, <3>1, Zenon DEF GaveUp
    <3>2. CASE e # d
      BY <3>2, Zenon DEF GaveUp, Ended
    <3> QED BY <3>1, <3>2, Zenon
  <2>3. ASSUME NEW e \in Dests
        PROVE  /\ Range(Sent(e)') \subseteq (1..produced) \cup {End}
               /\ Ended(e)' => arbitrary = <<End>>
               /\ \A i \in Range(Sent(e)'), j \in Range(arbitrary) : j # End => i < j
               /\ \A f \in Dests \ {e} : Range(Sent(e)') \cap Range(Sent(f)') \subseteq {End}
    BY <2>1, <2>2, Zenon DEF ShareInv
  <2>4. ASSUME NEW page \in 1..produced
        PROVE  \/ page \in Range(arbitrary)
               \/ \E e \in Dests : page \in Range(Sent(e)') \/ GaveUp(e)'
    BY <2>1, <2>2, Zenon DEF ShareInv
  <2>5. ShareInv'
    BY <2>1, <2>3, <2>4, Zenon DEF ShareInv
  <2> QED BY <1>4, <2>5, Zenon DEF ContentInv
<1>5. CASE kind # "kArbitrary"
  <2> SUFFICES ASSUME NEW e \in 1..numBuffers PROVE CopyInv(e)'
    BY <1>5, Zenon DEF ContentInv
  <2>1. e \in Dests
    BY SizesAssumption DEF Types, Dests
  <2>2. PagesFor(e)' = PagesFor(e) /\ CopyInv(e)
    BY <1>5, Zenon DEF PagesFor, ContentInv
  <2>3. CASE e = d
    <3>1. ~Live(e)'
      BY <2>3, Zenon DEF Live
    <3> QED BY <1>2, <1>3, <2>2, <2>3, <3>1, Zenon DEF CopyInv
  <2>4. CASE e # d
    <3>1. Live(e)' <=> Live(e)
      BY <2>1, <2>4, Zenon DEF Live
    <3> QED BY <2>1, <2>2, <2>4, <3>1, CopySame, Zenon
  <2> QED BY <2>3, <2>4, Zenon
<1> QED BY <1>4, <1>5, Zenon

(* A fetch times out. *)
LEMMA TimeoutContent ==
    ASSUME Types, ContentInv, QueueInv, NEW d \in Dests, Timeout(d)
    PROVE  ContentInv' /\ QueueInv'
<1>1. /\ request[d] /\ UNCHANGED <<data, sequence, deleted, got, acks, pending>>
      /\ UNCHANGED <<kind, numBuffers, arbitrary, atEnd, produced, target>>
  BY Zenon DEF Timeout, bufferVars, driverVars, producerVars
<1>2. /\ ~request'[d] /\ response'[d] = NoResponse
      /\ notify'[d] = IF notify[d] = "live" THEN "stale" ELSE notify[d]
      /\ \A e \in Dests \ {d} : request'[e] = request[e] /\ response'[e] = response[e] /\ notify'[e] = notify[e]
  BY Zenon DEF Timeout, Types
<1>3. MatchInv(d) /\ WaitInv(d) /\ NewInv(d)
  BY Zenon DEF QueueInv
<1>4. d <= numBuffers
  BY <1>1, <1>3, OldDest, Zenon
<1>5. \A e \in Dests \ {d} : SameDest(e) /\ pending'[e] = pending[e]
  BY <1>1, <1>2, Zenon DEF SameDest
<1>6. /\ Sent(d)' \in Seq(Items) /\ Starts(Sent(d)', Sent(d)) /\ PagesThenEnd(Sent(d)')
      /\ ~deleted[d] => Sent(d)' = Sent(d)
  <2>1. Sent(d) \in Seq(Items) /\ PagesThenEnd(Sent(d))
    BY <1>3, SentTyped, Zenon
  <2>2. CASE deleted[d]
    <3>1. got[d] \in Seq(Items) /\ AnswerOf(response[d]) \in Seq(Items)
      BY DestTyped, RangeNone, Zenon DEF AnswerOf
    <3>2. Sent(d) = got[d] \o AnswerOf(response[d]) /\ Sent(d)' = got[d] \o <<>>
      BY <1>1, <1>2, <2>2, Zenon DEF Sent, AnswerOf
    <3>3. got[d] \o <<>> = got[d]
      BY <3>1
    <3>4. Starts(Sent(d), Sent(d))
      BY <2>1 DEF Starts
    <3>5. Starts(got[d], Sent(d))
      BY <2>1, <3>1, <3>2, <3>4, StartsLess, Zenon
    <3> QED BY <2>1, <2>2, <3>1, <3>2, <3>3, <3>5, StartsRange, Zenon
  <2>3. CASE ~deleted[d]
    <3>1. Sent(d)' = Sent(d)
      BY <1>1, <2>3, Zenon DEF Sent
    <3>2. Starts(Sent(d), Sent(d))
      BY <2>1 DEF Starts
    <3> QED BY <2>1, <3>1, <3>2, Zenon
  <2> QED BY <2>2, <2>3, Zenon
<1>7. MatchInv(d)'
  <2>1. ~deleted[d] => Matches(got[d], sequence[d], data[d], NoResponse)
    BY <1>3, MatchesTimedOut, Zenon DEF MatchInv
  <2> QED BY <1>1, <1>2, <1>3, <1>6, <2>1, Zenon DEF MatchInv
<1>8. WaitInv(d)'
  <2>1. notify[d] = "none" => notify'[d] = "none"
    BY <1>2
  <2>2. notify'[d] # "live"
    BY <1>2
  <2>3. Live(d)' <=> Live(d)
    BY <1>1, Zenon DEF Live
  <2> QED BY <1>1, <1>2, <1>3, <2>1, <2>2, <2>3, Zenon DEF WaitInv
<1>9. QueueInv' /\ \A e \in Dests \ {d} : Sent(e)' = Sent(e)
  BY <1>1, <1>4, <1>5, <1>7, <1>8, OthersQueue, Zenon
<1>10. CASE deleted[d]
  BY <1>1, <1>3, <1>6, <1>9, <1>10, ContentCut, Zenon
<1>11. CASE ~deleted[d]
  <2>1. \A e \in Dests : Sent(e)' = Sent(e)
    BY <1>6, <1>9, <1>11, Zenon
  <2> QED BY <1>1, <1>9, <2>1, ContentSame, Zenon
<1> QED BY <1>10, <1>11, Zenon

(* A response is received. *)
LEMMA ReceiveContent ==
    ASSUME Types, ContentInv, QueueInv, NEW d \in Dests, Receive(d)
    PROVE  ContentInv' /\ QueueInv'
<1>1. /\ response[d] # NoResponse /\ UNCHANGED <<data, sequence, deleted, notify, pending>>
      /\ UNCHANGED <<kind, numBuffers, arbitrary, atEnd, produced, target>>
  BY Zenon DEF Receive, bufferVars, driverVars, producerVars, destVars
<1>2. /\ got'[d] = got[d] \o response[d] /\ ~request'[d] /\ response'[d] = NoResponse
      /\ acks'[d] = IF HasEnd(got'[d]) THEN acks[d] ELSE acks[d] \cup {Len(got'[d])}
      /\ \A e \in Dests \ {d} : /\ request'[e] = request[e] /\ response'[e] = response[e]
                                /\ got'[e] = got[e] /\ acks'[e] = acks[e]
  BY Zenon DEF Receive, Types
<1>3. MatchInv(d) /\ WaitInv(d) /\ NewInv(d)
  BY Zenon DEF QueueInv
<1>4. d <= numBuffers
  BY <1>1, <1>3, OldDest, Zenon
<1>5. \A e \in Dests \ {d} : SameDest(e) /\ pending'[e] = pending[e]
  BY <1>1, <1>2, Zenon DEF SameDest
<1>6. /\ got[d] \in Seq(Items) /\ response[d] \in Seq(Items) /\ data[d] \in Seq(Items) /\ sequence[d] \in Nat
      /\ got[d] \o response[d] \in Seq(Items)
  BY <1>1, DestTyped, ConcatFacts, Zenon
<1>7. /\ Sent(d)' = Sent(d) /\ NumPages(got[d]) <= NumPages(got[d] \o response[d])
      /\ ~deleted[d] => Matches(got[d] \o response[d], sequence[d], data[d], NoResponse)
  <2>1. CASE deleted[d]
    <3>1. Sent(d) = got[d] \o response[d] /\ Sent(d)' = (got[d] \o response[d]) \o <<>>
      BY <1>1, <1>2, <2>1, Zenon DEF Sent, AnswerOf
    <3>2. (got[d] \o response[d]) \o <<>> = got[d] \o response[d]
      BY <1>6
    <3>3. PagesThenEnd(got[d] \o response[d])
      BY <1>3, <2>1, <3>1, Zenon DEF MatchInv
    <3> QED BY <1>6, <2>1, <3>1, <3>2, <3>3, NumPagesMore, Zenon
  <2>2. CASE ~deleted[d]
    <3>1. Matches(got[d], sequence[d], data[d], response[d])
      BY <1>3, <2>2, Zenon DEF MatchInv
    <3>2. /\ Joined(got[d] \o response[d], sequence[d], data[d]) = Joined(got[d], sequence[d], data[d])
          /\ Matches(got[d] \o response[d], sequence[d], data[d], NoResponse)
          /\ NumPages(got[d]) <= NumPages(got[d] \o response[d])
      BY <1>1, <1>6, <3>1, MatchesReceived, Zenon
    <3>3. Sent(d)' = Sent(d)
      BY <1>1, <1>2, <2>2, <3>2, Zenon DEF Sent
    <3> QED BY <2>2, <3>2, <3>3, Zenon
  <2> QED BY <2>1, <2>2, Zenon
<1>8. MatchInv(d)'
  <2>1. \A s \in acks'[d] : s <= NumPages(got'[d])
    <3>1. acks[d] \subseteq Nat /\ NumPages(got[d]) \in Nat /\ NumPages(got'[d]) \in Nat /\ Len(got'[d]) \in Nat
      BY <1>2, <1>6, DestTyped, NumPagesFacts, SeqFacts, Zenon
    <3>2. ~HasEnd(got'[d]) => NumPages(got'[d]) = Len(got'[d])
      BY Zenon DEF NumPages
    <3>3. \A s \in acks[d] : s <= NumPages(got[d])
      BY <1>3, Zenon DEF MatchInv
    <3>4. \A a, b, c \in Nat : (a <= b /\ b <= c => a <= c) /\ a <= a
      OBVIOUS
    <3>5. NumPages(got[d]) <= NumPages(got'[d])
      BY <1>2, <1>7, Zenon
    <3>6. \A s \in acks[d] : s <= NumPages(got'[d])
      BY <3>1, <3>3, <3>4, <3>5, Zenon
    <3>7. ~HasEnd(got'[d]) => Len(got'[d]) <= NumPages(got'[d])
      BY <3>1, <3>2, <3>4, Zenon
    <3> QED BY <1>2, <3>6, <3>7, Zenon
  <2> QED BY <1>1, <1>2, <1>3, <1>7, <2>1, Zenon DEF MatchInv
<1>9. WaitInv(d)'
  <2>1. notify[d] = "none" /\ notify'[d] = "none" /\ notify'[d] # "live"
    BY <1>1, <1>3 DEF WaitInv
  <2> QED BY <1>2, <2>1, Zenon DEF WaitInv
<1>10. QueueInv' /\ \A e \in Dests \ {d} : Sent(e)' = Sent(e)
  BY <1>1, <1>4, <1>5, <1>8, <1>9, OthersQueue, Zenon
<1>11. \A e \in Dests : Sent(e)' = Sent(e)
  BY <1>7, <1>10, Zenon
<1> QED BY <1>1, <1>10, <1>11, ContentSame, Zenon

(* An acknowledgement changes nothing that was sent. *)
LEMMA AckedDest ==
    ASSUME Types, NEW d \in Dests, MatchInv(d), WaitInv(d), ~deleted[d],
           NEW s \in Nat, s <= NumPages(got[d]),
           UNCHANGED <<deleted, notify, got, request, response, numBuffers, arbitrary>>,
           data'[d] = Suffix(data[d], NumAcked(d, s)), sequence'[d] = sequence[d] + NumAcked(d, s),
           acks'[d] \subseteq acks[d]
    PROVE  MatchInv(d)' /\ WaitInv(d)' /\ Sent(d)' = Sent(d)
<1> DEFINE n == NumAcked(d, s)
<1>1. /\ n \in Nat /\ n <= Len(data[d])
      /\ Joined(got[d], sequence[d] + n, Suffix(data[d], n)) = Joined(got[d], sequence[d], data[d])
      /\ Matches(got[d], sequence[d] + n, Suffix(data[d], n), response[d])
  BY AckFacts, Zenon
<1>2. data'[d] = Suffix(data[d], n) /\ sequence'[d] = sequence[d] + n
  OBVIOUS
<1> HIDE DEF n
<1>3. Sent(d)' = Sent(d)
  BY <1>1, <1>2, Zenon DEF Sent
<1>4. MatchInv(d)'
  BY <1>1, <1>2, Zenon DEF MatchInv
<1>5. WaitInv(d)'
  <2>1. notify[d] # "none" => data'[d] = data[d] /\ sequence'[d] = sequence[d]
    <3> SUFFICES ASSUME notify[d] # "none" PROVE data'[d] = data[d] /\ sequence'[d] = sequence[d]
      BY Zenon
    <3>1. data[d] = <<>>
      BY Zenon DEF WaitInv
    <3>2. n = 0
      BY <1>1, <3>1
    <3>3. Suffix(data[d], 0) = data[d] /\ sequence[d] + 0 = sequence[d]
      <4>1. data[d] \in Seq(Items) /\ sequence[d] \in Nat
        BY DestTyped, Zenon
      <4> QED BY <4>1, SuffixNone
    <3> QED BY <1>2, <3>2, <3>3, Zenon
  <2>2. Live(d)' <=> Live(d)
    BY Zenon DEF Live
  <2> QED BY <2>1, <2>2, Zenon DEF WaitInv
<1> QED BY <1>3, <1>4, <1>5, Zenon

(* A call for one destination leaves the others alone. *)
LEMMA OtherPending ==
    ASSUME Types, NEW c \in Callers, NEW r, pending' = [pending EXCEPT ![c] = r], NEW e \in Callers \ {c}
    PROVE  pending'[e] = pending[e]
BY Zenon DEF Types

(* acknowledge, in any order. *)
LEMMA AcknowledgeContent ==
    ASSUME Types, ContentInv, QueueInv, NEW d \in Dests, NEW s \in acks[d], Acknowledge(d, s)
    PROVE  ContentInv' /\ QueueInv'
<1>1. /\ UNCHANGED <<deleted, notify, got, request, response>>
      /\ UNCHANGED <<kind, numBuffers, arbitrary, atEnd, produced, target>>
      /\ acks' = [acks EXCEPT ![d] = @ \ {s}]
  BY Zenon DEF Acknowledge, bufferVars, driverVars, producerVars
<1>2. acks'[d] = acks[d] \ {s} /\ \A e \in Dests \ {d} : acks'[e] = acks[e]
  BY <1>1, Zenon DEF Types
<1>3. MatchInv(d) /\ WaitInv(d) /\ NewInv(d)
  BY Zenon DEF QueueInv
<1>4. d <= numBuffers
  BY <1>3, OldDest, Zenon
<1>5. s \in Nat /\ s <= NumPages(got[d])
  BY <1>3, DestTyped, Zenon DEF MatchInv
<1>6. /\ MatchInv(d)' /\ WaitInv(d)' /\ Sent(d)' = Sent(d)
      /\ \A e \in Dests \ {d} : SameDest(e) /\ pending'[e] = pending[e]
  <2>1. CASE deleted[d]
    <3>1. UNCHANGED <<data, sequence, pending>>
      BY <2>1, Zenon DEF Acknowledge
    <3>2. Sent(d)' = Sent(d)
      BY <1>1, <3>1, Zenon DEF Sent
    <3>3. MatchInv(d)'
      BY <1>1, <1>2, <1>3, <2>1, <3>2, Zenon DEF MatchInv
    <3>4. WaitInv(d)'
      BY <1>1, <1>3, <3>1, Zenon DEF WaitInv, Live
    <3> QED BY <1>1, <1>2, <3>1, <3>2, <3>3, <3>4, Zenon DEF SameDest
  <2>2. CASE ~deleted[d]
    <3>1. /\ data' = [data EXCEPT ![d] = Suffix(@, NumAcked(d, s))]
          /\ sequence' = [sequence EXCEPT ![d] = @ + NumAcked(d, s)]
          /\ UpdateAfterAcknowledge(d, Freed(d, NumAcked(d, s)), data', dataToBroadcast, FALSE)
      BY <2>2, Zenon DEF Acknowledge
    <3>2. /\ data'[d] = Suffix(data[d], NumAcked(d, s)) /\ sequence'[d] = sequence[d] + NumAcked(d, s)
          /\ \A e \in Dests \ {d} : data'[e] = data[e] /\ sequence'[e] = sequence[e]
      BY <3>1, Zenon DEF Types
    <3>3. \A e \in Dests \ {d} : pending'[e] = pending[e]
      BY <3>1, OtherPending, Zenon DEF UpdateAfterAcknowledge, Callers
    <3>4. acks'[d] \subseteq acks[d]
      BY <1>2, Zenon
    <3>5. MatchInv(d)' /\ WaitInv(d)' /\ Sent(d)' = Sent(d)
      BY <1>1, <1>3, <1>5, <2>2, <3>2, <3>4, AckedDest, Zenon
    <3> QED BY <1>1, <1>2, <3>2, <3>3, <3>5, Zenon DEF SameDest
  <2> QED BY <2>1, <2>2, Zenon
<1>7. QueueInv' /\ \A e \in Dests \ {d} : Sent(e)' = Sent(e)
  BY <1>1, <1>4, <1>6, OthersQueue, Zenon
<1>8. \A e \in Dests : Sent(e)' = Sent(e)
  BY <1>6, <1>7, Zenon
<1> QED BY <1>1, <1>7, <1>8, ContentSame, Zenon

(* An acknowledgement is lost. *)
LEMMA LoseAcknowledgeContent ==
    ASSUME Types, ContentInv, QueueInv, NEW d \in Dests, NEW s \in acks[d], LoseAcknowledge(d, s)
    PROVE  ContentInv' /\ QueueInv'
<1>1. /\ UNCHANGED <<data, sequence, pending, deleted, notify, got, request, response>>
      /\ UNCHANGED <<kind, numBuffers, arbitrary, atEnd, produced, target>>
      /\ acks' = [acks EXCEPT ![d] = @ \ {s}]
  BY Zenon DEF LoseAcknowledge, bufferVars, driverVars, producerVars, destVars
<1>2. acks'[d] = acks[d] \ {s} /\ \A e \in Dests \ {d} : acks'[e] = acks[e]
  BY <1>1, Zenon DEF Types
<1>3. MatchInv(d) /\ WaitInv(d) /\ NewInv(d)
  BY Zenon DEF QueueInv
<1>4. d <= numBuffers
  BY <1>3, OldDest, Zenon
<1>5. Sent(d)' = Sent(d)
  BY <1>1, Zenon DEF Sent
<1>6. MatchInv(d)'
  BY <1>1, <1>2, <1>3, <1>5, Zenon DEF MatchInv
<1>7. WaitInv(d)'
  BY <1>1, <1>3, Zenon DEF WaitInv, Live
<1>8. QueueInv' /\ \A e \in Dests \ {d} : Sent(e)' = Sent(e)
  BY <1>1, <1>2, <1>4, <1>6, <1>7, OthersQueue, Zenon DEF SameDest
<1>9. \A e \in Dests : Sent(e)' = Sent(e)
  BY <1>5, <1>8, Zenon
<1> QED BY <1>1, <1>8, <1>9, ContentSame, Zenon

(* deleteResults, at the end or before it. *)
LEMMA DeleteResultsContent ==
    ASSUME Types, ContentInv, QueueInv, NEW d \in Dests, DeleteResults(d)
    PROVE  ContentInv' /\ QueueInv'
<1>1. /\ d <= numBuffers /\ ~deleted[d] /\ UNCHANGED <<sequence, got, request, acks>>
      /\ UNCHANGED <<kind, numBuffers, arbitrary, atEnd, produced, target>>
      /\ Notify({d}, data')
  BY Zenon DEF DeleteResults, bufferVars, driverVars, producerVars
<1>2. /\ data'[d] = <<>> /\ deleted'[d]
      /\ \A e \in Dests \ {d} : data'[e] = data[e] /\ deleted'[e] = deleted[e]
  BY Zenon DEF DeleteResults, Types
<1>3. /\ notify'[d] = "none" /\ response'[d] = IF notify[d] = "live" THEN Prefix(<<>>, FetchPages) ELSE response[d]
      /\ \A e \in Dests \ {d} : notify'[e] = notify[e] /\ response'[e] = response[e]
  BY <1>1, <1>2, Zenon DEF Notify
<1>4. \A e \in Dests \ {d} : pending'[e] = pending[e]
  BY OtherPending, Zenon DEF DeleteResults, UpdateAfterAcknowledge, Callers
<1>5. MatchInv(d) /\ WaitInv(d) /\ NewInv(d)
  BY Zenon DEF QueueInv
<1>6. /\ got[d] \in Seq(Items) /\ response[d] \in Seq(Items) \cup {NoResponse}
      /\ data[d] \in Seq(Items) /\ sequence[d] \in Nat
  BY DestTyped, Zenon
<1>7. Matches(got[d], sequence[d], data[d], response[d]) /\ Sent(d) = Joined(got[d], sequence[d], data[d])
  BY <1>1, <1>5, Zenon DEF MatchInv, Sent
<1>8. /\ got[d] \o AnswerOf(response[d]) \in Seq(Items) /\ Starts(got[d] \o AnswerOf(response[d]), Sent(d))
      /\ got[d] \o <<>> = got[d] /\ Starts(got[d], Sent(d))
  BY <1>6, <1>7, MatchesDeleted, Zenon
<1>9. Sent(d)' \in Seq(Items) /\ Starts(Sent(d)', Sent(d))
  <2>1. Sent(d)' = got[d] \o AnswerOf(response'[d])
    BY <1>1, <1>2, Zenon DEF Sent
  <2>2. CASE notify[d] = "live"
    <3>1. Prefix(<<>>, FetchPages) = <<>>
      BY RangeNone, PrefixSome, ConstantsTyped, Zenon
    <3>2. AnswerOf(<<>>) = <<>>
      BY Zenon DEF AnswerOf
    <3> QED BY <1>3, <1>6, <1>8, <2>1, <2>2, <3>1, <3>2, Zenon
  <2>3. CASE notify[d] # "live"
    BY <1>3, <1>8, <2>1, <2>3, Zenon
  <2> QED BY <2>2, <2>3, Zenon
<1>10. MatchInv(d)'
  <2>1. Sent(d) \in Seq(Items) /\ PagesThenEnd(Sent(d))
    BY <1>5, SentTyped, Zenon
  <2>2. PagesThenEnd(Sent(d)')
    BY <1>9, <2>1, StartsRange, Zenon
  <2>3. response'[d] # NoResponse => request'[d]
    BY <1>1, <1>3, <1>5, Zenon DEF MatchInv, WaitInv
  <2> QED BY <1>1, <1>2, <1>5, <2>2, <2>3, Zenon DEF MatchInv
<1>11. WaitInv(d)'
  <2>1. ~Live(d)' /\ notify'[d] # "live"
    BY <1>2, <1>3 DEF Live
  <2> QED BY <1>3, <2>1, Zenon DEF WaitInv
<1>12. \A e \in Dests \ {d} : SameDest(e) /\ pending'[e] = pending[e]
  BY <1>1, <1>2, <1>3, <1>4, Zenon DEF SameDest
<1>13. QueueInv' /\ \A e \in Dests \ {d} : Sent(e)' = Sent(e)
  BY <1>1, <1>10, <1>11, <1>12, OthersQueue, Zenon
<1> QED BY <1>1, <1>2, <1>5, <1>9, <1>13, ContentCut, Zenon

(* Steps that move no items. *)
LEMMA QuietContent ==
    ASSUME Types, ContentInv, QueueInv, UpdateNumDrivers \/ \E c \in Callers : Release(c)
    PROVE  ContentInv' /\ QueueInv'
<1>1. /\ UNCHANGED <<data, sequence, deleted, notify, got, request, response, acks>>
      /\ UNCHANGED <<kind, numBuffers, arbitrary, atEnd, produced, target>>
  BY Zenon DEF UpdateNumDrivers, Release, bufferVars, driverVars, producerVars, destVars, consumerVars
<1>2. \A e \in Dests : pending[e] = Idle => pending'[e] = Idle
  <2>1. CASE UpdateNumDrivers
    BY <2>1, Zenon DEF UpdateNumDrivers
  <2>2. ASSUME NEW c \in Callers, Release(c), NEW e \in Dests, pending[e] = Idle PROVE pending'[e] = Idle
    <3>1. pending' = [pending EXCEPT ![c] = Idle] /\ e \in Callers /\ DOMAIN pending = Callers
      BY <2>2, Zenon DEF Release, Types, Callers
    <3> HIDE DEF Idle
    <3> QED BY <2>2, <3>1, Zenon
  <2> QED BY <2>1, <2>2, Zenon
<1>3. \A e \in Dests : Sent(e)' = Sent(e) /\ MatchInv(e)'
  BY <1>1, SameSent, SameMatch, Zenon DEF SameDest, QueueInv
<1>4. \A e \in Dests : WaitInv(e)' /\ NewInv(e)'
  BY <1>1, <1>2, Zenon DEF QueueInv, WaitInv, NewInv, Live
<1>5. ContentInv'
  BY <1>1, <1>3, ContentSame, Zenon
<1> QED BY <1>3, <1>4, <1>5, Zenon DEF QueueInv

(* A destination that updateOutputBuffers adds. *)
LEMMA OpenedDest ==
    ASSUME Types, KindInv, NEW e \in Dests, NewInv(e), e > numBuffers, kind = "kBroadcast", ~noMoreBuffers,
           data'[e] = Backlog, sequence'[e] = sequence[e], notify'[e] = notify[e],
           deleted'[e] = deleted[e], got'[e] = got[e], request'[e] = request[e],
           response'[e] = response[e], acks'[e] = acks[e],
           numBuffers' \in Int, e <= numBuffers', UNCHANGED <<kind, produced, atEnd>>
    PROVE  MatchInv(e)' /\ WaitInv(e)' /\ NewInv(e)' /\ CopyInv(e)'
<1>1. /\ sequence'[e] = 0 /\ notify'[e] = "none" /\ ~deleted'[e] /\ got'[e] = <<>>
      /\ ~request'[e] /\ response'[e] = NoResponse /\ acks'[e] = {}
  BY Zenon DEF NewInv
<1>2. /\ Backlog \in Seq(Items) /\ PagesThenEnd(Backlog)
      /\ Range(Backlog) = (1..produced) \cup (IF atEnd THEN {End} ELSE {})
  BY BacklogFacts, Zenon
<1>3. Sent(e)' = Backlog
  <2>1. Sent(e)' = Joined(<<>>, 0, Backlog)
    BY <1>1, Zenon DEF Sent
  <2> QED BY <1>2, <2>1, JoinedNone, Zenon
<1>4. MatchInv(e)'
  <2>1. Matches(<<>>, 0, Backlog, NoResponse)
    BY <1>2, MatchesNew, Zenon
  <2> QED BY <1>1, <2>1, Zenon DEF MatchInv
<1>5. WaitInv(e)'
  <2>1. notify'[e] # "live"
    BY <1>1
  <2> QED BY <1>1, <2>1, Zenon DEF WaitInv
<1>6. ~(e > numBuffers')
  BY SizesAssumption DEF Dests
<1>7. NewInv(e)'
  BY <1>6, Zenon DEF NewInv
<1>8. PagesFor(e)' = 1..produced
  <2>1. kind' # "kPartitioned"
    OBVIOUS
  <2> QED BY <2>1, Zenon DEF PagesFor
<1>9. Range(Sent(e)') = (1..produced) \cup (IF atEnd THEN {End} ELSE {})
  BY <1>2, <1>3, Zenon
<1>10. \A i \in 1..produced : i # End
  BY SizesAssumption DEF Types, End
<1>11. CopyInv(e)'
  BY <1>8, <1>9, <1>10, Zenon DEF CopyInv, Ended
<1> QED BY <1>4, <1>5, <1>7, <1>11, Zenon

(* What a destination that is not addressed sees of new destinations. *)
RestSame(e) ==
    /\ sequence'[e] = sequence[e] /\ notify'[e] = notify[e] /\ deleted'[e] = deleted[e]
    /\ got'[e] = got[e] /\ request'[e] = request[e] /\ response'[e] = response[e] /\ acks'[e] = acks[e]

(* The destinations after updateOutputBuffers. *)
LEMMA GrownDest ==
    ASSUME Types, KindInv, ContentInv, QueueInv, NEW m \in Int, numBuffers <= m, m <= NumDests, numBuffers' = m,
           m # numBuffers => ~noMoreBuffers, arbitrary = <<>> => arbitrary' = <<>>,
           UNCHANGED <<kind, produced, atEnd, target>>,
           NEW e \in Dests, data'[e] = WithBuffers(m)[e], RestSame(e), pending'[e] = pending[e]
    PROVE  /\ MatchInv(e)' /\ WaitInv(e)' /\ NewInv(e)'
           /\ kind # "kArbitrary" /\ e <= m => CopyInv(e)'
           /\ kind = "kArbitrary" => Sent(e)' = Sent(e)
<1>1. MatchInv(e) /\ WaitInv(e) /\ NewInv(e)
  BY Zenon DEF QueueInv
<1>2. CASE e > numBuffers /\ e <= m /\ kind = "kBroadcast"
  <2>1. data'[e] = Backlog
    BY <1>2, WithBuffersAt, Zenon
  <2>2. ~noMoreBuffers
    <3>1. m # numBuffers
      BY <1>2, SizesAssumption DEF Types, Dests
    <3> QED BY <3>1, Zenon
  <2>3. MatchInv(e)' /\ WaitInv(e)' /\ NewInv(e)' /\ CopyInv(e)'
    BY <1>1, <1>2, <2>1, <2>2, OpenedDest, Zenon DEF RestSame
  <2>4. kind # "kArbitrary"
    BY <1>2
  <2> QED BY <2>3, <2>4, Zenon
<1>3. CASE ~(e > numBuffers /\ e <= m /\ kind = "kBroadcast")
  <2>1. e <= numBuffers \/ e > m \/ kind # "kBroadcast"
    <3>1. (~(e > numBuffers) => e <= numBuffers) /\ (~(e <= m) => e > m)
      BY SizesAssumption DEF Types, Dests
    <3> QED BY <1>3, <3>1, Zenon
  <2>2. data'[e] = data[e]
    BY <2>1, WithBuffersAt, Zenon
  <2>3. SameDest(e)
    BY <2>2, Zenon DEF SameDest, RestSame
  <2>4. MatchInv(e)' /\ WaitInv(e)' /\ NewInv(e)' /\ Sent(e)' = Sent(e)
    BY <1>1, <2>3, SameQueue, Zenon
  <2>5. ASSUME kind # "kArbitrary", e <= m PROVE CopyInv(e)'
    <3>1. e <= numBuffers
      <4>1. CASE kind = "kPartitioned"
        <5>1. numBuffers = NumDests
          BY <4>1, Zenon DEF KindInv
        <5> QED BY <5>1, SizesAssumption DEF Dests
      <4>2. CASE kind # "kPartitioned"
        <5>1. kind = "kBroadcast"
          BY <2>5, <4>2, KindsAssumption DEF Types
        <5>2. ~(e > numBuffers)
          BY <1>3, <2>5, <5>1, Zenon
        <5> QED BY <5>2, SizesAssumption DEF Dests, Types
      <4> QED BY <4>1, <4>2, Zenon
    <3>2. e \in 1..numBuffers
      BY <3>1, SizesAssumption DEF Dests, Types
    <3>3. CopyInv(e)
      BY <2>5, <3>2, Zenon DEF ContentInv
    <3>4. Live(e)' <=> Live(e)
      BY <2>5, <3>1, Zenon DEF Live, RestSame
    <3>5. PagesFor(e)' = PagesFor(e)
      BY Zenon DEF PagesFor
    <3> QED BY <2>4, <3>3, <3>4, <3>5, CopySame, Zenon
  <2> QED BY <2>4, <2>5, Zenon
<1> QED BY <1>2, <1>3, Zenon

(* The shared buffer does not change. *)
LEMMA ShareSame ==
    ASSUME ShareInv, \A e \in Dests : Sent(e)' = Sent(e) /\ deleted'[e] = deleted[e],
           UNCHANGED <<arbitrary, atEnd, produced>>
    PROVE  ShareInv'
<1>1. \A e \in Dests : Ended(e)' = Ended(e) /\ GaveUp(e)' = GaveUp(e)
  BY Zenon DEF Ended, GaveUp
<1> QED BY <1>1, Zenon DEF ShareInv

(* updateOutputBuffers, with and without more to come. *)
LEMMA UpdateOutputBuffersContent ==
    ASSUME Types, KindInv, ContentInv, QueueInv, NEW n \in Dests, NEW noMore \in BOOLEAN,
           UpdateOutputBuffers(n, noMore)
    PROVE  ContentInv' /\ QueueInv'
<1> DEFINE m == IF n > numBuffers THEN n ELSE numBuffers
<1>1. /\ ~noMoreBuffers /\ numBuffers' = m /\ data' = WithBuffers(m)
      /\ UNCHANGED <<kind, produced, atEnd, target, arbitrary>>
      /\ UNCHANGED <<sequence, notify, deleted, got, request, response, acks>>
  BY Zenon DEF UpdateOutputBuffers, driverVars, producerVars, consumerVars
<1>2. m \in Int /\ numBuffers <= m /\ m <= NumDests
  BY SizesAssumption DEF Types, Dests
<1> HIDE DEF m
<1>3. \A e \in Dests : pending'[e] = pending[e]
  <2>1. \A e \in Dests : e \in Callers \ {Updater}
    BY SizesAssumption DEF Dests, Callers, Updater
  <2>2. Updater \in Callers
    BY Zenon DEF Callers
  <2> QED BY <2>1, <2>2, OtherPending, Zenon DEF UpdateOutputBuffers, UpdateAfterAcknowledge
<1>4. \A e \in Dests : data'[e] = WithBuffers(m)[e] /\ RestSame(e)
  BY <1>1, Zenon DEF RestSame
<1>5. ASSUME NEW e \in Dests
      PROVE  /\ MatchInv(e)' /\ WaitInv(e)' /\ NewInv(e)'
             /\ kind # "kArbitrary" /\ e <= m => CopyInv(e)'
             /\ kind = "kArbitrary" => Sent(e)' = Sent(e)
  BY <1>1, <1>2, <1>3, <1>4, GrownDest, Zenon
<1>6. CASE kind = "kArbitrary"
  <2>1. ShareInv'
    BY <1>1, <1>5, <1>6, ShareSame, Zenon DEF ContentInv
  <2> QED BY <1>1, <1>5, <1>6, <2>1, Zenon DEF ContentInv, QueueInv
<1>7. CASE kind # "kArbitrary"
  <2>1. \A e \in 1..m : e \in Dests /\ e <= m
    BY <1>2, SizesAssumption DEF Dests
  <2> QED BY <1>1, <1>5, <1>7, <2>1, Zenon DEF ContentInv, QueueInv
<1> QED BY <1>6, <1>7, Zenon

(* A destination takes from the shared buffer. *)
LEMMA ShareTake ==
    ASSUME Types, ShareInv, NEW d \in Dests, ~Ended(d), ~deleted[d], arbitrary' = Rest(arbitrary),
           \A e \in Dests : deleted'[e] = deleted[e],
           \A e \in Dests \ {d} : Sent(e)' = Sent(e),
           Range(Sent(d)') = Range(Sent(d)) \cup Range(Taken(arbitrary)),
           UNCHANGED <<atEnd, produced>>
    PROVE  ShareInv'
<1> DEFINE s == arbitrary
           T == Range(Taken(arbitrary))
           R == Range(Rest(arbitrary))
<1>1. s \in Seq(Items) /\ PagesThenEnd(s) /\ Range(s) \subseteq (1..produced) \cup {End}
  BY Zenon DEF Types, ShareInv
<1>2. /\ PagesThenEnd(Rest(s)) /\ Range(s) = T \cup R
      /\ End \in T => Rest(s) = <<End>>
      /\ End \in Range(s) => End \in R
      /\ \A x \in T, y \in R : y = End \/ x < y
  BY <1>1, TakenFacts, Zenon
<1>3. /\ Range(Sent(d)') = Range(Sent(d)) \cup T /\ Range(arbitrary') = R
  BY Zenon
<1> HIDE DEF T, R
<1>4. atEnd <=> End \in R
  BY <1>2, Zenon DEF ShareInv
<1>5. Range(<<End>>) = {End}
  BY ConstantsTyped, RangeOne, Zenon
<1>6. T \subseteq (1..produced) \cup {End} /\ R \subseteq (1..produced) \cup {End}
  BY <1>1, <1>2, Zenon
<1>7. \A e \in Dests : \A i \in Range(Sent(e)), j \in T \cup R : j # End => i < j
  BY <1>2, Zenon DEF ShareInv
<1>8. \A i \in (1..produced) \cup {End} : ~(i < i)
  BY SizesAssumption DEF Types, End
<1>9. \A e \in Dests : Range(Sent(e)) \cap T \subseteq {End}
  <2> SUFFICES ASSUME NEW e \in Dests, NEW i \in Range(Sent(e)), i \in T, i # End PROVE FALSE
    BY Zenon
  <2>1. i < i
    BY <1>7, Zenon
  <2> QED BY <1>6, <1>8, <2>1, Zenon
<1>10. ASSUME NEW e \in Dests
       PROVE  /\ Range(Sent(e)') \subseteq (1..produced) \cup {End}
              /\ Ended(e)' => arbitrary' = <<End>>
              /\ \A i \in Range(Sent(e)'), j \in R : j # End => i < j
              /\ \A f \in Dests \ {e} : Range(Sent(e)') \cap Range(Sent(f)') \subseteq {End}
  <2>1. \A c \in Dests : Range(Sent(c)) \subseteq (1..produced) \cup {End}
    BY Zenon DEF ShareInv
  <2>2. Range(Sent(e)') \subseteq (1..produced) \cup {End}
    BY <1>3, <1>6, <2>1, Zenon
  <2>3. \A i \in Range(Sent(e)'), j \in R : j # End => i < j
    BY <1>2, <1>3, <1>7, Zenon
  <2>4. Ended(e)' => arbitrary' = <<End>>
    <3>1. CASE e = d
      BY <1>2, <1>3, <3>1, Zenon DEF Ended
    <3>2. ASSUME e # d, Ended(e)' PROVE arbitrary' = <<End>>
      <4>1. Ended(e)
        BY <3>2, Zenon DEF Ended
      <4>2. arbitrary = <<End>>
        BY <4>1, Zenon DEF ShareInv
      <4>3. Taken(<<End>>) = <<End>>
        BY ConstantsTyped, TakenOne, Zenon
      <4>4. End \in T
        BY <1>5, <4>2, <4>3, Zenon DEF T
      <4> QED BY <1>2, <4>4, Zenon
    <3> QED BY <3>1, <3>2, Zenon
  <2>5. ASSUME NEW f \in Dests \ {e} PROVE Range(Sent(e)') \cap Range(Sent(f)') \subseteq {End}
    <3>1. Range(Sent(e)) \cap Range(Sent(f)) \subseteq {End}
      BY Zenon DEF ShareInv
    <3>2. CASE e = d
      <4>1. Sent(f)' = Sent(f) /\ Range(Sent(f)) \cap T \subseteq {End}
        BY <1>9, <3>2, Zenon
      <4>2. Range(Sent(e)') = Range(Sent(e)) \cup T
        BY <1>3, <3>2, Zenon
      <4> QED BY <3>1, <4>1, <4>2, Zenon
    <3>3. CASE f = d
      <4>1. Sent(e)' = Sent(e) /\ Range(Sent(e)) \cap T \subseteq {End}
        BY <1>9, <3>3, Zenon
      <4>2. Range(Sent(f)') = Range(Sent(f)) \cup T
        BY <1>3, <3>3, Zenon
      <4> QED BY <3>1, <4>1, <4>2, Zenon
    <3>4. CASE e # d /\ f # d
      <4>1. Sent(e)' = Sent(e) /\ Sent(f)' = Sent(f)
        BY <3>4, Zenon
      <4> QED BY <3>1, <4>1, Zenon
    <3> QED BY <3>2, <3>3, <3>4, Zenon
  <2> QED BY <2>2, <2>3, <2>4, <2>5, Zenon
<1>11. ASSUME NEW page \in 1..produced
       PROVE  \/ page \in R
              \/ \E e \in Dests : page \in Range(Sent(e)') \/ GaveUp(e)'
  <2>1. CASE page \in Range(arbitrary)
    BY <1>2, <1>3, <2>1, Zenon
  <2>2. ASSUME NEW e \in Dests, page \in Range(Sent(e)) PROVE page \in Range(Sent(e)')
    BY <1>3, <2>2, Zenon
  <2>3. ASSUME NEW e \in Dests, GaveUp(e) PROVE GaveUp(e)'
    <3>1. e # d
      BY <2>3, Zenon DEF GaveUp
    <3> QED BY <2>3, <3>1, Zenon DEF GaveUp, Ended
  <2> QED BY <2>1, <2>2, <2>3, Zenon DEF ShareInv
<1> QED BY <1>2, <1>3, <1>4, <1>6, <1>10, <1>11, Zenon DEF ShareInv

(* The destination of a fetch. *)
LEMMA FetchDest ==
    ASSUME Types, KindInv, ContentInv, QueueInv, NEW d \in Dests, GetData(d)
    PROVE  /\ MatchInv(d)' /\ WaitInv(d)' /\ d <= numBuffers'
           /\ Sent(d)' = Joined(got[d], sequence[d] + Acked(d), Kept(d)) \o Fetched(d)
<1> DEFINE q == sequence[d] + Acked(d)
<1>1. /\ ~request[d] /\ ~AtEnd(d) /\ ~deleted[d] /\ (d > numBuffers => ~noMoreBuffers)
      /\ numBuffers' = Grown(d) /\ data' = [WithBuffers(Grown(d)) EXCEPT ![d] = Loaded(d)]
      /\ sequence' = [sequence EXCEPT ![d] = @ + Acked(d)]
      /\ arbitrary' = (IF Loads THEN Rest(arbitrary) ELSE arbitrary)
      /\ request' = [request EXCEPT ![d] = TRUE]
      /\ notify' = [notify EXCEPT ![d] = IF Loaded(d) = <<>> THEN "live" ELSE @]
      /\ response' = [response EXCEPT ![d] = IF Loaded(d) = <<>> THEN NoResponse ELSE Prefix(Loaded(d), FetchPages)]
      /\ kind' = kind /\ deleted' = deleted /\ got' = got /\ acks' = acks
  BY GetDataIs, Zenon
<1>2. /\ Fetched(d) \in Seq(Items) /\ q = Len(got[d]) /\ Matches(got[d], q, Loaded(d), NoResponse)
      /\ Joined(got[d], q, Loaded(d)) = Joined(got[d], q, Kept(d)) \o Fetched(d)
      /\ Loaded(d) = <<>> => ~Loads
  BY <1>1, FetchTakes, Zenon
<1>3. MatchInv(d) /\ NewInv(d) /\ WaitInv(d)
  BY Zenon DEF QueueInv
<1>4. WithBuffers(Grown(d)) \in [Dests -> Seq(Items)]
  <2>1. Grown(d) \in Int
    BY SizesAssumption DEF Grown, Types, Dests
  <2> QED BY <2>1, WithBuffersTyped, Zenon
<1>5. /\ data'[d] = Loaded(d) /\ sequence'[d] = q /\ request'[d] = TRUE
      /\ notify'[d] = (IF Loaded(d) = <<>> THEN "live" ELSE notify[d])
      /\ response'[d] = (IF Loaded(d) = <<>> THEN NoResponse ELSE Prefix(Loaded(d), FetchPages))
      /\ ~deleted'[d] /\ got'[d] = got[d] /\ acks'[d] = acks[d]
  BY <1>1, <1>4, Zenon DEF Types
<1>6. Loaded(d) \in Seq(Items) /\ got[d] \in Seq(Items) /\ q \in Nat
  <2>1. Loaded(d) \in Seq(Items) /\ Acked(d) \in Nat
    BY <1>1, <1>3, GetDataParts, Zenon
  <2>2. got[d] \in Seq(Items) /\ Len(got[d]) \in Nat
    BY DestTyped, SeqFacts, Zenon
  <2> QED BY <1>2, <2>1, <2>2, Zenon
<1> HIDE DEF q
<1>7. Sent(d)' = Joined(got[d], q, Kept(d)) \o Fetched(d)
  BY <1>2, <1>5, Zenon DEF Sent
<1>8. d <= numBuffers' /\ numBuffers' \in Int
  BY <1>1, SizesAssumption DEF Grown, Types, Dests
<1>9. MatchInv(d)'
  <2>1. Matches(got[d], q, Loaded(d), response'[d])
    <3>1. FetchPages \in Nat
      BY SizesAssumption, Zenon
    <3>2. Matches(got[d], q, Loaded(d), Prefix(Loaded(d), FetchPages))
      BY <1>2, <1>6, <3>1, MatchesAnswered, Zenon
    <3> QED BY <1>2, <1>5, <3>2, Zenon
  <2>2. \A s \in acks'[d] : s <= NumPages(got'[d])
    BY <1>3, <1>5, Zenon DEF MatchInv
  <2> QED BY <1>5, <2>1, <2>2, Zenon DEF MatchInv
<1>10. WaitInv(d)'
  <2>1. CASE Loaded(d) = <<>>
    <3>1. ~Loads /\ arbitrary' = <<>>
      BY <1>1, <1>2, <2>1, Zenon DEF Loads, KindInv
    <3>2. ~HasEnd(got[d])
      BY <1>1, Zenon DEF AtEnd
    <3>3. notify'[d] = "live" /\ response'[d] = NoResponse /\ data'[d] = <<>> /\ sequence'[d] = Len(got[d])
      BY <1>2, <1>5, <2>1, Zenon
    <3>4. Live(d)'
      BY <1>5, <1>8, Zenon DEF Live
    <3> QED BY <1>5, <3>1, <3>2, <3>3, <3>4, Zenon DEF WaitInv
  <2>2. CASE Loaded(d) # <<>>
    <3>1. notify[d] = "none"
      <4> SUFFICES ASSUME notify[d] # "none" PROVE FALSE
        BY Zenon
      <4>1. Live(d) /\ data[d] = <<>> /\ arbitrary = <<>>
        BY <1>3, Zenon DEF WaitInv
      <4>2. Acked(d) \in Nat /\ Acked(d) <= Len(data[d]) /\ Kept(d) = Suffix(data[d], Acked(d))
        BY <1>1, <1>3, <4>1, GetDataParts, Zenon DEF Live
      <4>3. Acked(d) = 0
        BY <4>1, <4>2
      <4>4. Kept(d) = <<>>
        BY <4>1, <4>2, <4>3, SuffixNone, RangeNone, Zenon
      <4> QED BY <2>2, <4>1, <4>4, Zenon DEF Loaded, Loads
    <3>2. notify'[d] = "none" /\ "none" # "live"
      BY <1>5, <2>2, <3>1
    <3>3. response'[d] # NoResponse
      <4>1. FetchPages \in Nat /\ FetchPages > 0
        BY SizesAssumption
      <4>2. Prefix(Loaded(d), FetchPages) # NoResponse
        BY <1>6, <4>1, PrefixSome, Zenon
      <4> QED BY <1>5, <2>2, <4>2, Zenon
    <3> QED BY <3>2, <3>3, Zenon DEF WaitInv
  <2> QED BY <2>1, <2>2, Zenon
<1> QED BY <1>7, <1>8, <1>9, <1>10, Zenon DEF q

(* A late destination of broadcast output gets all pages so far. *)
LEMMA CopyBacklog ==
    ASSUME Types, KindInv, NEW e \in Dests, kind = "kBroadcast", ~noMoreBuffers, Sent(e)' = Backlog,
           UNCHANGED <<kind, produced, atEnd>>
    PROVE  CopyInv(e)'
<1>1. Range(Sent(e)') = (1..produced) \cup (IF atEnd THEN {End} ELSE {})
  BY BacklogFacts, Zenon
<1>2. PagesFor(e)' = 1..produced
  <2>1. kind' # "kPartitioned"
    OBVIOUS
  <2> QED BY <2>1, Zenon DEF PagesFor
<1>3. \A i \in 1..produced : i # End
  BY SizesAssumption DEF Types, End
<1> QED BY <1>1, <1>2, <1>3, Zenon DEF CopyInv, Ended

(* getData: from its own buffer, or first from the shared one. *)
LEMMA GetDataContent ==
    ASSUME Types, KindInv, ContentInv, QueueInv, NEW d \in Dests, GetData(d)
    PROVE  ContentInv' /\ QueueInv'
<1> DEFINE m == Grown(d)
           J == Joined(got[d], sequence[d] + Acked(d), Kept(d))
<1>1. /\ ~request[d] /\ ~AtEnd(d) /\ ~deleted[d] /\ (d > numBuffers => ~noMoreBuffers)
      /\ numBuffers' = m /\ data' = [WithBuffers(m) EXCEPT ![d] = Loaded(d)]
      /\ sequence' = [sequence EXCEPT ![d] = @ + Acked(d)]
      /\ arbitrary' = (IF Loads THEN Rest(arbitrary) ELSE arbitrary)
      /\ request' = [request EXCEPT ![d] = TRUE]
      /\ notify' = [notify EXCEPT ![d] = IF Loaded(d) = <<>> THEN "live" ELSE @]
      /\ response' = [response EXCEPT ![d] = IF Loaded(d) = <<>> THEN NoResponse ELSE Prefix(Loaded(d), FetchPages)]
      /\ UNCHANGED <<kind, produced, atEnd, target>> /\ deleted' = deleted /\ got' = got /\ acks' = acks
  BY GetDataIs, Zenon DEF driverVars, producerVars
<1>2. /\ m \in Int /\ numBuffers <= m /\ m <= NumDests /\ d <= m /\ (m # numBuffers => d > numBuffers)
  BY SizesAssumption DEF Grown, Types, Dests
<1>3. WithBuffers(m) \in [Dests -> Seq(Items)]
  BY <1>2, WithBuffersTyped, Zenon
<1> HIDE DEF m
<1>4. MatchInv(d)' /\ WaitInv(d)' /\ d <= numBuffers' /\ Sent(d)' = J \o Fetched(d)
  BY FetchDest, Zenon
<1>5. /\ Fetched(d) \in Seq(Items) /\ (Loads => (HasEnd(Kept(d)) <=> Ended(d)))
  BY <1>1, FetchTakes, Zenon
<1>6. MatchInv(d) /\ NewInv(d)
  BY Zenon DEF QueueInv
<1>7. /\ d <= numBuffers \/ kind # "kBroadcast" => J = Sent(d)
      /\ d > numBuffers /\ kind = "kBroadcast" => J = Backlog
  BY <1>1, <1>6, FetchStart, Zenon
<1> HIDE DEF J
<1>8. ~(d > numBuffers')
  BY <1>1, <1>2, <1>4, SizesAssumption DEF Dests
<1>9. NewInv(d)'
  BY <1>8, Zenon DEF NewInv
<1>10. ASSUME NEW e \in Dests \ {d}
       PROVE  /\ MatchInv(e)' /\ WaitInv(e)' /\ NewInv(e)'
              /\ kind # "kArbitrary" /\ e <= m => CopyInv(e)'
              /\ kind = "kArbitrary" => Sent(e)' = Sent(e)
  <2>1. data'[e] = WithBuffers(m)[e] /\ RestSame(e)
    BY <1>1, <1>3, Zenon DEF RestSame, Types
  <2>2. pending'[e] = pending[e]
    <3>1. PICK r : pending' = [pending EXCEPT ![d] = r]
      BY GetDataIs, Zenon DEF UpdateAfterAcknowledge
    <3>2. d \in Callers /\ e \in Callers \ {d}
      BY Zenon DEF Callers
    <3> QED BY <3>1, <3>2, OtherPending, Zenon
  <2>3. arbitrary = <<>> => arbitrary' = <<>>
    BY <1>1, Zenon DEF Loads
  <2> QED BY <1>1, <1>2, <2>1, <2>2, <2>3, GrownDest, Zenon
<1>11. QueueInv'
  BY <1>4, <1>9, <1>10, Zenon DEF QueueInv
<1>12. Fetched(d) = <<>> => Sent(d)' = J
  <2>1. \A s \in Seq(Items) : s \o <<>> = s
    OBVIOUS
  <2>2. J \in Seq(Items)
    <3>1. Kept(d) \in Seq(Items) /\ Acked(d) \in Nat
      BY <1>1, <1>6, GetDataParts, Zenon
    <3>2. got[d] \in Seq(Items) /\ Len(got[d]) \in Nat
      BY DestTyped, SeqFacts, Zenon
    <3>3. sequence[d] + Acked(d) = Len(got[d])
      BY <1>1, FetchTakes, Zenon
    <3>4. \A a, b \in Nat : a = b => a <= b
      OBVIOUS
    <3> QED BY <3>1, <3>2, <3>3, <3>4, JoinedTyped, Zenon DEF J
  <2> QED BY <1>4, <2>1, <2>2, Zenon
<1>13. CASE kind = "kArbitrary"
  <2>1. ShareInv /\ arbitrary \in Seq(Items)
    BY <1>13, Zenon DEF ContentInv, Types
  <2>2. J = Sent(d)
    <3>1. kind # "kBroadcast"
      BY <1>13
    <3> QED BY <1>7, <3>1, Zenon
  <2>3. \A e \in Dests \ {d} : Sent(e)' = Sent(e)
    BY <1>10, <1>13, Zenon
  <2>4. \A e \in Dests : deleted'[e] = deleted[e]
    BY <1>1, Zenon
  <2>5. ASSUME Loads /\ ~HasEnd(Kept(d)) PROVE ShareInv'
    <3>1. Fetched(d) = Taken(arbitrary) /\ ~Ended(d) /\ arbitrary' = Rest(arbitrary)
      BY <1>1, <1>5, <2>5, Zenon DEF Fetched
    <3>2. Range(Sent(d)') = Range(Sent(d)) \cup Range(Fetched(d))
      BY <1>4, <1>5, <1>6, <2>2, SentMore, Zenon
    <3>3. Range(Sent(d)') = Range(Sent(d)) \cup Range(Taken(arbitrary))
      BY <3>1, <3>2, Zenon
    <3> QED BY <1>1, <2>1, <2>3, <2>4, <3>1, <3>3, ShareTake, Zenon
  <2>6. ASSUME ~(Loads /\ ~HasEnd(Kept(d))) PROVE ShareInv'
    <3>1. Sent(d)' = Sent(d)
      BY <1>12, <2>2, <2>6, Zenon DEF Fetched
    <3>2. arbitrary' = arbitrary
      <4>1. CASE ~Loads
        BY <1>1, <4>1, Zenon
      <4>2. CASE Loads
        <5>1. arbitrary = <<End>> /\ PagesThenEnd(arbitrary)
          BY <1>5, <2>1, <2>6, <4>2, Zenon DEF ShareInv
        <5>2. Len(<<End>>) <= FetchPages /\ End \in Range(<<End>>)
          BY SizesAssumption DEF Range
        <5>3. Rest(arbitrary) = <<End>>
          BY <2>1, <5>1, <5>2, TakenAll, Zenon
        <5> QED BY <1>1, <4>2, <5>1, <5>3, Zenon
      <4> QED BY <4>1, <4>2, Zenon
    <3> QED BY <1>1, <2>1, <2>3, <2>4, <3>1, <3>2, ShareSame, Zenon
  <2>7. ShareInv'
    BY <2>5, <2>6, Zenon
  <2> QED BY <1>1, <1>11, <1>13, <2>7, Zenon DEF ContentInv
<1>14. CASE kind # "kArbitrary"
  <2>1. Sent(d)' = J
    BY <1>12, <1>14, Zenon DEF Fetched, Loads
  <2>2. ASSUME d <= numBuffers PROVE CopyInv(d)'
    <3>1. Sent(d)' = Sent(d)
      BY <1>7, <2>1, <2>2, Zenon
    <3>2. CopyInv(d)
      <4>1. d \in 1..numBuffers
        BY <2>2 DEF Dests, Types
      <4> QED BY <1>14, <4>1, Zenon DEF ContentInv
    <3>3. (Live(d)' <=> Live(d)) /\ PagesFor(d)' = PagesFor(d)
      BY <1>1, <1>4, <2>2, Zenon DEF Live, PagesFor
    <3> QED BY <1>1, <3>1, <3>2, <3>3, CopySame, Zenon
  <2>3. ASSUME d > numBuffers PROVE CopyInv(d)'
    <3>1. kind = "kBroadcast"
      <4>1. d <= NumDests /\ (numBuffers = NumDests => d <= numBuffers)
        BY SizesAssumption DEF Dests
      <4>2. kind # "kPartitioned"
        BY <2>3, <4>1, SizesAssumption DEF KindInv, Types, Dests
      <4> QED BY <1>14, <4>2, KindsAssumption DEF Types
    <3>2. Sent(d)' = Backlog /\ ~noMoreBuffers
      BY <1>1, <1>7, <2>1, <2>3, <3>1, Zenon
    <3> QED BY <1>1, <3>1, <3>2, CopyBacklog, Zenon
  <2>4. d <= numBuffers \/ d > numBuffers
    BY SizesAssumption DEF Types, Dests
  <2>5. CopyInv(d)'
    BY <2>2, <2>3, <2>4, Zenon
  <2>6. \A e \in 1..m : e \in Dests /\ e <= m
    BY <1>2, SizesAssumption DEF Dests
  <2>7. \A e \in 1..m : CopyInv(e)'
    BY <1>10, <1>14, <2>5, <2>6, Zenon
  <2> QED BY <1>1, <1>11, <1>14, <2>7, Zenon DEF ContentInv
<1> QED BY <1>13, <1>14, Zenon

(* Nothing happens. *)
LEMMA StutterContent ==
    ASSUME Types, ContentInv, QueueInv, UNCHANGED vars
    PROVE  ContentInv' /\ QueueInv'
<1>1. UNCHANGED <<data, sequence, notify, deleted, got, request, response, acks, pending>>
  BY Zenon DEF vars, destVars, consumerVars
<1>2. UNCHANGED <<kind, numBuffers, arbitrary, atEnd, produced, target>>
  BY Zenon DEF vars, bufferVars, driverVars, producerVars
<1>3. \A e \in Dests : SameDest(e) /\ pending'[e] = pending[e]
  BY <1>1, Zenon DEF SameDest
<1>4. numBuffers' \in Int /\ numBuffers <= numBuffers'
  <2>1. numBuffers \in InitDests..NumDests
    BY Zenon DEF Types
  <2> QED BY <1>2, <2>1, SizesAssumption
<1>5. \A e \in Dests : MatchInv(e)' /\ WaitInv(e)' /\ NewInv(e)' /\ Sent(e)' = Sent(e)
  BY <1>2, <1>3, <1>4, SameQueue, Zenon DEF QueueInv
<1>6. ContentInv'
  BY <1>1, <1>2, <1>5, ContentSame, Zenon
<1> QED BY <1>5, <1>6, Zenon DEF QueueInv, Dests

(* The initial states. *)
LEMMA InitContent ==
    ASSUME Init, Types
    PROVE  ContentInv /\ QueueInv
<1>1. \A d \in Dests : /\ data[d] = <<>> /\ sequence[d] = 0 /\ notify[d] = "none" /\ ~deleted[d]
                       /\ got[d] = <<>> /\ ~request[d] /\ response[d] = NoResponse /\ acks[d] = {}
                       /\ pending[d] = Idle
  BY Zenon DEF Init, Callers
<1>2. Range(<<>>) = {} /\ <<>> \in Seq(Items)
  BY RangeNone, Zenon
<1>3. Joined(<<>>, 0, <<>>) = <<>>
  BY <1>2, JoinedNone, Zenon
<1>4. \A d \in Dests : Sent(d) = <<>>
  BY <1>1, <1>3, Zenon DEF Sent
<1>5. produced = 0 /\ arbitrary = <<>> /\ ~atEnd /\ \A i \in 1..0 : FALSE
  BY DEF Init
<1>6. ASSUME NEW d \in Dests PROVE CopyInv(d)
  BY <1>2, <1>4, <1>5, Zenon DEF CopyInv, PagesFor, Ended
<1>7. 1..numBuffers \subseteq Dests
  <2>1. numBuffers \in InitDests..NumDests
    BY Zenon DEF Types
  <2> QED BY <2>1, SizesAssumption DEF Dests
<1>8. PagesThenEnd(<<>>)
  <2>1. DOMAIN <<>> = 1..Len(<<>>) /\ Len(<<>>) = 0
    BY <1>2, SeqFacts
  <2> QED BY <1>5, <2>1, Zenon DEF PagesThenEnd
<1>9. ShareInv
  BY <1>2, <1>4, <1>5, <1>8, Zenon DEF ShareInv, Ended
<1>10. ContentInv
  BY <1>6, <1>7, <1>9, Zenon DEF ContentInv
<1>11. ASSUME NEW d \in Dests PROVE MatchInv(d) /\ WaitInv(d) /\ NewInv(d)
  <2>1. Matches(<<>>, 0, <<>>, NoResponse)
    BY <1>2, <1>8, MatchesNew, Zenon
  <2>2. MatchInv(d)
    BY <1>1, <2>1, Zenon DEF MatchInv
  <2> QED BY <1>1, <2>2, Zenon DEF WaitInv, NewInv
<1> QED BY <1>10, <1>11, Zenon DEF QueueInv

-----------------------------------------------------------------------------
(* What the invariant says of the contents. *)

(* What a consumer has is the start of what it was sent; with the end marker *)
(* it has everything.                                                        *)
LEMMA GotSent ==
    ASSUME Types, NEW d \in Dests, MatchInv(d)
    PROVE  /\ Starts(got[d], Sent(d)) /\ PagesThenEnd(got[d]) /\ Range(got[d]) \subseteq Range(Sent(d))
           /\ AtEnd(d) => Sent(d) = got[d] /\ Ended(d)
<1> DEFINE g == got[d]
           s == Sent(d)
<1>1. g \in Seq(Items) /\ s \in Seq(Items) /\ PagesThenEnd(s)
  BY DestTyped, SentTyped, Zenon
<1>2. Starts(g, s)
  <2>1. data[d] \in Seq(Items) /\ sequence[d] \in Nat /\ response[d] \in Seq(Items) \cup {NoResponse}
    BY DestTyped, Zenon
  <2>2. CASE deleted[d]
    <3>1. AnswerOf(response[d]) \in Seq(Items)
      BY <2>1, RangeNone, Zenon DEF AnswerOf
    <3>2. s = g \o AnswerOf(response[d])
      BY <2>2, Zenon DEF Sent
    <3> HIDE DEF g, s
    <3> QED BY <1>1, <3>1, <3>2 DEF Starts
  <2>3. CASE ~deleted[d]
    BY <2>3, Zenon DEF MatchInv, Matches, Sent
  <2> QED BY <2>2, <2>3, Zenon
<1> HIDE DEF g, s
<1>3. PagesThenEnd(g) /\ Range(g) \subseteq Range(s)
  BY <1>1, <1>2, StartsRange, Zenon
<1>4. ASSUME HasEnd(g) PROVE s = g /\ End \in Range(s)
  <2>1. /\ Len(g) \in Nat /\ Len(s) \in Nat /\ DOMAIN s = 1..Len(s)
        /\ Len(g) <= Len(s) /\ \A i \in 1..Len(g) : g[i] = s[i]
    BY <1>1, <1>2, SeqFacts, Zenon DEF Starts
  <2>2. g # <<>> /\ g[Len(g)] = End
    BY <1>4, Zenon DEF HasEnd
  <2>3. Len(g) \in 1..Len(g) /\ Len(g) \in 1..Len(s)
    BY <1>1, <2>1, <2>2
  <2>4. s[Len(g)] = End
    BY <2>1, <2>2, <2>3, Zenon
  <2>5. Len(g) = Len(s) \/ (Len(g) < Len(s) /\ Len(s) \in 1..Len(s))
    BY <2>1, <2>3
  <2>6. Len(g) = Len(s)
    BY <1>1, <2>1, <2>3, <2>4, <2>5, Zenon DEF PagesThenEnd
  <2>7. g = s
    BY <1>1, <2>1, <2>6, SeqEqual, Zenon
  <2>8. End \in Range(s)
    BY <2>1, <2>3, <2>4, Zenon DEF Range
  <2> QED BY <2>7, <2>8, Zenon
<1> QED BY <1>2, <1>3, <1>4, Zenon DEF g, s, AtEnd, Ended

(* The pages a consumer has received. *)
LEMMA ReceivedPages ==
    ASSUME Types, NEW d \in Dests, MatchInv(d)
    PROVE  /\ Received(d) \in Seq(Items) /\ Len(Received(d)) = NumPages(got[d])
           /\ Starts(Received(d), got[d])
           /\ Range(Received(d)) = Range(got[d]) \ {End}
<1> DEFINE g == got[d]
           m == NumPages(g)
           r == Received(d)
<1>1. g \in Seq(Items) /\ PagesThenEnd(g) /\ r \in Seq(Items) /\ Len(r) = m
  BY DestTyped, GotSent, ReceivedIs, Zenon
<1>2. m \in Nat /\ m <= Len(g) /\ Len(g) \in Nat
  BY <1>1, NumPagesFacts, SeqFacts, Zenon
<1>3. Starts(r, g)
  <2>1. CASE HasEnd(g)
    <3>1. r = Prefix(g, Len(g) - 1) /\ Len(g) - 1 \in Nat
      <4>1. m = Len(g) - 1
        BY <2>1, Zenon DEF NumPages
      <4> QED BY <1>2, <2>1, <4>1, Zenon DEF Received
    <3> QED BY <1>1, <3>1, PrefixFacts, Zenon
  <2>2. CASE ~HasEnd(g)
    <3>1. r = g
      BY <2>2, Zenon DEF Received
    <3> HIDE DEF g, r
    <3> QED BY <1>2, <3>1 DEF Starts
  <2> QED BY <2>1, <2>2, Zenon
<1>4. m = IF HasEnd(g) THEN Len(g) - 1 ELSE Len(g)
  BY Zenon DEF NumPages
<1> HIDE DEF g, m, r
<1>5. /\ DOMAIN r = 1..m /\ DOMAIN g = 1..Len(g) /\ \A i \in 1..m : r[i] = g[i]
  BY <1>1, <1>3, SeqFacts, Zenon DEF Starts
<1>6. ASSUME NEW i \in 1..m PROVE i \in 1..Len(g) /\ g[i] # End
  <2>1. i \in 1..Len(g) /\ Len(g) \in 1..Len(g) /\ (i = Len(g) \/ i < Len(g))
    BY <1>2
  <2>2. i = Len(g) => ~HasEnd(g)
    BY <1>2, <1>4
  <2>3. i = Len(g) => g # <<>>
    BY <1>1, <2>1
  <2> QED BY <1>1, <1>5, <2>1, <2>2, <2>3, Zenon DEF HasEnd, PagesThenEnd
<1>7. ASSUME NEW i \in 1..Len(g), g[i] # End PROVE i \in 1..m
  <2>1. CASE HasEnd(g)
    <3>1. i # Len(g)
      BY <1>7, <2>1, Zenon DEF HasEnd
    <3>2. m = Len(g) - 1
      BY <1>4, <2>1, Zenon
    <3> QED BY <1>2, <3>1, <3>2
  <2>2. CASE ~HasEnd(g)
    BY <1>4, <2>2, Zenon
  <2> QED BY <2>1, <2>2, Zenon
<1>8. Range(r) \subseteq Range(g) \ {End}
  BY <1>5, <1>6, Zenon DEF Range
<1>9. Range(g) \ {End} \subseteq Range(r)
  BY <1>5, <1>7, Zenon DEF Range
<1> QED BY <1>1, <1>3, <1>8, <1>9, Zenon DEF g, m, r

(* What a consumer has received and what is left for it is what it was sent. *)
LEMMA ReceivedAndRemaining ==
    ASSUME Types, NEW d \in Dests, MatchInv(d), ~deleted[d]
    PROVE  /\ sequence[d] <= Len(Received(d))
           /\ Received(d) \o Remaining(d) = Sent(d)
<1> DEFINE g == got[d]
           n == sequence[d]
           t == data[d]
           m == NumPages(g)
           r == Received(d)
           u == Suffix(t, m - n)
<1>1. g \in Seq(Items) /\ t \in Seq(Items) /\ n \in Nat
  BY DestTyped, Zenon
<1>2. Matches(g, n, t, response[d])
  BY Zenon DEF MatchInv
<1>3. n <= m /\ m \in Nat /\ m <= Len(g)
  BY <1>1, <1>2, NumPagesFacts, Zenon DEF Matches
<1>4. m - n \in Nat /\ n + (m - n) = m /\ m <= m
  BY <1>1, <1>3
<1>5. m - n <= Len(t) /\ Joined(g, n + (m - n), u) = Joined(g, n, t)
  <2>1. n + (m - n) <= NumPages(g)
    BY <1>4, Zenon
  <2> HIDE DEF g, n, t, m
  <2> QED BY <1>1, <1>2, <1>4, <2>1, MatchesAcked, Zenon
<1>6. u \in Seq(Items)
  BY <1>1, <1>4, <1>5, SuffixFacts, Zenon
<1>7. r \in Seq(Items) /\ Len(r) = m /\ \A i \in 1..m : r[i] = g[i]
  BY ReceivedPages, Zenon DEF Starts
<1>8. Sent(d) = Joined(g, m, u)
  BY <1>4, <1>5, Zenon DEF Sent
<1>9. Remaining(d) = u
  BY <1>7, Zenon DEF Remaining
<1> HIDE DEF g, n, t, m, r, u
<1>10. /\ Joined(g, m, u) \in Seq(Items) /\ Len(Joined(g, m, u)) = m + Len(u)
       /\ \A i \in 1..m : Joined(g, m, u)[i] = g[i]
       /\ \A i \in 1..Len(u) : Joined(g, m, u)[m + i] = u[i]
  BY <1>1, <1>3, <1>6, JoinedTyped, Zenon
<1>11. /\ r \o u \in Seq(Items) /\ Len(r \o u) = m + Len(u)
       /\ \A i \in 1..m : (r \o u)[i] = r[i]
       /\ \A i \in 1..Len(u) : (r \o u)[m + i] = u[i]
  BY <1>6, <1>7, ConcatFacts, Zenon
<1>12. Len(u) \in Nat
  BY <1>6, SeqFacts, Zenon
<1>13. ASSUME NEW i \in 1..(m + Len(u)) PROVE (r \o u)[i] = Joined(g, m, u)[i]
  <2>1. i \in 1..m \/ \E j \in 1..Len(u) : i = m + j
    BY <1>3, <1>12, SplitIndex, Zenon
  <2>2. CASE i \in 1..m
    BY <1>7, <1>10, <1>11, <2>2, Zenon
  <2>3. ASSUME NEW j \in 1..Len(u), i = m + j PROVE (r \o u)[i] = Joined(g, m, u)[i]
    BY <1>10, <1>11, <2>3, Zenon
  <2> QED BY <2>1, <2>2, <2>3, Zenon
<1>14. r \o u = Joined(g, m, u)
  BY <1>10, <1>11, <1>13, SeqEqual, Zenon
<1> QED BY <1>3, <1>7, <1>8, <1>9, <1>14, Zenon DEF n, r

(* The contents of partitioned and broadcast output. *)
LEMMA CopiesRight ==
    ASSUME Types, ContentInv, QueueInv, kind # "kArbitrary", NEW d \in Dests, Live(d)
    PROVE  /\ sequence[d] <= Len(Received(d))
           /\ PagesThenEnd(Received(d) \o Remaining(d))
           /\ Range(Received(d) \o Remaining(d)) = PagesFor(d) \cup (IF atEnd THEN {End} ELSE {})
<1>1. MatchInv(d) /\ ~deleted[d]
  BY Zenon DEF QueueInv, Live
<1>2. sequence[d] <= Len(Received(d)) /\ Received(d) \o Remaining(d) = Sent(d)
  BY <1>1, ReceivedAndRemaining, Zenon
<1>3. PagesThenEnd(Sent(d))
  BY <1>1, SentTyped, Zenon
<1>4. d \in 1..numBuffers
  BY DEF Live, Dests, Types
<1>5. CopyInv(d)
  BY <1>4, Zenon DEF ContentInv
<1>6. Range(Sent(d)) = PagesFor(d) \cup (IF atEnd THEN {End} ELSE {})
  <2>1. PagesFor(d) \subseteq Range(Sent(d)) /\ Range(Sent(d)) \subseteq PagesFor(d) \cup {End}
    BY <1>5, Zenon DEF CopyInv
  <2>2. End \in Range(Sent(d)) <=> atEnd
    BY <1>5, Zenon DEF CopyInv, Ended
  <2>3. End \notin PagesFor(d)
    BY DEF PagesFor, End
  <2> QED BY <2>1, <2>2, <2>3, Zenon
<1> QED BY <1>2, <1>3, <1>6, Zenon

(* Of arbitrary output: who has a page was sent it. *)
LEMMA HolderSent ==
    ASSUME Types, QueueInv, BytesInv, NEW d \in Dests, NEW page,
           page \in Range(Received(d)) \cup Range(data[d])
    PROVE  page \in Range(Sent(d))
<1>1. MatchInv(d)
  BY Zenon DEF QueueInv
<1>2. Range(Received(d)) \subseteq Range(got[d]) /\ Range(got[d]) \subseteq Range(Sent(d))
  BY <1>1, ReceivedPages, GotSent, Zenon
<1>3. Range(data[d]) \subseteq Range(Sent(d))
  BY DataSent, Zenon
<1> QED BY <1>2, <1>3, Zenon

(* A page that was sent is with its consumer or still in the buffer. *)
LEMMA SentHeld ==
    ASSUME Types, QueueInv, NEW d \in Dests, ~deleted[d] \/ AtEnd(d),
           NEW page \in Range(Sent(d)), page # End
    PROVE  page \in Range(Received(d)) \cup Range(data[d])
<1>1. MatchInv(d)
  BY Zenon DEF QueueInv
<1>2. CASE AtEnd(d)
  <2>1. Sent(d) = got[d] /\ Range(Received(d)) = Range(got[d]) \ {End}
    BY <1>1, <1>2, GotSent, ReceivedPages, Zenon
  <2> QED BY <2>1, Zenon
<1>3. CASE ~deleted[d]
  <2>1. Received(d) \o Remaining(d) = Sent(d) /\ sequence[d] <= Len(Received(d))
    BY <1>1, <1>3, ReceivedAndRemaining, Zenon
  <2>2. /\ Received(d) \in Seq(Items) /\ data[d] \in Seq(Items) /\ sequence[d] \in Nat
        /\ Len(Received(d)) = NumPages(got[d]) /\ PagesThenEnd(data[d])
    BY <1>1, <1>3, ReceivedIs, DestTyped, DataInOrder, Zenon
  <2> DEFINE n == Len(Received(d)) - sequence[d]
  <2>3. n \in Nat
    BY <2>1, <2>2, SeqFacts
  <2>4. n <= Len(data[d])
    <3>1. Matches(got[d], sequence[d], data[d], response[d])
      BY <1>1, <1>3, Zenon DEF MatchInv
    <3>2. Len(got[d]) <= sequence[d] + Len(data[d]) /\ got[d] \in Seq(Items)
      BY <2>2, <3>1, MatchesTyped, DestTyped, Zenon
    <3>3. NumPages(got[d]) <= Len(got[d]) /\ NumPages(got[d]) \in Nat
      BY <3>2, NumPagesFacts, Zenon
    <3>4. Len(data[d]) \in Nat /\ Len(got[d]) \in Nat
      BY <2>2, <3>2, SeqFacts, Zenon
    <3> QED BY <2>2, <3>2, <3>3, <3>4
  <2>5. Remaining(d) = Suffix(data[d], n)
    BY Zenon DEF Remaining
  <2> HIDE DEF n
  <2>6. Remaining(d) \in Seq(Items)
    BY <2>2, <2>3, <2>4, <2>5, SuffixFacts, Zenon
  <2>7. Range(data[d]) = Range(SubSeq(data[d], 1, n)) \cup Range(Suffix(data[d], n))
    BY <2>2, <2>3, <2>4, Apart, Zenon
  <2>8. Range(Received(d) \o Remaining(d)) = Range(Received(d)) \cup Range(Remaining(d))
    BY <2>2, <2>6, RangeConcat, Zenon
  <2> QED BY <2>1, <2>5, <2>7, <2>8, Zenon
<1> QED BY <1>2, <1>3, Zenon

(* The contents of arbitrary output. *)
LEMMA SharesRight ==
    ASSUME Types, ContentInv, QueueInv, BytesInv, kind = "kArbitrary", NEW page \in 1..produced
    PROVE  /\ \A d, e \in Holders(page) : d = e
           /\ (\A d \in Dests : deleted[d] => AtEnd(d)) => Holders(page) # {}
<1>1. ShareInv
  BY Zenon DEF ContentInv
<1>2. page # End /\ page \in Int /\ ~(page < page)
  BY DEF End
<1>3. ASSUME NEW d \in Holders(page), d # 0
      PROVE  d \in Dests /\ page \in Range(Sent(d)) /\ page \notin Range(arbitrary)
  <2>1. d \in Dests /\ page \in Range(Received(d)) \cup Range(data[d])
    BY <1>3, Zenon DEF Holders
  <2>2. page \in Range(Sent(d))
    BY <2>1, HolderSent, Zenon
  <2>3. page \notin Range(arbitrary)
    <3> SUFFICES ASSUME page \in Range(arbitrary) PROVE FALSE
      BY Zenon
    <3>1. \A i \in Range(Sent(d)), j \in Range(arbitrary) : j # End => i < j
      BY <1>1, <2>1, Zenon DEF ShareInv
    <3>2. page < page
      BY <1>2, <2>2, <3>1, Zenon
    <3> QED BY <1>2, <3>2, Zenon
  <2> QED BY <2>1, <2>2, <2>3, Zenon
<1>4. 0 \in Holders(page) => page \in Range(arbitrary)
  <2>1. 0 \notin Dests
    BY DEF Dests
  <2> QED BY <2>1, Zenon DEF Holders
<1>5. ASSUME NEW d \in Holders(page), NEW e \in Holders(page), d # 0, e # 0 PROVE d = e
  <2>1. d \in Dests /\ e \in Dests /\ page \in Range(Sent(d)) /\ page \in Range(Sent(e))
    BY <1>3, <1>5, Zenon
  <2>2. d # e => Range(Sent(d)) \cap Range(Sent(e)) \subseteq {End}
    BY <1>1, <2>1, Zenon DEF ShareInv
  <2> QED BY <1>2, <2>1, <2>2, Zenon
<1>6. \A d, e \in Holders(page) : d = e
  BY <1>3, <1>4, <1>5, Zenon
<1>7. ASSUME \A d \in Dests : deleted[d] => AtEnd(d) PROVE Holders(page) # {}
  <2>1. CASE page \in Range(arbitrary)
    BY <2>1, Zenon DEF Holders
  <2>2. ASSUME NEW d \in Dests, page \in Range(Sent(d)) PROVE Holders(page) # {}
    <3>1. page \in Range(Received(d)) \cup Range(data[d])
      BY <1>2, <1>7, <2>2, SentHeld, Zenon
    <3> QED BY <3>1, Zenon DEF Holders
  <2>3. ASSUME NEW d \in Dests, GaveUp(d) PROVE FALSE
    BY <1>7, <2>3, GotSent, Zenon DEF GaveUp, QueueInv
  <2> QED BY <1>1, <2>1, <2>2, <2>3, Zenon DEF ShareInv
<1> QED BY <1>6, <1>7, Zenon

(* The invariant implies NothingLostOrRepeated. *)
LEMMA ContentRight ==
    ASSUME Types, ContentInv, QueueInv, BytesInv
    PROVE  NothingLostOrRepeated
<1>1. \A d \in Dests : PagesThenEnd(got[d])
  BY GotSent, Zenon DEF QueueInv
<1>2. CASE kind # "kArbitrary"
  BY <1>2, CopiesRight, Zenon DEF NothingLostOrRepeated
<1>3. CASE kind = "kArbitrary"
  BY <1>1, <1>3, SharesRight, Zenon DEF NothingLostOrRepeated
<1> QED BY <1>2, <1>3, Zenon

(* The invariant implies EndAfterAllPages. *)
LEMMA EndRight ==
    ASSUME Types, ContentInv, QueueInv
    PROVE  EndAfterAllPages
<1> SUFFICES ASSUME NEW d \in Dests, AtEnd(d)
             PROVE  /\ atEnd
                    /\ IF kind = "kArbitrary" THEN arbitrary = <<End>> ELSE Range(Received(d)) = PagesFor(d)
  BY Zenon DEF EndAfterAllPages
<1>1. MatchInv(d) /\ NewInv(d)
  BY Zenon DEF QueueInv
<1>2. Sent(d) = got[d] /\ Ended(d) /\ Range(Received(d)) = Range(got[d]) \ {End}
  BY <1>1, GotSent, ReceivedPages, Zenon
<1>3. CASE kind = "kArbitrary"
  <2>1. ShareInv
    BY <1>3, Zenon DEF ContentInv
  <2>2. arbitrary = <<End>>
    BY <1>2, <2>1, Zenon DEF ShareInv
  <2>3. End \in Range(arbitrary)
    BY <2>2, RangeOne, ConstantsTyped, Zenon
  <2>4. atEnd
    BY <2>1, <2>3, Zenon DEF ShareInv
  <2> QED BY <1>3, <2>2, <2>4, Zenon
<1>4. CASE kind # "kArbitrary"
  <2>1. got[d] # <<>>
    BY Zenon DEF AtEnd, HasEnd
  <2>2. ~(d > numBuffers)
    BY <1>1, <2>1, Zenon DEF NewInv
  <2>3. d \in 1..numBuffers
    BY <2>2 DEF Dests, Types
  <2>4. CopyInv(d)
    BY <1>4, <2>3, Zenon DEF ContentInv
  <2>5. atEnd /\ PagesFor(d) \subseteq Range(got[d]) /\ Range(got[d]) \subseteq PagesFor(d) \cup {End}
    BY <1>2, <2>4, Zenon DEF CopyInv
  <2>6. End \notin PagesFor(d)
    BY DEF PagesFor, End
  <2>7. Range(Received(d)) = PagesFor(d)
    BY <1>2, <2>5, <2>6, Zenon
  <2> QED BY <1>4, <2>5, <2>7, Zenon
<1> QED BY <1>3, <1>4, Zenon
=============================================================================
