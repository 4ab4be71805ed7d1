------------------------- MODULE OutputBufferSteps --------------------------
(***************************************************************************)
(* The inductive invariant of OutputBuffer, in parts, and what its helpers *)
(* do for any number of destinations, producers and pages: sequences of    *)
(* items, the pages a broadcast leaves, how an arbitrary buffer is shared  *)
(* out, and what a fetch is answered with.                                 *)
(***************************************************************************)
EXTENDS OutputBuffer, TLAPS

-----------------------------------------------------------------------------
(* The inductive invariant.                                                *)

Items == Pages \cup {End}

(* The first n items of g and then those of t. *)
Joined(g, n, t) == [i \in 1..(n + Len(t)) |-> IF i <= n THEN g[i] ELSE t[i - n]]

Starts(s, t) == Len(s) <= Len(t) /\ \A i \in 1..Len(s) : s[i] = t[i]

AnswerOf(r) == IF r = NoResponse THEN <<>> ELSE r

(* All that was put in the buffer of d, from what its consumer has and what *)
(* is still there; of a deleted one, what its consumer has or is to get.    *)
Sent(d) ==
    IF deleted[d] THEN got[d] \o AnswerOf(response[d])
    ELSE Joined(got[d], sequence[d], data[d])

(* The pages of g, which may end with the end marker. *)
NumPages(g) == IF HasEnd(g) THEN Len(g) - 1 ELSE Len(g)

(* A consumer that has g and is to get r, and a buffer that starts after the *)
(* first n items and holds t: what was acknowledged was received, and what   *)
(* was received or is on its way was sent.                                   *)
Matches(g, n, t, r) ==
    /\ n <= NumPages(g)
    /\ Starts(g, Joined(g, n, t))
    /\ r # NoResponse => Starts(g \o r, Joined(g, n, t))
    /\ PagesThenEnd(Joined(g, n, t))

Ended(d) == End \in Range(Sent(d))

Types ==
    /\ kind \in Kinds /\ numBuffers \in InitDests..NumDests /\ noMoreBuffers \in BOOLEAN
    /\ dataToBroadcast \in Seq(Items) /\ Range(dataToBroadcast) \subseteq Pages
    /\ arbitrary \in Seq(Items)
    /\ nextLoad \in 1..numBuffers
    /\ bufferedBytes \in Int /\ blocked \subseteq Producers
    /\ numDrivers \in Nat /\ numFinished \in Nat
    /\ atEnd \in BOOLEAN /\ noMoreDriversDue \in BOOLEAN
    /\ data \in [Dests -> Seq(Items)] /\ sequence \in [Dests -> Nat]
    /\ notify \in [Dests -> {"none", "live", "stale"}]
    /\ deleted \in [Dests -> BOOLEAN]
    /\ pending \in [Callers -> [freed : SUBSET Pages, woken : SUBSET Producers, finished : BOOLEAN]]
    /\ consumed \in BOOLEAN
    /\ produced \in 0..MaxPages
    /\ producer \in [Producers -> {"ready", "blocked", "done"}]
    /\ target \in [Pages -> Dests]
    /\ got \in [Dests -> Seq(Items)] /\ request \in [Dests -> BOOLEAN]
    /\ response \in [Dests -> Seq(Items) \cup {NoResponse}]
    /\ acks \in [Dests -> SUBSET Nat]

(* The end is announced once, by the last driver or for it, and then no    *)
(* producer is left.                                                       *)
Done == {p \in Producers : producer[p] = "done"}

DriverInv ==
    /\ numFinished = Cardinality(Done)
    /\ numDrivers >= Cardinality(Producers)
    /\ atEnd => numFinished = numDrivers
    /\ noMoreDriversDue => ~atEnd /\ numFinished = numDrivers

(* A producer that is held back waits in one place. *)
HeldInv ==
    /\ \A p \in blocked : producer[p] = "blocked" /\ \A c \in Callers : p \notin pending[c].woken
    /\ \A c \in Callers : \A p \in pending[c].woken :
          producer[p] = "blocked" /\ \A other \in Callers \ {c} : p \notin pending[other].woken

KindInv ==
    /\ kind # "kArbitrary" => arbitrary = <<>>
    /\ kind # "kBroadcast" => dataToBroadcast = <<>>
    /\ kind = "kPartitioned" => numBuffers = NumDests
    /\ kind = "kBroadcast" /\ ~noMoreBuffers =>
          Len(dataToBroadcast) = produced /\ \A i \in 1..produced : dataToBroadcast[i] = i
    /\ pending[Updater] # Idle => noMoreBuffers

MatchInv(d) ==
    /\ IF deleted[d] THEN PagesThenEnd(Sent(d))
       ELSE Matches(got[d], sequence[d], data[d], response[d])
    /\ \A s \in acks[d] : s <= NumPages(got[d])
    /\ response[d] # NoResponse => request[d]

(* Who waits, and that there is nothing for those who wait. *)
WaitInv(d) ==
    /\ notify[d] # "none" =>
          /\ Live(d) /\ data[d] = <<>> /\ arbitrary = <<>> /\ response[d] = NoResponse
          /\ sequence[d] = Len(got[d]) /\ ~HasEnd(got[d])
    /\ notify[d] = "live" => request[d]
    /\ Live(d) /\ request[d] /\ response[d] = NoResponse => notify[d] = "live"

(* A destination that was not fetched from yet. *)
NewInv(d) ==
    d > numBuffers =>
        /\ data[d] = <<>> /\ sequence[d] = 0 /\ notify[d] = "none" /\ ~deleted[d]
        /\ got[d] = <<>> /\ ~request[d] /\ response[d] = NoResponse /\ acks[d] = {}
        /\ pending[d] = Idle

(* Partitioned and broadcast output. *)
CopyInv(d) ==
    /\ Range(Sent(d)) \subseteq PagesFor(d) \cup {End}
    /\ Ended(d) => atEnd
    /\ Live(d) \/ Ended(d) => PagesFor(d) \subseteq Range(Sent(d))
    /\ Live(d) /\ atEnd => Ended(d)

(* Arbitrary output: every page has one owner. *)
GaveUp(d) == deleted[d] /\ ~Ended(d)

ShareInv ==
    /\ PagesThenEnd(arbitrary) /\ Range(arbitrary) \subseteq (1..produced) \cup {End}
    /\ atEnd <=> End \in Range(arbitrary)
    /\ \A d \in Dests :
          /\ Range(Sent(d)) \subseteq (1..produced) \cup {End}
          /\ Ended(d) => arbitrary = <<End>>
          /\ \A i \in Range(Sent(d)), j \in Range(arbitrary) : j # End => i < j
          /\ \A e \in Dests \ {d} : Range(Sent(d)) \cap Range(Sent(e)) \subseteq {End}
    /\ \A page \in 1..produced :
          \/ page \in Range(arbitrary)
          \/ \E d \in Dests : page \in Range(Sent(d)) \/ GaveUp(d)

ContentInv ==
    IF kind = "kArbitrary" THEN ShareInv ELSE \A d \in 1..numBuffers : CopyInv(d)

QueueInv == \A d \in Dests : MatchInv(d) /\ WaitInv(d) /\ NewInv(d)

ProducerInv ==
    \A p \in Producers : producer[p] = "blocked" =>
        \/ p \in blocked /\ bufferedBytes >= ContinueSize
        \/ \E c \in Callers : p \in pending[c].woken

BytesInv ==
    /\ BytesCounted
    /\ \A c \in Callers : pending[c].freed \subseteq 1..produced
    /\ kind # "kBroadcast" => \A c \in Callers : pending[c].freed \cap Buffered = {}
    /\ \A d \in Dests : deleted[d] => data[d] = <<>>

-----------------------------------------------------------------------------
(* Sequences of items. *)

(* A sequence of items, its length and its elements. *)
LEMMA SeqFacts ==
    ASSUME NEW s \in Seq(Items)
    PROVE  /\ Len(s) \in Nat /\ DOMAIN s = 1..Len(s)
           /\ \A i \in 1..Len(s) : s[i] \in Items
OBVIOUS

(* Sequences with the same items are equal. *)
LEMMA SeqEqual ==
    ASSUME NEW s \in Seq(Items), NEW t \in Seq(Items), Len(s) = Len(t),
           \A i \in 1..Len(s) : s[i] = t[i]
    PROVE  s = t
<1>1. s = [i \in 1..Len(s) |-> s[i]] /\ t = [i \in 1..Len(t) |-> t[i]]
  OBVIOUS
<1> QED BY <1>1, Zenon

(* The items of a concatenation. *)
LEMMA ConcatFacts ==
    ASSUME NEW s \in Seq(Items), NEW t \in Seq(Items)
    PROVE  /\ s \o t \in Seq(Items) /\ Len(s \o t) = Len(s) + Len(t)
           /\ \A i \in 1..Len(s) : (s \o t)[i] = s[i]
           /\ \A i \in 1..Len(t) : (s \o t)[Len(s) + i] = t[i]
<1>1. s \o t \in Seq(Items) /\ Len(s \o t) = Len(s) + Len(t)
  OBVIOUS
<1>3. \A i \in 1..Len(s) : (s \o t)[i] = s[i]
  OBVIOUS
<1>4. \A i \in 1..Len(t) : (s \o t)[Len(s) + i] = t[i]
  OBVIOUS
<1> QED BY <1>1, <1>3, <1>4, Zenon

(* An index of a longer sequence is one of the first part or of the rest. *)
LEMMA SplitIndex ==
    ASSUME NEW m \in Nat, NEW n \in Nat, NEW i \in 1..(m + n)
    PROVE  i \in 1..m \/ \E j \in 1..n : i = m + j
<1>1. CASE ~(i \in 1..m)
  <2>1. i - m \in 1..n /\ i = m + (i - m)
    BY <1>1
  <2> QED BY <2>1, Zenon
<1> QED BY <1>1, Zenon

(* An index is the last one or before it. *)
LEMMA LastIndex ==
    ASSUME NEW n \in Nat, NEW i \in 1..n
    PROVE  n \in 1..n /\ (i < n \/ i = n)
OBVIOUS

(* The indices of both parts are indices of the whole. *)
LEMMA Shifted ==
    ASSUME NEW m \in Nat, NEW n \in Nat
    PROVE  /\ \A i \in 1..m : i \in 1..(m + n)
           /\ \A i \in 1..n : m + i \in 1..(m + n)
OBVIOUS

(* The items of a concatenation are those of its parts. *)
LEMMA RangeConcat ==
    ASSUME NEW s \in Seq(Items), NEW t \in Seq(Items)
    PROVE  Range(s \o t) = Range(s) \cup Range(t)
<1>1. /\ s \o t \in Seq(Items) /\ Len(s \o t) = Len(s) + Len(t)
      /\ \A i \in 1..Len(s) : (s \o t)[i] = s[i]
      /\ \A i \in 1..Len(t) : (s \o t)[Len(s) + i] = t[i]
  BY ConcatFacts, Zenon
<1>2. /\ Len(s) \in Nat /\ Len(t) \in Nat
      /\ DOMAIN s = 1..Len(s) /\ DOMAIN t = 1..Len(t)
      /\ DOMAIN (s \o t) = 1..(Len(s) + Len(t))
  BY <1>1, SeqFacts, Zenon
<1>3. ASSUME NEW i \in 1..(Len(s) + Len(t)) PROVE (s \o t)[i] \in Range(s) \cup Range(t)
  <2>1. i \in 1..Len(s) \/ \E j \in 1..Len(t) : i = Len(s) + j
    BY <1>2, SplitIndex, Zenon
  <2> QED BY <1>1, <1>2, <2>1, Zenon DEF Range
<1>4. ASSUME NEW i \in 1..Len(s) PROVE s[i] \in Range(s \o t)
  <2>1. i \in 1..(Len(s) + Len(t))
    BY <1>2, Shifted, Zenon
  <2> QED BY <1>1, <1>2, <2>1, Zenon DEF Range
<1>5. ASSUME NEW i \in 1..Len(t) PROVE t[i] \in Range(s \o t)
  <2>1. Len(s) + i \in 1..(Len(s) + Len(t))
    BY <1>2, Shifted, Zenon
  <2> QED BY <1>1, <1>2, <2>1, Zenon DEF Range
<1>6. Range(s \o t) \subseteq Range(s) \cup Range(t)
  BY <1>2, <1>3, Zenon DEF Range
<1>7. Range(s) \subseteq Range(s \o t)
  BY <1>2, <1>4, Zenon DEF Range
<1>8. Range(t) \subseteq Range(s \o t)
  BY <1>2, <1>5, Zenon DEF Range
<1> QED BY <1>6, <1>7, <1>8, Zenon

(* The items of a sequence of one. *)
LEMMA RangeOne ==
    ASSUME NEW x \in Items
    PROVE  <<x>> \in Seq(Items) /\ Range(<<x>>) = {x}
BY DEF Range

(* An empty sequence has no items. *)
LEMMA RangeNone == <<>> \in Seq(Items) /\ Range(<<>>) = {}
BY DEF Range

(* What is joined is a sequence of items. *)
LEMMA JoinedTyped ==
    ASSUME NEW g \in Seq(Items), NEW t \in Seq(Items), NEW n \in Nat, n <= Len(g)
    PROVE  /\ Joined(g, n, t) \in Seq(Items) /\ Len(Joined(g, n, t)) = n + Len(t)
           /\ \A i \in 1..n : Joined(g, n, t)[i] = g[i]
           /\ \A i \in 1..Len(t) : Joined(g, n, t)[n + i] = t[i]
<1>1. \A i \in 1..(n + Len(t)) : (IF i <= n THEN g[i] ELSE t[i - n]) \in Items
  OBVIOUS
<1>2. Len(t) \in Nat /\ n + Len(t) \in Nat
  OBVIOUS
<1>3. Joined(g, n, t) \in Seq(Items) /\ Len(Joined(g, n, t)) = n + Len(t)
  BY <1>1, <1>2 DEF Joined
<1>4. \A i \in 1..n : Joined(g, n, t)[i] = g[i]
  BY <1>2 DEF Joined
<1>5. \A i \in 1..Len(t) : Joined(g, n, t)[n + i] = t[i]
  BY <1>2 DEF Joined
<1> QED BY <1>3, <1>4, <1>5, Zenon

(* Enqueueing adds to what was sent. *)
LEMMA JoinedMore ==
    ASSUME NEW g \in Seq(Items), NEW t \in Seq(Items), NEW n \in Nat, n <= Len(g),
           NEW u \in Seq(Items)
    PROVE  Joined(g, n, t \o u) = Joined(g, n, t) \o u
<1> DEFINE J == Joined(g, n, t)
           K == Joined(g, n, t \o u)
<1>1. /\ J \in Seq(Items) /\ Len(J) = n + Len(t)
      /\ \A i \in 1..n : J[i] = g[i]
      /\ \A i \in 1..Len(t) : J[n + i] = t[i]
  BY JoinedTyped, Zenon
<1>2. /\ t \o u \in Seq(Items) /\ Len(t \o u) = Len(t) + Len(u)
      /\ \A i \in 1..Len(t) : (t \o u)[i] = t[i]
      /\ \A i \in 1..Len(u) : (t \o u)[Len(t) + i] = u[i]
  BY ConcatFacts, Zenon
<1>3. /\ K \in Seq(Items) /\ Len(K) = n + Len(t \o u)
      /\ \A i \in 1..n : K[i] = g[i]
      /\ \A i \in 1..Len(t \o u) : K[n + i] = (t \o u)[i]
  BY <1>2, JoinedTyped, Zenon
<1> HIDE DEF J, K
<1>4. /\ J \o u \in Seq(Items) /\ Len(J \o u) = Len(J) + Len(u)
      /\ \A i \in 1..Len(J) : (J \o u)[i] = J[i]
      /\ \A i \in 1..Len(u) : (J \o u)[Len(J) + i] = u[i]
  BY <1>1, ConcatFacts, Zenon
<1>5. Len(t) \in Nat /\ Len(u) \in Nat /\ Len(t \o u) \in Nat
  BY <1>2, SeqFacts, Zenon
<1>6. /\ Len(J \o u) = Len(K) /\ \A i \in 1..n : i \in 1..Len(J)
      /\ \A i \in 1..Len(t) : n + i \in 1..Len(J)
      /\ \A i \in 1..Len(u) : n + (Len(t) + i) = Len(J) + i
  BY <1>1, <1>2, <1>3, <1>4, <1>5
<1>7. ASSUME NEW i \in 1..Len(K) PROVE K[i] = (J \o u)[i]
  <2>0. i \in 1..(n + Len(t \o u))
    BY <1>3, Zenon
  <2>1. i \in 1..n \/ \E j \in 1..Len(t \o u) : i = n + j
    BY <2>0, <1>5, SplitIndex, Zenon
  <2>2. CASE i \in 1..n
    BY <1>1, <1>3, <1>4, <1>6, <2>2, Zenon
  <2>3. ASSUME NEW j \in 1..Len(t \o u), i = n + j PROVE K[i] = (J \o u)[i]
    <3>0. j \in 1..(Len(t) + Len(u))
      BY <1>2, Zenon
    <3>1. j \in 1..Len(t) \/ \E k \in 1..Len(u) : j = Len(t) + k
      BY <3>0, <1>5, SplitIndex, Zenon
    <3>2. CASE j \in 1..Len(t)
      BY <3>2, <2>3, <1>1, <1>2, <1>3, <1>4, <1>6, Zenon
    <3>3. ASSUME NEW k \in 1..Len(u), j = Len(t) + k PROVE K[i] = (J \o u)[i]
      <4>1. K[i] = u[k]
        BY <3>3, <2>3, <1>2, <1>3, Zenon
      <4>2. i = Len(J) + k
        BY <3>3, <2>3, <1>6, Zenon
      <4> QED BY <4>1, <4>2, <1>4, Zenon
    <3> QED BY <3>1, <3>2, <3>3, Zenon
  <2> QED BY <2>1, <2>2, <2>3, Zenon
<1> QED BY <1>3, <1>4, <1>6, <1>7, SeqEqual, Zenon DEF J, K

(* What is left after the first n items. *)
LEMMA SuffixFacts ==
    ASSUME NEW s \in Seq(Items), NEW m \in Nat, m <= Len(s)
    PROVE  /\ Suffix(s, m) \in Seq(Items) /\ Len(Suffix(s, m)) = Len(s) - m
           /\ \A i \in 1..(Len(s) - m) : Suffix(s, m)[i] = s[m + i]
<1>1. Len(s) \in Nat
  OBVIOUS
<1>2. Suffix(s, m) \in Seq(Items)
  BY <1>1 DEF Suffix
<1>3. Len(Suffix(s, m)) = Len(s) - m
  BY <1>1 DEF Suffix
<1>4. \A i \in 1..(Len(s) - m) : Suffix(s, m)[i] = s[m + i]
  BY <1>1 DEF Suffix
<1> QED BY <1>2, <1>3, <1>4, Zenon

(* Dropping nothing leaves everything. *)
LEMMA SuffixNone ==
    ASSUME NEW s \in Seq(Items)
    PROVE  Suffix(s, 0) = s
BY DEF Suffix

(* The first m items are a start. *)
LEMMA PrefixFacts ==
    ASSUME NEW s \in Seq(Items), NEW m \in Nat
    PROVE  Prefix(s, m) \in Seq(Items) /\ Starts(Prefix(s, m), s)
<1>1. CASE Len(s) <= m
  BY <1>1 DEF Prefix, Starts
<1>2. CASE ~(Len(s) <= m)
  <2>1. Prefix(s, m) = SubSeq(s, 1, m) /\ m < Len(s)
    BY <1>2 DEF Prefix
  <2>2. SubSeq(s, 1, m) \in Seq(Items) /\ Len(SubSeq(s, 1, m)) = m
    BY <2>1
  <2>3. \A i \in 1..m : SubSeq(s, 1, m)[i] = s[i]
    BY <2>1
  <2> QED BY <2>1, <2>2, <2>3 DEF Starts
<1> QED BY <1>1, <1>2, Zenon

(* The first items of a sequence that is not empty. *)
LEMMA PrefixSome ==
    ASSUME NEW s \in Seq(Items), NEW m \in Nat, m > 0
    PROVE  /\ s # <<>> => Prefix(s, m) # <<>>
           /\ Prefix(s, m) # NoResponse
           /\ \A x \in Items : Prefix(<<x>>, m) = <<x>>
           /\ Prefix(<<>>, m) = <<>>
<1>1. ASSUME s # <<>>, Prefix(s, m) = <<>> PROVE FALSE
  <2>1. CASE Len(s) <= m
    BY <1>1, <2>1 DEF Prefix
  <2>2. CASE ~(Len(s) <= m)
    <3>1. Len(SubSeq(s, 1, m)) = m
      BY <2>2
    <3> QED BY <1>1, <2>2, <3>1 DEF Prefix
  <2> QED BY <2>1, <2>2, Zenon
<1>2. Prefix(s, m) # NoResponse
  <2>1. Prefix(s, m) \in Seq(Items)
    BY PrefixFacts, Zenon
  <2>2. NoResponse \notin Seq(Items)
    BY SizesAssumption DEF NoResponse, Items, Pages, End
  <2> QED BY <2>1, <2>2, Zenon
<1>3. ASSUME NEW x \in Items PROVE Prefix(<<x>>, m) = <<x>>
  BY DEF Prefix
<1>4. Prefix(<<>>, m) = <<>>
  BY DEF Prefix
<1> QED BY <1>1, <1>2, <1>3, <1>4, Zenon

(* What was acknowledged was received: it is still part of what was sent. *)
LEMMA JoinedLess ==
    ASSUME NEW g \in Seq(Items), NEW t \in Seq(Items), NEW n \in Nat, n <= Len(g),
           NEW m \in Nat, m <= Len(t), n + m <= Len(g), Starts(g, Joined(g, n, t))
    PROVE  Joined(g, n + m, Suffix(t, m)) = Joined(g, n, t)
<1> DEFINE J == Joined(g, n, t)
           u == Suffix(t, m)
           K == Joined(g, n + m, u)
<1>1. /\ J \in Seq(Items) /\ Len(J) = n + Len(t)
      /\ \A i \in 1..Len(t) : J[n + i] = t[i]
  BY JoinedTyped, Zenon
<1>2. /\ u \in Seq(Items) /\ Len(u) = Len(t) - m
      /\ \A i \in 1..(Len(t) - m) : u[i] = t[m + i]
  BY SuffixFacts, Zenon
<1>3. n + m \in Nat
  OBVIOUS
<1>4. /\ K \in Seq(Items) /\ Len(K) = (n + m) + Len(u)
      /\ \A i \in 1..(n + m) : K[i] = g[i]
      /\ \A i \in 1..Len(u) : K[(n + m) + i] = u[i]
  BY <1>2, <1>3, JoinedTyped, Zenon
<1> HIDE DEF J, u, K
<1>5. \A i \in 1..Len(g) : g[i] = J[i]
  BY Zenon DEF Starts, J
<1>6. Len(u) \in Nat /\ Len(t) \in Nat /\ Len(g) \in Nat
  BY <1>2, SeqFacts, Zenon
<1>7. /\ Len(K) = Len(J) /\ \A i \in 1..(n + m) : i \in 1..Len(g)
      /\ \A i \in 1..Len(u) : m + i \in 1..Len(t) /\ i \in 1..(Len(t) - m)
      /\ \A i \in 1..Len(u) : (n + m) + i = n + (m + i)
  BY <1>1, <1>2, <1>3, <1>4, <1>6
<1>8. ASSUME NEW i \in 1..Len(K) PROVE K[i] = J[i]
  <2>0. i \in 1..((n + m) + Len(u))
    BY <1>4, Zenon
  <2>1. i \in 1..(n + m) \/ \E j \in 1..Len(u) : i = (n + m) + j
    BY <2>0, <1>3, <1>6, SplitIndex, Zenon
  <2>2. CASE i \in 1..(n + m)
    BY <1>4, <1>5, <1>7, <2>2, Zenon
  <2>3. ASSUME NEW j \in 1..Len(u), i = (n + m) + j PROVE K[i] = J[i]
    <3>1. K[i] = t[m + j]
      BY <2>3, <1>2, <1>4, <1>7, Zenon
    <3>2. J[n + (m + j)] = t[m + j]
      BY <1>1, <1>7, Zenon
    <3>3. i = n + (m + j)
      BY <2>3, <1>7, Zenon
    <3> QED BY <3>1, <3>2, <3>3, Zenon
  <2> QED BY <2>1, <2>2, <2>3, Zenon
<1> QED BY <1>1, <1>4, <1>7, <1>8, SeqEqual, Zenon DEF J, u, K

(* What is received was sent before. *)
LEMMA JoinedSame ==
    ASSUME NEW g \in Seq(Items), NEW t \in Seq(Items), NEW n \in Nat, n <= Len(g),
           NEW r \in Seq(Items)
    PROVE  Joined(g \o r, n, t) = Joined(g, n, t)
<1>1. \A i \in 1..n : (g \o r)[i] = g[i]
  OBVIOUS
<1>2. n \in Nat /\ Len(t) \in Nat
  BY SeqFacts, Zenon
<1>3. \A i \in 1..(n + Len(t)) :
         (IF i <= n THEN (g \o r)[i] ELSE t[i - n]) = (IF i <= n THEN g[i] ELSE t[i - n])
  BY <1>1, <1>2
<1> QED BY <1>3, Zenon DEF Joined

(* A start has no other items. *)
LEMMA StartsRange ==
    ASSUME NEW s \in Seq(Items), NEW t \in Seq(Items), Starts(s, t)
    PROVE  /\ Range(s) \subseteq Range(t)
           /\ PagesThenEnd(t) => PagesThenEnd(s)
<1>1. /\ Len(s) \in Nat /\ Len(t) \in Nat /\ DOMAIN s = 1..Len(s) /\ DOMAIN t = 1..Len(t)
  BY SeqFacts, Zenon
<1>2. \A i \in 1..Len(s) : i \in 1..Len(t) /\ s[i] = t[i]
  BY <1>1 DEF Starts
<1>3. Range(s) \subseteq Range(t)
  BY <1>1, <1>2, Zenon DEF Range
<1>4. PagesThenEnd(t) => PagesThenEnd(s)
  BY <1>1, <1>2 DEF PagesThenEnd
<1> QED BY <1>3, <1>4, Zenon

(* A start stays one when items are added behind. *)
LEMMA StartsMore ==
    ASSUME NEW s \in Seq(Items), NEW t \in Seq(Items), NEW u \in Seq(Items), Starts(s, t)
    PROVE  Starts(s, t \o u)
BY ConcatFacts, SeqFacts DEF Starts

(* Less than a start is a start. *)
LEMMA StartsLess ==
    ASSUME NEW s \in Seq(Items), NEW t \in Seq(Items), NEW u \in Seq(Items), Starts(s \o u, t)
    PROVE  Starts(s, t)
BY ConcatFacts, SeqFacts DEF Starts

(* When adding to a sequence keeps its order. *)
LEMMA OrderMore ==
    ASSUME NEW s \in Seq(Items), NEW u \in Seq(Items), PagesThenEnd(s), PagesThenEnd(u),
           \A x \in Range(s), y \in Range(u) : x # End /\ (y = End \/ x < y)
    PROVE  PagesThenEnd(s \o u)
<1>1. /\ s \o u \in Seq(Items) /\ Len(s \o u) = Len(s) + Len(u)
      /\ \A i \in 1..Len(s) : (s \o u)[i] = s[i]
      /\ \A i \in 1..Len(u) : (s \o u)[Len(s) + i] = u[i]
  BY ConcatFacts, Zenon
<1>2. /\ Len(s) \in Nat /\ Len(u) \in Nat /\ DOMAIN s = 1..Len(s) /\ DOMAIN u = 1..Len(u)
      /\ DOMAIN (s \o u) = 1..(Len(s) + Len(u))
  BY <1>1, SeqFacts, Zenon
<1> SUFFICES ASSUME NEW i \in 1..(Len(s) + Len(u)), NEW j \in 1..(Len(s) + Len(u)), i < j
             PROVE  (s \o u)[i] # End /\ ((s \o u)[j] = End \/ (s \o u)[i] < (s \o u)[j])
  BY <1>2, Zenon DEF PagesThenEnd
<1>3. i \in 1..Len(s) \/ \E k \in 1..Len(u) : i = Len(s) + k
  BY <1>2, SplitIndex, Zenon
<1>4. j \in 1..Len(s) \/ \E k \in 1..Len(u) : j = Len(s) + k
  BY <1>2, SplitIndex, Zenon
<1>5. CASE i \in 1..Len(s) /\ j \in 1..Len(s)
  BY <1>1, <1>2, <1>5, Zenon DEF PagesThenEnd
<1>6. ASSUME i \in 1..Len(s), NEW k \in 1..Len(u), j = Len(s) + k
      PROVE  (s \o u)[i] # End /\ ((s \o u)[j] = End \/ (s \o u)[i] < (s \o u)[j])
  <2>1. s[i] \in Range(s) /\ u[k] \in Range(u)
    BY <1>2, <1>6, Zenon DEF Range
  <2>2. (s \o u)[i] = s[i] /\ (s \o u)[j] = u[k]
    BY <1>1, <1>6, Zenon
  <2> QED BY <2>1, <2>2, Zenon
<1>7. ASSUME NEW k \in 1..Len(u), i = Len(s) + k, NEW l \in 1..Len(u), j = Len(s) + l
      PROVE  (s \o u)[i] # End /\ ((s \o u)[j] = End \/ (s \o u)[i] < (s \o u)[j])
  <2>1. k < l
    BY <1>2, <1>7
  <2>2. (s \o u)[i] = u[k] /\ (s \o u)[j] = u[l]
    BY <1>1, <1>7, Zenon
  <2> QED BY <2>1, <2>2, <1>2, Zenon DEF PagesThenEnd
<1>8. ~(j \in 1..Len(s) /\ \E k \in 1..Len(u) : i = Len(s) + k)
  BY <1>2
<1> QED BY <1>3, <1>4, <1>5, <1>6, <1>7, <1>8, Zenon

(* One item is in order. *)
LEMMA OrderOne ==
    ASSUME NEW x \in Items
    PROVE  PagesThenEnd(<<x>>) /\ PagesThenEnd(<<>>)
BY DEF PagesThenEnd

(* The end marker can only be the last item. *)
LEMMA EndIsLast ==
    ASSUME NEW s \in Seq(Items), PagesThenEnd(s)
    PROVE  HasEnd(s) <=> End \in Range(s)
<1>1. Len(s) \in Nat /\ DOMAIN s = 1..Len(s)
  BY SeqFacts, Zenon
<1>2. ASSUME HasEnd(s) PROVE End \in Range(s)
  <2>1. Len(s) \in 1..Len(s)
    BY <1>1, <1>2 DEF HasEnd
  <2> QED BY <1>1, <1>2, <2>1, Zenon DEF HasEnd, Range
<1>3. ASSUME End \in Range(s) PROVE HasEnd(s)
  <2>1. PICK i \in 1..Len(s) : s[i] = End
    BY <1>1, <1>3, Zenon DEF Range
  <2>2. Len(s) \in 1..Len(s) /\ (i < Len(s) \/ i = Len(s))
    BY <1>1, LastIndex, Zenon
  <2>3. s # <<>>
    BY <1>1, <2>1
  <2> QED BY <1>1, <2>1, <2>2, <2>3, Zenon DEF HasEnd, PagesThenEnd
<1> QED BY <1>2, <1>3, Zenon

-----------------------------------------------------------------------------
(* One destination: what each step does to it. *)

(* The number of pages is that of the items, without the end marker. *)
LEMMA NumPagesFacts ==
    ASSUME NEW g \in Seq(Items)
    PROVE  NumPages(g) \in Nat /\ NumPages(g) <= Len(g) /\ NumPages(<<>>) = 0
<1>1. Len(g) \in Nat /\ (HasEnd(g) => Len(g) > 0)
  BY DEF HasEnd
<1>2. ~HasEnd(<<>>) /\ Len(<<>>) = 0
  BY DEF HasEnd
<1> QED BY <1>1, <1>2 DEF NumPages

(* Receiving more does not lower the number of pages. *)
LEMMA NumPagesMore ==
    ASSUME NEW g \in Seq(Items), NEW r \in Seq(Items), PagesThenEnd(g \o r)
    PROVE  NumPages(g) <= NumPages(g \o r)
<1>1. /\ g \o r \in Seq(Items) /\ Len(g \o r) = Len(g) + Len(r)
      /\ \A i \in 1..Len(g) : (g \o r)[i] = g[i]
  BY ConcatFacts, Zenon
<1>2. Len(g) \in Nat /\ Len(r) \in Nat /\ DOMAIN (g \o r) = 1..Len(g \o r)
  BY <1>1, SeqFacts, Zenon
<1>3. CASE Len(r) = 0
  <2>1. g \o r = g
    BY <1>3
  <2> QED BY <2>1, NumPagesFacts
<1>4. CASE Len(r) > 0
  <2>1. ~HasEnd(g)
    <3>1. SUFFICES ASSUME HasEnd(g) PROVE FALSE
      OBVIOUS
    <3>2. Len(g) \in 1..Len(g)
      BY <3>1, <1>2 DEF HasEnd
    <3>3. Len(g) \in 1..Len(g \o r) /\ Len(g \o r) \in 1..Len(g \o r) /\ Len(g) < Len(g \o r)
      BY <3>2, <1>1, <1>2, <1>4
    <3> QED BY <3>1, <3>2, <3>3, <1>1, <1>2, Zenon DEF PagesThenEnd, HasEnd
  <2> QED BY <2>1, <1>1, <1>2, <1>4 DEF NumPages
<1> QED BY <1>2, <1>3, <1>4

(* What a matching destination was sent is a sequence of items. *)
LEMMA MatchesTyped ==
    ASSUME NEW g \in Seq(Items), NEW n \in Nat, NEW t \in Seq(Items), NEW r,
           Matches(g, n, t, r)
    PROVE  /\ n <= Len(g) /\ Joined(g, n, t) \in Seq(Items)
           /\ Len(g) <= n + Len(t)
<1>1. n <= Len(g)
  BY NumPagesFacts, SeqFacts DEF Matches
<1>2. Joined(g, n, t) \in Seq(Items) /\ Len(Joined(g, n, t)) = n + Len(t)
  BY <1>1, JoinedTyped, Zenon
<1> QED BY <1>1, <1>2, Zenon DEF Matches, Starts

(* An item is put in the buffer of the destination. *)
LEMMA MatchesFed ==
    ASSUME NEW g \in Seq(Items), NEW n \in Nat, NEW t \in Seq(Items),
           NEW r \in Seq(Items) \cup {NoResponse}, NEW u \in Seq(Items),
           Matches(g, n, t, r), PagesThenEnd(Joined(g, n, t) \o u)
    PROVE  Matches(g, n, t \o u, r)
<1>1. n <= Len(g) /\ Joined(g, n, t) \in Seq(Items)
  BY MatchesTyped, Zenon
<1>2. Joined(g, n, t \o u) = Joined(g, n, t) \o u
  BY <1>1, JoinedMore
<1>3. Starts(g, Joined(g, n, t) \o u)
  BY <1>1, StartsMore, Zenon DEF Matches
<1>4. ASSUME r # NoResponse PROVE Starts(g \o r, Joined(g, n, t) \o u)
  <2>1. r \in Seq(Items) /\ g \o r \in Seq(Items)
    BY <1>4, ConcatFacts, Zenon
  <2> QED BY <1>1, <1>4, <2>1, StartsMore, Zenon DEF Matches
<1> QED BY <1>2, <1>3, <1>4, Zenon DEF Matches

(* The fetch is answered from the buffer. *)
LEMMA MatchesAnswered ==
    ASSUME NEW g \in Seq(Items), NEW n \in Nat, NEW t \in Seq(Items), NEW r, NEW k \in Nat,
           Matches(g, n, t, r), n = Len(g)
    PROVE  Matches(g, n, t, Prefix(t, k))
<1>1. n <= Len(g) /\ Joined(g, n, t) \in Seq(Items)
  BY MatchesTyped, Zenon
<1>2. Prefix(t, k) \in Seq(Items) /\ Starts(Prefix(t, k), t)
  BY PrefixFacts, Zenon
<1>3. Starts(g \o Prefix(t, k), Joined(g, n, t))
  <2> DEFINE p == Prefix(t, k)
             J == Joined(g, n, t)
  <2>1. /\ J \in Seq(Items) /\ Len(J) = n + Len(t)
        /\ \A i \in 1..n : J[i] = g[i]
        /\ \A i \in 1..Len(t) : J[n + i] = t[i]
    BY <1>1, JoinedTyped, Zenon
  <2>2. /\ g \o p \in Seq(Items) /\ Len(g \o p) = Len(g) + Len(p)
        /\ \A i \in 1..Len(g) : (g \o p)[i] = g[i]
        /\ \A i \in 1..Len(p) : (g \o p)[Len(g) + i] = p[i]
    BY <1>2, ConcatFacts, Zenon
  <2>3. Len(p) \in Nat /\ Len(t) \in Nat /\ Len(g) \in Nat
    BY <1>2, SeqFacts, Zenon
  <2>4. Len(p) <= Len(t) /\ \A i \in 1..Len(p) : i \in 1..Len(t) /\ p[i] = t[i]
    BY <1>2, <2>3 DEF Starts
  <2> HIDE DEF p, J
  <2>5. ASSUME NEW i \in 1..(Len(g) + Len(p)) PROVE (g \o p)[i] = J[i]
    <3>1. i \in 1..Len(g) \/ \E j \in 1..Len(p) : i = Len(g) + j
      BY <2>3, SplitIndex, Zenon
    <3> QED BY <3>1, <2>1, <2>2, <2>4
  <2>6. Len(g) + Len(p) <= n + Len(t)
    BY <2>3, <2>4
  <2> QED BY <2>1, <2>2, <2>5, <2>6, Zenon DEF Starts, p, J
<1> QED BY <1>3, Zenon DEF Matches

(* Acknowledging the first m pages. *)
LEMMA MatchesAcked ==
    ASSUME NEW g \in Seq(Items), NEW n \in Nat, NEW t \in Seq(Items), NEW r, NEW m \in Nat,
           Matches(g, n, t, r), n + m <= NumPages(g)
    PROVE  /\ m <= Len(t) /\ Joined(g, n + m, Suffix(t, m)) = Joined(g, n, t)
           /\ Matches(g, n + m, Suffix(t, m), r)
<1>1. n <= Len(g) /\ Joined(g, n, t) \in Seq(Items) /\ Len(g) <= n + Len(t)
  BY MatchesTyped, Zenon
<1>2. n + m <= Len(g) /\ m <= Len(t)
  BY <1>1, NumPagesFacts, SeqFacts
<1>3. Joined(g, n + m, Suffix(t, m)) = Joined(g, n, t)
  BY <1>1, <1>2, JoinedLess, Zenon DEF Matches
<1> QED BY <1>2, <1>3, Zenon DEF Matches

(* The answer is dropped. *)
LEMMA MatchesTimedOut ==
    ASSUME NEW g, NEW n, NEW t, NEW r, Matches(g, n, t, r)
    PROVE  Matches(g, n, t, NoResponse)
BY Zenon DEF Matches

(* The answer is received. *)
LEMMA MatchesReceived ==
    ASSUME NEW g \in Seq(Items), NEW n \in Nat, NEW t \in Seq(Items), NEW r \in Seq(Items),
           Matches(g, n, t, r), r # NoResponse
    PROVE  /\ Joined(g \o r, n, t) = Joined(g, n, t)
           /\ Matches(g \o r, n, t, NoResponse)
           /\ NumPages(g) <= NumPages(g \o r)
<1>1. n <= Len(g) /\ Joined(g, n, t) \in Seq(Items) /\ g \o r \in Seq(Items)
  BY MatchesTyped, ConcatFacts, Zenon
<1>2. Joined(g \o r, n, t) = Joined(g, n, t)
  BY <1>1, JoinedSame
<1>3. Starts(g \o r, Joined(g, n, t)) /\ PagesThenEnd(Joined(g, n, t))
  BY Zenon DEF Matches
<1>4. NumPages(g) <= NumPages(g \o r)
  BY <1>1, <1>3, StartsRange, NumPagesMore, Zenon
<1>5. n <= NumPages(g \o r)
  <2>1. NumPages(g) \in Nat /\ NumPages(g \o r) \in Nat /\ n <= NumPages(g)
    BY <1>1, NumPagesFacts, Zenon DEF Matches
  <2> QED BY <2>1, <1>4
<1> QED BY <1>2, <1>3, <1>4, <1>5, Zenon DEF Matches

(* After the deletion there is what the consumer has and is to get. *)
LEMMA MatchesDeleted ==
    ASSUME NEW g \in Seq(Items), NEW n \in Nat, NEW t \in Seq(Items),
           NEW r \in Seq(Items) \cup {NoResponse}, Matches(g, n, t, r)
    PROVE  /\ g \o AnswerOf(r) \in Seq(Items) /\ Starts(g \o AnswerOf(r), Joined(g, n, t))
           /\ g \o <<>> = g /\ Starts(g, Joined(g, n, t))
<1>1. g \o <<>> = g
  OBVIOUS
<1>2. Starts(g, Joined(g, n, t))
  BY Zenon DEF Matches
<1>3. CASE r = NoResponse
  BY <1>1, <1>2, <1>3, Zenon DEF AnswerOf
<1>4. CASE r # NoResponse
  BY <1>1, <1>2, <1>4, ConcatFacts, Zenon DEF AnswerOf, Matches
<1> QED BY <1>3, <1>4, Zenon

-----------------------------------------------------------------------------
(* Sets and numbers. *)

(* The constants, and the sets of items made from them. *)
LEMMA ConstantsTyped ==
    /\ FetchPages \in Nat /\ FetchPages > 0 /\ End \in Items /\ Pages \subseteq Items
    /\ Items \subseteq Int /\ NoResponse \notin Seq(Items) /\ PageSize \in Nat /\ PageSize > 0
<1>1. NoResponse \notin Seq(Items)
  BY SizesAssumption DEF NoResponse, Items, Pages, End
<1>2. Items \subseteq Int /\ End \in Items /\ Pages \subseteq Items
  BY SizesAssumption DEF Items, Pages, End
<1> QED BY <1>1, <1>2, SizesAssumption

(* What the lemmas use of finite sets and of sets of numbers; CountedHolds of *)
(* OutputBufferProofs proves it.                                             *)
Counted ==
    /\ \A D \in SUBSET Dests : Cardinality(D) \in Nat /\ (Cardinality(D) = 0 <=> D = {})
    /\ \A P \in SUBSET Producers :
          /\ Cardinality(P) \in Nat /\ Cardinality(P) <= Cardinality(Producers)
          /\ Cardinality(P) = Cardinality(Producers) => P = Producers
          /\ \A p \in Producers \ P : Cardinality(P \cup {p}) = Cardinality(P) + 1
    /\ \A P, Q \in SUBSET Pages :
          /\ Cardinality(P) \in Nat
          /\ P \cap Q = {} => Cardinality(P \cup Q) = Cardinality(P) + Cardinality(Q)
    /\ \A page \in Pages : Cardinality({page}) = 1
    /\ \A V \in SUBSET Nat : V # {} => \E x \in V : \A y \in V : x <= y

(* Among finitely many destinations one has the first turn. *)
LEMMA FirstTurn ==
    ASSUME Counted, NEW n, NEW turn \in [1..n -> Nat], NEW T, T \subseteq 1..n, T # {}
    PROVE  \E d \in T : \A e \in T : turn[d] <= turn[e]
<1> DEFINE V == {turn[d] : d \in T}
<1>1. V \in SUBSET Nat /\ V # {}
  BY Zenon
<1>2. \E x \in V : \A y \in V : x <= y
  BY <1>1, Zenon DEF Counted
<1>3. PICK x \in V : \A y \in V : x <= y
  BY <1>2, Zenon
<1>4. PICK d \in T : x = turn[d]
  BY <1>3, Zenon
<1>5. \A e \in T : turn[e] \in V
  BY Zenon
<1> QED BY <1>3, <1>4, <1>5, Zenon

(* Enqueueing keeps the type of the buffers. *)
LEMMA EnqueuedTyped ==
    ASSUME NEW s \in Seq(Items), NEW u \in Seq(Items)
    PROVE  Enqueued(s, u) \in Seq(Items)
BY ConcatFacts, Zenon DEF Enqueued

(* So does the creation of buffers. *)
LEMMA WithBuffersTyped ==
    ASSUME Types, NEW n
    PROVE  WithBuffers(n) \in [Dests -> Seq(Items)]
<1>1. /\ data \in [Dests -> Seq(Items)] /\ dataToBroadcast \in Seq(Items)
  BY Zenon DEF Types
<1>2. <<End>> \in Seq(Items) /\ <<>> \in Seq(Items)
  BY ConstantsTyped
<1>3. dataToBroadcast \o (IF atEnd THEN <<End>> ELSE <<>>) \in Seq(Items)
  BY <1>1, <1>2, ConcatFacts, Zenon
<1> QED BY <1>1, <1>3, Zenon DEF WithBuffers

(* Those that wait for data, and what they find. *)
Waiting == {d \in Dests : Live(d) /\ notify[d] # "none"}
Ahead(turn, d) == {e \in Waiting : turn[e] < turn[d]}
LeftFor(turn, arb, d) == After(arb, Cardinality(Ahead(turn, d)))

LoadedData(turn, arb) ==
    [d \in Dests |-> IF d \in Waiting THEN Enqueued(data[d], Taken(LeftFor(turn, arb, d)))
                     ELSE data[d]]

(* What the loading of arbitrary output leaves in the shared buffer. *)
LEMMA LoadArb ==
    ASSUME NEW turn, NEW arb
    PROVE  LoadWaiting(turn, arb).arb = After(arb, Cardinality(Waiting))
BY DEF LoadWaiting, Waiting

(* What it puts into the buffers. *)
LEMMA LoadData ==
    ASSUME NEW turn, NEW arb
    PROVE  LoadWaiting(turn, arb).data = LoadedData(turn, arb)
BY DEF LoadWaiting, LoadedData, Waiting, Ahead, LeftFor

(* The turns of the destinations are natural numbers. *)
LEMMA TurnsTyped ==
    ASSUME Types
    PROVE  /\ RoundRobin \in [1..numBuffers -> Nat] /\ InOrder \in [1..numBuffers -> Nat]
           /\ \A d, e \in 1..numBuffers : RoundRobin[d] = RoundRobin[e] => d = e
           /\ \A d, e \in 1..numBuffers : InOrder[d] = InOrder[e] => d = e
<1>1. numBuffers \in Nat /\ nextLoad \in 1..numBuffers
  BY SizesAssumption DEF Types
<1>2. RoundRobin \in [1..numBuffers -> Nat]
  BY <1>1 DEF RoundRobin
<1>3. \A d, e \in 1..numBuffers : RoundRobin[d] = RoundRobin[e] => d = e
  BY <1>1 DEF RoundRobin
<1>4. InOrder \in [1..numBuffers -> Nat] /\ \A d, e \in 1..numBuffers : InOrder[d] = InOrder[e] => d = e
  BY <1>1 DEF InOrder
<1> QED BY <1>2, <1>3, <1>4, Zenon

-----------------------------------------------------------------------------
(* Types. *)

(* The pages received are those the consumer has. *)
LEMMA ReceivedIs ==
    ASSUME Types, NEW d \in Dests
    PROVE  Received(d) \in Seq(Items) /\ Len(Received(d)) = NumPages(got[d])
<1>1. got[d] \in Seq(Items)
  BY Zenon DEF Types
<1>2. CASE HasEnd(got[d])
  <2> DEFINE n == Len(got[d])
  <2>1. n \in Nat /\ n > 0
    BY <1>1, <1>2 DEF HasEnd
  <2>2. Prefix(got[d], n - 1) = SubSeq(got[d], 1, n - 1)
    BY <1>1, <2>1 DEF Prefix
  <2>3. SubSeq(got[d], 1, n - 1) \in Seq(Items) /\ Len(SubSeq(got[d], 1, n - 1)) = n - 1
    BY <1>1, <2>1
  <2> QED BY <1>2, <2>2, <2>3, Zenon DEF Received, NumPages
<1>3. CASE ~HasEnd(got[d])
  BY <1>1, <1>3, Zenon DEF Received, NumPages
<1> QED BY <1>2, <1>3, Zenon

(* The items of a sequence of items. *)
LEMMA RangeTyped ==
    ASSUME NEW s \in Seq(Items)
    PROVE  Range(s) \subseteq Items /\ Range(s) \ {End} \subseteq Pages
<1>1. DOMAIN s = 1..Len(s) /\ \A i \in 1..Len(s) : s[i] \in Items
  BY SeqFacts, Zenon
<1> QED BY <1>1, Zenon DEF Range, Items

(* Only pages are freed. *)
LEMMA FreedTyped ==
    ASSUME Types, NEW d \in Dests, NEW n \in Nat, n <= Len(data[d])
    PROVE  Freed(d, n) \subseteq Pages /\ Freed(d, n) \subseteq Range(data[d])
<1>1. data[d] \in Seq(Items)
  BY Zenon DEF Types
<1>2. SubSeq(data[d], 1, n) \in Seq(Items) /\ Starts(SubSeq(data[d], 1, n), data[d])
  BY <1>1, SeqFacts DEF Starts
<1> QED BY <1>1, <1>2, RangeTyped, StartsRange, Zenon DEF Freed

(* How many pages an acknowledgement frees. *)
LEMMA NumAckedIs ==
    ASSUME Types, NEW d \in Dests, NEW s \in Nat, NEW m \in Nat, s <= m, sequence[d] <= m
    PROVE  NumAcked(d, s) \in Nat /\ sequence[d] + NumAcked(d, s) <= m
<1>1. sequence[d] \in Nat
  BY Zenon DEF Types
<1> QED BY <1>1 DEF NumAcked

(* An acknowledgement of pages that the consumer has. *)
LEMMA AckFacts ==
    ASSUME Types, NEW d \in Dests, MatchInv(d), ~deleted[d], NEW s \in Nat, s <= NumPages(got[d])
    PROVE  LET n == NumAcked(d, s)
           IN  /\ n \in Nat /\ n <= Len(data[d])
               /\ Suffix(data[d], n) \in Seq(Items) /\ Freed(d, n) \subseteq Pages
               /\ Joined(got[d], sequence[d] + n, Suffix(data[d], n))
                    = Joined(got[d], sequence[d], data[d])
               /\ Matches(got[d], sequence[d] + n, Suffix(data[d], n), response[d])
<1> DEFINE n == NumAcked(d, s)
<1>1. /\ got[d] \in Seq(Items) /\ data[d] \in Seq(Items) /\ sequence[d] \in Nat
  BY Zenon DEF Types
<1>2. Matches(got[d], sequence[d], data[d], response[d])
  BY Zenon DEF MatchInv
<1>3. NumPages(got[d]) \in Nat /\ sequence[d] <= NumPages(got[d])
  BY <1>1, <1>2, NumPagesFacts, Zenon DEF Matches
<1>4. n \in Nat /\ sequence[d] + n <= NumPages(got[d])
  BY <1>3, NumAckedIs, Zenon
<1> HIDE DEF n
<1>5. /\ n <= Len(data[d])
      /\ Joined(got[d], sequence[d] + n, Suffix(data[d], n)) = Joined(got[d], sequence[d], data[d])
      /\ Matches(got[d], sequence[d] + n, Suffix(data[d], n), response[d])
  BY <1>1, <1>2, <1>4, MatchesAcked, ZenonT(30)
<1>6. Suffix(data[d], n) \in Seq(Items) /\ Freed(d, n) \subseteq Pages
  BY <1>1, <1>4, <1>5, SuffixFacts, FreedTyped, Zenon
<1> QED BY <1>4, <1>5, <1>6, Zenon DEF n

(* The buffers after getOrCreate, at each destination. *)
LEMMA WithBuffersIs ==
    ASSUME Types, NEW n, NEW e \in Dests
    PROVE  /\ e <= numBuffers \/ kind # "kBroadcast" \/ n = numBuffers =>
                WithBuffers(n)[e] = data[e]
           /\ n = numBuffers => WithBuffers(n) = data
           /\ WithBuffers(n)[e] \in
                {data[e], dataToBroadcast \o (IF atEnd THEN <<End>> ELSE <<>>)}
<1>1. e \in Nat /\ numBuffers \in Nat /\ data \in [Dests -> Seq(Items)]
  BY SizesAssumption DEF Types, Dests
<1>2. e <= numBuffers \/ n = numBuffers => e \notin (numBuffers + 1)..n
  BY <1>1
<1>3. \A x \in Dests : n = numBuffers => x \notin (numBuffers + 1)..n
  BY <1>1 DEF Dests
<1>4. n = numBuffers => WithBuffers(n) = data
  BY <1>1, <1>3, Zenon DEF WithBuffers
<1> QED BY <1>2, <1>4, Zenon DEF WithBuffers

(* The values that a fetch goes through. *)
Grown(d) == IF d > numBuffers THEN d ELSE numBuffers
Acked(d) == NumAcked(d, Len(Received(d)))
Kept(d) == Suffix(WithBuffers(Grown(d))[d], Acked(d))
Loads == kind = "kArbitrary" /\ arbitrary # <<>>
Loaded(d) == IF Loads THEN Enqueued(Kept(d), Taken(arbitrary)) ELSE Kept(d)

(* The step of a fetch, spelled out. *)
LEMMA GetDataIs ==
    ASSUME Types, NEW d \in Dests, GetData(d)
    PROVE  /\ pending[d] = Idle /\ ~request[d] /\ ~AtEnd(d) /\ ~deleted[d]
           /\ d > numBuffers => ~noMoreBuffers
           /\ numBuffers' = Grown(d)
           /\ data' = [WithBuffers(Grown(d)) EXCEPT ![d] = Loaded(d)]
           /\ sequence' = [sequence EXCEPT ![d] = @ + Acked(d)]
           /\ arbitrary' = IF Loads THEN Rest(arbitrary) ELSE arbitrary
           /\ UpdateAfterAcknowledge(d, Freed(d, Acked(d)),
                                     [WithBuffers(Grown(d)) EXCEPT ![d] = Kept(d)],
                                     dataToBroadcast, FALSE)
           /\ request' = [request EXCEPT ![d] = TRUE]
           /\ notify' = [notify EXCEPT ![d] = IF Loaded(d) = <<>> THEN "live" ELSE @]
           /\ response' = [response EXCEPT ![d] =
                              IF Loaded(d) = <<>> THEN NoResponse ELSE Prefix(Loaded(d), FetchPages)]
           /\ UNCHANGED <<kind, noMoreBuffers, dataToBroadcast, nextLoad, driverVars, deleted, consumed,
                          producerVars, got, acks>>
<1> DEFINE W == WithBuffers(Grown(d))
           k == [W EXCEPT ![d] = Suffix(@, Acked(d))]
           items == IF Loads THEN Enqueued(k[d], Taken(arbitrary)) ELSE k[d]
<1>1. /\ data' = [k EXCEPT ![d] = items]
      /\ UpdateAfterAcknowledge(d, Freed(d, Acked(d)), k, dataToBroadcast, FALSE)
      /\ notify' = [notify EXCEPT ![d] = IF items = <<>> THEN "live" ELSE @]
      /\ response' = [response EXCEPT ![d] =
                         IF items = <<>> THEN NoResponse ELSE Prefix(items, FetchPages)]
  BY Zenon DEF GetData, Grown, Acked, Loads
<1>2. W \in [Dests -> Seq(Items)]
  BY WithBuffersTyped, Zenon
<1>3. k = [W EXCEPT ![d] = Kept(d)]
  BY Zenon DEF Kept
<1>4. k[d] = Kept(d)
  BY <1>2, <1>3, Zenon
<1>5. items = Loaded(d)
  <2> HIDE DEF k
  <2> QED BY <1>4, Zenon DEF Loaded
<1> HIDE DEF W, items
<1>6. [k EXCEPT ![d] = Loaded(d)] = [W EXCEPT ![d] = Loaded(d)]
  <2>1. [[W EXCEPT ![d] = Kept(d)] EXCEPT ![d] = Loaded(d)] = [W EXCEPT ![d] = Loaded(d)]
    BY <1>2, Zenon
  <2> HIDE DEF k
  <2> QED BY <1>3, <2>1, Zenon
<1>7. /\ pending[d] = Idle /\ ~request[d] /\ ~AtEnd(d) /\ ~deleted[d]
      /\ d > numBuffers => ~noMoreBuffers
      /\ numBuffers' = Grown(d)
      /\ sequence' = [sequence EXCEPT ![d] = @ + Acked(d)]
      /\ arbitrary' = IF Loads THEN Rest(arbitrary) ELSE arbitrary
      /\ request' = [request EXCEPT ![d] = TRUE]
      /\ UNCHANGED <<kind, noMoreBuffers, dataToBroadcast, nextLoad, driverVars, deleted, consumed,
                     producerVars, got, acks>>
  BY Zenon DEF GetData, Grown, Acked, Loads
<1> HIDE DEF k
<1> QED BY <1>1, <1>3, <1>5, <1>6, <1>7, Zenon DEF W

(* The parts of a fetch: what is acknowledged, kept and loaded. *)
LEMMA GetDataParts ==
    ASSUME Types, NEW d \in Dests, MatchInv(d), NewInv(d), ~deleted[d]
    PROVE  /\ Acked(d) \in Nat /\ Acked(d) <= Len(data[d]) /\ Freed(d, Acked(d)) \subseteq Pages
           /\ Kept(d) \in Seq(Items) /\ Taken(arbitrary) \in Seq(Items) /\ Loaded(d) \in Seq(Items)
           /\ d <= numBuffers => Grown(d) = numBuffers /\ Kept(d) = Suffix(data[d], Acked(d))
           /\ d > numBuffers => Grown(d) = d /\ Acked(d) = 0 /\ Kept(d) = WithBuffers(d)[d]
<1>1. /\ got[d] \in Seq(Items) /\ data[d] \in Seq(Items) /\ sequence[d] \in Nat
      /\ arbitrary \in Seq(Items)
  BY Zenon DEF Types
<1>2. d \in Nat /\ numBuffers \in Nat
  BY SizesAssumption DEF Dests, Types
<1>3. Len(Received(d)) = NumPages(got[d]) /\ NumPages(got[d]) \in Nat
  BY <1>1, ReceivedIs, NumPagesFacts, Zenon
<1>4. NumPages(got[d]) <= NumPages(got[d])
  BY <1>3
<1>5. /\ Acked(d) \in Nat /\ Acked(d) <= Len(data[d]) /\ Freed(d, Acked(d)) \subseteq Pages
      /\ Suffix(data[d], Acked(d)) \in Seq(Items)
  BY <1>3, <1>4, AckFacts, Zenon DEF Acked
<1>6. ASSUME d <= numBuffers
      PROVE  Grown(d) = numBuffers /\ Kept(d) = Suffix(data[d], Acked(d)) /\ Kept(d) \in Seq(Items)
  <2>1. Grown(d) = numBuffers
    BY <1>2, <1>6 DEF Grown
  <2> QED BY <1>5, <1>6, <2>1, WithBuffersIs, Zenon DEF Kept
<1>7. ASSUME d > numBuffers
      PROVE  Grown(d) = d /\ Acked(d) = 0 /\ Kept(d) = WithBuffers(d)[d] /\ Kept(d) \in Seq(Items)
  <2>1. Grown(d) = d
    BY <1>7, Zenon DEF Grown
  <2>2. data[d] = <<>>
    BY <1>7, Zenon DEF NewInv
  <2>3. Acked(d) = 0
    BY <1>5, <2>2
  <2>4. WithBuffers(d)[d] \in Seq(Items)
    BY WithBuffersTyped, Zenon
  <2> QED BY <2>1, <2>3, <2>4, SuffixNone, Zenon DEF Kept
<1>8. d <= numBuffers \/ d > numBuffers
  BY <1>2
<1>9. Kept(d) \in Seq(Items)
  BY <1>6, <1>7, <1>8, Zenon
<1>10. Taken(arbitrary) \in Seq(Items)
  BY <1>1, PrefixFacts, ConstantsTyped, Zenon DEF Taken
<1>11. Loaded(d) \in Seq(Items)
  BY <1>9, <1>10, EnqueuedTyped, Zenon DEF Loaded
<1> QED BY <1>5, <1>6, <1>7, <1>9, <1>10, <1>11, Zenon

-----------------------------------------------------------------------------
(* Steps of a destination. *)

SameDest(e) ==
    /\ data'[e] = data[e] /\ sequence'[e] = sequence[e] /\ notify'[e] = notify[e]
    /\ deleted'[e] = deleted[e] /\ got'[e] = got[e] /\ request'[e] = request[e]
    /\ response'[e] = response[e] /\ acks'[e] = acks[e]

(* u is enqueued for e, and a waiting fetch is answered. *)
Feeds(e, u) ==
    /\ data'[e] = data[e] \o u /\ sequence'[e] = sequence[e] /\ deleted'[e] = deleted[e]
    /\ got'[e] = got[e] /\ request'[e] = request[e] /\ acks'[e] = acks[e]
    /\ ~Live(e) => u = <<>>
    /\ \/ /\ notify'[e] = "none"
          /\ response'[e] = IF notify[e] = "live" THEN Prefix(data'[e], FetchPages) ELSE response[e]
       \/ u = <<>> /\ notify'[e] = notify[e] /\ response'[e] = response[e]

(* The state of one destination. *)
LEMMA DestTyped ==
    ASSUME Types, NEW e \in Dests
    PROVE  /\ data[e] \in Seq(Items) /\ got[e] \in Seq(Items) /\ sequence[e] \in Nat
           /\ response[e] \in Seq(Items) \cup {NoResponse} /\ acks[e] \subseteq Nat
BY Zenon DEF Types

(* What a destination was sent is a sequence of items. *)
LEMMA SentTyped ==
    ASSUME Types, NEW e \in Dests, MatchInv(e)
    PROVE  /\ Sent(e) \in Seq(Items) /\ PagesThenEnd(Sent(e))
           /\ ~deleted[e] => Range(data[e]) \subseteq Range(Sent(e))
<1>1. /\ data[e] \in Seq(Items) /\ got[e] \in Seq(Items) /\ sequence[e] \in Nat
      /\ response[e] \in Seq(Items) \cup {NoResponse}
  BY DestTyped, Zenon
<1>2. CASE deleted[e]
  <2>1. AnswerOf(response[e]) \in Seq(Items)
    BY <1>1, RangeNone, Zenon DEF AnswerOf
  <2>2. got[e] \o AnswerOf(response[e]) \in Seq(Items)
    BY <1>1, <2>1, ConcatFacts, Zenon
  <2> QED BY <1>2, <2>2, Zenon DEF Sent, MatchInv
<1>3. CASE ~deleted[e]
  <2> DEFINE J == Joined(got[e], sequence[e], data[e])
  <2>1. Matches(got[e], sequence[e], data[e], response[e])
    BY <1>3, Zenon DEF MatchInv
  <2>2. J \in Seq(Items) /\ sequence[e] <= Len(got[e])
    BY <1>1, <2>1, MatchesTyped, Zenon
  <2>3. PagesThenEnd(J)
    BY <2>1, Zenon DEF Matches
  <2>4. /\ Len(J) = sequence[e] + Len(data[e])
        /\ \A i \in 1..Len(data[e]) : J[sequence[e] + i] = data[e][i]
    BY <1>1, <2>2, JoinedTyped, Zenon
  <2> HIDE DEF J
  <2>5. DOMAIN J = 1..(sequence[e] + Len(data[e])) /\ Len(data[e]) \in Nat /\ DOMAIN data[e] = 1..Len(data[e])
    BY <1>1, <2>2, <2>4, SeqFacts, Zenon
  <2>6. \A i \in 1..Len(data[e]) : sequence[e] + i \in 1..(sequence[e] + Len(data[e]))
    BY <1>1, <2>5, Shifted, Zenon
  <2>7. Range(data[e]) \subseteq Range(J)
    BY <2>4, <2>5, <2>6, Zenon DEF Range
  <2>8. Sent(e) = J
    BY <1>3, Zenon DEF Sent, J
  <2> QED BY <2>2, <2>3, <2>7, <2>8, Zenon
<1> QED BY <1>2, <1>3, Zenon

(* What was sent stays, when the destination does. *)
LEMMA SameSent ==
    ASSUME NEW e, SameDest(e)
    PROVE  Sent(e)' = Sent(e)
BY Zenon DEF SameDest, Sent

(* So does how it matches. *)
LEMMA SameMatch ==
    ASSUME NEW e, MatchInv(e), SameDest(e)
    PROVE  MatchInv(e)'
<1>1. Sent(e)' = Sent(e)
  BY SameSent, Zenon
<1> QED BY <1>1, Zenon DEF SameDest, MatchInv

(* A destination that is given items: how they match. *)
LEMMA FeedMatch ==
    ASSUME Types, NEW e \in Dests, MatchInv(e), WaitInv(e), NEW u \in Seq(Items), Feeds(e, u),
           PagesThenEnd(Sent(e) \o u)
    PROVE  MatchInv(e)' /\ Sent(e)' = Sent(e) \o u
<1>1. /\ data[e] \in Seq(Items) /\ got[e] \in Seq(Items) /\ sequence[e] \in Nat
      /\ response[e] \in Seq(Items) \cup {NoResponse}
  BY DestTyped, Zenon
<1>2. /\ data'[e] = data[e] \o u /\ sequence'[e] = sequence[e] /\ deleted'[e] = deleted[e]
      /\ got'[e] = got[e] /\ request'[e] = request[e] /\ acks'[e] = acks[e]
  BY Zenon DEF Feeds
<1>3. CASE deleted[e]
  <2>1. u = <<>> /\ notify[e] = "none"
    BY <1>3, Zenon DEF Feeds, WaitInv, Live
  <2>2. response'[e] = response[e]
    BY <2>1 DEF Feeds
  <2>3. data[e] \o u = data[e]
    BY <1>1, <2>1
  <2>4. SameDest(e) \/ notify'[e] = "none"
    BY <1>2, <2>2, <2>3, Zenon DEF Feeds, SameDest
  <2>5. SameDest(e)
    BY <1>2, <2>1, <2>2, <2>3, <2>4, Zenon DEF SameDest
  <2>6. Sent(e) \o u = Sent(e)
    BY <2>1, SentTyped
  <2> QED BY <2>5, <2>6, SameMatch, SameSent, Zenon
<1>4. CASE ~deleted[e]
  <2>1. Matches(got[e], sequence[e], data[e], response[e]) /\ sequence[e] <= Len(got[e])
    BY <1>1, <1>4, MatchesTyped, Zenon DEF MatchInv
  <2>2. Sent(e) = Joined(got[e], sequence[e], data[e])
    BY <1>4, Zenon DEF Sent
  <2>3. Matches(got[e], sequence[e], data[e] \o u, response[e])
    BY <1>1, <2>1, <2>2, MatchesFed, Zenon
  <2>4. Sent(e)' = Sent(e) \o u
    <3>1. Sent(e)' = Joined(got[e], sequence[e], data[e] \o u)
      BY <1>2, <1>4, Zenon DEF Sent
    <3>2. Joined(got[e], sequence[e], data[e] \o u) = Joined(got[e], sequence[e], data[e]) \o u
      BY <1>1, <2>1, JoinedMore, Zenon
    <3> QED BY <2>2, <3>1, <3>2, Zenon
  <2>5. CASE response'[e] = response[e]
    BY <1>2, <1>4, <2>3, <2>4, <2>5, Zenon DEF MatchInv
  <2>6. CASE response'[e] # response[e]
    <3>1. notify[e] = "live" /\ response'[e] = Prefix(data[e] \o u, FetchPages)
      BY <1>2, <2>6, Zenon DEF Feeds
    <3>2. sequence[e] = Len(got[e]) /\ request[e]
      BY <3>1 DEF WaitInv
    <3>3. data[e] \o u \in Seq(Items)
      BY <1>1, ConcatFacts, Zenon
    <3>4. FetchPages \in Nat
      BY ConstantsTyped, Zenon
    <3>5. Matches(got[e], sequence[e], data[e] \o u, Prefix(data[e] \o u, FetchPages))
      BY <1>1, <2>3, <3>2, <3>3, <3>4, MatchesAnswered, Zenon
    <3> QED BY <1>2, <1>4, <2>4, <3>1, <3>2, <3>5, Zenon DEF MatchInv
  <2> QED BY <2>4, <2>5, <2>6, Zenon
<1> QED BY <1>3, <1>4, Zenon

(* A destination that is given items: who waits. *)
LEMMA FeedWait ==
    ASSUME Types, NEW e \in Dests, WaitInv(e), NEW u \in Seq(Items), Feeds(e, u),
           numBuffers' = numBuffers, notify'[e] # "none" => arbitrary' = <<>>
    PROVE  WaitInv(e)'
<1>1. /\ data[e] \in Seq(Items) /\ response[e] \in Seq(Items) \cup {NoResponse}
  BY DestTyped, Zenon
<1>2. Live(e)' <=> Live(e)
  BY Zenon DEF Feeds, Live
<1>3. CASE notify'[e] = "none" /\ response'[e] = IF notify[e] = "live" THEN Prefix(data'[e], FetchPages) ELSE response[e]
  <2>1. notify[e] = "live" => response'[e] # NoResponse
    <3>1. data[e] \o u \in Seq(Items)
      BY <1>1, ConcatFacts, Zenon
    <3>2. Prefix(data[e] \o u, FetchPages) \in Seq(Items)
      BY <3>1, ConstantsTyped, PrefixFacts, Zenon
    <3> QED BY <1>3, <3>2, ConstantsTyped, Zenon DEF Feeds
  <2>2. notify[e] # "live" => response'[e] = response[e]
    BY <1>3, Zenon
  <2> QED BY <1>2, <1>3, <2>1, <2>2, Zenon DEF WaitInv, Feeds
<1>4. CASE u = <<>> /\ notify'[e] = notify[e] /\ response'[e] = response[e]
  <2>1. data'[e] = data[e]
    BY <1>1, <1>4 DEF Feeds
  <2> QED BY <1>2, <1>4, <2>1, Zenon DEF WaitInv, Feeds
<1> QED BY <1>3, <1>4, Zenon DEF Feeds

(* A destination that is given items: a new one stays new. *)
LEMMA FeedNew ==
    ASSUME Types, NEW e \in Dests, NewInv(e), NEW u \in Seq(Items), Feeds(e, u),
           numBuffers' = numBuffers, pending'[e] = pending[e]
    PROVE  NewInv(e)'
<1> SUFFICES ASSUME e > numBuffers PROVE NewInv(e)'
  BY Zenon DEF NewInv
<1>1. ~Live(e)
  <2>1. e \in Int /\ numBuffers \in Int
    BY SizesAssumption DEF Types, Dests
  <2> QED BY <2>1 DEF Live
<1>2. u = <<>> /\ data[e] = <<>>
  BY <1>1, Zenon DEF Feeds, NewInv
<1>3. data'[e] = <<>>
  BY <1>2 DEF Feeds
<1>4. notify[e] = "none" /\ notify[e] # "live"
  BY Zenon DEF NewInv
<1>5. notify'[e] = "none" /\ response'[e] = response[e]
  BY <1>4, Zenon DEF Feeds
<1> QED BY <1>3, <1>5, Zenon DEF Feeds, NewInv

(* What was sent is of the pages produced so far. *)
LEMMA SentSoFar ==
    ASSUME Types, ContentInv, KindInv, NEW e \in Dests, MatchInv(e), NewInv(e)
    PROVE  /\ Range(Sent(e)) \subseteq (1..produced) \cup {End}
           /\ Ended(e) => atEnd
<1>1. CASE e > numBuffers
  <2>1. /\ got[e] \in Seq(Items) /\ data[e] \in Seq(Items)
        /\ sequence[e] = 0 /\ data[e] = <<>> /\ ~deleted[e]
    BY <1>1, DestTyped, Zenon DEF NewInv
  <2>2. Joined(got[e], 0, <<>>) = <<>>
    BY DEF Joined
  <2>3. Sent(e) = <<>>
    BY <2>1, <2>2, Zenon DEF Sent
  <2>4. Range(Sent(e)) = {}
    BY <2>3, RangeNone, Zenon
  <2> QED BY <2>4, Zenon DEF Ended
<1>2. CASE ~(e > numBuffers) /\ kind # "kArbitrary"
  <2>1. e \in 1..numBuffers
    BY <1>2, SizesAssumption DEF Dests, Types
  <2>2. CopyInv(e)
    BY <1>2, <2>1, Zenon DEF ContentInv
  <2>3. PagesFor(e) \subseteq 1..produced
    BY Zenon DEF PagesFor
  <2> QED BY <2>2, <2>3, Zenon DEF CopyInv
<1>3. CASE kind = "kArbitrary"
  <2>1. ShareInv
    BY <1>3, Zenon DEF ContentInv
  <2>2. Ended(e) => End \in Range(arbitrary)
    <3> SUFFICES ASSUME Ended(e) PROVE End \in Range(arbitrary)
      OBVIOUS
    <3>1. arbitrary = <<End>>
      BY <2>1, Zenon DEF ShareInv
    <3>2. Range(<<End>>) = {End}
      BY RangeOne, ConstantsTyped, Zenon
    <3> QED BY <3>1, <3>2, Zenon
  <2> QED BY <2>1, <2>2, Zenon DEF ShareInv
<1> QED BY <1>1, <1>2, <1>3, Zenon

(* The next page, or the end, may follow what was sent. *)
LEMMA FedInOrder ==
    ASSUME Types, ContentInv, KindInv, NEW e \in Dests, MatchInv(e), NewInv(e), ~atEnd,
           NEW x \in Items, x = End \/ x = produced + 1
    PROVE  PagesThenEnd(Sent(e) \o <<x>>)
<1>1. Sent(e) \in Seq(Items) /\ PagesThenEnd(Sent(e))
  BY SentTyped, Zenon
<1>2. Range(Sent(e)) \subseteq (1..produced) \cup {End} /\ End \notin Range(Sent(e))
  BY SentSoFar, Zenon DEF Ended
<1>3. \A y \in Range(Sent(e)) : y # End /\ (x = End \/ y < x)
  <2>1. \A y \in 1..produced : y < produced + 1
    BY SizesAssumption DEF Types
  <2> QED BY <1>2, <2>1, Zenon
<1>4. <<x>> \in Seq(Items) /\ Range(<<x>>) = {x} /\ PagesThenEnd(<<x>>)
  BY RangeOne, OrderOne, Zenon
<1> QED BY <1>1, <1>3, <1>4, OrderMore, Zenon

-----------------------------------------------------------------------------
(* Loading the waiting destinations of arbitrary output. *)

(* A product with a positive number. *)
LEMMA TimesPositive ==
    ASSUME NEW n \in Nat, NEW m \in Nat, m > 0
    PROVE  n * m \in Nat /\ (n > 0 => n * m >= 1) /\ 0 * m = 0
OBVIOUS

(* Taking nothing leaves everything. *)
LEMMA AfterNone ==
    ASSUME NEW s \in Seq(Items)
    PROVE  After(s, 0) = s
<1>1. 0 * FetchPages = 0
  BY ConstantsTyped, TimesPositive, Zenon
<1>2. Len(s) > 0 => Suffix(s, 0) = s
  BY DEF Suffix
<1>3. ~(Len(s) > 0) => s = <<>> /\ ~HasEnd(s)
  BY DEF HasEnd
<1> QED BY <1>1, <1>2, <1>3, Zenon DEF After

(* A sequence of one item. *)
LEMMA OneItem ==
    ASSUME NEW x \in Items
    PROVE  /\ <<x>> \in Seq(Items) /\ Len(<<x>>) = 1 /\ <<x>> # <<>>
           /\ (HasEnd(<<x>>) <=> x = End) /\ ~HasEnd(<<>>)
BY DEF HasEnd

(* Taking from one item: only the end marker stays. *)
LEMMA AfterOne ==
    ASSUME NEW x \in Items, NEW n \in Nat
    PROVE  /\ After(<<x>>, 0) = <<x>>
           /\ n > 0 /\ x # End => After(<<x>>, n) = <<>>
           /\ n > 0 /\ x = End => After(<<x>>, n) = <<End>>
<1>1. After(<<x>>, 0) = <<x>>
  BY AfterNone, OneItem, Zenon
<1>2. n > 0 => ~(Len(<<x>>) > n * FetchPages)
  <2>1. n * FetchPages \in Nat /\ (n > 0 => n * FetchPages >= 1)
    BY ConstantsTyped, TimesPositive, Zenon
  <2>2. \A k \in Nat : k >= 1 => ~(1 > k)
    OBVIOUS
  <2> QED BY <2>1, <2>2, OneItem, Zenon
<1> QED BY <1>1, <1>2, OneItem, Zenon DEF After

(* What is taken from one item. *)
LEMMA TakenOne ==
    ASSUME NEW x \in Items
    PROVE  Taken(<<x>>) = <<x>>
<1>1. Len(<<x>>) <= FetchPages
  BY ConstantsTyped
<1> QED BY <1>1, Zenon DEF Taken, Prefix

(* Nobody waits: the items stay in the shared buffer. *)
LEMMA LoadNobody ==
    ASSUME Types, Counted, NEW turn, NEW arb \in Seq(Items), Waiting = {}
    PROVE  LoadWaiting(turn, arb).arb = arb /\ \A d \in Dests : LoadWaiting(turn, arb).data[d] = data[d]
<1>1. Cardinality(Waiting) = 0
  BY Zenon DEF Counted
<1>2. LoadWaiting(turn, arb).arb = arb
  BY <1>1, LoadArb, AfterNone, Zenon
<1>3. \A d \in Dests : LoadedData(turn, arb)[d] = data[d]
  BY Zenon DEF LoadedData
<1> QED BY <1>2, <1>3, LoadData, Zenon

(* For a destination that waits there is nothing. *)
LEMMA SomeoneWaits ==
    ASSUME Types, QueueInv, NEW e \in Waiting
    PROVE  arbitrary = <<>> /\ data[e] = <<>> /\ e \in 1..numBuffers /\ e \in Dests
<1>1. e \in Dests /\ Live(e) /\ notify[e] # "none"
  BY Zenon DEF Waiting
<1>2. e \in 1..numBuffers
  BY <1>1, SizesAssumption DEF Live, Dests, Types
<1> QED BY <1>1, <1>2, Zenon DEF QueueInv, WaitInv

(* The number of destinations that wait. *)
LEMMA NumWaiting ==
    ASSUME Counted, NEW e \in Waiting, NEW turn, NEW d
    PROVE  /\ Cardinality(Waiting) \in Nat /\ Cardinality(Waiting) > 0
           /\ Cardinality(Ahead(turn, d)) \in Nat
           /\ Ahead(turn, d) = {} => Cardinality(Ahead(turn, d)) = 0
           /\ Ahead(turn, d) # {} => Cardinality(Ahead(turn, d)) > 0
<1>1. Waiting \subseteq Dests /\ Ahead(turn, d) \subseteq Dests
  BY Zenon DEF Waiting, Ahead
<1>2. \A T \in SUBSET Dests : Cardinality(T) \in Nat /\ (Cardinality(T) = 0 <=> T = {})
  BY Zenon DEF Counted
<1>3. \A k \in Nat : k # 0 => k > 0
  OBVIOUS
<1> QED BY <1>1, <1>2, <1>3, Zenon

(* What the loading gives to one destination. *)
LEMMA LoadAt ==
    ASSUME NEW turn, NEW arb, NEW e \in Dests
    PROVE  /\ e \in Waiting => LoadWaiting(turn, arb).data[e] = Enqueued(data[e], Taken(LeftFor(turn, arb, e)))
           /\ e \notin Waiting => LoadWaiting(turn, arb).data[e] = data[e]
<1>1. LoadedData(turn, arb)[e] =
          IF e \in Waiting THEN Enqueued(data[e], Taken(LeftFor(turn, arb, e))) ELSE data[e]
  BY Zenon DEF LoadedData
<1> QED BY <1>1, LoadData, Zenon

(* A page goes to the first that waits. *)
LEMMA LoadPage ==
    ASSUME Types, Counted, QueueInv, NEW turn \in [1..numBuffers -> Nat], NEW x \in Pages, Waiting # {},
           \A d, e \in 1..numBuffers : turn[d] = turn[e] => d = e
    PROVE  /\ LoadWaiting(turn, <<x>>).arb = <<>>
           /\ \E d \in Waiting : /\ LoadWaiting(turn, <<x>>).data[d] = <<x>>
                                 /\ \A e \in Dests \ {d} : LoadWaiting(turn, <<x>>).data[e] = data[e]
<1>0. x \in Items /\ x # End
  BY SizesAssumption DEF Items, Pages, End
<1>1. Waiting \subseteq 1..numBuffers /\ Waiting \subseteq Dests /\ \A e \in Waiting : data[e] = <<>>
  BY SomeoneWaits, Zenon
<1>2. LoadWaiting(turn, <<x>>).arb = <<>>
  <2>1. Cardinality(Waiting) \in Nat /\ Cardinality(Waiting) > 0
    BY NumWaiting, Zenon
  <2>2. After(<<x>>, Cardinality(Waiting)) = <<>>
    BY <1>0, <2>1, AfterOne, Zenon
  <2> QED BY <2>2, LoadArb, Zenon
<1>3. PICK d \in Waiting : \A e \in Waiting : turn[d] <= turn[e]
  BY <1>1, FirstTurn, Zenon
<1>4. \A a, b \in Nat : a <= b => ~(b < a) /\ (a # b => a < b)
  OBVIOUS
<1>5. \A e \in Waiting : turn[e] \in Nat /\ (turn[d] = turn[e] => d = e)
  BY <1>1, Zenon
<1>6. Ahead(turn, d) = {}
  BY <1>3, <1>4, <1>5, Zenon DEF Ahead
<1>7. \A e \in Waiting \ {d} : d \in Ahead(turn, e)
  BY <1>3, <1>4, <1>5, Zenon DEF Ahead
<1>8. Taken(LeftFor(turn, <<x>>, d)) = <<x>>
  <2>1. Cardinality(Ahead(turn, d)) = 0
    BY <1>6, NumWaiting, Zenon
  <2> QED BY <1>0, <2>1, AfterOne, TakenOne, Zenon DEF LeftFor
<1>9. \A e \in Waiting \ {d} : Taken(LeftFor(turn, <<x>>, e)) = <<>>
  <2> SUFFICES ASSUME NEW e \in Waiting \ {d} PROVE Taken(LeftFor(turn, <<x>>, e)) = <<>>
    BY Zenon
  <2>1. Cardinality(Ahead(turn, e)) \in Nat /\ Cardinality(Ahead(turn, e)) > 0
    BY <1>7, NumWaiting, Zenon
  <2>2. LeftFor(turn, <<x>>, e) = <<>>
    BY <1>0, <2>1, AfterOne, Zenon DEF LeftFor
  <2>3. Taken(<<>>) = <<>>
    BY ConstantsTyped DEF Taken, Prefix
  <2> QED BY <2>2, <2>3, Zenon
<1>10. Enqueued(<<>>, <<x>>) = <<x>> /\ Enqueued(<<>>, <<>>) = <<>>
  BY <1>0 DEF Enqueued, HasEnd
<1>11. \A e \in Dests :
         /\ e \in Waiting => LoadWaiting(turn, <<x>>).data[e] = Enqueued(data[e], Taken(LeftFor(turn, <<x>>, e)))
         /\ e \notin Waiting => LoadWaiting(turn, <<x>>).data[e] = data[e]
  <2>1. \A arb : \A e \in Dests :
           /\ e \in Waiting => LoadWaiting(turn, arb).data[e] = Enqueued(data[e], Taken(LeftFor(turn, arb, e)))
           /\ e \notin Waiting => LoadWaiting(turn, arb).data[e] = data[e]
    BY LoadAt, Zenon
  <2> DEFINE arb == <<x>>
  <2> HIDE DEF arb
  <2>2. \A e \in Dests :
           /\ e \in Waiting => LoadWaiting(turn, arb).data[e] = Enqueued(data[e], Taken(LeftFor(turn, arb, e)))
           /\ e \notin Waiting => LoadWaiting(turn, arb).data[e] = data[e]
    BY <2>1, Zenon
  <2> QED BY <2>2, Zenon DEF arb
<1>12. LoadWaiting(turn, <<x>>).data[d] = <<x>>
  BY <1>1, <1>8, <1>10, <1>11, Zenon
<1>13. \A e \in Dests \ {d} : LoadWaiting(turn, <<x>>).data[e] = data[e]
  <2> SUFFICES ASSUME NEW e \in Dests \ {d} PROVE LoadWaiting(turn, <<x>>).data[e] = data[e]
    BY Zenon
  <2>1. CASE e \in Waiting
    BY <1>1, <1>9, <1>10, <1>11, <2>1, Zenon
  <2> QED BY <1>11, <2>1, Zenon
<1> QED BY <1>2, <1>12, <1>13, Zenon

(* The end goes to all that wait. *)
LEMMA LoadEnd ==
    ASSUME Types, Counted, QueueInv, NEW turn, Waiting # {}
    PROVE  /\ LoadWaiting(turn, <<End>>).arb = <<End>>
           /\ \A e \in Dests : LoadWaiting(turn, <<End>>).data[e] =
                                  IF e \in Waiting THEN <<End>> ELSE data[e]
<1>1. \A e \in Waiting : data[e] = <<>>
  BY SomeoneWaits, Zenon
<1>2. LoadWaiting(turn, <<End>>).arb = <<End>>
  <2>1. Cardinality(Waiting) \in Nat /\ Cardinality(Waiting) > 0
    BY NumWaiting, Zenon
  <2>2. After(<<End>>, Cardinality(Waiting)) = <<End>>
    BY ConstantsTyped, <2>1, AfterOne, Zenon
  <2> QED BY <2>2, LoadArb, Zenon
<1>3. \A e \in Waiting : Taken(LeftFor(turn, <<End>>, e)) = <<End>>
  <2> SUFFICES ASSUME NEW e \in Waiting PROVE Taken(LeftFor(turn, <<End>>, e)) = <<End>>
    BY Zenon
  <2>1. LeftFor(turn, <<End>>, e) = <<End>>
    BY NumWaiting, ConstantsTyped, AfterOne, Zenon DEF LeftFor
  <2> QED BY <2>1, ConstantsTyped, TakenOne, Zenon
<1>4. Enqueued(<<>>, <<End>>) = <<End>>
  BY ConstantsTyped DEF Enqueued, HasEnd
<1> SUFFICES ASSUME NEW e \in Dests
             PROVE  LoadWaiting(turn, <<End>>).data[e] = IF e \in Waiting THEN <<End>> ELSE data[e]
  BY <1>2, Zenon
<1>5. CASE e \in Waiting
  <2>1. LoadWaiting(turn, <<End>>).data[e] = Enqueued(data[e], Taken(LeftFor(turn, <<End>>, e)))
    BY <1>5, LoadAt
  <2> QED BY <1>1, <1>3, <1>4, <1>5, <2>1, Zenon
<1> QED BY <1>5, LoadAt, Zenon

-----------------------------------------------------------------------------
(* Enqueueing. *)

(* The destinations in T get x. *)
FeedsAll(T, x) ==
    /\ \A e \in Dests : Feeds(e, IF e \in T THEN <<x>> ELSE <<>>)
    /\ \A e \in Dests : notify'[e] # "none" => arbitrary' = <<>>

(* Enqueueing keeps what is known of the destinations. *)
LEMMA FeedQueue ==
    ASSUME Types, KindInv, ContentInv, QueueInv, ~atEnd, NEW x \in Items, x = End \/ x = produced + 1,
           NEW T, FeedsAll(T, x), numBuffers' = numBuffers, pending' = pending
    PROVE  /\ QueueInv'
           /\ \A e \in Dests : Sent(e)' = IF e \in T THEN Sent(e) \o <<x>> ELSE Sent(e)
<1> SUFFICES ASSUME NEW e \in Dests
             PROVE  /\ MatchInv(e)' /\ WaitInv(e)' /\ NewInv(e)'
                    /\ Sent(e)' = IF e \in T THEN Sent(e) \o <<x>> ELSE Sent(e)
  BY Zenon DEF QueueInv
<1>1. MatchInv(e) /\ WaitInv(e) /\ NewInv(e)
  BY Zenon DEF QueueInv
<1>2. Sent(e) \in Seq(Items) /\ PagesThenEnd(Sent(e))
  BY <1>1, SentTyped, Zenon
<1>3. notify'[e] # "none" => arbitrary' = <<>>
  BY Zenon DEF FeedsAll
<1>4. pending'[e] = pending[e]
  BY Zenon
<1>5. CASE e \in T
  <2>1. Feeds(e, <<x>>)
    BY <1>5, Zenon DEF FeedsAll
  <2>2. <<x>> \in Seq(Items)
    BY RangeOne, Zenon
  <2>3. PagesThenEnd(Sent(e) \o <<x>>)
    BY <1>1, FedInOrder, Zenon
  <2>4. MatchInv(e)' /\ Sent(e)' = Sent(e) \o <<x>>
    BY <1>1, <2>1, <2>2, <2>3, FeedMatch
  <2>5. WaitInv(e)' /\ NewInv(e)'
    BY <1>1, <1>3, <1>4, <2>1, <2>2, FeedWait, FeedNew
  <2> QED BY <1>5, <2>4, <2>5, Zenon
<1>6. CASE e \notin T
  <2>1. Feeds(e, <<>>)
    BY <1>6, Zenon DEF FeedsAll
  <2>2. <<>> \in Seq(Items)
    BY RangeNone, Zenon
  <2>3. Sent(e) \o <<>> = Sent(e)
    BY <1>2
  <2>4. MatchInv(e)' /\ Sent(e)' = Sent(e) \o <<>>
    BY <1>1, <1>2, <2>1, <2>2, <2>3, FeedMatch
  <2>5. WaitInv(e)' /\ NewInv(e)'
    BY <1>1, <1>3, <1>4, <2>1, <2>2, FeedWait, FeedNew
  <2> QED BY <1>6, <2>3, <2>4, <2>5, Zenon
<1> QED BY <1>5, <1>6, Zenon

(* Notifying answers who waits, from the new data. *)
LEMMA NotifyFeeds ==
    ASSUME NEW e \in Dests, NEW ds, Notify(ds, data'), UNCHANGED <<sequence, deleted, got, request, acks>>,
           NEW u, data'[e] = data[e] \o u, ~Live(e) => u = <<>>, e \notin ds => u = <<>>
    PROVE  Feeds(e, u) /\ (notify'[e] # "none" => e \notin ds /\ notify'[e] = notify[e])
<1>1. /\ notify'[e] = IF e \in ds THEN "none" ELSE notify[e]
      /\ response'[e] = IF e \in ds /\ notify[e] = "live" THEN Prefix(data'[e], FetchPages) ELSE response[e]
  BY Zenon DEF Notify
<1> QED BY <1>1, Zenon DEF Feeds

(* Before the end no buffer has the end marker. *)
LEMMA NoEndIn ==
    ASSUME Types, KindInv, ContentInv, QueueInv, ~atEnd, NEW e \in Dests, ~deleted[e]
    PROVE  ~HasEnd(data[e])
<1>1. MatchInv(e) /\ NewInv(e)
  BY Zenon DEF QueueInv
<1>2. End \notin Range(Sent(e)) /\ Range(data[e]) \subseteq Range(Sent(e))
  BY <1>1, SentTyped, SentSoFar, Zenon DEF Ended
<1>3. HasEnd(data[e]) => End \in Range(data[e])
  <2>1. data[e] \in Seq(Items)
    BY DestTyped, Zenon
  <2> QED BY <2>1 DEF HasEnd, Range
<1> QED BY <1>2, <1>3, Zenon

(* Adding nothing changes nothing. *)
LEMMA NothingEnqueued ==
    ASSUME Types, NEW e \in Dests
    PROVE  data[e] \o <<>> = data[e]
<1>1. data[e] \in Seq(Items)
  BY DestTyped, Zenon
<1> QED BY <1>1

(* The next page is a page, and not the end marker. *)
LEMMA NextPage ==
    ASSUME Types, produced < MaxPages
    PROVE  produced + 1 \in Pages /\ produced + 1 \in Items /\ produced + 1 # End
BY SizesAssumption DEF Types, Pages, Items, End

(* A page for one destination. *)
LEMMA EnqueuePartitionedFeeds ==
    ASSUME Types, KindInv, ContentInv, QueueInv, ~atEnd, NEW p \in Producers, NEW d \in Dests,
           EnqueuePartitioned(p, d)
    PROVE  FeedsAll({e \in {d} : Live(e)}, produced + 1) /\ arbitrary' = arbitrary /\ arbitrary = <<>>
<1>1. /\ kind = "kPartitioned" /\ Notify({d}, data') /\ UNCHANGED <<sequence, deleted, got, request, acks>>
      /\ data' = (IF Live(d) THEN [data EXCEPT ![d] = Enqueued(@, <<produced + 1>>)] ELSE data)
      /\ arbitrary' = arbitrary
  BY Zenon DEF EnqueuePartitioned, Produce
<1>2. arbitrary = <<>>
  BY <1>1 DEF KindInv
<1> SUFFICES ASSUME NEW e \in Dests
             PROVE  Feeds(e, IF e \in {c \in {d} : Live(c)} THEN <<produced + 1>> ELSE <<>>)
  BY <1>1, <1>2, Zenon DEF FeedsAll
<1>3. data \in [Dests -> Seq(Items)] /\ data[e] \o <<>> = data[e]
  BY NothingEnqueued, Zenon DEF Types
<1>4. CASE e = d /\ Live(d)
  <2>1. data'[e] = Enqueued(data[d], <<produced + 1>>)
    BY <1>1, <1>3, <1>4, Zenon
  <2>2. data'[e] = data[e] \o <<produced + 1>>
    BY <1>4, <2>1, NoEndIn, Zenon DEF Enqueued, Live
  <2> QED BY <1>1, <1>4, <2>2, NotifyFeeds, Zenon
<1>5. CASE ~(e = d /\ Live(d))
  <2>1. data'[e] = data[e]
    BY <1>1, <1>3, <1>5, Zenon
  <2>2. Feeds(e, <<>>)
    BY <1>1, <1>3, <2>1, NotifyFeeds, Zenon
  <2> QED BY <1>5, <2>2, Zenon
<1> QED BY <1>4, <1>5, Zenon

(* A page for all destinations. *)
LEMMA EnqueueBroadcastFeeds ==
    ASSUME Types, KindInv, ContentInv, QueueInv, ~atEnd, NEW p \in Producers, EnqueueBroadcast(p)
    PROVE  FeedsAll({e \in Dests : Live(e)}, produced + 1) /\ arbitrary' = arbitrary /\ arbitrary = <<>>
<1> DEFINE T == {e \in Dests : Live(e)}
<1>1. /\ kind = "kBroadcast" /\ Notify(T, data') /\ UNCHANGED <<sequence, deleted, got, request, acks>>
      /\ \A e \in Dests : data'[e] = IF Live(e) THEN Enqueued(data[e], <<produced + 1>>) ELSE data[e]
      /\ arbitrary' = arbitrary
  BY Zenon DEF EnqueueBroadcast, Produce
<1>2. arbitrary = <<>>
  BY <1>1 DEF KindInv
<1> SUFFICES ASSUME NEW e \in Dests
             PROVE  Feeds(e, IF e \in T THEN <<produced + 1>> ELSE <<>>)
  BY <1>1, <1>2, Zenon DEF FeedsAll
<1>3. data[e] \o <<>> = data[e]
  BY NothingEnqueued, Zenon
<1>4. CASE Live(e)
  <2>1. data'[e] = data[e] \o <<produced + 1>>
    BY <1>1, <1>4, NoEndIn, Zenon DEF Enqueued, Live
  <2> QED BY <1>1, <1>4, <2>1, NotifyFeeds, Zenon
<1>5. CASE ~Live(e)
  <2>1. Feeds(e, <<>>)
    BY <1>1, <1>3, <1>5, NotifyFeeds, Zenon
  <2> QED BY <1>5, <2>1, Zenon
<1> QED BY <1>4, <1>5, Zenon

(* When no buffer waits, nobody is registered. *)
LEMMA NobodyWaits ==
    ASSUME Types, QueueInv, Waiting = {}, NEW e \in Dests
    PROVE  notify[e] = "none"
BY Zenon DEF Waiting, QueueInv, WaitInv

(* A page for whoever comes first. *)
LEMMA EnqueueArbitraryFeeds ==
    ASSUME Types, Counted, KindInv, ContentInv, QueueInv, ~atEnd, NEW p \in Producers, EnqueueArbitrary(p)
    PROVE  \/ FeedsAll({}, produced + 1) /\ arbitrary' = arbitrary \o <<produced + 1>>
           \/ \E d \in Dests : /\ FeedsAll({d}, produced + 1) /\ Live(d)
                               /\ arbitrary = <<>> /\ arbitrary' = <<>>
<1> DEFINE x == produced + 1
           arb == Append(arbitrary, x)
           ds == {d \in Dests : LoadWaiting(RoundRobin, arb).data[d] # data[d]}
<1>1. /\ Notify(ds, data') /\ UNCHANGED <<sequence, deleted, got, request, acks>>
      /\ data' = LoadWaiting(RoundRobin, arb).data /\ arbitrary' = LoadWaiting(RoundRobin, arb).arb
      /\ produced < MaxPages
  BY Zenon DEF EnqueueArbitrary, Produce
<1>2. x \in Pages /\ x \in Items
  BY <1>1, NextPage, Zenon
<1> HIDE DEF x
<1>3. arb = arbitrary \o <<x>> /\ arb \in Seq(Items) /\ arbitrary \in Seq(Items)
  BY <1>2 DEF Types
<1>4. ds = {d \in Dests : data'[d] # data[d]}
  BY <1>1, Zenon
<1> HIDE DEF ds, arb
<1>5. \A e \in Dests : data[e] \o <<>> = data[e]
  BY NothingEnqueued, Zenon
<1>6. CASE Waiting = {}
  <2>1. arbitrary' = arb /\ \A d \in Dests : data'[d] = data[d]
    <3>1. LoadWaiting(RoundRobin, arb).arb = arb /\ \A d \in Dests : LoadWaiting(RoundRobin, arb).data[d] = data[d]
      BY <1>3, <1>6, LoadNobody, Zenon
    <3> QED BY <1>1, <3>1, Zenon
  <2>2. \A e \in Dests : Feeds(e, <<>>) /\ e \notin ds
    BY <1>1, <1>4, <1>5, <2>1, NotifyFeeds, Zenon
  <2>3. \A e \in Dests : notify'[e] = "none"
    BY <1>1, <1>6, <2>2, NobodyWaits, Zenon DEF Notify
  <2>4. FeedsAll({}, x)
    BY <2>2, <2>3, Zenon DEF FeedsAll
  <2> QED BY <1>3, <2>1, <2>4, Zenon DEF x
<1>7. CASE Waiting # {}
  <2>1. arbitrary = <<>>
    BY <1>7, SomeoneWaits, Zenon
  <2>2. arb = <<x>>
    BY <1>2, <1>3, <2>1
  <2>3. /\ RoundRobin \in [1..numBuffers -> Nat]
        /\ \A d, e \in 1..numBuffers : RoundRobin[d] = RoundRobin[e] => d = e
    BY TurnsTyped, Zenon
  <2>4. /\ LoadWaiting(RoundRobin, <<x>>).arb = <<>>
        /\ \E d \in Waiting : /\ LoadWaiting(RoundRobin, <<x>>).data[d] = <<x>>
                              /\ \A e \in Dests \ {d} : LoadWaiting(RoundRobin, <<x>>).data[e] = data[e]
    BY <1>2, <1>7, <2>3, LoadPage, Zenon
  <2>5. arbitrary' = <<>>
    BY <1>1, <2>2, <2>4, Zenon
  <2>6. PICK d \in Waiting : data'[d] = <<x>> /\ \A e \in Dests \ {d} : data'[e] = data[e]
    BY <1>1, <2>2, <2>4, Zenon
  <2>7. d \in Dests /\ Live(d) /\ data[d] = <<>>
    BY SomeoneWaits, Zenon DEF Waiting
  <2>8. data'[d] = data[d] \o <<x>> /\ d \in ds
    <3>1. <<>> \o <<x>> = <<x>> /\ <<x>> # <<>>
      BY <1>2
    <3> QED BY <1>4, <2>6, <2>7, <3>1, Zenon
  <2>9. Feeds(d, <<x>>)
    BY <1>1, <2>7, <2>8, NotifyFeeds, Zenon
  <2>10. \A e \in Dests \ {d} : Feeds(e, <<>>)
    BY <1>1, <1>5, <2>6, NotifyFeeds, Zenon
  <2>11. FeedsAll({d}, x)
    BY <2>5, <2>9, <2>10, Zenon DEF FeedsAll
  <2> QED BY <2>1, <2>5, <2>7, <2>11, Zenon DEF x
<1> QED BY <1>6, <1>7, Zenon

(* A driver is done but not the last one. *)
LEMMA NotDoneFeeds ==
    ASSUME Types, KindInv, ContentInv, QueueInv, NEW n, CheckIfDone(n), ~AllFinished(n)
    PROVE  FeedsAll({}, End) /\ arbitrary' = arbitrary
<1>1. /\ Notify({}, data') /\ UNCHANGED <<sequence, deleted, got, request, acks>>
      /\ data' = data /\ arbitrary' = arbitrary
  BY Zenon DEF CheckIfDone
<1>2. \A e \in Dests : data[e] \o <<>> = data[e]
  BY NothingEnqueued, Zenon
<1>3. \A e \in Dests : Feeds(e, <<>>)
  BY <1>1, <1>2, NotifyFeeds, Zenon
<1>4. \A e \in Dests : notify'[e] # "none" => arbitrary' = <<>>
  BY <1>1, Zenon DEF Notify, QueueInv, WaitInv
<1> QED BY <1>1, <1>3, <1>4, Zenon DEF FeedsAll

(* The last driver is done: the end goes to all. *)
LEMMA DoneFeeds ==
    ASSUME Types, Counted, KindInv, ContentInv, QueueInv, ~atEnd, NEW n, CheckIfDone(n), AllFinished(n)
    PROVE  IF kind = "kArbitrary"
           THEN FeedsAll(Waiting, End) /\ arbitrary' = arbitrary \o <<End>> /\ End \notin Range(arbitrary)
           ELSE FeedsAll({e \in Dests : Live(e)}, End) /\ arbitrary' = arbitrary
<1> DEFINE T == {e \in Dests : Live(e)}
<1>1. Notify(T, data') /\ UNCHANGED <<sequence, deleted, got, request, acks>>
  BY Zenon DEF CheckIfDone
<1>2. \A e \in Dests : data[e] \o <<>> = data[e]
  BY NothingEnqueued, Zenon
<1>3. \A e \in Dests : notify'[e] = "none"
  BY <1>1, Zenon DEF Notify, QueueInv, WaitInv
<1>4. CASE kind # "kArbitrary"
  <2>1. arbitrary' = arbitrary
    BY <1>4, Zenon DEF CheckIfDone
  <2>2. \A e \in Dests : data'[e] = IF Live(e) THEN Enqueued(data[e], <<End>>) ELSE data[e]
    BY <1>4, Zenon DEF CheckIfDone
  <2>3. ASSUME NEW e \in Dests, Live(e) PROVE Feeds(e, <<End>>)
    <3>1. data'[e] = data[e] \o <<End>>
      BY <2>2, <2>3, NoEndIn, Zenon DEF Enqueued, Live
    <3> QED BY <1>1, <2>3, <3>1, NotifyFeeds, Zenon
  <2>4. ASSUME NEW e \in Dests, ~Live(e) PROVE Feeds(e, <<>>)
    BY <1>1, <1>2, <2>2, <2>4, NotifyFeeds, Zenon
  <2>5. FeedsAll(T, End)
    BY <1>3, <2>3, <2>4, Zenon DEF FeedsAll
  <2> QED BY <1>4, <2>1, <2>5, Zenon
<1>5. CASE kind = "kArbitrary"
  <2> DEFINE arb == Enqueued(arbitrary, <<End>>)
  <2>1. data' = LoadWaiting(InOrder, arb).data /\ arbitrary' = LoadWaiting(InOrder, arb).arb
    BY <1>5, Zenon DEF CheckIfDone
  <2>2. arbitrary \in Seq(Items) /\ PagesThenEnd(arbitrary) /\ End \notin Range(arbitrary)
    BY <1>5, Zenon DEF Types, ContentInv, ShareInv
  <2>3. arb = arbitrary \o <<End>>
    BY <2>2, EndIsLast, Zenon DEF Enqueued
  <2>4. arb \in Seq(Items)
    BY <2>2, <2>3, ConstantsTyped, RangeOne, ConcatFacts, Zenon
  <2> HIDE DEF arb
  <2>5. CASE Waiting = {}
    <3>1. arbitrary' = arb /\ \A d \in Dests : data'[d] = data[d]
      <4>1. LoadWaiting(InOrder, arb).arb = arb /\ \A d \in Dests : LoadWaiting(InOrder, arb).data[d] = data[d]
        BY <2>4, <2>5, LoadNobody, Zenon
      <4> QED BY <2>1, <4>1, Zenon
    <3>2. \A e \in Dests : Feeds(e, <<>>)
      BY <1>1, <1>2, <3>1, NotifyFeeds, Zenon
    <3>3. FeedsAll(Waiting, End)
      BY <1>3, <2>5, <3>2, Zenon DEF FeedsAll
    <3> QED BY <1>5, <2>2, <2>3, <3>1, <3>3, Zenon
  <2>6. CASE Waiting # {}
    <3>1. arbitrary = <<>> /\ \A e \in Waiting : data[e] = <<>>
      BY <2>6, SomeoneWaits, Zenon
    <3>2. arb = <<End>> /\ <<>> \o <<End>> = <<End>>
      BY <2>3, <3>1, ConstantsTyped
    <3>3. /\ LoadWaiting(InOrder, <<End>>).arb = <<End>>
          /\ \A e \in Dests : LoadWaiting(InOrder, <<End>>).data[e] =
                                IF e \in Waiting THEN <<End>> ELSE data[e]
      BY <2>6, LoadEnd, Zenon
    <3>4. arbitrary' = <<End>> /\ \A e \in Dests : data'[e] = IF e \in Waiting THEN <<End>> ELSE data[e]
      BY <2>1, <3>2, <3>3, Zenon
    <3>5. ASSUME NEW e \in Waiting PROVE Feeds(e, <<End>>)
      <4>1. e \in Dests /\ Live(e) /\ e \in T
        BY Zenon DEF Waiting
      <4>2. data'[e] = data[e] \o <<End>>
        BY <3>1, <3>2, <3>4, <4>1, Zenon
      <4> QED BY <1>1, <4>1, <4>2, NotifyFeeds, Zenon
    <3>6. ASSUME NEW e \in Dests, e \notin Waiting PROVE Feeds(e, <<>>)
      BY <1>1, <1>2, <3>4, <3>6, NotifyFeeds, Zenon
    <3>7. FeedsAll(Waiting, End)
      BY <1>3, <3>5, <3>6, Zenon DEF FeedsAll
    <3> QED BY <1>5, <2>2, <3>1, <3>2, <3>4, <3>7, Zenon
  <2> QED BY <2>5, <2>6, Zenon
<1> QED BY <1>4, <1>5, Zenon

-----------------------------------------------------------------------------
(* What is taken from the shared pages, and what a fetch starts from. *)

Backlog == dataToBroadcast \o (IF atEnd THEN <<End>> ELSE <<>>)

(* The broadcast pages that a late destination is given. *)
LEMMA BacklogFacts ==
    ASSUME Types, KindInv, kind = "kBroadcast", ~noMoreBuffers
    PROVE  /\ Backlog \in Seq(Items) /\ PagesThenEnd(Backlog)
           /\ Range(Backlog) = (1..produced) \cup (IF atEnd THEN {End} ELSE {})
<1> DEFINE s == dataToBroadcast
<1>1. /\ s \in Seq(Items) /\ Len(s) = produced /\ \A i \in 1..produced : s[i] = i
      /\ DOMAIN s = 1..produced
  <2>1. s \in Seq(Items) /\ Len(s) = produced /\ \A i \in 1..produced : s[i] = i
    BY Zenon DEF Types, KindInv
  <2> QED BY <2>1, SeqFacts, Zenon
<1> HIDE DEF s
<1>2. Range(s) = 1..produced
  BY <1>1, Zenon DEF Range
<1>3. PagesThenEnd(s)
  <2>1. \A i \in 1..produced : i # End
    BY SizesAssumption DEF Types, End
  <2> QED BY <1>1, <2>1, Zenon DEF PagesThenEnd
<1>4. CASE atEnd
  <2>1. <<End>> \in Seq(Items) /\ Range(<<End>>) = {End} /\ PagesThenEnd(<<End>>)
    BY ConstantsTyped, RangeOne, OrderOne, Zenon
  <2>2. Backlog = s \o <<End>>
    BY <1>4, Zenon DEF Backlog, s
  <2>3. \A x \in 1..produced : x # End
    BY SizesAssumption DEF Types, End
  <2>4. s \o <<End>> \in Seq(Items) /\ Range(s \o <<End>>) = Range(s) \cup Range(<<End>>)
    BY <1>1, <2>1, ConcatFacts, RangeConcat, Zenon
  <2>5. PagesThenEnd(s \o <<End>>)
    BY <1>1, <1>2, <1>3, <2>1, <2>3, OrderMore, Zenon
  <2> QED BY <1>2, <1>4, <2>1, <2>2, <2>4, <2>5, Zenon
<1>5. CASE ~atEnd
  <2>1. s \o <<>> = s
    BY <1>1
  <2>2. Backlog = s
    BY <1>5, <2>1, Zenon DEF Backlog, s
  <2> QED BY <1>1, <1>2, <1>3, <1>5, <2>2, Zenon
<1> QED BY <1>4, <1>5, Zenon

(* Joining with nothing acknowledged. *)
LEMMA JoinedNone ==
    ASSUME NEW t \in Seq(Items)
    PROVE  Joined(<<>>, 0, t) = t
<1>1. /\ <<>> \in Seq(Items) /\ 0 \in Nat /\ 0 <= Len(<<>>) /\ Len(t) \in Nat
  OBVIOUS
<1>2. /\ Joined(<<>>, 0, t) \in Seq(Items) /\ Len(Joined(<<>>, 0, t)) = 0 + Len(t)
      /\ \A i \in 1..Len(t) : Joined(<<>>, 0, t)[0 + i] = t[i]
  BY <1>1, JoinedTyped, Zenon
<1>3. 0 + Len(t) = Len(t) /\ \A i \in 1..Len(t) : 0 + i = i
  BY <1>1
<1> QED BY <1>2, <1>3, SeqEqual, Zenon

(* A new destination matches. *)
LEMMA MatchesNew ==
    ASSUME NEW t \in Seq(Items), PagesThenEnd(t)
    PROVE  Matches(<<>>, 0, t, NoResponse)
<1>1. Joined(<<>>, 0, t) = t
  BY JoinedNone, Zenon
<1>2. NumPages(<<>>) = 0 /\ 0 <= 0
  BY RangeNone, NumPagesFacts
<1>3. Starts(<<>>, t)
  BY DEF Starts
<1> QED BY <1>1, <1>2, <1>3, Zenon DEF Matches

(* The buffer of a destination that is created. *)
LEMMA WithBuffersAt ==
    ASSUME Types, NEW n \in Int, NEW e \in Dests
    PROVE  /\ e <= numBuffers \/ e > n \/ kind # "kBroadcast" => WithBuffers(n)[e] = data[e]
           /\ e > numBuffers /\ e <= n /\ kind = "kBroadcast" => WithBuffers(n)[e] = Backlog
<1>1. WithBuffers(n)[e] = IF e \in (numBuffers + 1)..n /\ kind = "kBroadcast" THEN Backlog ELSE data[e]
  BY Zenon DEF WithBuffers, Backlog
<1>2. e \in (numBuffers + 1)..n <=> e > numBuffers /\ e <= n
  BY SizesAssumption DEF Types, Dests
<1>3. e <= numBuffers => ~(e > numBuffers)
  BY SizesAssumption DEF Types, Dests
<1>4. e > n => ~(e <= n)
  BY SizesAssumption DEF Types, Dests
<1> QED BY <1>1, <1>2, <1>3, <1>4, Zenon

(* Taking from the shared buffer. *)
LEMMA TakenParts ==
    ASSUME NEW s \in Seq(Items), PagesThenEnd(s), Len(s) > FetchPages
    PROVE  /\ Taken(s) \in Seq(Items) /\ PagesThenEnd(Taken(s)) /\ End \notin Range(Taken(s))
           /\ Rest(s) \in Seq(Items) /\ PagesThenEnd(Rest(s))
           /\ Range(s) = Range(Taken(s)) \cup Range(Rest(s))
           /\ \A x \in Range(Taken(s)), y \in Range(Rest(s)) : y = End \/ x < y
<1> DEFINE m == FetchPages
           t == Taken(s)
           r == Suffix(s, m)
<1>1. m \in Nat /\ m > 0 /\ Len(s) \in Nat /\ DOMAIN s = 1..Len(s) /\ m <= Len(s) /\ ~(Len(s) <= m)
  BY ConstantsTyped, SeqFacts
<1>2. t = SubSeq(s, 1, m)
  BY <1>1, Zenon DEF Taken, Prefix
<1>3. t \in Seq(Items) /\ Len(t) = m /\ \A i \in 1..m : t[i] = s[i]
  BY <1>1, <1>2
<1>4. r \in Seq(Items) /\ Len(r) = Len(s) - m /\ \A i \in 1..(Len(s) - m) : r[i] = s[m + i]
  BY <1>1, SuffixFacts, Zenon
<1>5. DOMAIN t = 1..m /\ DOMAIN r = 1..(Len(s) - m)
  BY <1>3, <1>4, SeqFacts, Zenon
<1> HIDE DEF m, t, r
<1>6. /\ \A i \in 1..m : i \in 1..Len(s) /\ i < Len(s)
      /\ Len(s) \in 1..Len(s)
      /\ \A i \in 1..(Len(s) - m) : m + i \in 1..Len(s)
      /\ \A i \in 1..Len(s) : i \in 1..m \/ (i - m \in 1..(Len(s) - m) /\ m + (i - m) = i)
      /\ \A i \in 1..m, j \in 1..(Len(s) - m) : i < m + j
      /\ \A i, j \in 1..(Len(s) - m) : i < j => m + i < m + j
  <2> DEFINE k == Len(s)
  <2>1. k \in Nat /\ k > m
    BY <1>1
  <2> HIDE DEF k
  <2>2. /\ \A i \in 1..m : i \in 1..k /\ i < k
        /\ k \in 1..k
        /\ \A i \in 1..(k - m) : m + i \in 1..k
        /\ \A i \in 1..k : i \in 1..m \/ (i - m \in 1..(k - m) /\ m + (i - m) = i)
        /\ \A i \in 1..m, j \in 1..(k - m) : i < m + j
        /\ \A i, j \in 1..(k - m) : i < j => m + i < m + j
    BY <1>1, <2>1
  <2> QED BY <2>2, Zenon DEF k
<1>7. PagesThenEnd(t)
  BY <1>1, <1>3, <1>5, <1>6, Zenon DEF PagesThenEnd
<1>8. PagesThenEnd(r)
  <2> SUFFICES ASSUME NEW i \in 1..(Len(s) - m), NEW j \in 1..(Len(s) - m), i < j
               PROVE  r[i] # End /\ (r[j] = End \/ r[i] < r[j])
    BY <1>5, Zenon DEF PagesThenEnd
  <2>1. m + i \in DOMAIN s /\ m + j \in DOMAIN s /\ m + i < m + j
    BY <1>1, <1>6, Zenon
  <2>2. s[m + i] # End /\ (s[m + j] = End \/ s[m + i] < s[m + j])
    BY <2>1, Zenon DEF PagesThenEnd
  <2> QED BY <1>4, <2>2, Zenon
<1>9. End \notin Range(t)
  <2>1. \A i \in 1..m : s[i] # End
    BY <1>1, <1>6, Zenon DEF PagesThenEnd
  <2> QED BY <1>3, <1>5, <2>1, Zenon DEF Range
<1>10. \A x \in Range(t), y \in Range(r) : y = End \/ x < y
  <2>1. \A i \in 1..m, j \in 1..(Len(s) - m) : s[m + j] = End \/ s[i] < s[m + j]
    BY <1>1, <1>6, Zenon DEF PagesThenEnd
  <2> SUFFICES ASSUME NEW i \in 1..m, NEW j \in 1..(Len(s) - m) PROVE r[j] = End \/ t[i] < r[j]
    BY <1>5, Zenon DEF Range
  <2>2. t[i] = s[i] /\ r[j] = s[m + j]
    BY <1>3, <1>4, Zenon
  <2> QED BY <2>1, <2>2, Zenon
<1>11. Range(s) \subseteq Range(t) \cup Range(r)
  <2> SUFFICES ASSUME NEW i \in 1..Len(s) PROVE s[i] \in Range(t) \cup Range(r)
    BY <1>1, Zenon DEF Range
  <2>1. CASE i \in 1..m
    BY <1>3, <1>5, <2>1, Zenon DEF Range
  <2>2. CASE i - m \in 1..(Len(s) - m) /\ m + (i - m) = i
    <3>1. r[i - m] = s[i]
      BY <1>4, <2>2, Zenon
    <3> QED BY <1>5, <2>2, <3>1, Zenon DEF Range
  <2> QED BY <1>6, <2>1, <2>2, Zenon
<1>12. Range(t) \subseteq Range(s) /\ Range(r) \subseteq Range(s)
  <2>1. \A i \in 1..m : t[i] \in Range(s)
    BY <1>1, <1>3, <1>6, Zenon DEF Range
  <2>2. \A i \in 1..(Len(s) - m) : r[i] \in Range(s)
    BY <1>1, <1>4, <1>6, Zenon DEF Range
  <2> QED BY <1>5, <2>1, <2>2, Zenon DEF Range
<1>13. ~HasEnd(t)
  BY <1>3, <1>7, <1>9, EndIsLast, Zenon
<1>14. Rest(s) = r
  BY <1>13, Zenon DEF Rest, r, t, m
<1> QED BY <1>3, <1>4, <1>7, <1>8, <1>9, <1>10, <1>11, <1>12, <1>14, Zenon DEF t

(* A shared buffer that one fetch takes whole. *)
LEMMA TakenAll ==
    ASSUME NEW s \in Seq(Items), PagesThenEnd(s), Len(s) <= FetchPages
    PROVE  /\ Taken(s) = s
           /\ End \in Range(s) => Rest(s) = <<End>>
           /\ End \notin Range(s) => Rest(s) = <<>>
<1>1. Taken(s) = s
  BY Zenon DEF Taken, Prefix
<1>2. HasEnd(s) <=> End \in Range(s)
  BY EndIsLast, Zenon
<1>3. Suffix(s, FetchPages) = <<>>
  <2>1. Len(s) \in Nat /\ FetchPages \in Nat
    BY ConstantsTyped, SeqFacts, Zenon
  <2> QED BY <2>1 DEF Suffix
<1> QED BY <1>1, <1>2, <1>3, Zenon DEF Rest

(* What is taken comes before what is left; the end is left for the others. *)
LEMMA TakenFacts ==
    ASSUME NEW s \in Seq(Items), PagesThenEnd(s)
    PROVE  /\ Taken(s) \in Seq(Items) /\ PagesThenEnd(Taken(s)) /\ Rest(s) \in Seq(Items) /\ PagesThenEnd(Rest(s))
           /\ Range(s) = Range(Taken(s)) \cup Range(Rest(s))
           /\ End \in Range(Taken(s)) => Rest(s) = <<End>>
           /\ End \in Range(s) => End \in Range(Rest(s))
           /\ \A x \in Range(Taken(s)), y \in Range(Rest(s)) : y = End \/ x < y
<1>1. CASE Len(s) > FetchPages
  BY <1>1, TakenParts, Zenon
<1>2. CASE Len(s) <= FetchPages
  <2>1. /\ Taken(s) = s
        /\ End \in Range(s) => Rest(s) = <<End>>
        /\ End \notin Range(s) => Rest(s) = <<>>
    BY <1>2, TakenAll, Zenon
  <2>2. /\ <<End>> \in Seq(Items) /\ Range(<<End>>) = {End} /\ PagesThenEnd(<<End>>)
        /\ <<>> \in Seq(Items) /\ Range(<<>>) = {} /\ PagesThenEnd(<<>>)
    BY ConstantsTyped, RangeOne, RangeNone, OrderOne, Zenon
  <2>3. CASE End \in Range(s)
    BY <2>1, <2>2, <2>3, Zenon
  <2>4. CASE End \notin Range(s)
    BY <2>1, <2>2, <2>4, Zenon
  <2> QED BY <2>3, <2>4, Zenon
<1>3. Len(s) > FetchPages \/ Len(s) <= FetchPages
  <2>1. Len(s) \in Nat /\ FetchPages \in Nat
    BY ConstantsTyped, SeqFacts, Zenon
  <2> QED BY <2>1
<1> QED BY <1>1, <1>2, <1>3, Zenon

(* From a buffer that is not empty something is taken. *)
LEMMA TakenSome ==
    ASSUME NEW s \in Seq(Items), s # <<>>
    PROVE  Taken(s) # <<>>
BY PrefixSome, ConstantsTyped, Zenon DEF Taken

(* The end of what was sent is still in the buffer when it was not received. *)
LEMMA EndInBuffer ==
    ASSUME NEW g \in Seq(Items), NEW t \in Seq(Items), NEW r, Matches(g, Len(g), t, r), ~HasEnd(g)
    PROVE  HasEnd(t) <=> End \in Range(Joined(g, Len(g), t))
<1> DEFINE n == Len(g)
           J == Joined(g, n, t)
<1>1. n \in Nat /\ n <= n /\ DOMAIN g = 1..n /\ Len(t) \in Nat /\ DOMAIN t = 1..Len(t)
  <2>1. n \in Nat /\ DOMAIN g = 1..n /\ Len(t) \in Nat /\ DOMAIN t = 1..Len(t)
    BY SeqFacts, Zenon
  <2> QED BY <2>1
<1>2. J \in Seq(Items) /\ Len(J) = n + Len(t)
  BY <1>1, JoinedTyped, Zenon
<1>3. /\ J \in Seq(Items) /\ DOMAIN J = 1..(n + Len(t)) /\ \A i \in 1..n : J[i] = g[i]
      /\ \A k \in 1..Len(t) : J[n + k] = t[k]
  BY <1>1, <1>2, JoinedTyped, SeqFacts, Zenon
<1>4. PagesThenEnd(J) /\ Starts(g, J)
  BY Zenon DEF Matches
<1>5. PagesThenEnd(g)
  BY <1>3, <1>4, StartsRange, Zenon
<1>6. End \notin Range(g)
  BY <1>5, EndIsLast, Zenon
<1> HIDE DEF J, n
<1>7. \A k \in 1..Len(t) : n + k \in 1..(n + Len(t))
  BY <1>1, Shifted, Zenon
<1>8. PagesThenEnd(t)
  <2> SUFFICES ASSUME NEW i \in 1..Len(t), NEW j \in 1..Len(t), i < j
               PROVE  t[i] # End /\ (t[j] = End \/ t[i] < t[j])
    BY <1>1, Zenon DEF PagesThenEnd
  <2>1. n + i \in DOMAIN J /\ n + j \in DOMAIN J
    BY <1>3, <1>7, Zenon
  <2>2. n + i < n + j
    <3>1. \A a, b, c \in Int : b < c => a + b < a + c
      OBVIOUS
    <3>2. n \in Int /\ i \in Int /\ j \in Int
      BY <1>1
    <3> QED BY <3>1, <3>2, Zenon
  <2>3. J[n + i] # End /\ (J[n + j] = End \/ J[n + i] < J[n + j])
    BY <1>4, <2>1, <2>2, Zenon DEF PagesThenEnd
  <2> QED BY <1>3, <2>3, Zenon
<1>9. HasEnd(t) <=> End \in Range(t)
  BY <1>8, EndIsLast, Zenon
<1>10. End \in Range(t) => End \in Range(J)
  BY <1>1, <1>3, <1>7, Zenon DEF Range
<1>11. End \in Range(J) => End \in Range(t)
  <2> SUFFICES ASSUME NEW i \in 1..(n + Len(t)), J[i] = End PROVE End \in Range(t)
    BY <1>3, Zenon DEF Range
  <2>1. i \in 1..n \/ \E k \in 1..Len(t) : i = n + k
    BY <1>1, SplitIndex, Zenon
  <2>2. i \notin 1..n
    BY <1>1, <1>3, <1>6, Zenon DEF Range
  <2>3. PICK k \in 1..Len(t) : i = n + k
    BY <2>1, <2>2, Zenon
  <2>4. t[k] = End
    BY <1>3, <2>3, Zenon
  <2> QED BY <1>1, <2>4, Zenon DEF Range
<1> QED BY <1>9, <1>10, <1>11, Zenon DEF J, n

(* A fetch asks for what follows what its consumer has. *)
LEMMA FetchStart ==
    ASSUME Types, KindInv, NEW d \in Dests, MatchInv(d), NewInv(d),
           ~request[d], ~AtEnd(d), ~deleted[d], d > numBuffers => ~noMoreBuffers
    PROVE  LET q == sequence[d] + Acked(d)
           IN  /\ q = Len(got[d]) /\ Matches(got[d], q, Kept(d), NoResponse)
               /\ d <= numBuffers \/ kind # "kBroadcast" => Joined(got[d], q, Kept(d)) = Sent(d)
               /\ d > numBuffers /\ kind = "kBroadcast" => Joined(got[d], q, Kept(d)) = Backlog
<1> DEFINE q == sequence[d] + Acked(d)
           n == Acked(d)
<1>1. /\ data[d] \in Seq(Items) /\ got[d] \in Seq(Items) /\ sequence[d] \in Nat
      /\ Len(got[d]) \in Nat
  BY DestTyped, SeqFacts, Zenon
<1>2. /\ n \in Nat
      /\ d <= numBuffers => Grown(d) = numBuffers /\ Kept(d) = Suffix(data[d], n)
      /\ d > numBuffers => Grown(d) = d /\ n = 0 /\ Kept(d) = WithBuffers(d)[d]
  BY GetDataParts, Zenon
<1>3. Matches(got[d], sequence[d], data[d], response[d]) /\ response[d] = NoResponse
  BY Zenon DEF MatchInv
<1>4. sequence[d] <= Len(got[d]) /\ NumPages(got[d]) = Len(got[d]) /\ Received(d) = got[d]
  BY <1>1, <1>3, MatchesTyped, Zenon DEF AtEnd, NumPages, Received
<1>5. n = NumAcked(d, Len(got[d]))
  BY <1>4, Zenon DEF Acked
<1>6. q = Len(got[d])
  <2>1. \A a, b \in Nat : a <= b => a + (IF b > a THEN b - a ELSE 0) = b
    OBVIOUS
  <2> QED BY <1>1, <1>4, <1>5, <2>1, Zenon DEF NumAcked
<1>7. CASE d <= numBuffers
  <2>1. Len(got[d]) <= NumPages(got[d])
    BY <1>1, <1>4
  <2>2. /\ Joined(got[d], sequence[d] + NumAcked(d, Len(got[d])), Suffix(data[d], NumAcked(d, Len(got[d]))))
             = Joined(got[d], sequence[d], data[d])
        /\ Matches(got[d], sequence[d] + NumAcked(d, Len(got[d])),
                   Suffix(data[d], NumAcked(d, Len(got[d]))), response[d])
    BY <1>1, <2>1, AckFacts, Zenon
  <2>3. Sent(d) = Joined(got[d], sequence[d], data[d])
    BY Zenon DEF Sent
  <2>4. ~(d > numBuffers)
    BY <1>7, SizesAssumption DEF Types, Dests
  <2> QED BY <1>2, <1>3, <1>5, <1>6, <1>7, <2>2, <2>3, <2>4, Zenon
<1>8. CASE d > numBuffers
  <2>1. /\ data[d] = <<>> /\ sequence[d] = 0 /\ got[d] = <<>> /\ n = 0 /\ Kept(d) = WithBuffers(d)[d]
    BY <1>2, <1>8, Zenon DEF NewInv
  <2>2. q = 0
    BY <1>1, <2>1
  <2>3. Sent(d) = <<>>
    <3>1. Sent(d) = Joined(<<>>, 0, <<>>)
      BY <2>1, Zenon DEF Sent
    <3> QED BY <3>1, RangeNone, JoinedNone, Zenon
  <2>4. ~(d <= numBuffers) /\ d \in Int /\ d <= d
    BY <1>8, SizesAssumption DEF Types, Dests
  <2>5. CASE kind = "kBroadcast"
    <3>1. Kept(d) = Backlog
      BY <1>8, <2>1, <2>4, <2>5, WithBuffersAt, Zenon
    <3>2. Backlog \in Seq(Items) /\ PagesThenEnd(Backlog)
      BY <1>8, <2>5, BacklogFacts, Zenon
    <3>3. Matches(<<>>, 0, Backlog, NoResponse) /\ Joined(<<>>, 0, Backlog) = Backlog
      BY <3>2, MatchesNew, JoinedNone, Zenon
    <3> QED BY <1>6, <2>1, <2>2, <2>4, <2>5, <3>1, <3>3, Zenon
  <2>6. CASE kind # "kBroadcast"
    <3>1. Kept(d) = <<>>
      BY <2>1, <2>4, <2>6, WithBuffersAt, Zenon
    <3>2. <<>> \in Seq(Items) /\ PagesThenEnd(<<>>)
      BY ConstantsTyped, RangeNone, OrderOne, Zenon
    <3>3. Matches(<<>>, 0, <<>>, NoResponse) /\ Joined(<<>>, 0, <<>>) = <<>>
      BY <3>2, MatchesNew, JoinedNone, Zenon
    <3> QED BY <1>6, <2>1, <2>2, <2>3, <2>6, <3>1, <3>3, Zenon
  <2> QED BY <2>5, <2>6, Zenon
<1>9. d <= numBuffers \/ d > numBuffers
  BY SizesAssumption DEF Types, Dests
<1> QED BY <1>7, <1>8, <1>9, Zenon

(* What a fetch takes from the shared buffer. *)
Fetched(d) == IF Loads /\ ~HasEnd(Kept(d)) THEN Taken(arbitrary) ELSE <<>>

LEMMA FetchTakes ==
    ASSUME Types, KindInv, ContentInv, QueueInv, NEW d \in Dests,
           ~request[d], ~AtEnd(d), ~deleted[d], d > numBuffers => ~noMoreBuffers
    PROVE  LET q == sequence[d] + Acked(d)
           IN  /\ Fetched(d) \in Seq(Items) /\ q = Len(got[d])
               /\ Matches(got[d], q, Loaded(d), NoResponse)
               /\ Joined(got[d], q, Loaded(d)) = Joined(got[d], q, Kept(d)) \o Fetched(d)
               /\ Loads => (HasEnd(Kept(d)) <=> Ended(d))
               /\ Loaded(d) = <<>> => ~Loads
<1> DEFINE q == sequence[d] + Acked(d)
           J == Joined(got[d], q, Kept(d))
<1>1. MatchInv(d) /\ NewInv(d)
  BY Zenon DEF QueueInv
<1>2. /\ q = Len(got[d]) /\ Matches(got[d], q, Kept(d), NoResponse)
      /\ kind # "kBroadcast" => J = Sent(d)
  BY <1>1, FetchStart, Zenon
<1>3. Kept(d) \in Seq(Items) /\ Taken(arbitrary) \in Seq(Items) /\ Loaded(d) \in Seq(Items)
  BY <1>1, GetDataParts, Zenon
<1>4. got[d] \in Seq(Items) /\ Len(got[d]) \in Nat /\ Len(got[d]) <= Len(got[d])
  <2>1. got[d] \in Seq(Items) /\ Len(got[d]) \in Nat
    BY DestTyped, SeqFacts, Zenon
  <2> QED BY <2>1
<1>5. NoResponse \in Seq(Items) \cup {NoResponse} /\ <<>> \in Seq(Items)
  BY RangeNone, Zenon
<1>6. Fetched(d) \in Seq(Items)
  BY <1>3, <1>5, Zenon DEF Fetched
<1>7. Loaded(d) = Kept(d) \o Fetched(d)
  <2>1. \A s \in Seq(Items) : s \o <<>> = s
    OBVIOUS
  <2> QED BY <1>3, <2>1, Zenon DEF Loaded, Fetched, Enqueued
<1>8. J \in Seq(Items) /\ PagesThenEnd(J)
  <2>1. J \in Seq(Items)
    BY <1>2, <1>3, <1>4, JoinedTyped, Zenon
  <2> QED BY <1>2, <2>1, Zenon DEF Matches
<1>9. Joined(got[d], q, Loaded(d)) = J \o Fetched(d)
  <2>1. ASSUME NEW g \in Seq(Items), NEW t \in Seq(Items), NEW u \in Seq(Items)
        PROVE  Joined(g, Len(g), t \o u) = Joined(g, Len(g), t) \o u
    <3>1. Len(g) \in Nat /\ Len(g) <= Len(g)
      OBVIOUS
    <3> QED BY <3>1, JoinedMore, Zenon
  <2>2. Joined(got[d], Len(got[d]), Kept(d) \o Fetched(d)) = Joined(got[d], Len(got[d]), Kept(d)) \o Fetched(d)
    BY <1>3, <1>4, <1>6, <2>1, Zenon
  <2> QED BY <1>2, <1>7, <2>2, Zenon
<1>10. Loads => (HasEnd(Kept(d)) <=> Ended(d))
  <2>1. ASSUME Loads PROVE kind # "kBroadcast"
    BY <2>1 DEF Loads
  <2>2. HasEnd(Kept(d)) <=> End \in Range(J)
    BY <1>2, <1>3, <1>4, EndInBuffer, Zenon DEF AtEnd
  <2> QED BY <1>2, <2>1, <2>2, Zenon DEF Ended
<1>11. PagesThenEnd(J \o Fetched(d))
  <2>1. CASE Fetched(d) = <<>>
    <3>1. \A s \in Seq(Items) : s \o <<>> = s
      OBVIOUS
    <3> QED BY <1>8, <2>1, <3>1, Zenon
  <2>2. CASE Loads /\ ~HasEnd(Kept(d))
    <3>1. Fetched(d) = Taken(arbitrary) /\ J = Sent(d) /\ kind = "kArbitrary" /\ ~Ended(d)
      <4>1. kind = "kArbitrary"
        BY <2>2, Zenon DEF Loads
      <4>2. kind # "kBroadcast"
        BY <4>1
      <4> QED BY <1>2, <1>10, <2>2, <4>1, <4>2, Zenon DEF Fetched
    <3>2. arbitrary \in Seq(Items) /\ PagesThenEnd(arbitrary)
      BY <3>1, Zenon DEF Types, ContentInv, ShareInv
    <3>3. /\ PagesThenEnd(Taken(arbitrary)) /\ Range(arbitrary) = Range(Taken(arbitrary)) \cup Range(Rest(arbitrary))
      BY <3>2, TakenFacts, Zenon
    <3>4. \A i \in Range(Sent(d)), j \in Range(arbitrary) : j # End => i < j
      BY <3>1, Zenon DEF ContentInv, ShareInv
    <3>5. \A x \in Range(J), y \in Range(Fetched(d)) : x # End /\ (y = End \/ x < y)
      BY <3>1, <3>3, <3>4, Zenon DEF Ended
    <3>6. PagesThenEnd(Fetched(d))
      BY <3>1, <3>3, Zenon
    <3> HIDE DEF J
    <3> QED BY <1>6, <1>8, <3>5, <3>6, OrderMore, Zenon
  <2> QED BY <2>1, <2>2, Zenon DEF Fetched
<1>12. Matches(got[d], q, Loaded(d), NoResponse)
  BY <1>2, <1>3, <1>4, <1>5, <1>6, <1>7, <1>11, MatchesFed, Zenon
<1>13. Loaded(d) = <<>> => ~Loads
  <2> SUFFICES ASSUME Loaded(d) = <<>>, Loads PROVE FALSE
    BY Zenon
  <2>1. Taken(arbitrary) # <<>>
    BY TakenSome, Zenon DEF Loads, Types
  <2>2. ~HasEnd(Kept(d))
    BY Zenon DEF Loaded, Enqueued, HasEnd
  <2>3. Kept(d) \o Taken(arbitrary) = <<>>
    BY <2>2, Zenon DEF Loaded, Enqueued
  <2>4. \A s, t \in Seq(Items) : s \o t = <<>> => t = <<>>
    OBVIOUS
  <2> QED BY <1>3, <2>1, <2>3, <2>4, Zenon
<1> QED BY <1>2, <1>6, <1>9, <1>10, <1>12, <1>13, Zenon

-----------------------------------------------------------------------------
(* Pages in order, and their bytes. *)

(* No item is among the first n of a sequence in order and in the rest of it. *)
LEMMA Apart ==
    ASSUME NEW s \in Seq(Items), PagesThenEnd(s), NEW n \in Nat, n <= Len(s)
    PROVE  /\ Range(s) = Range(SubSeq(s, 1, n)) \cup Range(Suffix(s, n))
           /\ Range(SubSeq(s, 1, n)) \cap Range(Suffix(s, n)) = {}
<1> DEFINE h == SubSeq(s, 1, n)
           t == Suffix(s, n)
<1>1. /\ Len(s) \in Nat /\ DOMAIN s = 1..Len(s) /\ \A i \in 1..Len(s) : s[i] \in Int
  BY SeqFacts, ConstantsTyped, Zenon
<1>2. h \in Seq(Items) /\ Len(h) = n /\ DOMAIN h = 1..n /\ \A i \in 1..n : h[i] = s[i]
  BY <1>1
<1>3. /\ t \in Seq(Items) /\ Len(t) = Len(s) - n
      /\ \A i \in 1..(Len(s) - n) : t[i] = s[n + i]
  BY SuffixFacts, Zenon
<1>4. DOMAIN t = 1..(Len(s) - n) /\ Len(s) - n \in Nat /\ n + (Len(s) - n) = Len(s)
  <2>1. Len(s) - n \in Nat /\ n + (Len(s) - n) = Len(s)
    BY <1>1
  <2> QED BY <1>3, <2>1, SeqFacts, Zenon
<1> HIDE DEF h, t
<1>5. /\ \A i \in 1..n : i \in 1..Len(s)
      /\ \A j \in 1..(Len(s) - n) : n + j \in 1..Len(s)
  BY <1>4, Shifted, Zenon
<1>6. ASSUME NEW i \in 1..n, NEW j \in 1..(Len(s) - n) PROVE h[i] # t[j]
  <2>1. i < n + j
    BY <1>1
  <2>2. s[i] # End /\ (s[n + j] = End \/ s[i] < s[n + j])
    BY <1>1, <1>5, <2>1, Zenon DEF PagesThenEnd
  <2>3. s[i] \in Int /\ s[n + j] \in Int
    BY <1>1, <1>5, Zenon
  <2>4. s[i] # s[n + j]
    BY <2>2, <2>3
  <2> QED BY <1>2, <1>3, <2>4, Zenon
<1>7. Range(h) \cap Range(t) = {}
  BY <1>2, <1>4, <1>6, Zenon DEF Range
<1>8. ASSUME NEW i \in 1..Len(s) PROVE s[i] \in Range(h) \cup Range(t)
  <2>1. i \in 1..n \/ \E j \in 1..(Len(s) - n) : i = n + j
    <3>1. i \in 1..(n + (Len(s) - n))
      BY <1>4, Zenon
    <3> QED BY <1>4, <3>1, SplitIndex, ZenonT(30)
  <2> QED BY <1>2, <1>3, <1>4, <2>1, Zenon DEF Range
<1>9. Range(h) \subseteq Range(s) /\ Range(t) \subseteq Range(s)
  <2>1. Range(h) \subseteq Range(s)
    BY <1>1, <1>2, <1>5, Zenon DEF Range
  <2>2. Range(t) \subseteq Range(s)
    BY <1>1, <1>3, <1>4, <1>5, ZenonT(30) DEF Range
  <2> QED BY <2>1, <2>2, Zenon
<1>10. Range(s) \subseteq Range(h) \cup Range(t)
  BY <1>1, <1>8, Zenon DEF Range
<1> QED BY <1>7, <1>9, <1>10, Zenon DEF h, t

(* The items of a buffer are in order. *)
LEMMA DataInOrder ==
    ASSUME Types, NEW d \in Dests, MatchInv(d), ~deleted[d]
    PROVE  PagesThenEnd(data[d])
<1> DEFINE s == data[d]
           n == sequence[d]
           J == Joined(got[d], n, s)
<1>1. s \in Seq(Items) /\ got[d] \in Seq(Items) /\ n \in Nat
  BY DestTyped, Zenon
<1>2. Matches(got[d], n, s, response[d])
  BY Zenon DEF MatchInv
<1>3. n <= Len(got[d])
  BY <1>1, <1>2, MatchesTyped, Zenon
<1>4. /\ J \in Seq(Items) /\ Len(J) = n + Len(s) /\ \A i \in 1..Len(s) : J[n + i] = s[i]
  BY <1>1, <1>3, JoinedTyped, Zenon
<1>5. Len(s) \in Nat /\ DOMAIN s = 1..Len(s) /\ DOMAIN J = 1..(n + Len(s))
  BY <1>1, <1>4, SeqFacts, Zenon
<1>6. PagesThenEnd(J)
  BY <1>2, Zenon DEF Matches
<1> HIDE DEF s, n, J
<1>7. \A i, j \in 1..Len(s) : i < j => n + i < n + j
  BY <1>1, <1>5
<1>8. \A i \in 1..Len(s) : n + i \in 1..(n + Len(s))
  BY <1>1, <1>5, Shifted, Zenon
<1>9. PagesThenEnd(s)
  BY <1>4, <1>5, <1>6, <1>7, <1>8, Zenon DEF PagesThenEnd
<1> QED BY <1>9, Zenon DEF s

(* What is in a buffer was sent. *)
LEMMA DataSent ==
    ASSUME Types, QueueInv, BytesInv, NEW d \in Dests
    PROVE  Range(data[d]) \subseteq Range(Sent(d))
<1>1. CASE deleted[d]
  <2>1. data[d] = <<>>
    BY <1>1, Zenon DEF BytesInv
  <2> QED BY <2>1, RangeNone, Zenon
<1>2. CASE ~deleted[d]
  BY <1>2, SentTyped, Zenon DEF QueueInv
<1> QED BY <1>1, <1>2, Zenon

(* A product with a sum. *)
LEMMA TimesSum ==
    ASSUME NEW p \in Nat, NEW a \in Nat, NEW b \in Nat
    PROVE  p * (a + b) = p * a + p * b /\ p * a \in Nat /\ p * b \in Nat
OBVIOUS

(* Exact bytes stay exact when pages are freed. *)
LEMMA FreeExact ==
    ASSUME NEW p \in Nat, NEW c \in Nat, NEW u \in Nat
    PROVE  p * (c + u) - p * u = p * c
<1>1. p * (c + u) = p * c + p * u /\ p * c \in Nat /\ p * u \in Nat
  BY TimesSum, Zenon
<1> QED BY <1>1

(* Exact bytes stay exact when a page is added. *)
LEMMA AddExact ==
    ASSUME NEW p \in Nat, NEW c \in Nat
    PROVE  p * (c + 1) = p * c + p
OBVIOUS

(* Bytes that are not too small: pages are freed. *)
LEMMA FreeAtLeast ==
    ASSUME NEW p \in Nat, NEW y \in Int, NEW c \in Nat, NEW u \in Nat, NEW r \in Nat,
           y >= p * ((c + u) + r)
    PROVE  y - p * u >= p * c
<1>1. c + u \in Nat
  OBVIOUS
<1>2. p * ((c + u) + r) = p * (c + u) + p * r /\ p * r \in Nat
  BY <1>1, TimesSum, Zenon
<1>3. p * (c + u) = p * c + p * u /\ p * c \in Nat /\ p * u \in Nat
  BY TimesSum, Zenon
<1> QED BY <1>2, <1>3

(* Bytes that are not too small: a page is added. *)
LEMMA AddAtLeast ==
    ASSUME NEW p \in Nat, NEW y \in Int, NEW b \in Nat, NEW c \in Nat, NEW r \in Nat,
           b + 1 = c + r, y >= p * b
    PROVE  y + p >= p * c
<1>1. p * (b + 1) = p * b + p /\ p * (c + r) = p * c + p * r
  OBVIOUS
<1>2. p * b \in Nat /\ p * c \in Nat /\ p * r \in Nat
  OBVIOUS
<1> QED BY <1>1, <1>2
=============================================================================
