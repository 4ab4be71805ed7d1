--------------------------- MODULE ExchangeProofs ---------------------------
(***************************************************************************)
(* The consuming side of a shuffle for any number of sources, consumers    *)
(* and pages, any list of splits and any sizes: no page is lost or         *)
(* repeated, nobody sleeps while there is data, no source is forgotten,    *)
(* and the end comes after the last page.                                  *)
(***************************************************************************)
EXTENDS Exchange, FiniteSetTheorems, TLAPS

-----------------------------------------------------------------------------
(* Counting positions of sequences.                                        *)

\* The positions of T up to m + n are those up to m and the n after them.
SplitAt(T, m, n) ==
    /\ IsFiniteSet(T \cap (1..m)) /\ Cardinality(T \cap (1..m)) \in Nat
    /\ Cardinality({j \in 1..n : m + j \in T}) \in Nat
    /\ Cardinality(T \cap (1..(m + n)))
         = Cardinality(T \cap (1..m)) + Cardinality({j \in 1..n : m + j \in T})

(* Positions can be counted in two parts. *)
LEMMA SplitPositions ==
    ASSUME NEW T, NEW m \in Nat, NEW n \in Nat
    PROVE  SplitAt(T, m, n)
<1> DEFINE A == T \cap (1..m)
           B == T \cap ((m + 1)..(m + n))
           C == {j \in 1..n : m + j \in T}
<1>1. IsFiniteSet(A) /\ IsFiniteSet(B) /\ IsFiniteSet(C)
  <2>1. IsFiniteSet(1..m) /\ IsFiniteSet((m + 1)..(m + n)) /\ IsFiniteSet(1..n)
      BY FS_Interval
  <2>2. A \subseteq 1..m /\ B \subseteq (m + 1)..(m + n) /\ C \subseteq 1..n
      BY Zenon
  <2> QED
      BY Zenon, <2>1, <2>2, FS_Subset
<1>2. A \cap B = {} /\ T \cap (1..(m + n)) = A \cup B
    OBVIOUS
<1>3. Cardinality(A \cup B) = Cardinality(A) + Cardinality(B)
  <2>1. Cardinality(A \cup B) = Cardinality(A) + Cardinality(B) - Cardinality(A \cap B)
      BY ZenonT(30), <1>1, FS_Union
  <2>2. Cardinality(A \cap B) = 0
      BY Zenon, <1>2, FS_EmptySet
  <2>3. Cardinality(A) \in Nat /\ Cardinality(B) \in Nat
      BY Zenon, <1>1, FS_CardinalityType
  <2> HIDE DEF A, B
  <2> QED
      BY <2>1, <2>2, <2>3
<1>4. Cardinality(C) = Cardinality(B)
  <2> DEFINE f == [j \in C |-> m + j]
  <2>1. f \in Bijection(C, B)
    <3>1. \A j \in C : f[j] \in B
        OBVIOUS
    <3>2. \A i, j \in C : f[i] = f[j] => i = j
        OBVIOUS
    <3>3. \A b \in B : b - m \in C /\ f[b - m] = b
        OBVIOUS
    <3>4. \A b \in B : \E j \in C : f[j] = b
        BY Zenon, <3>3
    <3> HIDE DEF B, C
    <3> QED
        BY ZenonT(30), <3>1, <3>2, <3>4 DEF Bijection, Injection, Surjection, IsInjective
  <2>2. ExistsBijection(C, B)
      BY Zenon, <2>1 DEF ExistsBijection
  <2> HIDE DEF B, C
  <2> QED
      BY ZenonT(30), <1>1, <2>2, FS_Bijection
<1>5. Cardinality(A) \in Nat /\ Cardinality(C) \in Nat
    BY Zenon, <1>1, FS_CardinalityType
<1> QED
    BY ZenonT(30), <1>1, <1>2, <1>3, <1>4, <1>5 DEF SplitAt

\* How often s is in the list q.
Entries(q, s) == Cardinality({i \in DOMAIN q : q[i] = s})

(* An entry at the end *)
LEMMA EntriesAppend ==
    ASSUME NEW q \in Seq(Sources), NEW x \in Sources, NEW s \in Sources
    PROVE  /\ Append(q, x) \in Seq(Sources) /\ Entries(q, s) \in Nat
           /\ Entries(Append(q, x), s) = Entries(q, s) + (IF x = s THEN 1 ELSE 0)
<1> DEFINE A == {i \in DOMAIN q : q[i] = s}
           B == {i \in DOMAIN Append(q, x) : Append(q, x)[i] = s}
<1>1. DOMAIN q = 1..Len(q) /\ Len(q) \in Nat /\ DOMAIN Append(q, x) = 1..(Len(q) + 1)
    OBVIOUS
<1>2. IsFiniteSet(A) /\ Cardinality(A) \in Nat
  <2>1. IsFiniteSet(1..Len(q)) /\ A \subseteq 1..Len(q)
      BY <1>1, FS_Interval
  <2> QED
      BY Zenon, <2>1, FS_Subset, FS_CardinalityType
<1>3. /\ x = s => B = A \cup {Len(q) + 1}
      /\ x # s => B = A
    BY <1>1
<1>4. Len(q) + 1 \notin A
    BY <1>1
<1>5. Append(q, x) \in Seq(Sources)
    OBVIOUS
<1> HIDE DEF A, B
<1>6. x = s => Cardinality(B) = Cardinality(A) + 1
    BY Zenon, <1>2, <1>3, <1>4, FS_AddElement
<1>7. x # s => Cardinality(B) = Cardinality(A) + 0
    BY <1>2, <1>3
<1> QED
    BY Zenon, <1>2, <1>5, <1>6, <1>7 DEF Entries, A, B

\* How often s is among the first k, and whether it is.
FirstEntries(q, k, s) == Cardinality({i \in 1..k : q[i] = s})
Early(q, k, s) == \E i \in 1..k : q[i] = s

\* What is left of q without its first k.
Dropped(q, k, rest) ==
    /\ rest \in Seq(Sources) /\ Range(rest) \subseteq Range(q)
    /\ \A s \in Sources :
          /\ Entries(rest, s) \in Nat /\ FirstEntries(q, k, s) \in Nat
          /\ Entries(q, s) = FirstEntries(q, k, s) + Entries(rest, s)
          /\ FirstEntries(q, k, s) = 0 <=> ~Early(q, k, s)

(* The entries of a list are the first k and the rest. *)
LEMMA EntriesDrop ==
    ASSUME NEW q \in Seq(Sources), NEW k \in 0..Len(q),
           NEW rest, rest = SubSeq(q, k + 1, Len(q))
    PROVE  Dropped(q, k, rest)
<1> DEFINE n == Len(q) - k
<1>1. Len(q) \in Nat /\ k \in Nat /\ n \in Nat /\ DOMAIN q = 1..Len(q) /\ k + n = Len(q)
    OBVIOUS
<1>2. /\ rest \in Seq(Sources) /\ Len(rest) = n /\ DOMAIN rest = 1..n
      /\ \A j \in 1..n : rest[j] = q[k + j] /\ k + j \in DOMAIN q
    OBVIOUS
<1> HIDE DEF n
<1>3. Range(rest) \subseteq Range(q)
    BY <1>2 DEF Range
<1>4. ASSUME NEW s \in Sources
      PROVE  /\ Entries(rest, s) \in Nat /\ FirstEntries(q, k, s) \in Nat
             /\ Entries(q, s) = FirstEntries(q, k, s) + Entries(rest, s)
             /\ FirstEntries(q, k, s) = 0 <=> ~Early(q, k, s)
  <2> DEFINE T == {i \in DOMAIN q : q[i] = s}
  <2>1. T \cap (1..k) = {i \in 1..k : q[i] = s} /\ T \cap (1..(k + n)) = T
      BY <1>1
  <2>2. {j \in 1..n : k + j \in T} = {i \in DOMAIN rest : rest[i] = s}
      BY Zenon, <1>2
  <2>3. Entries(q, s) = Cardinality(T) /\ Entries(rest, s) = Cardinality({i \in DOMAIN rest : rest[i] = s})
      BY Zenon DEF Entries
  <2> HIDE DEF T
  <2>4. /\ Cardinality(T \cap (1..k)) \in Nat /\ Cardinality({j \in 1..n : k + j \in T}) \in Nat
        /\ Cardinality(T \cap (1..(k + n))) = Cardinality(T \cap (1..k)) + Cardinality({j \in 1..n : k + j \in T})
        /\ IsFiniteSet(T \cap (1..k))
    <3>1. SplitAt(T, k, n)
        BY ZenonT(30), <1>1, SplitPositions
    <3> QED
        BY Zenon, <3>1 DEF SplitAt
  <2>5. /\ FirstEntries(q, k, s) \in Nat /\ Entries(rest, s) \in Nat
        /\ Entries(q, s) = FirstEntries(q, k, s) + Entries(rest, s)
        /\ IsFiniteSet({i \in 1..k : q[i] = s})
      BY <2>1, <2>2, <2>3, <2>4, Zenon DEF FirstEntries
  <2>6. FirstEntries(q, k, s) = 0 <=> {i \in 1..k : q[i] = s} = {}
      BY Zenon, <2>5, FS_EmptySet DEF FirstEntries
  <2>7. {i \in 1..k : q[i] = s} = {} <=> ~Early(q, k, s)
      BY Zenon DEF Early
  <2> QED
      BY Zenon, <2>5, <2>6, <2>7
<1> QED
    BY <1>2, <1>3, <1>4, Zenon DEF Dropped

(* A list without entries *)
LEMMA EntriesNone ==
    ASSUME NEW q \in Seq(Sources), NEW s \in Sources
    PROVE  /\ Entries(q, s) \in Nat
           /\ Entries(q, s) = 0 <=> s \notin Range(q)
<1> DEFINE A == {i \in DOMAIN q : q[i] = s}
<1>1. IsFiniteSet(A)
  <2>1. IsFiniteSet(1..Len(q)) /\ A \subseteq 1..Len(q)
      BY FS_Interval
  <2> QED
      BY Zenon, <2>1, FS_Subset
<1>2. s \notin Range(q) <=> A = {}
    BY Zenon DEF Range
<1> HIDE DEF A
<1>3. Cardinality(A) \in Nat /\ (Cardinality(A) = 0 <=> A = {})
    BY Zenon, <1>1, FS_CardinalityType, FS_EmptySet
<1> QED
    BY Zenon, <1>2, <1>3 DEF Entries, A

-----------------------------------------------------------------------------
(* The types, as far as the proofs use them.                               *)

ReqStates == {"new", "idle", "sent", "received", "timeout", "failed"}
ConsumerStates == {"run", "pages", "last", "blocked", "done", "closing", "closed", "failed"}

Typed ==
    /\ queue \in Seq(Sources \X Nat)
    /\ noMoreSources \in BOOLEAN /\ atEnd \in BOOLEAN /\ error \in BOOLEAN
    /\ promises \in Seq(Consumers \cup {Stale})
    /\ closed \in BOOLEAN /\ producing \in Seq(Sources) /\ empty \in Seq(Sources)
    /\ req \in [Sources -> ReqStates]
    /\ sequence \in [Sources -> Nat] /\ taken \in [Sources -> Nat]
    /\ sourceAtEnd \in [Sources -> BOOLEAN] /\ answered \in [Sources -> BOOLEAN]
    /\ result \in [Sources -> [pages : Nat, end : BOOLEAN]]
    /\ response \in [Sources -> {"none", "data", "empty", "end"}]
    /\ splits \in Seq(Sources) /\ splitsAdded \in 0..Len(SplitList) /\ noMoreSplits \in BOOLEAN
    /\ consumer \in [Consumers -> ConsumerStates]
    /\ splitsSeen \in BOOLEAN /\ quit \in BOOLEAN
    /\ waking \subseteq Consumers

-----------------------------------------------------------------------------
(* Picking sources and realizing promises.                                 *)

\* The sources S are asked; of the lists P and E what is left is known as far
\* as it matters here.
Picks(P, E, R, S) ==
    /\ producing' \in Seq(Sources) /\ empty' \in Seq(Sources)
    /\ Range(producing') \subseteq Range(P) /\ Range(empty') \subseteq Range(E)
    /\ \A s \in S : s \in Range(P) \cup Range(E) /\ ~Pending(R[s]) /\ ~sourceAtEnd[s]
    /\ req' = [s \in Sources |-> IF s \in S THEN "sent" ELSE R[s]]
    /\ answered' = [s \in Sources |-> answered[s] /\ s \notin S]
    /\ \A s \in Sources :
          LET before == Entries(P, s) + Entries(E, s)
              after == Entries(producing', s) + Entries(empty', s)
          IN  /\ Entries(producing', s) \in Nat /\ Entries(empty', s) \in Nat
              /\ after <= before /\ (s \in S => after < before)
              /\ after < before /\ ~Pending(R[s]) /\ ~sourceAtEnd[s] => s \in S

(* pickSourcesToRequestLocked drops a listed source only if it asks it, if a *)
(* request of it is pending or if it is at its end.                          *)
LEMMA PickFacts ==
    ASSUME NEW P \in Seq(Sources), NEW E \in Seq(Sources), NEW R, NEW total,
           PickSources(P, E, R, total)
    PROVE  \E S \in SUBSET Sources : Picks(P, E, R, S)
<1> DEFINE all == P \o E
           first == Len(P)
           Picked(n) == {s \in Sources : /\ \E i \in 1..n : all[i] = s
                                         /\ ~Pending(R[s]) /\ ~sourceAtEnd[s]}
<1>1. PICK n \in 0..Len(all) :
          /\ producing' = SubSeq(P, n + 1, first)
          /\ empty' = SubSeq(E, (IF n > first THEN n - first ELSE 0) + 1, Len(E))
          /\ req' = [s \in Sources |-> IF s \in Picked(n) THEN "sent" ELSE R[s]]
          /\ answered' = [s \in Sources |-> answered[s] /\ s \notin Picked(n)]
    BY Zenon DEF PickSources
<1> DEFINE a == IF n > first THEN first ELSE n
           k == IF n > first THEN n - first ELSE 0
           S == Picked(n)
<1>2. a \in 0..Len(P) /\ k \in 0..Len(E) /\ Len(all) = Len(P) + Len(E)
    OBVIOUS
<1>3. producing' = SubSeq(P, a + 1, Len(P)) /\ empty' = SubSeq(E, k + 1, Len(E))
  <2>1. n > first => SubSeq(P, n + 1, first) = <<>> /\ SubSeq(P, first + 1, first) = <<>>
      OBVIOUS
  <2> QED
      BY Zenon, <1>1, <2>1
<1>4. \A s : (\E i \in 1..n : all[i] = s) <=> (\E i \in 1..a : P[i] = s) \/ (\E i \in 1..k : E[i] = s)
  <2> TAKE s
  <2>1. ASSUME NEW i \in 1..n, all[i] = s
        PROVE  (\E j \in 1..a : P[j] = s) \/ (\E j \in 1..k : E[j] = s)
    <3>1. CASE i <= first
      <4>1. i \in 1..a /\ P[i] = s
          BY <2>1, <3>1
      <4> QED
          BY Zenon, <4>1
    <3>2. CASE i > first
      <4>1. i - first \in 1..k /\ E[i - first] = s
          BY <2>1, <3>2
      <4> QED
          BY Zenon, <4>1
    <3> QED
        BY <3>1, <3>2
  <2>2. ASSUME NEW i \in 1..a, P[i] = s PROVE \E j \in 1..n : all[j] = s
    <3>1. i \in 1..n /\ all[i] = s
        BY <2>2
    <3> QED
        BY Zenon, <3>1
  <2>3. ASSUME NEW i \in 1..k, E[i] = s PROVE \E j \in 1..n : all[j] = s
    <3>1. i + first \in 1..n /\ all[i + first] = s
        BY <2>3
    <3> QED
        BY Zenon, <3>1
  <2> QED
      BY ZenonT(30), <2>1, <2>2, <2>3
<1>5. S \in SUBSET Sources
    BY Zenon
<1>6. \A s \in S : ~Pending(R[s]) /\ ~sourceAtEnd[s]
    BY Zenon
<1>7. \A s \in S : s \in Range(P) \cup Range(E)
  <2>1. \A i \in 1..a : P[i] \in Range(P)
      BY <1>2 DEF Range
  <2>2. \A i \in 1..k : E[i] \in Range(E)
      BY <1>2 DEF Range
  <2> HIDE DEF a, k, all
  <2> QED
      BY <1>4, <2>1, <2>2
<1>8. \A s \in Sources :
         s \in S <=> /\ ~Pending(R[s]) /\ ~sourceAtEnd[s]
                     /\ Early(P, a, s) \/ Early(E, k, s)
  <2> HIDE DEF a, k, all
  <2> QED
      BY ZenonT(30), <1>4 DEF Early
<1> HIDE DEF a, k, S
<1>9. Dropped(P, a, producing') /\ Dropped(E, k, empty')
    BY <1>2, <1>3, EntriesDrop, Zenon
<1>10. ASSUME NEW s \in Sources
       PROVE  LET before == Entries(P, s) + Entries(E, s)
                  after == Entries(producing', s) + Entries(empty', s)
              IN  /\ after <= before /\ (s \in S => after < before)
                  /\ after < before /\ ~Pending(R[s]) /\ ~sourceAtEnd[s] => s \in S
  <2> DEFINE x == FirstEntries(P, a, s)
             y == FirstEntries(E, k, s)
  <2>1. /\ x \in Nat /\ y \in Nat
        /\ Entries(producing', s) \in Nat /\ Entries(empty', s) \in Nat
        /\ Entries(P, s) = x + Entries(producing', s) /\ Entries(E, s) = y + Entries(empty', s)
      BY <1>9, Zenon DEF Dropped
  <2>2. s \in S <=> ~Pending(R[s]) /\ ~sourceAtEnd[s] /\ (x # 0 \/ y # 0)
      BY <1>8, <1>9, Zenon DEF Dropped
  <2> HIDE DEF x, y
  <2> QED
      BY <2>1, <2>2
<1>11. /\ req' = [s \in Sources |-> IF s \in S THEN "sent" ELSE R[s]]
       /\ answered' = [s \in Sources |-> answered[s] /\ s \notin S]
    BY Zenon, <1>1 DEF S
<1>12. Picks(P, E, R, S)
    BY <1>6, <1>7, <1>9, <1>10, <1>11, Zenon DEF Picks, Dropped
<1> QED
    BY Zenon, <1>5, <1>12

\* The newest n promises are realized.
Realizes(n) ==
    /\ promises' \in Seq(Consumers \cup {Stale})
    /\ waking \subseteq waking' /\ waking' \subseteq Consumers
    /\ \A c \in Consumers : c \in Range(promises) => c \in waking' \/ c \in Range(promises')
    /\ n >= Len(promises) => promises' = <<>>
    /\ n = 0 => promises' = promises
    /\ n > 0 /\ promises # <<>> /\ promises[Len(promises)] \in Consumers
          => promises[Len(promises)] \in waking'

(* A promise that is gone from the queue has woken its consumer. *)
LEMMA RealizeFacts ==
    ASSUME Typed, NEW n \in Nat, Realize(n)
    PROVE  Realizes(n)
<1> DEFINE kept == IF n < Len(promises) THEN Len(promises) - n ELSE 0
<1>1. /\ promises' = SubSeq(promises, 1, kept)
      /\ waking' = waking \cup ({promises[i] : i \in kept + 1..Len(promises)} \ {Stale})
    BY Zenon DEF Realize
<1>2. /\ promises \in Seq(Consumers \cup {Stale}) /\ waking \subseteq Consumers
      /\ Stale \notin Consumers /\ Len(promises) \in Nat
    BY ConsumersAssumption DEF Typed, Stale
<1>3. kept \in 0..Len(promises) /\ (n >= Len(promises) => kept = 0) /\ (n = 0 => kept = Len(promises))
    BY <1>2
<1>4. n > 0 /\ Len(promises) > 0 => kept < Len(promises)
    BY <1>2
<1> HIDE DEF kept
<1>5. /\ promises' \in Seq(Consumers \cup {Stale}) /\ Len(promises') = kept
      /\ \A i \in 1..kept : promises'[i] = promises[i]
    BY <1>1, <1>2, <1>3
<1>6. \A i \in 1..Len(promises) : promises[i] \in Consumers \cup {Stale}
    BY <1>2
<1>7. waking \subseteq waking' /\ waking' \subseteq Consumers
  <2>1. \A i \in (kept + 1)..Len(promises) : i \in 1..Len(promises)
      BY <1>2, <1>3
  <2> QED
      BY Zenon, <1>1, <1>2, <1>6, <2>1
<1>8. ASSUME NEW c \in Consumers, c \in Range(promises)
      PROVE  c \in waking' \/ c \in Range(promises')
  <2>1. PICK i \in 1..Len(promises) : promises[i] = c
      BY <1>2, <1>8 DEF Range
  <2>2. i <= kept => i \in DOMAIN promises' /\ promises'[i] = c
      BY <1>5, <2>1
  <2>3. i > kept => i \in (kept + 1)..Len(promises)
      BY <1>3, <2>1
  <2>4. i > kept => c \in waking'
      BY Zenon, <1>1, <1>2, <2>1, <2>3
  <2> QED
      BY <1>3, <2>1, <2>2, <2>4 DEF Range
<1>9. n >= Len(promises) => promises' = <<>>
    BY <1>1, <1>2, <1>3
<1>10. n = 0 => promises' = promises
    BY <1>1, <1>2, <1>3
<1>11. ASSUME n > 0, promises # <<>>, promises[Len(promises)] \in Consumers
       PROVE  promises[Len(promises)] \in waking'
  <2>1. Len(promises) \in (kept + 1)..Len(promises)
      BY <1>2, <1>3, <1>4, <1>11
  <2> QED
      BY Zenon, <1>1, <1>2, <1>11, <2>1
<1> QED
    BY Zenon, <1>5, <1>7, <1>8, <1>9, <1>10, <1>11 DEF Realizes

-----------------------------------------------------------------------------
(* Every step keeps the types.                                             *)

(* What a source puts into the queue follows what is there. *)
LEMMA EnqueueFacts ==
    ASSUME Typed, NEW s \in Sources, NEW n \in Nat, EnqueuePages(s, n)
    PROVE  /\ queue' \in Seq(Sources \X Nat) /\ Len(queue') = Len(queue) + n
           /\ \A i \in 1..Len(queue) : queue'[i] = queue[i]
           /\ \A i \in 1..n : queue'[Len(queue) + i] = <<s, sequence[s] + i>>
           /\ sequence' = [sequence EXCEPT ![s] = sequence[s] + n]
           /\ sequence' \in [Sources -> Nat]
<1> DEFINE new == [i \in 1..n |-> <<s, sequence[s] + i>>]
<1>1. queue \in Seq(Sources \X Nat) /\ sequence[s] \in Nat /\ sequence \in [Sources -> Nat]
    BY Zenon DEF Typed
<1>2. new \in Seq(Sources \X Nat) /\ Len(new) = n /\ \A i \in 1..n : new[i] = <<s, sequence[s] + i>>
    BY <1>1
<1>3. queue' = queue \o new /\ sequence' = [sequence EXCEPT ![s] = sequence[s] + n]
    BY Zenon DEF EnqueuePages
<1>4. sequence' \in [Sources -> Nat]
    BY <1>1, <1>3
<1> HIDE DEF new
<1>5. queue' \in Seq(Sources \X Nat) /\ Len(queue') = Len(queue) + n
  <2> DEFINE S == Sources \X Nat
  <2> HIDE DEF S
  <2>1. queue \in Seq(S) /\ new \in Seq(S)
      BY Zenon, <1>1, <1>2 DEF S
  <2>2. queue \o new \in Seq(S) /\ Len(queue \o new) = Len(queue) + Len(new)
      BY <2>1
  <2> QED
      BY Zenon, <1>2, <1>3, <2>2 DEF S
<1>6. \A i \in 1..Len(queue) : queue'[i] = queue[i]
    BY <1>1, <1>2, <1>3
<1>7. \A i \in 1..n : queue'[Len(queue) + i] = new[i]
    BY <1>1, <1>2, <1>3
<1> QED
    BY Zenon, <1>2, <1>3, <1>4, <1>5, <1>6, <1>7

(* The sources' steps *)
LEMMA TypedSource ==
    ASSUME Typed, NEW s \in Sources, SourceStep(s)
    PROVE  Typed'
<1>1. CASE Receive(s)
  <2>1. PICK n \in 0..(NumPages[s] - sequence[s]), end \in BOOLEAN :
            result' = [result EXCEPT ![s] = [pages |-> n, end |-> end]]
      BY Zenon, <1>1 DEF Receive
  <2>2. n \in Nat
      BY SourcesAssumption DEF Typed
  <2>3. [pages |-> n, end |-> end] \in [pages : Nat, end : BOOLEAN]
      BY Zenon, <2>2
  <2> QED
      BY ZenonT(30), <1>1, <2>1, <2>3 DEF Receive, Typed, queueVars, clientVars, splitVars, consumerVars, historyVars, ReqStates
<1>2. CASE Enqueue(s)
  <2>1. result[s].pages \in Nat /\ result[s].end \in BOOLEAN
      BY Zenon DEF Typed
  <2>2. queue' \in Seq(Sources \X Nat) /\ sequence' \in [Sources -> Nat]
      BY Zenon, <1>2, <2>1, EnqueueFacts DEF Enqueue
  <2>3. atEnd' \in BOOLEAN
      BY Zenon, <1>2 DEF Enqueue, CheckComplete, Typed
  <2>4. PICK n \in Nat : Realize(n)
      BY <1>2, <2>1 DEF Enqueue, CheckComplete, Typed
  <2>5. promises' \in Seq(Consumers \cup {Stale}) /\ waking' \subseteq Consumers
      BY Zenon, <2>4, RealizeFacts DEF Realizes
  <2>6. NoResult \in [pages : Nat, end : BOOLEAN]
      BY Zenon DEF NoResult
  <2> QED
      BY ZenonT(30), <1>2, <2>1, <2>2, <2>3, <2>5, <2>6 DEF Enqueue, Typed, clientVars, splitVars, historyVars, ReqStates
<1>3. CASE Timeout(s)
    BY ZenonT(30), <1>3 DEF Timeout, Typed, queueVars, clientVars, splitVars, consumerVars, ReqStates
<1>4. CASE TimeoutAnswer(s)
    BY ZenonT(30), <1>4 DEF TimeoutAnswer, Typed, queueVars, clientVars, splitVars, consumerVars, historyVars, ReqStates
<1>5. CASE TimeoutOverlap(s)
    BY ZenonT(30), <1>5 DEF TimeoutOverlap, Typed, queueVars, clientVars, splitVars, consumerVars, ReqStates
<1>6. CASE FailRequest(s)
  <2>1. PICK n \in Nat : Realize(n)
      BY <1>6 DEF FailRequest, SetError, Typed
  <2>2. promises' \in Seq(Consumers \cup {Stale}) /\ waking' \subseteq Consumers
      BY Zenon, <2>1, RealizeFacts DEF Realizes
  <2>3. queue' \in Seq(Sources \X Nat) /\ atEnd' \in BOOLEAN /\ error' \in BOOLEAN
      BY <1>6 DEF FailRequest, SetError, Typed
  <2> QED
      BY Zenon, <1>6, <2>2, <2>3 DEF FailRequest, Typed, clientVars, splitVars, ReqStates
<1>7. CASE Responded(s)
  <2> DEFINE P == IF response[s] = "data" THEN Append(producing, s) ELSE producing
             E == IF response[s] = "empty" THEN Append(empty, s) ELSE empty
  <2>1. P \in Seq(Sources) /\ E \in Seq(Sources)
      BY DEF Typed
  <2>2. /\ response' = [response EXCEPT ![s] = "none"]
        /\ UNCHANGED <<queueVars, closed, sequence, sourceAtEnd, result, splitVars, consumerVars, historyVars>>
        /\ IF closed THEN UNCHANGED <<producing, empty, req, asked, answered>> ELSE PickSources(P, E, req, totalBytes)
      BY Zenon, <1>7 DEF Responded
  <2> HIDE DEF P, E
  <2>3. /\ producing' \in Seq(Sources) /\ empty' \in Seq(Sources)
        /\ req' \in [Sources -> ReqStates] /\ answered' \in [Sources -> BOOLEAN]
    <3>1. CASE closed
        BY Zenon, <2>2, <3>1 DEF Typed
    <3>2. CASE ~closed
      <4>1. PICK S \in SUBSET Sources : Picks(P, E, req, S)
          BY Zenon, <2>1, <2>2, <3>2, PickFacts
      <4> QED
          BY Zenon, <4>1 DEF Picks, Typed, ReqStates
    <3> QED
        BY Zenon, <3>1, <3>2
  <2> QED
      BY ZenonT(30), <2>2, <2>3 DEF Typed, queueVars, splitVars, consumerVars, historyVars
<1> QED
    BY Zenon, <1>1, <1>2, <1>3, <1>4, <1>5, <1>6, <1>7 DEF SourceStep

(* The steps of the splits *)
LEMMA TypedSplit ==
    ASSUME Typed, AddSplit \/ NoMoreSplits \/ TakeSplit \/ TakeLastSplit \/ AwaitSplit
    PROVE  Typed'
<1>1. CASE AddSplit
  <2>1. Len(SplitList) \in Nat /\ splitsAdded + 1 \in 1..Len(SplitList) /\ SplitList[splitsAdded + 1] \in Sources
    <3>1. SplitList \in Seq(Sources) /\ splitsAdded \in Nat /\ splitsAdded < Len(SplitList)
        BY <1>1, SourcesAssumption DEF AddSplit, Typed
    <3> QED
        BY <3>1
  <2>2. splits' \in Seq(Sources) /\ splitsAdded' \in 0..Len(SplitList)
      BY <1>1, <2>1 DEF AddSplit, Typed
  <2> QED
      BY ZenonT(30), <1>1, <2>2 DEF AddSplit, Typed, queueVars, clientVars, sourceVars, historyVars
<1>2. CASE NoMoreSplits
    BY Zenon, <1>2 DEF NoMoreSplits, Typed, queueVars, clientVars, sourceVars, historyVars
<1>3. CASE TakeSplit
  <2> DEFINE s == Head(splits)
             P == Append(producing, s)
             R == [req EXCEPT ![s] = "idle"]
  <2>1. splits' \in Seq(Sources) /\ s \in Sources
      BY <1>3 DEF TakeSplit, Typed
  <2>2. P \in Seq(Sources) /\ empty \in Seq(Sources) /\ R \in [Sources -> ReqStates]
      BY <2>1 DEF Typed, ReqStates
  <2>3. IF req[s] # "new" \/ closed THEN UNCHANGED <<numSources, producing, empty, req, asked, answered>>
        ELSE PickSources(P, empty, R, totalBytes)
      BY Zenon, <1>3 DEF TakeSplit
  <2> HIDE DEF s, P, R
  <2>4. /\ producing' \in Seq(Sources) /\ empty' \in Seq(Sources)
        /\ req' \in [Sources -> ReqStates] /\ answered' \in [Sources -> BOOLEAN]
    <3>1. CASE req[s] # "new" \/ closed
        BY Zenon, <2>3, <3>1 DEF Typed
    <3>2. CASE ~(req[s] # "new" \/ closed)
      <4>1. PICK S \in SUBSET Sources : Picks(P, empty, R, S)
          BY Zenon, <2>2, <2>3, <3>2, PickFacts
      <4> QED
          BY Zenon, <2>2, <4>1 DEF Picks, Typed, ReqStates
    <3> QED
        BY Zenon, <3>1, <3>2
  <2> QED
      BY ZenonT(30), <1>3, <2>1, <2>4 DEF TakeSplit, Typed, consumerVars, historyVars
<1>4. CASE TakeLastSplit
  <2>1. PICK n \in Nat : Realize(n)
      BY <1>4 DEF TakeLastSplit, CheckComplete, Typed
  <2>2. promises' \in Seq(Consumers \cup {Stale}) /\ waking' \subseteq Consumers
      BY Zenon, <2>1, RealizeFacts DEF Realizes
  <2>3. atEnd' \in BOOLEAN
      BY Zenon, <1>4 DEF TakeLastSplit, CheckComplete, Typed
  <2> QED
      BY Zenon, <1>4, <2>2, <2>3 DEF TakeLastSplit, Typed, clientVars, sourceVars, splitVars, historyVars
<1>5. CASE AwaitSplit
    BY ZenonT(30), <1>5 DEF AwaitSplit, Typed, queueVars, clientVars, sourceVars, historyVars
<1> QED
    BY Zenon, <1>1, <1>2, <1>3, <1>4, <1>5

\* How many of the first n pages of q are from s.
FirstPages(q, n, s) == Cardinality({i \in 1..n : q[i][1] = s})

(* The pages of s among the first n are counted. *)
LEMMA FirstPagesNat ==
    ASSUME NEW q, NEW n \in Nat, NEW s
    PROVE  FirstPages(q, n, s) \in Nat
<1>1. IsFiniteSet(1..n) /\ {i \in 1..n : q[i][1] = s} \subseteq 1..n
    BY FS_Interval
<1>2. IsFiniteSet({i \in 1..n : q[i][1] = s})
    BY Zenon, <1>1, FS_Subset
<1> QED
    BY Zenon, <1>2, FS_CardinalityType DEF FirstPages

(* Exchange::isBlocked takes the first n pages of the queue. *)
LEMMA NextFacts ==
    ASSUME Typed, NEW c \in Consumers, Next_(c)
    PROVE  \E n \in 0..Len(queue) :
              /\ n = 0 => queue = <<>>
              /\ queue' = SubSeq(queue, n + 1, Len(queue))
              /\ taken' = [s \in Sources |-> taken[s] + FirstPages(queue, n, s)]
              /\ promises' = IF n = Len(queue) /\ ~atEnd
                             THEN Append(promises, IF n = 0 THEN c ELSE Stale) ELSE promises
              /\ consumer' = [consumer EXCEPT ![c] = IF n > 0 THEN IF n = Len(queue) /\ atEnd THEN "last" ELSE "pages"
                                                     ELSE IF n = Len(queue) /\ atEnd THEN "done" ELSE "blocked"]
              /\ \/ UNCHANGED <<producing, empty, req, answered>>
                 \/ \E S \in SUBSET Sources : Picks(producing, empty, req, S)
<1> DEFINE total(n) == totalBytes - Bytes(SubSeq(queue, 1, n))
<1>1. PICK n \in 0..Len(queue) :
          /\ ~(n = Len(queue)) => n > 0
          /\ queue' = SubSeq(queue, n + 1, Len(queue))
          /\ taken' = [s \in Sources |-> taken[s] + FirstPages(queue, n, s)]
          /\ promises' = IF n = Len(queue) /\ ~atEnd
                         THEN Append(promises, IF n = 0 THEN c ELSE Stale) ELSE promises
          /\ consumer' = [consumer EXCEPT ![c] = IF n > 0 THEN IF n = Len(queue) /\ atEnd THEN "last" ELSE "pages"
                                                 ELSE IF n = Len(queue) /\ atEnd THEN "done" ELSE "blocked"]
          /\ \/ UNCHANGED <<producing, empty, req, asked, answered>>
             \/ PickSources(producing, empty, req, total(n))
  <2> HIDE DEF total
  <2> QED
      BY Zenon DEF Next_, total, FirstPages
<1>2. n = 0 => queue = <<>>
    BY <1>1 DEF Typed
<1>3. \/ UNCHANGED <<producing, empty, req, answered>>
      \/ \E S \in SUBSET Sources : Picks(producing, empty, req, S)
  <2>1. producing \in Seq(Sources) /\ empty \in Seq(Sources)
      BY Zenon DEF Typed
  <2> HIDE DEF total
  <2> QED
      BY Zenon, <1>1, <2>1, PickFacts
<1> QED
    BY Zenon, <1>1, <1>2, <1>3

(* A consumer that goes on leaves the promises of the others alone. *)
LEMMA UnblockFacts ==
    ASSUME Typed, NEW c \in Consumers, NEW next, Unblock(c, next)
    PROVE  /\ promises' \in Seq(Consumers \cup {Stale})
           /\ \A d \in Consumers \ {c} : d \in Range(promises) => d \in Range(promises')
<1>1. /\ promises \in Seq(Consumers \cup {Stale})
      /\ promises' = [i \in DOMAIN promises |-> IF promises[i] = c THEN Stale ELSE promises[i]]
    BY Zenon DEF Typed, Unblock
<1>2. DOMAIN promises = 1..Len(promises) /\ Len(promises) \in Nat
    BY <1>1
<1>3. \A i \in DOMAIN promises : promises[i] \in Consumers \cup {Stale}
    BY <1>1
<1>4. promises' \in Seq(Consumers \cup {Stale})
    BY <1>1, <1>2, <1>3
<1>5. \A d \in Consumers \ {c} : d \in Range(promises) => d \in Range(promises')
    BY Zenon, <1>1 DEF Range
<1> QED
    BY Zenon, <1>4, <1>5

(* The operators' steps *)
LEMMA TypedConsumer ==
    ASSUME Typed, NEW c \in Consumers, ConsumerStep(c)
    PROVE  Typed'
<1>1. CASE Next_(c)
  <2>1. PICK n \in 0..Len(queue) :
              /\ queue' = SubSeq(queue, n + 1, Len(queue))
              /\ taken' = [s \in Sources |-> taken[s] + FirstPages(queue, n, s)]
              /\ promises' = IF n = Len(queue) /\ ~atEnd
                             THEN Append(promises, IF n = 0 THEN c ELSE Stale) ELSE promises
              /\ consumer' = [consumer EXCEPT ![c] = IF n > 0 THEN IF n = Len(queue) /\ atEnd THEN "last" ELSE "pages"
                                                     ELSE IF n = Len(queue) /\ atEnd THEN "done" ELSE "blocked"]
              /\ \/ UNCHANGED <<producing, empty, req, answered>>
                 \/ \E S \in SUBSET Sources : Picks(producing, empty, req, S)
      BY <1>1, NextFacts, Zenon
  <2>2. queue' \in Seq(Sources \X Nat)
    <3> DEFINE T == Sources \X Nat
    <3> HIDE DEF T
    <3>1. queue \in Seq(T)
        BY Zenon DEF T, Typed
    <3>2. SubSeq(queue, n + 1, Len(queue)) \in Seq(T)
        BY <3>1
    <3> QED
        BY Zenon, <2>1, <3>2 DEF T
  <2>3. taken' \in [Sources -> Nat]
    <3>1. n \in Nat
        BY DEF Typed
    <3>2. \A s \in Sources : taken[s] + FirstPages(queue, n, s) \in Nat
        BY <3>1, FirstPagesNat DEF Typed
    <3> QED
        BY Zenon, <2>1, <3>2
  <2>4. promises' \in Seq(Consumers \cup {Stale})
    <3>1. promises \in Seq(Consumers \cup {Stale}) /\ c \in Consumers \cup {Stale} /\ Stale \in Consumers \cup {Stale}
        BY Zenon DEF Typed
    <3> HIDE DEF Stale
    <3> QED
        BY <2>1, <3>1
  <2>5. consumer' \in [Consumers -> ConsumerStates]
      BY Zenon, <2>1 DEF Typed, ConsumerStates
  <2>6. /\ producing' \in Seq(Sources) /\ empty' \in Seq(Sources)
        /\ req' \in [Sources -> ReqStates] /\ answered' \in [Sources -> BOOLEAN]
    <3>1. CASE UNCHANGED <<producing, empty, req, answered>>
        BY Zenon, <3>1 DEF Typed
    <3>2. CASE \E S \in SUBSET Sources : Picks(producing, empty, req, S)
      <4>1. PICK S \in SUBSET Sources : Picks(producing, empty, req, S)
          BY Zenon, <3>2
      <4> QED
          BY Zenon, <4>1 DEF Picks, Typed, ReqStates
    <3> QED
        BY Zenon, <2>1, <3>1, <3>2
  <2> QED
      BY ZenonT(30), <1>1, <2>2, <2>3, <2>4, <2>5, <2>6 DEF Next_, Typed, splitVars, historyVars
<1>2. CASE NextFails(c)
    BY Zenon, <1>2 DEF NextFails, Typed, queueVars, clientVars, sourceVars, splitVars, historyVars, ConsumerStates
<1>3. CASE GetOutput(c)
    BY ZenonT(30), <1>3 DEF GetOutput, Typed, queueVars, clientVars, sourceVars, splitVars, historyVars, ConsumerStates
<1>4. ASSUME NEW next \in {"run", "done"}, Unblock(c, next), quit' \in BOOLEAN
      PROVE  Typed'
  <2>1. promises' \in Seq(Consumers \cup {Stale})
      BY ZenonT(30), <1>4, UnblockFacts
  <2>2. consumer' \in [Consumers -> ConsumerStates] /\ waking' \subseteq Consumers
      BY Zenon, <1>4 DEF Unblock, Typed, ConsumerStates
  <2> QED
      BY ZenonT(30), <1>4, <2>1, <2>2 DEF Unblock, Typed, clientVars, sourceVars
<1>5. CASE Wake(c) \/ Terminate(c)
    BY Zenon, <1>4, <1>5 DEF Wake, Terminate, historyVars, Typed
<1>6. CASE Quit(c)
    BY Zenon, <1>4, <1>6 DEF Quit
<1>7. CASE Close(c)
    BY ZenonT(30), <1>7 DEF Close, Typed, queueVars, sourceVars, splitVars, historyVars, ConsumerStates
<1>8. CASE CloseQueue(c)
  <2>1. Len(promises) \in Nat
      BY DEF Typed
  <2>2. promises' \in Seq(Consumers \cup {Stale}) /\ waking' \subseteq Consumers
      BY Zenon, <1>8, <2>1, RealizeFacts DEF CloseQueue, Realizes
  <2> QED
      BY <1>8, <2>2 DEF CloseQueue, Typed, clientVars, sourceVars, splitVars, historyVars, ConsumerStates
<1> QED
    BY Zenon, <1>1, <1>2, <1>3, <1>5, <1>6, <1>7, <1>8 DEF ConsumerStep

(* The types hold at the start, *)
LEMMA TypedInit == Init => Typed
<1>1. SubSeq(SplitList, 1, EarlySplits) \in Seq(Sources) /\ EarlySplits \in 0..Len(SplitList)
    BY SourcesAssumption
<1>2. NoResult \in [pages : Nat, end : BOOLEAN]
    BY Zenon DEF NoResult
<1>3. <<>> \in Seq(Sources \X Nat) /\ <<>> \in Seq(Consumers \cup {Stale}) /\ <<>> \in Seq(Sources)
    OBVIOUS
<1> SUFFICES ASSUME Init PROVE Typed
    BY Zenon
<1>4. /\ queue \in Seq(Sources \X Nat) /\ promises \in Seq(Consumers \cup {Stale})
      /\ producing \in Seq(Sources) /\ empty \in Seq(Sources)
      /\ splits \in Seq(Sources) /\ splitsAdded \in 0..Len(SplitList)
    BY Zenon, <1>1, <1>3 DEF Init
<1>5. /\ req \in [Sources -> ReqStates] /\ sequence \in [Sources -> Nat] /\ taken \in [Sources -> Nat]
      /\ sourceAtEnd \in [Sources -> BOOLEAN] /\ answered \in [Sources -> BOOLEAN]
      /\ result \in [Sources -> [pages : Nat, end : BOOLEAN]]
      /\ response \in [Sources -> {"none", "data", "empty", "end"}]
      /\ consumer \in [Consumers -> ConsumerStates] /\ waking \subseteq Consumers
    BY Zenon, <1>2 DEF Init, ReqStates, ConsumerStates
<1> QED
    BY ZenonT(30), <1>4, <1>5 DEF Init, Typed

(* and every step keeps them. *)
LEMMA TypedNext == Typed /\ [Next]_vars => Typed'
<1> SUFFICES ASSUME Typed, [Next]_vars PROVE Typed'
    BY Zenon
<1>1. CASE UNCHANGED vars
    BY ZenonT(30), <1>1 DEF Typed, vars, queueVars, clientVars, sourceVars, splitVars, consumerVars, historyVars
<1> QED
    BY Zenon, <1>1, TypedSource, TypedConsumer, TypedSplit DEF Next

-----------------------------------------------------------------------------
(* No page is lost or repeated.                                            *)

\* NothingLostOrRepeated with the counts by name.
PagesInOrder ==
    QueueIntact => \A s \in Sources :
        /\ sequence[s] = taken[s] + FirstPages(queue, Len(queue), s)
        /\ \A i \in 1..Len(queue) : queue[i][1] = s => queue[i][2] = taken[s] + FirstPages(queue, i, s)

\* A consumer that closes the queue has closed the client before.
ClosingClosed == \A c \in Consumers : consumer[c] \in {"closing", "closed"} => closed

\* The first n pages of r are those of q after m; r is from t up to n.
Follows(r, n, q, m) == \A j \in 1..n : r[j] = q[m + j]
IsFrom(r, n, t) == \A i \in 1..n : r[i][1] = t

(* The first m + n pages are the first m and the n after them. *)
LEMMA PagesShift ==
    ASSUME NEW q, NEW r, NEW m \in Nat, NEW n \in Nat, Follows(r, n, q, m), NEW s
    PROVE  FirstPages(q, m + n, s) = FirstPages(q, m, s) + FirstPages(r, n, s)
<1> DEFINE T == {i \in 1..(m + n) : q[i][1] = s}
<1>1. T \cap (1..(m + n)) = T /\ T \cap (1..m) = {i \in 1..m : q[i][1] = s}
    OBVIOUS
<1>2. \A j \in 1..n : m + j \in T <=> r[j][1] = s
    BY DEF Follows
<1>3. FirstPages(q, m + n, s) = Cardinality(T)
    BY Zenon DEF FirstPages
<1> HIDE DEF T
<1>4. {j \in 1..n : m + j \in T} = {j \in 1..n : r[j][1] = s}
    BY Zenon, <1>2
<1>5. SplitAt(T, m, n)
    BY Zenon, SplitPositions
<1>6. FirstPages(q, m, s) = Cardinality(T \cap (1..m)) /\ FirstPages(r, n, s) = Cardinality({j \in 1..n : m + j \in T})
    BY Zenon, <1>1, <1>4 DEF FirstPages
<1> QED
    BY <1>1, <1>3, <1>5, <1>6, Zenon DEF SplitAt

(* Only the first n pages matter. *)
LEMMA PagesSame ==
    ASSUME NEW q, NEW r, NEW n \in Nat, Follows(r, n, q, 0), NEW s
    PROVE  FirstPages(r, n, s) = FirstPages(q, n, s)
<1>1. {i \in 1..n : r[i][1] = s} = {i \in 1..n : q[i][1] = s}
    BY DEF Follows
<1> QED
    BY Zenon, <1>1 DEF FirstPages

(* Pages of one source only *)
LEMMA PagesOfOne ==
    ASSUME NEW r, NEW n \in Nat, NEW t, IsFrom(r, n, t), NEW s
    PROVE  FirstPages(r, n, s) = IF s = t THEN n ELSE 0
<1>1. CASE s = t
  <2>1. {i \in 1..n : r[i][1] = s} = 1..n
      BY Zenon, <1>1 DEF IsFrom
  <2>2. Cardinality(1..n) = n
    <3>1. Cardinality(1..n) = IF 1 > n THEN 0 ELSE n - 1 + 1
        BY FS_Interval
    <3> QED
        BY <3>1
  <2> QED
      BY ZenonT(30), <1>1, <2>1, <2>2 DEF FirstPages
<1>2. CASE s # t
  <2>1. {i \in 1..n : r[i][1] = s} = {}
      BY Zenon, <1>2 DEF IsFrom
  <2> QED
      BY Zenon, <1>2, <2>1, FS_EmptySet DEF FirstPages
<1> QED
    BY Zenon, <1>1, <1>2

(* The result callback puts the next pages of its source behind the others. *)
LEMMA PagesEnqueue ==
    ASSUME Typed, PagesInOrder, NEW t \in Sources, Enqueue(t)
    PROVE  PagesInOrder'
<1> DEFINE n == result[t].pages
           len == Len(queue)
           new == [i \in 1..n |-> queue'[len + i]]
<1>1. n \in Nat /\ len \in Nat
    BY DEF Typed
<1>2. EnqueuePages(t, n) /\ UNCHANGED <<error, closed, taken>>
    BY Zenon DEF Enqueue, clientVars
<1> HIDE DEF n
<1>3. /\ Len(queue') = len + n
      /\ \A i \in 1..len : queue'[i] = queue[i]
      /\ \A i \in 1..n : queue'[len + i] = <<t, sequence[t] + i>>
      /\ sequence' = [sequence EXCEPT ![t] = sequence[t] + n]
    BY ZenonT(30), <1>1, <1>2, EnqueueFacts
<1>4. \A i \in 1..n : new[i] = queue'[len + i] /\ new[i][1] = t
    BY <1>3
<1> HIDE DEF len, new
<1> SUFFICES ASSUME QueueIntact', NEW s \in Sources
             PROVE  /\ sequence'[s] = taken'[s] + FirstPages(queue', Len(queue'), s)
                    /\ \A i \in 1..Len(queue') : queue'[i][1] = s => queue'[i][2] = taken'[s] + FirstPages(queue', i, s)
    BY Zenon DEF PagesInOrder
<1>5. /\ sequence[s] = taken[s] + FirstPages(queue, len, s)
      /\ \A i \in 1..len : queue[i][1] = s => queue[i][2] = taken[s] + FirstPages(queue, i, s)
    BY Zenon, <1>2 DEF QueueIntact, PagesInOrder, len
<1>6. \A i \in 0..len : FirstPages(queue', i, s) = FirstPages(queue, i, s)
  <2> TAKE i \in 0..len
  <2>1. i \in Nat /\ Follows(queue', i, queue, 0)
      BY <1>1, <1>3 DEF Follows
  <2> QED
      BY <2>1, PagesSame
<1>7. \A j \in 0..n : FirstPages(queue', len + j, s) = FirstPages(queue, len, s) + IF s = t THEN j ELSE 0
  <2> TAKE j \in 0..n
  <2>1. j \in Nat /\ Follows(new, j, queue', len) /\ IsFrom(new, j, t)
      BY <1>1, <1>4 DEF Follows, IsFrom
  <2>2. FirstPages(queue', len + j, s) = FirstPages(queue', len, s) + FirstPages(new, j, s)
      BY <1>1, <2>1, PagesShift
  <2>3. FirstPages(new, j, s) = IF s = t THEN j ELSE 0
      BY Zenon, <2>1, PagesOfOne
  <2>4. FirstPages(queue', len, s) = FirstPages(queue, len, s)
      BY <1>1, <1>6
  <2> QED
      BY Zenon, <2>2, <2>3, <2>4
<1>8. FirstPages(queue, len, s) \in Nat /\ taken[s] \in Nat /\ sequence[s] \in Nat
    BY Zenon, <1>1, FirstPagesNat DEF Typed
<1>9. sequence'[s] = taken'[s] + FirstPages(queue', Len(queue'), s)
  <2>1. FirstPages(queue', len + n, s) = FirstPages(queue, len, s) + IF s = t THEN n ELSE 0
      BY <1>1, <1>7
  <2>2. sequence'[s] = sequence[s] + IF s = t THEN n ELSE 0
    <3>1. sequence \in [Sources -> Nat]
        BY Zenon DEF Typed
    <3> QED
        BY <1>1, <1>3, <3>1
  <2> QED
      BY <1>1, <1>2, <1>3, <1>5, <1>8, <2>1, <2>2
<1>10. ASSUME NEW i \in 1..Len(queue'), queue'[i][1] = s
       PROVE  queue'[i][2] = taken'[s] + FirstPages(queue', i, s)
  <2>1. CASE i \in 1..len
      BY <1>1, <1>2, <1>3, <1>5, <1>6, <1>10, <2>1
  <2>2. CASE i \notin 1..len
    <3>1. i - len \in 1..n /\ i = len + (i - len)
        BY <1>1, <1>3, <2>2
    <3>2. PICK j \in 1..n : i = len + j
        BY Zenon, <3>1
    <3>3. queue'[i] = <<t, sequence[t] + j>>
        BY Zenon, <1>3, <3>2
    <3>4. s = t /\ queue'[i][2] = sequence[s] + j
        BY <1>10, <3>3
    <3>5. FirstPages(queue', i, s) = FirstPages(queue, len, s) + j
        BY <1>7, <3>2, <3>4
    <3> QED
        BY <1>2, <1>5, <1>8, <3>4, <3>5
  <2> QED
      BY Zenon, <2>1, <2>2
<1> QED
    BY Zenon, <1>9, <1>10

(* A consumer takes the first pages of the queue. *)
LEMMA PagesNext ==
    ASSUME Typed, PagesInOrder, NEW c \in Consumers, Next_(c)
    PROVE  PagesInOrder'
<1>1. PICK n \in 0..Len(queue) :
              /\ queue' = SubSeq(queue, n + 1, Len(queue))
              /\ taken' = [s \in Sources |-> taken[s] + FirstPages(queue, n, s)]
    BY NextFacts, Zenon
<1>2. UNCHANGED <<error, closed, sequence>>
    BY Zenon DEF Next_
<1> DEFINE len == Len(queue')
<1>3. n \in Nat /\ len \in Nat /\ n + len = Len(queue) /\ \A i \in 1..len : queue'[i] = queue[n + i]
  <2> DEFINE T == Sources \X Nat
  <2> HIDE DEF T
  <2>1. queue \in Seq(T)
      BY Zenon DEF T, Typed
  <2> QED
      BY <1>1, <2>1
<1> HIDE DEF len
<1> SUFFICES ASSUME QueueIntact', NEW s \in Sources
             PROVE  /\ sequence'[s] = taken'[s] + FirstPages(queue', len, s)
                    /\ \A i \in 1..len : queue'[i][1] = s => queue'[i][2] = taken'[s] + FirstPages(queue', i, s)
    BY Zenon DEF PagesInOrder, len
<1>4. /\ sequence[s] = taken[s] + FirstPages(queue, Len(queue), s)
      /\ \A i \in 1..Len(queue) : queue[i][1] = s => queue[i][2] = taken[s] + FirstPages(queue, i, s)
    BY Zenon, <1>2 DEF QueueIntact, PagesInOrder
<1>5. ASSUME NEW i \in 0..len
      PROVE  /\ FirstPages(queue, n + i, s) = FirstPages(queue, n, s) + FirstPages(queue', i, s)
             /\ FirstPages(queue, n, s) \in Nat /\ FirstPages(queue', i, s) \in Nat
  <2>1. i \in Nat /\ n \in Nat /\ Follows(queue', i, queue, n)
      BY <1>3 DEF Follows
  <2>2. FirstPages(queue, n + i, s) = FirstPages(queue, n, s) + FirstPages(queue', i, s)
      BY <2>1, PagesShift
  <2> QED
      BY Zenon, <2>1, <2>2, FirstPagesNat
<1>6. taken'[s] = taken[s] + FirstPages(queue, n, s) /\ taken[s] \in Nat
    BY Zenon, <1>1 DEF Typed
<1>7. sequence'[s] = taken'[s] + FirstPages(queue', len, s)
  <2>1. len \in 0..len
      BY <1>3
  <2>2. /\ FirstPages(queue, n + len, s) = FirstPages(queue, n, s) + FirstPages(queue', len, s)
        /\ FirstPages(queue, n, s) \in Nat /\ FirstPages(queue', len, s) \in Nat
      BY ZenonT(30), <1>5, <2>1
  <2>3. FirstPages(queue, n + len, s) = FirstPages(queue, Len(queue), s) /\ sequence'[s] = sequence[s]
      BY Zenon, <1>2, <1>3
  <2> QED
      BY <1>4, <1>6, <2>2, <2>3
<1>8. ASSUME NEW i \in 1..len, queue'[i][1] = s
      PROVE  queue'[i][2] = taken'[s] + FirstPages(queue', i, s)
  <2>1. i \in 0..len /\ n + i \in 1..Len(queue) /\ queue'[i] = queue[n + i]
      BY <1>3
  <2>2. queue[n + i][2] = taken[s] + FirstPages(queue, n + i, s)
      BY Zenon, <1>4, <1>8, <2>1
  <2> QED
      BY <1>5, <1>6, <2>1, <2>2
<1> QED
    BY Zenon, <1>7, <1>8

(* Close closes the client before the queue. *)
LEMMA ClosingNext == Typed /\ ClosingClosed /\ [Next]_vars => ClosingClosed'
<1> SUFFICES ASSUME Typed, ClosingClosed, [Next]_vars PROVE ClosingClosed'
    BY Zenon
<1>1. ASSUME consumer' = consumer, closed' = closed PROVE ClosingClosed'
    BY Zenon, <1>1 DEF ClosingClosed
<1>2. ASSUME NEW c \in Consumers, ConsumerStep(c) PROVE ClosingClosed'
  <2>1. ASSUME NEW x, x \notin {"closing", "closed"}, consumer' = [consumer EXCEPT ![c] = x], closed' = closed
        PROVE  ClosingClosed'
      BY Zenon, <2>1 DEF ClosingClosed, Typed
  <2>2. CASE Next_(c)
    <3>1. PICK n \in 0..Len(queue) :
              consumer' = [consumer EXCEPT ![c] = IF n > 0 THEN IF n = Len(queue) /\ atEnd THEN "last" ELSE "pages"
                                                  ELSE IF n = Len(queue) /\ atEnd THEN "done" ELSE "blocked"]
        BY <2>2, NextFacts, Zenon
    <3> DEFINE x == IF n > 0 THEN IF n = Len(queue) /\ atEnd THEN "last" ELSE "pages"
                    ELSE IF n = Len(queue) /\ atEnd THEN "done" ELSE "blocked"
    <3>2. closed' = closed /\ x \notin {"closing", "closed"} /\ consumer' = [consumer EXCEPT ![c] = x]
        BY Zenon, <2>2, <3>1 DEF Next_
    <3> HIDE DEF x
    <3> QED
        BY ZenonT(30), <2>1, <3>2
  <2>3. CASE NextFails(c) \/ GetOutput(c)
      BY ZenonT(30), <2>1, <2>3 DEF NextFails, GetOutput, clientVars
  <2>4. CASE Wake(c) \/ Terminate(c) \/ Quit(c)
      BY ZenonT(30), <2>1, <2>4 DEF Wake, Terminate, Quit, Unblock, clientVars
  <2>5. CASE Close(c)
      BY Zenon, <2>5 DEF Close, ClosingClosed
  <2>6. CASE CloseQueue(c)
      BY Zenon, <2>6 DEF CloseQueue, ClosingClosed, clientVars, Typed
  <2> QED
      BY Zenon, <1>2, <2>2, <2>3, <2>4, <2>5, <2>6 DEF ConsumerStep
<1>3. ASSUME NEW s \in Sources, SourceStep(s) PROVE ClosingClosed'
    BY ZenonT(30), <1>1, <1>3 DEF SourceStep, Receive, Enqueue, Timeout, TimeoutAnswer, TimeoutOverlap, FailRequest, Responded,
       consumerVars, clientVars
<1>4. CASE AddSplit \/ NoMoreSplits \/ TakeSplit \/ TakeLastSplit \/ AwaitSplit
    BY ZenonT(30), <1>1, <1>4 DEF AddSplit, NoMoreSplits, TakeSplit, TakeLastSplit, AwaitSplit, consumerVars, clientVars
<1>5. CASE UNCHANGED vars
    BY ZenonT(30), <1>1, <1>5 DEF vars, consumerVars, clientVars
<1> QED
    BY Zenon, <1>2, <1>3, <1>4, <1>5 DEF Next

(* Every step keeps the pages in order. *)
LEMMA PagesStep == Typed /\ ClosingClosed /\ PagesInOrder /\ [Next]_vars => PagesInOrder'
<1> SUFFICES ASSUME Typed, ClosingClosed, PagesInOrder, [Next]_vars PROVE PagesInOrder'
    BY Zenon
<1>1. ASSUME UNCHANGED <<queue, sequence, taken, error>>, closed => closed' PROVE PagesInOrder'
    BY Zenon, <1>1 DEF PagesInOrder, QueueIntact
<1>2. ASSUME NEW s \in Sources, SourceStep(s) PROVE PagesInOrder'
  <2>1. CASE Enqueue(s)
      BY Zenon, <2>1, PagesEnqueue
  <2>2. CASE FailRequest(s)
      BY Zenon, <2>2 DEF FailRequest, SetError, PagesInOrder, QueueIntact
  <2>3. CASE Receive(s) \/ Timeout(s) \/ TimeoutAnswer(s) \/ TimeoutOverlap(s) \/ Responded(s)
      BY ZenonT(30), <1>1, <2>3 DEF Receive, Timeout, TimeoutAnswer, TimeoutOverlap, Responded, queueVars, clientVars, consumerVars
  <2> QED
      BY ZenonT(30), <1>2, <2>1, <2>2, <2>3 DEF SourceStep
<1>3. ASSUME NEW c \in Consumers, ConsumerStep(c) PROVE PagesInOrder'
  <2>1. CASE Next_(c)
      BY Zenon, <2>1, PagesNext
  <2>2. CASE CloseQueue(c)
      BY Zenon, <2>2 DEF CloseQueue, ClosingClosed, PagesInOrder, QueueIntact, clientVars
  <2>3. CASE NextFails(c) \/ GetOutput(c) \/ Close(c)
      BY ZenonT(30), <1>1, <2>3 DEF NextFails, GetOutput, Close, queueVars, clientVars, sourceVars
  <2>4. CASE Wake(c) \/ Terminate(c) \/ Quit(c)
      BY ZenonT(30), <1>1, <2>4 DEF Wake, Terminate, Quit, Unblock, clientVars, sourceVars
  <2> QED
      BY ZenonT(30), <1>3, <2>1, <2>2, <2>3, <2>4 DEF ConsumerStep
<1>4. CASE AddSplit \/ NoMoreSplits \/ TakeSplit \/ TakeLastSplit \/ AwaitSplit
    BY ZenonT(30), <1>1, <1>4 DEF AddSplit, NoMoreSplits, TakeSplit, TakeLastSplit, AwaitSplit, queueVars, clientVars,
       sourceVars, consumerVars
<1>5. CASE UNCHANGED vars
    BY ZenonT(30), <1>1, <1>5 DEF vars, queueVars, clientVars, sourceVars, consumerVars
<1> QED
    BY Zenon, <1>2, <1>3, <1>4, <1>5 DEF Next

(* The two forms of the property are the same. *)
LEMMA PagesForm == Typed => (PagesInOrder <=> NothingLostOrRepeated)
<1> SUFFICES ASSUME Typed PROVE PagesInOrder <=> NothingLostOrRepeated
    BY Zenon
<1>1. DOMAIN queue = 1..Len(queue)
    BY DEF Typed
<1> QED
    BY <1>1, Zenon DEF PagesInOrder, NothingLostOrRepeated, FirstPages

\* The part of the inductive invariant about pages.
PageInv == Typed /\ ClosingClosed /\ PagesInOrder

(* Every page that a source has put into the queue is delivered or queued, *)
(* once and in the order of its source.                                    *)
THEOREM PagesDeliveredOnce == Spec => []NothingLostOrRepeated
<1>1. Init => PageInv
  <2> SUFFICES ASSUME Init PROVE PageInv
      BY Zenon
  <2>1. ClosingClosed
      BY Zenon DEF Init, ClosingClosed
  <2>2. Typed
      BY Zenon, TypedInit
  <2>3. PagesInOrder
    <3>1. Len(queue) = 0 /\ \A s \in Sources : sequence[s] = 0 /\ taken[s] = 0
        BY Zenon DEF Init
    <3>2. IsFrom(queue, 0, "none")
        BY DEF IsFrom
    <3>3. \A s : FirstPages(queue, 0, s) = 0
        BY Zenon, <3>2, PagesOfOne
    <3> QED
        BY <3>1, <3>3 DEF PagesInOrder
  <2> QED
      BY Zenon, <2>1, <2>2, <2>3 DEF PageInv
<1>2. PageInv /\ [Next]_vars => PageInv'
    BY Zenon, TypedNext, ClosingNext, PagesStep DEF PageInv
<1>3. PageInv => NothingLostOrRepeated
    BY Zenon, PagesForm DEF PageInv
<1> QED
    BY <1>1, <1>2, <1>3, PTL DEF Spec

-----------------------------------------------------------------------------
(* Nobody sleeps while there is data.                                      *)

\* An error ends the queue.
ErrorEnds == error => atEnd

\* A blocked consumer is being woken, or the queue holds a promise of it.
PromiseKept ==
    \A c \in Consumers : consumer[c] = "blocked" => c \in waking \/ (~atEnd /\ c \in Range(promises))

\* While all sleep the queue is empty, and its newest promise is one that a
\* consumer waits on.
LastPromise ==
    QueueIntact /\ (\A c \in Consumers : ~Active(c)) =>
        queue = <<>> /\ promises # <<>> /\ promises[Len(promises)] \in Consumers

SleepInv == ErrorEnds /\ PromiseKept /\ LastPromise

(* Realizing promises leaves no consumer without one, *)
LEMMA RealizeKeeps ==
    ASSUME Typed, PromiseKept, NEW n \in Nat, Realizes(n), consumer' = consumer,
           atEnd => atEnd', atEnd' => atEnd \/ n >= Len(promises)
    PROVE  PromiseKept'
<1> SUFFICES ASSUME NEW c \in Consumers, consumer'[c] = "blocked"
             PROVE  c \in waking' \/ (~atEnd' /\ c \in Range(promises'))
    BY Zenon DEF PromiseKept
<1>1. c \in waking \/ (~atEnd /\ c \in Range(promises))
    BY Zenon DEF PromiseKept
<1>2. waking \subseteq waking' /\ (c \in Range(promises) => c \in waking' \/ c \in Range(promises'))
    BY Zenon DEF Realizes
<1>3. n >= Len(promises) => c \notin Range(promises')
    BY DEF Realizes, Range
<1> QED
    BY Zenon, <1>1, <1>2, <1>3

(* and nobody who is at work is put to sleep. *)
LEMMA ActiveStays ==
    ASSUME consumer' = consumer, waking \subseteq waking', splitFuture = "ready" => splitFuture' = "ready",
           NEW c \in Consumers, Active(c)
    PROVE  Active(c)'
BY Zenon DEF Active

(* The steps of the sources *)
LEMMA SleepSource ==
    ASSUME Typed, SleepInv, NEW s \in Sources, SourceStep(s)
    PROVE  SleepInv'
<1> USE DEF SleepInv
<1>1. CASE Enqueue(s)
  <2> DEFINE m == result[s].pages
             completed == IF result[s].end THEN numCompleted + 1 ELSE numCompleted
             all == result[s].end /\ noMoreSources /\ completed = numSources
             n == IF all THEN Len(promises) ELSE m
  <2>1. m \in Nat /\ Len(promises) \in Nat
      BY DEF Typed
  <2>2. /\ atEnd' = (atEnd \/ all) /\ Realize(n) /\ EnqueuePages(s, m)
        /\ UNCHANGED <<consumer, splitFuture, error, closed>>
      BY Zenon, <1>1 DEF Enqueue, CheckComplete, clientVars
  <2> HIDE DEF m, all
  <2>3. Realizes(n) /\ n \in Nat
      BY Zenon, <2>1, <2>2, RealizeFacts
  <2>4. ErrorEnds'
      BY ZenonT(30), <2>2 DEF ErrorEnds
  <2>5. PromiseKept'
    <3>1. all => n >= Len(promises)
        BY <2>1, <2>2
    <3>2. /\ atEnd => atEnd'
          /\ atEnd' => atEnd \/ n >= Len(promises)
        BY <2>1, <2>2, <3>1, Zenon
    <3> QED
        BY Zenon, <2>2, <2>3, <3>2, RealizeKeeps
  <2>6. ASSUME QueueIntact', \A c \in Consumers : ~Active(c)'
        PROVE  queue' = <<>> /\ promises' # <<>> /\ promises'[Len(promises')] \in Consumers
    <3>1. waking \subseteq waking'
        BY Zenon, <2>3 DEF Realizes
    <3>2. \A c \in Consumers : ~Active(c)
        BY Zenon, <2>2, <2>6, <3>1, ActiveStays
    <3>3. queue = <<>> /\ promises # <<>> /\ promises[Len(promises)] \in Consumers
        BY Zenon, <2>2, <2>6, <3>2 DEF QueueIntact, LastPromise
    <3>4. promises[Len(promises)] \notin waking'
        BY Zenon, <2>6, <3>3 DEF Active
    <3>5. n = 0
        BY <2>3, <3>3, <3>4 DEF Realizes
    <3>6. Len(promises) # 0
        BY <3>3 DEF Typed
    <3>7. m = 0
        BY Zenon, <3>5, <3>6
    <3>8. Len(queue') = 0 /\ queue' \in Seq(Sources \X Nat)
        BY <2>1, <2>2, <3>3, <3>7, EnqueueFacts
    <3>9. queue' = <<>> /\ promises' = promises
        BY <2>3, <3>5, <3>8 DEF Realizes
    <3> QED
        BY Zenon, <3>3, <3>9
  <2> QED
      BY Zenon, <2>4, <2>5, <2>6 DEF LastPromise
<1>2. CASE FailRequest(s)
  <2> DEFINE n == IF error THEN 0 ELSE Len(promises)
  <2>1. /\ error' = TRUE /\ atEnd' = (atEnd \/ ~error) /\ Realize(n)
        /\ consumer' = consumer
      BY Zenon, <1>2 DEF FailRequest, SetError
  <2>2. n \in Nat /\ Len(promises) \in Nat
      BY DEF Typed
  <2>3. Realizes(n)
      BY Zenon, <2>1, <2>2, RealizeFacts
  <2>4. ErrorEnds'
      BY ZenonT(30), <2>1 DEF ErrorEnds, Typed
  <2>5. PromiseKept'
    <3>1. ~error => n >= Len(promises)
        BY <2>2
    <3>2. /\ atEnd => atEnd'
          /\ atEnd' => atEnd \/ n >= Len(promises)
        BY <2>1, <3>1, Zenon DEF ErrorEnds
    <3> HIDE DEF n
    <3> QED
        BY Zenon, <2>1, <2>2, <2>3, <3>2, RealizeKeeps
  <2>6. LastPromise'
      BY Zenon, <2>1 DEF LastPromise, QueueIntact
  <2> QED
      BY Zenon, <2>4, <2>5, <2>6
<1>3. CASE Receive(s) \/ Timeout(s) \/ TimeoutAnswer(s) \/ TimeoutOverlap(s) \/ Responded(s)
  <2>1. UNCHANGED <<error, atEnd, consumer, waking, promises, queue, splitFuture, closed>>
      BY Zenon, <1>3 DEF Receive, Timeout, TimeoutAnswer, TimeoutOverlap, Responded, queueVars, clientVars, consumerVars
  <2> QED
      BY Zenon, <2>1 DEF ErrorEnds, PromiseKept, LastPromise, QueueIntact, Active
<1> QED
    BY Zenon, <1>1, <1>2, <1>3 DEF SourceStep

(* The steps of the splits *)
LEMMA SleepSplit ==
    ASSUME Typed, SleepInv, AddSplit \/ NoMoreSplits \/ TakeSplit \/ TakeLastSplit \/ AwaitSplit
    PROVE  SleepInv'
<1> USE DEF SleepInv
<1>1. CASE AddSplit \/ NoMoreSplits
  <2>1. /\ UNCHANGED <<error, atEnd, consumer, waking, promises, queue, closed>>
        /\ splitFuture = "ready" => splitFuture' = "ready"
      BY Zenon, <1>1 DEF AddSplit, NoMoreSplits, queueVars, clientVars
  <2>2. ErrorEnds' /\ PromiseKept'
      BY Zenon, <2>1 DEF ErrorEnds, PromiseKept
  <2>3. LastPromise'
    <3>1. \A c \in Consumers : Active(c) => Active(c)'
        BY Zenon, <2>1, ActiveStays
    <3> QED
        BY Zenon, <2>1, <3>1 DEF LastPromise, QueueIntact
  <2> QED
      BY Zenon, <2>2, <2>3
<1>2. CASE TakeSplit \/ AwaitSplit
  <2>1. /\ UNCHANGED <<error, atEnd, consumer, waking, promises>>
        /\ consumer[Splitter] = "run"
      BY Zenon, <1>2 DEF TakeSplit, AwaitSplit, WantsSplit, queueVars, consumerVars
  <2>2. ErrorEnds' /\ PromiseKept'
      BY Zenon, <2>1 DEF ErrorEnds, PromiseKept
  <2>3. LastPromise'
      BY Zenon, <2>1, ConsumersAssumption DEF LastPromise, Active
  <2> QED
      BY Zenon, <2>2, <2>3
<1>3. CASE TakeLastSplit
  <2> DEFINE all == numCompleted = numSources
             n == IF all THEN Len(promises) ELSE 0
  <2>1. /\ atEnd' = (atEnd \/ all) /\ Realize(n) /\ UNCHANGED <<consumer, error>>
        /\ consumer[Splitter] = "run"
      BY Zenon, <1>3 DEF TakeLastSplit, CheckComplete, WantsSplit
  <2>2. n \in Nat /\ Len(promises) \in Nat
      BY DEF Typed
  <2> HIDE DEF all
  <2>3. Realizes(n)
      BY Zenon, <2>1, <2>2, RealizeFacts
  <2>4. ErrorEnds'
      BY ZenonT(30), <2>1 DEF ErrorEnds
  <2>5. PromiseKept'
    <3>1. all => n >= Len(promises)
        BY <2>1, <2>2
    <3>2. /\ atEnd => atEnd'
          /\ atEnd' => atEnd \/ n >= Len(promises)
        BY <2>1, <2>2, <3>1, Zenon
    <3> QED
        BY Zenon, <2>1, <2>2, <2>3, <3>2, RealizeKeeps
  <2>6. LastPromise'
      BY Zenon, <2>1, ConsumersAssumption DEF LastPromise, Active
  <2> QED
      BY Zenon, <2>4, <2>5, <2>6
<1> QED
    BY Zenon, <1>1, <1>2, <1>3

(* The steps of the operators *)
LEMMA SleepConsumer ==
    ASSUME Typed, SleepInv, ClosingClosed, NEW c \in Consumers, ConsumerStep(c)
    PROVE  SleepInv'
<1> USE DEF SleepInv
<1>1. CASE Next_(c)
  <2>1. PICK n \in 0..Len(queue) :
              /\ n = 0 => queue = <<>>
              /\ queue' = SubSeq(queue, n + 1, Len(queue))
              /\ promises' = IF n = Len(queue) /\ ~atEnd
                             THEN Append(promises, IF n = 0 THEN c ELSE Stale) ELSE promises
              /\ consumer' = [consumer EXCEPT ![c] = IF n > 0 THEN IF n = Len(queue) /\ atEnd THEN "last" ELSE "pages"
                                                     ELSE IF n = Len(queue) /\ atEnd THEN "done" ELSE "blocked"]
      BY <1>1, NextFacts, Zenon
  <2>2. UNCHANGED <<error, atEnd, waking>> /\ consumer[c] = "run"
      BY Zenon, <1>1 DEF Next_
  <2>3. ErrorEnds'
      BY ZenonT(30), <2>2 DEF ErrorEnds
  <2>4. n = 0 => Len(queue) = 0 /\ queue' = <<>>
      BY <2>1
  <2>5. /\ n > 0 \/ atEnd => consumer'[c] # "blocked"
        /\ \A d \in Consumers \ {c} : consumer'[d] = consumer[d]
        /\ consumer'[c] # "closed"
      BY <2>1, <2>4 DEF Typed
  <2>6. Range(promises) \subseteq Range(promises')
    <3> DEFINE x == IF n = 0 THEN c ELSE Stale
               T == Consumers \cup {Stale}
    <3> HIDE DEF T
    <3>1. promises \in Seq(T) /\ x \in T
        BY Zenon DEF Typed, T
    <3> HIDE DEF x
    <3>2. promises' = Append(promises, x) \/ promises' = promises
        BY Zenon, <2>1 DEF x
    <3>3. Range(promises) \subseteq Range(Append(promises, x))
        BY <3>1 DEF Range
    <3> QED
        BY ZenonT(30), <3>2, <3>3
  <2>7. ASSUME n = 0, ~atEnd
        PROVE  promises' # <<>> /\ promises'[Len(promises')] = c /\ c \in Range(promises')
    <3> DEFINE T == Consumers \cup {Stale}
    <3> HIDE DEF T
    <3>1. promises \in Seq(T) /\ c \in T
        BY Zenon DEF Typed, T
    <3>2. promises' = Append(promises, c)
        BY Zenon, <2>1, <2>4, <2>7
    <3>3. /\ Append(promises, c) # <<>> /\ Append(promises, c)[Len(Append(promises, c))] = c
          /\ c \in Range(Append(promises, c))
        BY <3>1 DEF Range
    <3> QED
        BY Zenon, <3>2, <3>3
  <2>8. PromiseKept'
    <3> SUFFICES ASSUME NEW d \in Consumers, consumer'[d] = "blocked"
                 PROVE  d \in waking' \/ (~atEnd' /\ d \in Range(promises'))
        BY Zenon DEF PromiseKept
    <3>1. CASE d = c
      <4>1. n = 0 /\ ~atEnd
          BY <2>5, <3>1
      <4> QED
          BY ZenonT(30), <2>2, <2>7, <3>1, <4>1
    <3>2. CASE d # c
        BY ZenonT(30), <2>2, <2>5, <2>6, <3>2 DEF PromiseKept
    <3> QED
        BY ZenonT(30), <3>1, <3>2
  <2>9. LastPromise'
    <3>1. CASE n = 0 /\ ~atEnd
        BY Zenon, <2>4, <2>7, <3>1 DEF LastPromise
    <3>2. CASE n > 0 \/ atEnd
        BY ZenonT(30), <2>5, <3>2 DEF LastPromise, Active
    <3> QED
        BY <3>1, <3>2 DEF Typed
  <2> QED
      BY Zenon, <2>3, <2>8, <2>9
<1>2. CASE NextFails(c) \/ GetOutput(c)
  <2>1. /\ UNCHANGED <<error, atEnd, waking, promises>>
        /\ consumer'[c] \in {"run", "done", "failed"} /\ \A d \in Consumers \ {c} : consumer'[d] = consumer[d]
      BY ZenonT(30), <1>2 DEF NextFails, GetOutput, queueVars, Typed
  <2>2. ErrorEnds'
      BY Zenon, <2>1 DEF ErrorEnds
  <2>3. PromiseKept'
      BY ZenonT(30), <2>1 DEF PromiseKept
  <2>4. LastPromise'
      BY ZenonT(30), <2>1 DEF LastPromise, Active
  <2> QED
      BY ZenonT(30), <2>2, <2>3, <2>4
<1>3. CASE Wake(c) \/ Terminate(c) \/ Quit(c)
  <2>1. PICK next \in {"run", "done"} : Unblock(c, next)
      BY ZenonT(30), <1>3 DEF Wake, Terminate, Quit
  <2>2. /\ UNCHANGED <<error, atEnd>> /\ waking' = waking \ {c}
        /\ consumer'[c] \in {"run", "done"} /\ \A d \in Consumers \ {c} : consumer'[d] = consumer[d]
      BY ZenonT(30), <2>1 DEF Unblock, Typed
  <2>3. \A d \in Consumers \ {c} : d \in Range(promises) => d \in Range(promises')
      BY ZenonT(30), <2>1, UnblockFacts
  <2>4. ErrorEnds'
      BY ZenonT(30), <2>2 DEF ErrorEnds
  <2>5. PromiseKept'
      BY ZenonT(30), <2>2, <2>3 DEF PromiseKept
  <2>6. LastPromise'
      BY ZenonT(30), <2>2 DEF LastPromise, Active
  <2> QED
      BY ZenonT(30), <2>4, <2>5, <2>6
<1>4. CASE Close(c)
  <2>1. /\ UNCHANGED <<error, atEnd, waking, promises>> /\ closed'
        /\ consumer'[c] # "blocked" /\ \A d \in Consumers \ {c} : consumer'[d] = consumer[d]
      BY ZenonT(30), <1>4 DEF Close, queueVars, Typed
  <2> QED
      BY ZenonT(30), <2>1 DEF ErrorEnds, PromiseKept, LastPromise, QueueIntact
<1>5. CASE CloseQueue(c)
  <2>1. /\ UNCHANGED <<error, atEnd, closed>> /\ closed
        /\ consumer'[c] # "blocked" /\ \A d \in Consumers \ {c} : consumer'[d] = consumer[d]
      BY ZenonT(30), <1>5 DEF CloseQueue, clientVars, ClosingClosed, Typed
  <2>2. Realizes(Len(promises))
    <3>1. Len(promises) \in Nat /\ Realize(Len(promises))
        BY <1>5 DEF Typed, CloseQueue
    <3> QED
        BY ZenonT(30), <3>1, RealizeFacts
  <2>3. PromiseKept'
      BY Zenon, <2>1, <2>2 DEF PromiseKept, Realizes
  <2> QED
      BY ZenonT(30), <2>1, <2>3 DEF ErrorEnds, LastPromise, QueueIntact
<1> QED
    BY Zenon, <1>1, <1>2, <1>3, <1>4, <1>5 DEF ConsumerStep

\* The part of the inductive invariant about sleeping consumers.
WakeInv == Typed /\ ClosingClosed /\ SleepInv

(* Consumers, even with promises left behind in the queue, do not all sleep *)
(* while pages wait, and none sleeps on once the end is known.              *)
THEOREM ConsumersWoken == Spec => []NobodySleepsOnData
<1>1. Init => WakeInv
  <2> SUFFICES ASSUME Init PROVE WakeInv
      BY Zenon
  <2>1. ClosingClosed /\ ErrorEnds /\ PromiseKept
      BY Zenon DEF Init, ClosingClosed, ErrorEnds, PromiseKept
  <2>2. LastPromise
      BY Zenon, ConsumersAssumption DEF Init, LastPromise, Active
  <2> QED
      BY Zenon, <2>1, <2>2, TypedInit DEF WakeInv, SleepInv
<1>2. WakeInv /\ [Next]_vars => WakeInv'
  <2> SUFFICES ASSUME WakeInv, [Next]_vars PROVE WakeInv'
      BY Zenon
  <2>1. Typed' /\ ClosingClosed'
      BY ZenonT(30), TypedNext, ClosingNext DEF WakeInv
  <2>2. CASE UNCHANGED vars
    <3>1. UNCHANGED <<error, atEnd, consumer, waking, promises, queue, splitFuture, closed>>
        BY ZenonT(30), <2>2 DEF vars, queueVars, clientVars, consumerVars
    <3> QED
        BY ZenonT(30), <2>1, <3>1 DEF WakeInv, SleepInv, ErrorEnds, PromiseKept, LastPromise, QueueIntact, Active
  <2> QED
      BY Zenon, <2>1, <2>2, SleepSource, SleepSplit, SleepConsumer DEF WakeInv, Next
<1>3. WakeInv => NobodySleepsOnData
  <2> SUFFICES ASSUME WakeInv PROVE NobodySleepsOnData
      BY Zenon
  <2> QED
      BY Zenon DEF WakeInv, SleepInv, PromiseKept, LastPromise, NobodySleepsOnData
<1> QED
    BY <1>1, <1>2, <1>3, PTL DEF Spec

-----------------------------------------------------------------------------
(* No source is forgotten.                                                 *)

\* A pending request has not been answered, an answer with the end mark comes
\* from a source at its end, a source at its end has no request, and only a
\* source of the client is listed or answers.
Unanswered == \A s \in Sources \ overlapped : Pending(req[s]) => ~answered[s]
EndAnswered == \A s \in Sources : response[s] = "end" => sourceAtEnd[s]
EndIdle == \A s \in Sources : sourceAtEnd[s] => req[s] = "idle"
ListedKnown ==
    /\ \A s \in Range(producing) \cup Range(empty) : req[s] # "new"
    /\ \A s \in Sources : response[s] # "none" => req[s] # "new"

RequestInv == Unanswered /\ EndAnswered /\ EndIdle /\ ListedKnown

\* What is known of s: the lists, the request and the answer under way.
Known(P, E, R, s, answer) ==
    Entries(P, s) + Entries(E, s) + (IF Pending(R[s]) THEN 1 ELSE 0) + (IF answer THEN 1 ELSE 0)

(* SourceNotForgotten with the sum by name *)
LEMMA ForgottenForm ==
    SourceNotForgotten <=>
        (QueueIntact => \A s \in Sources \ overlapped :
            req[s] # "new" /\ ~sourceAtEnd[s] => Known(producing, empty, req, s, response[s] # "none") = 1)
BY Zenon DEF SourceNotForgotten, Known, Entries

(* A request starts only for a source of the client that is not at its end. *)
LEMMA PickRequests ==
    ASSUME Typed, NEW P \in Seq(Sources), NEW E \in Seq(Sources), NEW R \in [Sources -> ReqStates],
           NEW S \in SUBSET Sources, Picks(P, E, R, S),
           \A s \in Range(P) \cup Range(E) : R[s] # "new"
    PROVE  /\ \A s \in S : R[s] = "idle" /\ req'[s] = "sent" /\ ~sourceAtEnd[s] /\ ~answered'[s]
           /\ \A s \in Sources \ S : req'[s] = R[s] /\ answered'[s] = answered[s]
           /\ \A s \in Range(producing') \cup Range(empty') : req'[s] # "new"
<1>1. \A s \in S : R[s] = "idle"
  <2>1. \A s \in S : R[s] # "new" /\ ~Pending(R[s]) /\ R[s] \in ReqStates
      BY ZenonT(30) DEF Picks
  <2> QED
      BY Zenon, <2>1 DEF Pending, ReqStates
<1>2. /\ \A s \in S : req'[s] = "sent" /\ ~sourceAtEnd[s] /\ ~answered'[s]
      /\ \A s \in Sources \ S : req'[s] = R[s] /\ answered'[s] = answered[s]
    BY Zenon DEF Picks, Typed
<1>3. ASSUME NEW s \in Range(producing') \cup Range(empty') PROVE req'[s] # "new"
  <2>1. s \in Range(P) \cup Range(E)
      BY Zenon DEF Picks
  <2>2. s \in Sources
    <3>1. Range(P) \subseteq Sources /\ Range(E) \subseteq Sources
        BY DEF Range
    <3> QED
        BY Zenon, <2>1, <3>1
  <2> QED
      BY ZenonT(30), <1>2, <2>1, <2>2
<1> QED
    BY Zenon, <1>1, <1>2, <1>3

(* It keeps what is known of a source. *)
LEMMA PickKnown ==
    ASSUME NEW P \in Seq(Sources), NEW E \in Seq(Sources), NEW R, NEW S \in SUBSET Sources, Picks(P, E, R, S),
           NEW s \in Sources, ~sourceAtEnd[s], NEW answer \in BOOLEAN, Known(P, E, R, s, answer) = 1
    PROVE  Known(producing', empty', req', s, answer) = 1
<1> DEFINE p == Entries(P, s)
           e == Entries(E, s)
           pp == Entries(producing', s)
           ee == Entries(empty', s)
<1>1. p \in Nat /\ e \in Nat
    BY Zenon, EntriesNone
<1>2. /\ pp \in Nat /\ ee \in Nat /\ pp + ee <= p + e
      /\ s \in S => pp + ee < p + e
      /\ pp + ee < p + e /\ ~Pending(R[s]) => s \in S
      /\ s \in S => ~Pending(R[s])
    BY ZenonT(30) DEF Picks
<1>3. /\ s \in S => Pending(req'[s])
      /\ s \notin S => req'[s] = R[s]
    BY ZenonT(30) DEF Picks, Pending
<1>4. p + e + (IF Pending(R[s]) THEN 1 ELSE 0) + (IF answer THEN 1 ELSE 0) = 1
    BY ZenonT(30) DEF Known
<1> HIDE DEF p, e, pp, ee
<1>5. pp + ee + (IF Pending(req'[s]) THEN 1 ELSE 0) + (IF answer THEN 1 ELSE 0) = 1
  <2>1. CASE s \in S
      BY <1>1, <1>2, <1>3, <1>4, <2>1
  <2>2. CASE s \notin S
      BY <1>1, <1>2, <1>3, <1>4, <2>2
  <2> QED
      BY Zenon, <2>1, <2>2
<1> QED
    BY Zenon, <1>5 DEF Known, pp, ee

\* SourceNotForgotten, by the sum
KnownOnce ==
    QueueIntact => \A s \in Sources \ overlapped :
        req[s] # "new" /\ ~sourceAtEnd[s] => Known(producing, empty, req, s, response[s] # "none") = 1

(* The steps of one source that start no request *)
LEMMA RequestSource ==
    ASSUME Typed, RequestInv, KnownOnce, NEW s \in Sources,
           Receive(s) \/ Enqueue(s) \/ Timeout(s) \/ TimeoutAnswer(s) \/ TimeoutOverlap(s) \/ FailRequest(s)
    PROVE  RequestInv' /\ KnownOnce'
<1>1. /\ UNCHANGED <<producing, empty, closed>> /\ (error => error') /\ overlapped \subseteq overlapped'
      /\ \A t \in Sources \ {s} : /\ req'[t] = req[t] /\ answered'[t] = answered[t]
                                  /\ response'[t] = response[t] /\ sourceAtEnd'[t] = sourceAtEnd[t]
  <2>1. /\ req \in [Sources -> ReqStates] /\ answered \in [Sources -> BOOLEAN] /\ sourceAtEnd \in [Sources -> BOOLEAN]
        /\ response \in [Sources -> {"none", "data", "empty", "end"}]
      BY Zenon DEF Typed
  <2>2. CASE Receive(s) \/ Timeout(s)
    <3>1. CASE Receive(s)
        BY ZenonT(30), <2>1, <3>1 DEF Receive, clientVars, queueVars, historyVars
    <3>2. CASE Timeout(s)
        BY ZenonT(30), <2>1, <3>2 DEF Timeout, clientVars, queueVars, historyVars
    <3> QED
        BY Zenon, <2>2, <3>1, <3>2
  <2>3. CASE Enqueue(s)
      BY Zenon, <2>1, <2>3 DEF Enqueue, clientVars, historyVars
  <2>4. CASE TimeoutAnswer(s) \/ TimeoutOverlap(s)
    <3>1. CASE TimeoutAnswer(s)
        BY ZenonT(30), <2>1, <3>1 DEF TimeoutAnswer, clientVars, queueVars, historyVars
    <3>2. CASE TimeoutOverlap(s)
        BY ZenonT(30), <2>1, <3>2 DEF TimeoutOverlap, clientVars, queueVars, historyVars
    <3> QED
        BY Zenon, <2>4, <3>1, <3>2
  <2>5. CASE FailRequest(s)
      BY Zenon, <2>1, <2>5 DEF FailRequest, SetError, clientVars
  <2> QED
      BY ZenonT(30), <2>2, <2>3, <2>4, <2>5
<1>2. Range(producing) \subseteq Sources /\ Range(empty) \subseteq Sources
  <2>1. producing \in Seq(Sources) /\ empty \in Seq(Sources)
      BY Zenon DEF Typed
  <2> QED
      BY <2>1 DEF Range
<1>3. /\ req[s] # "new" /\ req'[s] # "new"
      /\ ~sourceAtEnd[s] /\ (sourceAtEnd'[s] => req'[s] = "idle")
      /\ response'[s] = "end" => sourceAtEnd'[s]
  <2>1. req[s] \in {"sent", "received", "timeout"}
      BY ZenonT(30) DEF Receive, Enqueue, Timeout, TimeoutAnswer, TimeoutOverlap, FailRequest
  <2>2. ~sourceAtEnd[s] /\ response[s] # "end"
      BY Zenon, <2>1 DEF RequestInv, EndIdle, EndAnswered
  <2>3. CASE Enqueue(s)
    <3>1. /\ req'[s] = "idle" /\ sourceAtEnd'[s] = result[s].end
          /\ response'[s] = IF answered[s] THEN response[s] ELSE IF result[s].end THEN "end" ELSE "data"
        BY ZenonT(30), <2>3 DEF Enqueue, Typed
    <3> QED
        BY ZenonT(30), <2>1, <2>2, <3>1
  <2>4. CASE Receive(s) \/ Timeout(s) \/ FailRequest(s)
    <3>1. req'[s] # "new" /\ sourceAtEnd' = sourceAtEnd /\ response' = response
        BY ZenonT(30), <2>4 DEF Receive, Timeout, FailRequest, Typed
    <3> QED
        BY ZenonT(30), <2>1, <2>2, <3>1
  <2>5. CASE TimeoutAnswer(s) \/ TimeoutOverlap(s)
    <3>1. req'[s] # "new" /\ sourceAtEnd' = sourceAtEnd /\ response'[s] = "empty"
        BY ZenonT(30), <2>1, <2>5 DEF TimeoutAnswer, TimeoutOverlap, Typed
    <3> QED
        BY ZenonT(30), <2>1, <2>2, <3>1
  <2> QED
      BY ZenonT(30), <2>3, <2>4, <2>5
<1>4. s \notin overlapped' /\ Pending(req'[s]) => ~answered'[s]
  <2>1. CASE Enqueue(s) \/ TimeoutAnswer(s)
    <3>1. req'[s] = "idle"
        BY ZenonT(30), <2>1 DEF Enqueue, TimeoutAnswer, Typed
    <3> QED
        BY Zenon, <3>1 DEF Pending
  <2>2. CASE TimeoutOverlap(s)
      BY Zenon, <2>2 DEF TimeoutOverlap
  <2>3. CASE Receive(s) \/ Timeout(s) \/ FailRequest(s)
    <3>1. req[s] = "sent" /\ answered' = answered /\ overlapped' = overlapped
        BY ZenonT(30), <2>3 DEF Receive, Timeout, FailRequest, historyVars
    <3> QED
        BY ZenonT(30), <3>1 DEF RequestInv, Unanswered, Pending
  <2> QED
      BY ZenonT(30), <2>1, <2>2, <2>3
<1>5. RequestInv'
  <2>1. Unanswered'
      BY ZenonT(30), <1>1, <1>4 DEF RequestInv, Unanswered
  <2>2. EndAnswered'
      BY ZenonT(30), <1>1, <1>3 DEF RequestInv, EndAnswered
  <2>3. EndIdle'
      BY ZenonT(30), <1>1, <1>3 DEF RequestInv, EndIdle
  <2>4. ListedKnown'
      BY ZenonT(30), <1>1, <1>2, <1>3 DEF RequestInv, ListedKnown
  <2> QED
      BY ZenonT(30), <2>1, <2>2, <2>3, <2>4 DEF RequestInv
<1>6. ASSUME QueueIntact', s \notin overlapped', ~sourceAtEnd'[s]
      PROVE  Known(producing', empty', req', s, response'[s] # "none") = 1
  <2> DEFINE n == Entries(producing, s) + Entries(empty, s)
  <2>1. s \notin overlapped /\ QueueIntact
      BY ZenonT(30), <1>1, <1>6 DEF QueueIntact
  <2>2. n + (IF Pending(req[s]) THEN 1 ELSE 0) + (IF response[s] # "none" THEN 1 ELSE 0) = 1
      BY ZenonT(30), <1>3, <2>1 DEF KnownOnce, Known
  <2>3. n \in Nat
      BY EntriesNone DEF Typed
  <2> HIDE DEF n
  <2>4. (\A k \in Nat : k + 1 + 1 # 1 /\ (k + 1 + 0 = 1 => k = 0)) /\ 0 + 0 + 1 = 1
      OBVIOUS
  <2>5. n + (IF Pending(req'[s]) THEN 1 ELSE 0) + (IF response'[s] # "none" THEN 1 ELSE 0) = 1
    <3>1. CASE Receive(s) \/ Timeout(s) \/ FailRequest(s)
      <4>1. response' = response /\ Pending(req[s]) /\ Pending(req'[s])
          BY ZenonT(30), <3>1 DEF Receive, Timeout, FailRequest, Pending, Typed
      <4> QED
          BY ZenonT(30), <2>2, <2>3, <4>1
    <3>2. CASE Enqueue(s)
      <4>1. req[s] = "received" /\ Pending(req[s])
          BY ZenonT(30), <3>2 DEF Enqueue, Pending
      <4>2. ~answered[s]
          BY ZenonT(30), <2>1, <4>1 DEF RequestInv, Unanswered
      <4>3. req'[s] = "idle" /\ response'[s] # "none"
          BY ZenonT(30), <3>2, <4>2 DEF Enqueue, Typed
      <4>4. ~Pending(req'[s])
          BY ZenonT(30), <4>3 DEF Pending
      <4>5. response[s] = "none" /\ n = 0
          BY ZenonT(30), <2>2, <2>3, <2>4, <4>1
      <4> QED
          BY ZenonT(30), <2>4, <4>3, <4>4, <4>5
    <3>3. CASE TimeoutAnswer(s)
      <4>1. req[s] = "timeout" /\ req'[s] = "idle" /\ response'[s] = "empty"
          BY Zenon, <3>3 DEF TimeoutAnswer, Typed
      <4>2. Pending(req[s]) /\ ~Pending(req'[s])
          BY ZenonT(30), <4>1 DEF Pending
      <4>3. n = 0 /\ "empty" # "none"
          BY ZenonT(30), <2>2, <2>3, <2>4, <4>2
      <4> QED
          BY ZenonT(30), <2>4, <4>1, <4>2, <4>3
    <3>4. CASE TimeoutOverlap(s)
        BY ZenonT(30), <1>6, <3>4 DEF TimeoutOverlap
    <3> QED
        BY ZenonT(30), <3>1, <3>2, <3>3, <3>4
  <2> QED
      BY ZenonT(30), <1>1, <2>5 DEF Known, n
<1>7. KnownOnce'
  <2> SUFFICES ASSUME QueueIntact', NEW t \in Sources \ overlapped', req'[t] # "new", ~sourceAtEnd'[t]
               PROVE  Known(producing', empty', req', t, response'[t] # "none") = 1
      BY ZenonT(30) DEF KnownOnce
  <2>1. CASE t = s
      BY ZenonT(30), <1>6, <2>1
  <2>2. CASE t # s
    <3>1. /\ QueueIntact /\ t \in Sources \ overlapped /\ req'[t] = req[t]
          /\ response'[t] = response[t] /\ sourceAtEnd'[t] = sourceAtEnd[t]
        BY ZenonT(30), <1>1, <2>2 DEF QueueIntact
    <3> QED
        BY ZenonT(30), <1>1, <3>1 DEF KnownOnce, Known
  <2> QED
      BY ZenonT(30), <2>1, <2>2
<1> QED
    BY Zenon, <1>5, <1>7

(* A step that picks sources from lists in which each source is known once *)
LEMMA RequestPick ==
    ASSUME Typed, RequestInv, NEW P \in Seq(Sources), NEW E \in Seq(Sources), NEW R \in [Sources -> ReqStates],
           NEW S \in SUBSET Sources, Picks(P, E, R, S),
           UNCHANGED <<sourceAtEnd, overlapped>>, response' \in [Sources -> {"none", "data", "empty", "end"}],
           \A s \in Range(P) \cup Range(E) : R[s] # "new",
           \A s \in Sources : /\ req[s] # "new" => R[s] # "new"
                              /\ Pending(R[s]) => req[s] = R[s]
                              /\ sourceAtEnd[s] => R[s] = "idle"
                              /\ response'[s] = response[s] \/ response'[s] = "none",
           QueueIntact' => \A s \in Sources \ overlapped :
               R[s] # "new" /\ ~sourceAtEnd[s] => Known(P, E, R, s, response'[s] # "none") = 1
    PROVE  RequestInv' /\ KnownOnce'
<1>1. /\ \A s \in S : R[s] = "idle" /\ req'[s] = "sent" /\ ~sourceAtEnd[s] /\ ~answered'[s]
      /\ \A s \in Sources \ S : req'[s] = R[s] /\ answered'[s] = answered[s]
      /\ \A s \in Range(producing') \cup Range(empty') : req'[s] # "new"
    BY PickRequests, Zenon
<1>2. Unanswered'
    BY ZenonT(30), <1>1 DEF RequestInv, Unanswered
<1>3. EndAnswered'
  <2> SUFFICES ASSUME NEW s \in Sources, response'[s] = "end"
               PROVE  sourceAtEnd'[s]
      BY ZenonT(30) DEF EndAnswered
  <2>1. response[s] = "end"
    <3>1. response'[s] = response[s] \/ response'[s] = "none"
        OBVIOUS
    <3> QED
        BY SMTT(30), <3>1
  <2> QED
      BY ZenonT(30), <2>1 DEF RequestInv, EndAnswered
<1>6. EndIdle'
    BY ZenonT(30), <1>1 DEF RequestInv, EndIdle
<1>4. ListedKnown'
    BY Zenon, <1>1 DEF RequestInv, ListedKnown
<1>5. KnownOnce'
  <2> SUFFICES ASSUME QueueIntact', NEW s \in Sources \ overlapped, req'[s] # "new", ~sourceAtEnd[s]
               PROVE  Known(producing', empty', req', s, response'[s] # "none") = 1
      BY ZenonT(30) DEF KnownOnce
  <2>1. R[s] # "new"
      BY ZenonT(30), <1>1
  <2>2. Known(P, E, R, s, response'[s] # "none") = 1
      BY ZenonT(30), <2>1
  <2> QED
      BY ZenonT(30), <2>2, PickKnown
<1> QED
    BY ZenonT(30), <1>2, <1>3, <1>6, <1>4, <1>5 DEF RequestInv

(* The members of a longer list *)
LEMMA RangeAppend ==
    ASSUME NEW S, NEW q \in Seq(S), NEW x \in S
    PROVE  Range(Append(q, x)) = Range(q) \cup {x}
<1>1. /\ Append(q, x) \in Seq(S) /\ Len(Append(q, x)) = Len(q) + 1 /\ Len(q) \in Nat
      /\ DOMAIN q = 1..Len(q) /\ DOMAIN Append(q, x) = 1..(Len(q) + 1)
      /\ \A i \in 1..Len(q) : Append(q, x)[i] = q[i]
      /\ Append(q, x)[Len(q) + 1] = x
    OBVIOUS
<1>2. ASSUME NEW y \in Range(Append(q, x)) PROVE y \in Range(q) \cup {x}
  <2>1. PICK i \in 1..(Len(q) + 1) : y = Append(q, x)[i]
      BY Zenon, <1>1, <1>2 DEF Range
  <2> QED
      BY <1>1, <2>1 DEF Range
<1>3. Range(q) \cup {x} \subseteq Range(Append(q, x))
    BY <1>1 DEF Range
<1> QED
    BY Zenon, <1>2, <1>3

(* The client's continuation *)
LEMMA RequestResponded ==
    ASSUME Typed, RequestInv, KnownOnce, NEW s \in Sources, Responded(s)
    PROVE  RequestInv' /\ KnownOnce'
<1> DEFINE P == IF response[s] = "data" THEN Append(producing, s) ELSE producing
           E == IF response[s] = "empty" THEN Append(empty, s) ELSE empty
<1>1. /\ producing \in Seq(Sources) /\ empty \in Seq(Sources) /\ req \in [Sources -> ReqStates]
      /\ response \in [Sources -> {"none", "data", "empty", "end"}]
    BY Zenon DEF Typed
<1>2. /\ response[s] # "none" /\ response' = [response EXCEPT ![s] = "none"]
      /\ UNCHANGED <<sourceAtEnd, overlapped, closed, error>>
      /\ closed => UNCHANGED <<producing, empty, req, answered>>
      /\ ~closed => PickSources(P, E, req, totalBytes)
    BY Zenon DEF Responded, queueVars, historyVars
<1>3. /\ P \in Seq(Sources) /\ E \in Seq(Sources)
      /\ Range(P) \subseteq Range(producing) \cup {s} /\ Range(E) \subseteq Range(empty) \cup {s}
      /\ \A t \in Sources :
            /\ Entries(P, t) = Entries(producing, t) + (IF response[s] = "data" /\ s = t THEN 1 ELSE 0)
            /\ Entries(E, t) = Entries(empty, t) + (IF response[s] = "empty" /\ s = t THEN 1 ELSE 0)
            /\ Entries(producing, t) \in Nat /\ Entries(empty, t) \in Nat
  <2>1. CASE response[s] = "data"
      BY <1>1, <2>1, EntriesAppend, EntriesNone, RangeAppend
  <2>2. CASE response[s] = "empty"
      BY <1>1, <2>2, EntriesAppend, EntriesNone, RangeAppend
  <2>3. CASE response[s] \notin {"data", "empty"}
      BY <1>1, <2>3, EntriesNone
  <2> QED
      BY ZenonT(30), <2>1, <2>2, <2>3
<1> HIDE DEF P, E
<1>4. CASE closed
  <2>1. ~QueueIntact'
      BY Zenon, <1>2, <1>4 DEF QueueIntact
  <2>2. RequestInv'
      BY ZenonT(30), <1>1, <1>2, <1>4 DEF RequestInv, Unanswered, EndAnswered, EndIdle, ListedKnown
  <2> QED
      BY Zenon, <2>1, <2>2 DEF KnownOnce
<1>5. CASE ~closed
  <2>1. PICK S \in SUBSET Sources : Picks(P, E, req, S)
      BY Zenon, <1>2, <1>3, <1>5, PickFacts
  <2>2. \A t \in Range(P) \cup Range(E) : req[t] # "new"
      BY ZenonT(30), <1>2, <1>3 DEF RequestInv, ListedKnown
  <2>3. \A t \in Sources : /\ sourceAtEnd[t] => req[t] = "idle"
                           /\ response'[t] = response[t] \/ response'[t] = "none"
      BY Zenon, <1>1, <1>2 DEF RequestInv, EndIdle
  <2>4. ASSUME QueueIntact', NEW t \in Sources \ overlapped, req[t] # "new", ~sourceAtEnd[t]
        PROVE  Known(P, E, req, t, response'[t] # "none") = 1
    <3>1. Known(producing, empty, req, t, response[t] # "none") = 1
        BY ZenonT(30), <1>2, <2>4 DEF QueueIntact, KnownOnce
    <3>2. CASE t # s
      <4>1. response'[t] = response[t] /\ Entries(P, t) = Entries(producing, t) /\ Entries(E, t) = Entries(empty, t)
          BY <1>1, <1>2, <1>3, <3>2
      <4> QED
          BY ZenonT(30), <3>1, <4>1 DEF Known
    <3>3. CASE t = s
      <4>1. response[s] # "end"
          BY ZenonT(30), <2>4, <3>3 DEF RequestInv, EndAnswered
      <4>2. response[s] \in {"data", "empty"} /\ response'[s] = "none"
          BY ZenonT(30), <1>1, <1>2, <4>1
      <4> QED
          BY <1>3, <3>1, <3>3, <4>2 DEF Known
    <3> QED
        BY ZenonT(30), <3>2, <3>3
  <2>5. response' \in [Sources -> {"none", "data", "empty", "end"}]
      BY ZenonT(30), <1>1, <1>2
  <2> QED
      BY ZenonT(30), <1>1, <1>2, <1>3, <2>1, <2>2, <2>3, <2>4, <2>5, RequestPick
<1> QED
    BY Zenon, <1>4, <1>5

(* A split becomes a source, which is listed and may be picked at once. *)
LEMMA RequestSplit ==
    ASSUME Typed, RequestInv, KnownOnce, TakeSplit
    PROVE  RequestInv' /\ KnownOnce'
<1> DEFINE s == Head(splits)
           P == Append(producing, s)
           R == [req EXCEPT ![s] = "idle"]
<1>1. /\ producing \in Seq(Sources) /\ empty \in Seq(Sources) /\ req \in [Sources -> ReqStates]
      /\ response \in [Sources -> {"none", "data", "empty", "end"}]
    BY Zenon DEF Typed
<1>2. s \in Sources
    BY DEF TakeSplit, Typed
<1>3. /\ UNCHANGED <<sourceAtEnd, overlapped, closed, error, response>>
      /\ req[s] # "new" \/ closed => UNCHANGED <<producing, empty, req, answered>>
      /\ ~(req[s] # "new" \/ closed) => PickSources(P, empty, R, totalBytes)
    BY Zenon DEF TakeSplit, historyVars
<1>4. /\ P \in Seq(Sources) /\ Range(P) = Range(producing) \cup {s}
      /\ \A t \in Sources : Entries(P, t) = Entries(producing, t) + (IF s = t THEN 1 ELSE 0)
      /\ R \in [Sources -> ReqStates] /\ R[s] = "idle" /\ \A t \in Sources \ {s} : R[t] = req[t]
    BY <1>1, <1>2, EntriesAppend, RangeAppend DEF ReqStates
<1> HIDE DEF s, P, R
<1>5. CASE req[s] # "new" \/ closed
  <2>1. UNCHANGED <<sourceAtEnd, overlapped, closed, error, response, producing, empty, req, answered>>
      BY ZenonT(30), <1>3, <1>5
  <2> QED
      BY ZenonT(30), <2>1 DEF RequestInv, Unanswered, EndAnswered, EndIdle, ListedKnown, KnownOnce, QueueIntact, Known
<1>6. CASE req[s] = "new" /\ ~closed
  <2>1. PICK S \in SUBSET Sources : Picks(P, empty, R, S)
      BY Zenon, <1>1, <1>3, <1>4, <1>6, PickFacts
  <2>2. Range(producing) \subseteq Sources /\ Range(empty) \subseteq Sources
      BY <1>1 DEF Range
  <2>3. \A t \in Range(P) \cup Range(empty) : R[t] # "new"
      BY ZenonT(30), <1>4, <2>2 DEF RequestInv, ListedKnown
  <2>4. s \notin Range(producing) /\ s \notin Range(empty) /\ response[s] = "none" /\ ~sourceAtEnd[s]
      BY ZenonT(30), <1>2, <1>6 DEF RequestInv, ListedKnown, EndIdle
  <2>5. \A t \in Sources : /\ req[t] # "new" => R[t] # "new"
                           /\ Pending(R[t]) => req[t] = R[t]
                           /\ sourceAtEnd[t] => R[t] = "idle"
                           /\ response'[t] = response[t] \/ response'[t] = "none"
      BY ZenonT(30), <1>3, <1>4 DEF RequestInv, EndIdle, Pending
  <2>6. ASSUME QueueIntact', NEW t \in Sources \ overlapped, R[t] # "new", ~sourceAtEnd[t]
        PROVE  Known(P, empty, R, t, response'[t] # "none") = 1
    <3>1. CASE t # s
      <4>1. R[t] = req[t] /\ Entries(P, t) = Entries(producing, t) /\ response' = response
        <5>1. Entries(producing, t) \in Nat
            BY Zenon, <1>1, EntriesNone
        <5> QED
            BY <1>3, <1>4, <3>1, <5>1
      <4>2. Known(producing, empty, req, t, response[t] # "none") = 1
          BY ZenonT(30), <1>3, <2>6, <4>1 DEF QueueIntact, KnownOnce
      <4> QED
          BY Zenon, <4>1, <4>2 DEF Known
    <3>2. CASE t = s
      <4>1. Entries(producing, s) = 0 /\ Entries(empty, s) = 0
          BY Zenon, <1>1, <1>2, <2>4, EntriesNone
      <4>2. Entries(P, s) = 1 /\ ~Pending(R[s]) /\ response'[s] = "none"
          BY <1>2, <1>3, <1>4, <2>4, <4>1 DEF Pending
      <4> QED
          BY <3>2, <4>1, <4>2 DEF Known
    <3> QED
        BY Zenon, <3>1, <3>2
  <2>7. response' \in [Sources -> {"none", "data", "empty", "end"}]
      BY Zenon, <1>1, <1>3
  <2> QED
      BY ZenonT(30), <1>1, <1>3, <1>4, <2>1, <2>3, <2>5, <2>6, <2>7, RequestPick
<1> QED
    BY ZenonT(30), <1>1, <1>2, <1>5, <1>6 DEF ReqStates

(* Exchange::isBlocked picks sources after a dequeue. *)
LEMMA RequestNext ==
    ASSUME Typed, RequestInv, KnownOnce, NEW c \in Consumers, Next_(c)
    PROVE  RequestInv' /\ KnownOnce'
<1>1. /\ producing \in Seq(Sources) /\ empty \in Seq(Sources) /\ req \in [Sources -> ReqStates]
      /\ response \in [Sources -> {"none", "data", "empty", "end"}]
    BY Zenon DEF Typed
<1>2. \/ UNCHANGED <<producing, empty, req, answered>>
      \/ \E S \in SUBSET Sources : Picks(producing, empty, req, S)
    BY Zenon, NextFacts
<1>3. UNCHANGED <<sourceAtEnd, overlapped, closed, error, response>>
    BY ZenonT(30) DEF Next_, historyVars
<1>4. CASE UNCHANGED <<producing, empty, req, answered>>
  <2>1. UNCHANGED <<sourceAtEnd, overlapped, closed, error, response, producing, empty, req, answered>>
      BY ZenonT(30), <1>3, <1>4
  <2> QED
      BY ZenonT(30), <2>1 DEF RequestInv, Unanswered, EndAnswered, EndIdle, ListedKnown, KnownOnce, QueueIntact, Known
<1>5. CASE \E S \in SUBSET Sources : Picks(producing, empty, req, S)
  <2>1. PICK S \in SUBSET Sources : Picks(producing, empty, req, S)
      BY Zenon, <1>5
  <2>2. \A t \in Range(producing) \cup Range(empty) : req[t] # "new"
      BY Zenon DEF RequestInv, ListedKnown
  <2>3. \A t \in Sources : sourceAtEnd[t] => req[t] = "idle"
      BY Zenon DEF RequestInv, EndIdle
  <2>4. ASSUME QueueIntact', NEW t \in Sources \ overlapped, req[t] # "new", ~sourceAtEnd[t]
        PROVE  Known(producing, empty, req, t, response'[t] # "none") = 1
      BY ZenonT(30), <1>3, <2>4 DEF QueueIntact, KnownOnce
  <2> QED
      BY ZenonT(30), <1>1, <1>3, <2>1, <2>2, <2>3, <2>4, RequestPick
<1> QED
    BY Zenon, <1>2, <1>4, <1>5

(* Every step keeps what is known of the sources. *)
LEMMA RequestStep == Typed /\ RequestInv /\ KnownOnce /\ [Next]_vars => RequestInv' /\ KnownOnce'
<1> SUFFICES ASSUME Typed, RequestInv, KnownOnce, [Next]_vars PROVE RequestInv' /\ KnownOnce'
    BY Zenon
<1>1. ASSUME UNCHANGED <<sourceAtEnd, overlapped, error, response, producing, empty, req, answered>>, closed => closed'
      PROVE  RequestInv' /\ KnownOnce'
    BY ZenonT(30), <1>1 DEF RequestInv, Unanswered, EndAnswered, EndIdle, ListedKnown, KnownOnce, QueueIntact, Known
<1>2. ASSUME NEW s \in Sources, SourceStep(s) PROVE RequestInv' /\ KnownOnce'
    BY ZenonT(30), <1>2, RequestSource, RequestResponded DEF SourceStep
<1>3. ASSUME NEW c \in Consumers, ConsumerStep(c) PROVE RequestInv' /\ KnownOnce'
  <2>1. CASE Next_(c)
      BY ZenonT(30), <2>1, RequestNext
  <2>2. CASE NextFails(c) \/ GetOutput(c) \/ Close(c) \/ CloseQueue(c)
      BY ZenonT(30), <1>1, <2>2 DEF NextFails, GetOutput, Close, CloseQueue, queueVars, clientVars, sourceVars, historyVars
  <2>3. CASE Wake(c) \/ Terminate(c) \/ Quit(c)
      BY ZenonT(30), <1>1, <2>3 DEF Wake, Terminate, Quit, Unblock, clientVars, sourceVars, historyVars
  <2> QED
      BY ZenonT(30), <1>3, <2>1, <2>2, <2>3 DEF ConsumerStep
<1>4. CASE TakeSplit
    BY ZenonT(30), <1>4, RequestSplit
<1>5. CASE AddSplit \/ NoMoreSplits \/ TakeLastSplit \/ AwaitSplit
    BY ZenonT(30), <1>1, <1>5 DEF AddSplit, NoMoreSplits, TakeLastSplit, AwaitSplit, queueVars, clientVars, sourceVars, historyVars
<1>6. CASE UNCHANGED vars
    BY ZenonT(30), <1>1, <1>6 DEF vars, queueVars, clientVars, sourceVars, historyVars
<1> QED
    BY ZenonT(30), <1>2, <1>3, <1>4, <1>5, <1>6 DEF Next

\* The part of the inductive invariant about requests.
AskInv == Typed /\ RequestInv /\ KnownOnce

(* At the start no source is listed. *)
LEMMA AskInit == Init => AskInv
<1> SUFFICES ASSUME Init PROVE AskInv
    BY Zenon
<1>1. RequestInv
    BY DEF Init, RequestInv, Unanswered, EndAnswered, EndIdle, ListedKnown, Pending, Range
<1>2. KnownOnce
    BY Zenon DEF Init, KnownOnce
<1> QED
    BY ZenonT(30), <1>1, <1>2, TypedInit DEF AskInv

(* A source with more data is being asked, about to answer or listed once *)
(* for a later request, unless a timeout has overlapped a result of it.   *)
THEOREM SourcesRemembered == Spec => []SourceNotForgotten
<1>1. AskInv /\ [Next]_vars => AskInv'
    BY Zenon, TypedNext, RequestStep DEF AskInv
<1>2. AskInv => SourceNotForgotten
    BY Zenon, ForgottenForm DEF AskInv, KnownOnce
<1> QED
    BY <1>1, <1>2, AskInit, PTL DEF Spec

-----------------------------------------------------------------------------
(* The end comes after the last page.                                      *)

\* What a source has put into the queue and what its answer holds
AllPagesSent ==
    \A s \in Sources :
        /\ sourceAtEnd[s] => sequence[s] = NumPages[s]
        /\ req[s] = "received" /\ result[s].end => sequence[s] + result[s].pages = NumPages[s]

\* numSources and numCompleted
Counted ==
    /\ numSources = Cardinality({s \in Sources : req[s] # "new"})
    /\ numCompleted = Cardinality({s \in Sources : sourceAtEnd[s]})

\* A split that has been added is waiting in the task or is a source; after
\* the last one there is none.
SplitsKept ==
    /\ noMoreSplits => splitsAdded = Len(SplitList)
    /\ noMoreSources <=> splitsSeen
    /\ noMoreSources => noMoreSplits /\ splits = <<>>
    /\ ~atEnd /\ ~quit => \A i \in 1..splitsAdded : SplitList[i] \in Range(splits) \/ req[SplitList[i]] # "new"

\* The client is closed, and a consumer is done, only after the end or an
\* early leave.
DoneAfterEnd ==
    /\ \A c \in Consumers : consumer[c] \in {"last", "done", "closing", "closed", "failed"} => atEnd \/ quit
    /\ \A c \in Consumers : consumer[c] = "failed" => error
    /\ closed => atEnd \/ quit

\* At the end every source of every split has ended.
EndComplete ==
    atEnd /\ ~error /\ ~quit =>
        /\ noMoreSources /\ \A s \in Sources : req[s] # "new" => sourceAtEnd[s]
        /\ \A i \in 1..Len(SplitList) : req[SplitList[i]] # "new"

EndInv == AllPagesSent /\ Counted /\ SplitsKept /\ DoneAfterEnd /\ EndComplete

\* What the proof of EndInv rests on.
EndBase == Typed /\ ErrorEnds /\ RequestInv

\* The sources of the client stay the same.
SameSources == \A s \in Sources : req'[s] = "new" <=> req[s] = "new"

\* Results are kept.
SameResults == \A s \in Sources : req'[s] = "received" => req[s] = "received" /\ result'[s] = result[s]

(* Picking makes no new source and no result. *)
LEMMA PickSame ==
    ASSUME Typed, NEW P \in Seq(Sources), NEW E \in Seq(Sources), NEW R \in [Sources -> ReqStates],
           NEW S \in SUBSET Sources, Picks(P, E, R, S),
           \A s \in Range(P) \cup Range(E) : R[s] # "new"
    PROVE  \A s \in Sources : (req'[s] = "new" <=> R[s] = "new") /\ (req'[s] = "received" => R[s] = "received")
<1>1. /\ \A s \in S : R[s] = "idle" /\ req'[s] = "sent" /\ ~sourceAtEnd[s] /\ ~answered'[s]
      /\ \A s \in Sources \ S : req'[s] = R[s] /\ answered'[s] = answered[s]
      /\ \A s \in Range(producing') \cup Range(empty') : req'[s] # "new"
    BY PickRequests, Zenon
<1> QED
    BY Zenon, <1>1

(* A step that puts no page into the queue keeps AllPagesSent, *)
LEMMA PagesSentStay ==
    ASSUME AllPagesSent, UNCHANGED <<sequence, sourceAtEnd>>, SameResults
    PROVE  AllPagesSent'
BY Zenon DEF AllPagesSent, SameResults

(* one that neither adds nor ends a source keeps the counts, *)
LEMMA CountedStay ==
    ASSUME Counted, UNCHANGED <<numSources, numCompleted, sourceAtEnd>>, SameSources
    PROVE  Counted'
<1>1. {s \in Sources : req'[s] # "new"} = {s \in Sources : req[s] # "new"}
    BY Zenon DEF SameSources
<1> QED
    BY Zenon, <1>1 DEF Counted

(* one that moves no split keeps SplitsKept, *)
LEMMA SplitsStay ==
    ASSUME Typed, SplitsKept, UNCHANGED <<noMoreSplits, splitsAdded, noMoreSources, splitsSeen, splits>>,
           atEnd => atEnd', quit => quit', SameSources
    PROVE  SplitsKept'
<1>1. \A i \in 1..splitsAdded : SplitList[i] \in Sources
  <2>1. SplitList \in Seq(Sources) /\ splitsAdded \in 0..Len(SplitList)
      BY Zenon, SourcesAssumption DEF Typed
  <2> QED
      BY <2>1
<1> QED
    BY Zenon, <1>1 DEF SplitsKept, SameSources

(* one that moves no consumer keeps DoneAfterEnd, *)
LEMMA DoneStay ==
    ASSUME DoneAfterEnd, UNCHANGED <<consumer, closed>>, atEnd => atEnd', error => error', quit => quit'
    PROVE  DoneAfterEnd'
BY Zenon DEF DoneAfterEnd

(* and one that does not end the queue keeps EndComplete. *)
LEMMA CompleteStay ==
    ASSUME EndComplete, UNCHANGED <<atEnd, noMoreSources, sourceAtEnd>>, error => error', quit => quit', SameSources
    PROVE  EndComplete'
<1>1. \A i \in 1..Len(SplitList) : SplitList[i] \in Sources
    BY SourcesAssumption
<1> QED
    BY Zenon, <1>1 DEF EndComplete, SameSources

(* When as many sources have ended as there are, all have. *)
LEMMA AllEnded ==
    ASSUME IsFiniteSet(Sources), NEW R, NEW A, \A s \in Sources : A[s] => R[s] # "new",
           Cardinality({s \in Sources : R[s] # "new"}) = Cardinality({s \in Sources : A[s]})
    PROVE  \A s \in Sources : R[s] # "new" => A[s]
<1> DEFINE X == {s \in Sources : R[s] # "new"}
           Y == {s \in Sources : A[s]}
<1>1. Y \subseteq X /\ X \subseteq Sources
    BY Zenon
<1>2. IsFiniteSet(X)
    BY Zenon, <1>1, FS_Subset
<1>3. Cardinality(X) = Cardinality(Y)
    BY Zenon
<1> HIDE DEF X, Y
<1>4. X = Y
    BY ZenonT(30), <1>1, <1>2, <1>3, FS_Subset
<1> QED
    BY Zenon, <1>4 DEF X, Y

(* The completion check finds the end only when every source has ended. *)
LEMMA CompleteCheck ==
    ASSUME Typed, SplitsKept, EndComplete, SameSources,
           noMoreSources', noMoreSplits, splits = <<>>, UNCHANGED <<error, quit>>,
           \A s \in Sources : sourceAtEnd'[s] => req'[s] # "new",
           Cardinality({s \in Sources : req'[s] # "new"}) = Cardinality({s \in Sources : sourceAtEnd'[s]}),
           \A s \in Sources : sourceAtEnd[s] => sourceAtEnd'[s]
    PROVE  EndComplete'
<1> SUFFICES ASSUME ~error, ~quit
             PROVE  /\ \A s \in Sources : req'[s] # "new" => sourceAtEnd'[s]
                    /\ \A i \in 1..Len(SplitList) : req'[SplitList[i]] # "new"
    BY Zenon DEF EndComplete
<1>1. \A s \in Sources : req'[s] # "new" => sourceAtEnd'[s]
    BY ZenonT(30), SourcesAssumption, AllEnded
<1>2. \A i \in 1..Len(SplitList) : SplitList[i] \in Sources
    BY SourcesAssumption
<1>3. \A i \in 1..Len(SplitList) : req[SplitList[i]] # "new"
  <2>1. CASE atEnd
      BY ZenonT(30), <2>1 DEF EndComplete
  <2>2. CASE ~atEnd
    <3>1. splitsAdded = Len(SplitList) /\ Range(splits) = {}
        BY DEF SplitsKept, Range
    <3> QED
        BY ZenonT(30), <2>2, <3>1 DEF SplitsKept
  <2> QED
      BY ZenonT(30), <2>1, <2>2
<1> QED
    BY ZenonT(30), <1>1, <1>2, <1>3 DEF SameSources

(* The result callback *)
LEMMA EndEnqueue ==
    ASSUME EndBase, EndInv, NEW s \in Sources, Enqueue(s)
    PROVE  EndInv'
<1> DEFINE m == result[s].pages
           end == result[s].end
           completed == IF end THEN numCompleted + 1 ELSE numCompleted
           all == end /\ noMoreSources /\ completed = numSources
<1>1. /\ Typed /\ m \in Nat /\ end \in BOOLEAN /\ sequence[s] \in Nat
      /\ req \in [Sources -> ReqStates] /\ sourceAtEnd \in [Sources -> BOOLEAN]
      /\ result \in [Sources -> [pages : Nat, end : BOOLEAN]]
    BY Zenon DEF EndBase, Typed
<1>2. /\ req[s] = "received" /\ req' = [req EXCEPT ![s] = "idle"]
      /\ sourceAtEnd' = [sourceAtEnd EXCEPT ![s] = end]
      /\ result' = [result EXCEPT ![s] = NoResult]
      /\ EnqueuePages(s, m) /\ numCompleted' = completed /\ atEnd' = (atEnd \/ all)
      /\ UNCHANGED <<numSources, noMoreSources, error, closed, splits, splitsAdded, noMoreSplits, consumer, splitsSeen, quit>>
    BY ZenonT(30) DEF Enqueue, CheckComplete, clientVars, splitVars, historyVars
<1> HIDE DEF m, end
<1>3. ~sourceAtEnd[s] /\ sourceAtEnd'[s] = end /\ \A t \in Sources \ {s} : sourceAtEnd'[t] = sourceAtEnd[t]
    BY ZenonT(30), <1>1, <1>2 DEF EndBase, RequestInv, EndIdle
<1>4. SameSources
    BY ZenonT(30), <1>1, <1>2 DEF SameSources
<1>5. AllPagesSent'
  <2>1. /\ sequence' = [sequence EXCEPT ![s] = sequence[s] + m] /\ sequence \in [Sources -> Nat]
      BY ZenonT(30), <1>1, <1>2, EnqueueFacts DEF Typed
  <2>2. end => sequence[s] + m = NumPages[s]
      BY ZenonT(30), <1>2 DEF EndInv, AllPagesSent, m, end
  <2>3. /\ sequence'[s] = sequence[s] + m /\ req'[s] = "idle"
        /\ \A t \in Sources \ {s} : sequence'[t] = sequence[t] /\ req'[t] = req[t] /\ result'[t] = result[t]
      BY ZenonT(30), <1>1, <1>2, <2>1
  <2> QED
      BY ZenonT(30), <1>3, <2>2, <2>3 DEF EndInv, AllPagesSent
<1>6. Counted'
  <2> DEFINE X == {t \in Sources : sourceAtEnd[t]}
             Y == {t \in Sources : sourceAtEnd'[t]}
  <2>1. (end => Y = X \cup {s}) /\ (~end => Y = X) /\ s \notin X /\ X \subseteq Sources
      BY ZenonT(30), <1>1, <1>3
  <2>2. IsFiniteSet(X) /\ numCompleted = Cardinality(X)
      BY ZenonT(30), <2>1, SourcesAssumption, FS_Subset DEF EndInv, Counted
  <2> HIDE DEF X, Y
  <2>3. numCompleted' = Cardinality(Y)
      BY ZenonT(30), <1>1, <1>2, <2>1, <2>2, FS_AddElement
  <2>4. {t \in Sources : req'[t] # "new"} = {t \in Sources : req[t] # "new"}
      BY Zenon, <1>4 DEF SameSources
  <2> QED
      BY ZenonT(30), <1>2, <2>3, <2>4 DEF EndInv, Counted, Y
<1>7. SplitsKept' /\ DoneAfterEnd'
    BY ZenonT(30), <1>1, <1>2, <1>4, SplitsStay, DoneStay DEF EndInv
<1>8. EndComplete'
  <2>1. CASE all
    <3>1. \A t \in Sources : sourceAtEnd'[t] => req'[t] # "new"
      <4>1. \A t \in Sources : sourceAtEnd[t] => req[t] # "new"
          BY Zenon DEF EndBase, RequestInv, EndIdle
      <4> QED
          BY ZenonT(30), <1>2, <1>3, <1>4, <4>1 DEF SameSources
    <3>2. Cardinality({t \in Sources : req'[t] # "new"}) = Cardinality({t \in Sources : sourceAtEnd'[t]})
        BY ZenonT(30), <1>2, <1>6, <2>1 DEF Counted
    <3>3. \A t \in Sources : sourceAtEnd[t] => sourceAtEnd'[t]
        BY Zenon, <1>3
    <3>4. noMoreSources' /\ noMoreSplits /\ splits = <<>>
        BY ZenonT(30), <1>2, <2>1 DEF EndInv, SplitsKept
    <3> QED
        BY Zenon, <1>1, <1>2, <1>4, <3>1, <3>2, <3>3, <3>4, CompleteCheck DEF EndInv
  <2>2. CASE ~all
    <3>1. atEnd /\ ~error /\ ~quit => FALSE
        BY ZenonT(30), <1>2, <1>3 DEF EndInv, EndComplete
    <3>2. atEnd' = atEnd
        BY ZenonT(30), <1>1, <1>2, <2>2 DEF Typed
    <3> QED
        BY <1>2, <3>1, <3>2 DEF EndComplete
  <2> QED
      BY Zenon, <2>1, <2>2
<1> QED
    BY ZenonT(30), <1>5, <1>6, <1>7, <1>8 DEF EndInv

(* The other steps of a source *)
LEMMA EndSource ==
    ASSUME EndBase, EndInv, NEW s \in Sources, SourceStep(s), ~Enqueue(s)
    PROVE  EndInv'
<1>1. Typed /\ req \in [Sources -> ReqStates] /\ result \in [Sources -> [pages : Nat, end : BOOLEAN]]
    BY ZenonT(30) DEF EndBase, Typed
<1>2. /\ UNCHANGED <<sequence, sourceAtEnd, numSources, numCompleted, noMoreSources, closed, quit>>
      /\ UNCHANGED <<splits, splitsAdded, noMoreSplits, splitsSeen, consumer>>
    BY Zenon DEF SourceStep, Receive, Timeout, TimeoutAnswer, TimeoutOverlap, FailRequest, Responded, queueVars, clientVars,
       sourceVars, splitVars, consumerVars, historyVars
<1>3. SameSources
  <2>1. CASE ~Responded(s)
    <3>1. /\ req[s] # "new" /\ req'[s] # "new" /\ \A t \in Sources \ {s} : req'[t] = req[t]
        BY ZenonT(30), <1>1, <2>1 DEF SourceStep, Receive, Timeout, TimeoutAnswer, TimeoutOverlap, FailRequest
    <3> QED
        BY ZenonT(30), <3>1 DEF SameSources
  <2>2. CASE Responded(s)
    <3> DEFINE P == IF response[s] = "data" THEN Append(producing, s) ELSE producing
               E == IF response[s] = "empty" THEN Append(empty, s) ELSE empty
    <3>1. CASE closed
        BY ZenonT(30), <2>2, <3>1 DEF Responded, SameSources
    <3>2. CASE ~closed
      <4>1. PickSources(P, E, req, totalBytes) /\ req[s] # "new"
          BY ZenonT(30), <2>2, <3>2 DEF Responded, EndBase, RequestInv, ListedKnown
      <4>2. producing \in Seq(Sources) /\ empty \in Seq(Sources)
          BY Zenon, <1>1 DEF Typed
      <4>3. /\ P \in Seq(Sources) /\ E \in Seq(Sources)
            /\ Range(P) \subseteq Range(producing) \cup {s} /\ Range(E) \subseteq Range(empty) \cup {s}
          BY <4>2, RangeAppend
      <4> HIDE DEF P, E
      <4>4. \A t \in Range(P) \cup Range(E) : req[t] # "new"
          BY ZenonT(30), <4>1, <4>3 DEF EndBase, RequestInv, ListedKnown
      <4>5. PICK S \in SUBSET Sources : Picks(P, E, req, S)
          BY Zenon, <4>1, <4>3, PickFacts
      <4>6. \A t \in Sources : (req'[t] = "new" <=> req[t] = "new") /\ (req'[t] = "received" => req[t] = "received")
          BY <1>1, <4>3, <4>4, <4>5, PickSame, Zenon
      <4> QED
          BY Zenon, <4>6 DEF SameSources
    <3> QED
        BY ZenonT(30), <3>1, <3>2
  <2> QED
      BY ZenonT(30), <2>1, <2>2
<1>4. AllPagesSent'
  <2>1. CASE Receive(s)
    <3>1. PICK n \in 0..(NumPages[s] - sequence[s]), end \in BOOLEAN :
             /\ end => n = NumPages[s] - sequence[s]
             /\ result' = [result EXCEPT ![s] = [pages |-> n, end |-> end]]
        BY ZenonT(30), <2>1 DEF Receive
    <3>2. /\ result'[s].pages = n /\ result'[s].end = end
          /\ \A t \in Sources \ {s} : result'[t] = result[t] /\ req'[t] = req[t]
        BY ZenonT(30), <1>1, <2>1, <3>1 DEF Receive
    <3>3. sequence[s] \in Nat /\ NumPages[s] \in Nat
        BY ZenonT(30), <1>1, SourcesAssumption DEF Typed
    <3>4. result'[s].end => sequence[s] + result'[s].pages = NumPages[s]
        BY <3>1, <3>2, <3>3
    <3> QED
        BY ZenonT(30), <1>2, <3>2, <3>4 DEF EndInv, AllPagesSent
  <2>2. CASE Timeout(s) \/ TimeoutAnswer(s) \/ TimeoutOverlap(s) \/ FailRequest(s)
    <3>1. SameResults
        BY ZenonT(30), <1>1, <2>2 DEF Timeout, TimeoutAnswer, TimeoutOverlap, FailRequest, SameResults
    <3> QED
        BY Zenon, <1>2, <3>1, PagesSentStay DEF EndInv
  <2>3. CASE Responded(s)
    <3> DEFINE P == IF response[s] = "data" THEN Append(producing, s) ELSE producing
               E == IF response[s] = "empty" THEN Append(empty, s) ELSE empty
    <3>1. SameResults
      <4>1. result' = result
          BY Zenon, <2>3 DEF Responded
      <4>2. CASE closed
          BY ZenonT(30), <2>3, <4>1, <4>2 DEF Responded, SameResults
      <4>3. CASE ~closed
        <5>1. PickSources(P, E, req, totalBytes)
            BY Zenon, <2>3, <4>3 DEF Responded
        <5>2. P \in Seq(Sources) /\ E \in Seq(Sources)
            BY <1>1 DEF Typed
        <5> HIDE DEF P, E
        <5>3. PICK S \in SUBSET Sources : Picks(P, E, req, S)
            BY Zenon, <5>1, <5>2, PickFacts
        <5> QED
            BY ZenonT(30), <4>1, <5>3 DEF Picks, SameResults
      <4> QED
          BY Zenon, <4>2, <4>3
    <3> QED
        BY Zenon, <1>2, <3>1, PagesSentStay DEF EndInv
  <2> QED
      BY Zenon, <2>1, <2>2, <2>3 DEF SourceStep
<1>5. Counted'
    BY Zenon, <1>2, <1>3, CountedStay DEF EndInv
<1>6. (atEnd => atEnd') /\ (error => error') /\ (~FailRequest(s) => UNCHANGED <<atEnd, error>>)
    BY ZenonT(30), <1>1 DEF SourceStep, Receive, Timeout, TimeoutAnswer, TimeoutOverlap, FailRequest, SetError, Responded, queueVars, Typed
<1>7. SplitsKept' /\ DoneAfterEnd'
    BY Zenon, <1>1, <1>2, <1>3, <1>6, SplitsStay, DoneStay DEF EndInv
<1>8. EndComplete'
  <2>1. CASE FailRequest(s)
      BY ZenonT(30), <2>1 DEF FailRequest, SetError, EndComplete
  <2>2. CASE ~FailRequest(s)
      BY ZenonT(30), <1>2, <1>3, <1>6, <2>2, CompleteStay DEF EndInv
  <2> QED
      BY Zenon, <2>1, <2>2
<1> QED
    BY ZenonT(30), <1>4, <1>5, <1>7, <1>8 DEF EndInv

(* A split becomes a source. *)
LEMMA EndTakeSplit ==
    ASSUME EndBase, EndInv, TakeSplit
    PROVE  EndInv'
<1> DEFINE s == Head(splits)
           P == Append(producing, s)
           R == [req EXCEPT ![s] = "idle"]
           new == ~(req[s] # "new" \/ closed)
<1>1. /\ Typed /\ producing \in Seq(Sources) /\ empty \in Seq(Sources) /\ req \in [Sources -> ReqStates]
    BY Zenon DEF EndBase, Typed
<1>2. /\ s \in Sources /\ splits' = Tail(splits)
      /\ \A x \in Range(splits) : x = s \/ x \in Range(splits')
  <2>1. splits \in Seq(Sources) /\ splits # <<>> /\ splits' = Tail(splits)
      BY Zenon, <1>1 DEF TakeSplit, Typed
  <2>2. s \in Sources
      BY <2>1
  <2>3. /\ DOMAIN splits = 1..Len(splits) /\ DOMAIN Tail(splits) = 1..(Len(splits) - 1)
        /\ \A i \in 1..(Len(splits) - 1) : Tail(splits)[i] = splits[i + 1]
        /\ Len(splits) \in Nat /\ s = splits[1]
      BY <2>1
  <2>4. ASSUME NEW i \in 1..Len(splits), i # 1 PROVE splits[i] \in Range(Tail(splits))
    <3>1. i - 1 \in DOMAIN Tail(splits) /\ Tail(splits)[i - 1] = splits[i]
        BY <2>3, <2>4
    <3> QED
        BY ZenonT(30), <3>1 DEF Range
  <2> QED
      BY <2>1, <2>2, <2>3, <2>4 DEF Range
<1>3. /\ UNCHANGED <<sequence, sourceAtEnd, result, numCompleted, noMoreSources, atEnd, error, closed, splitsAdded,
                     noMoreSplits, consumer, splitsSeen, quit>>
      /\ ~new => UNCHANGED <<numSources, req>>
      /\ new => numSources' = numSources + 1 /\ PickSources(P, empty, R, totalBytes)
      /\ ~splitsSeen
    BY ZenonT(30) DEF TakeSplit, WantsSplit, consumerVars, historyVars
<1>4. /\ P \in Seq(Sources) /\ Range(P) = Range(producing) \cup {s}
      /\ R \in [Sources -> ReqStates] /\ R[s] = "idle" /\ \A t \in Sources \ {s} : R[t] = req[t]
    BY <1>1, <1>2, RangeAppend DEF ReqStates
<1> HIDE DEF s, P, R
<1>5. /\ \A t \in Sources : req'[t] = "received" => req[t] = "received"
      /\ \A t \in Sources \ {s} : req'[t] = "new" <=> req[t] = "new"
      /\ new => req'[s] # "new"
  <2>1. CASE ~new
      BY Zenon, <1>3, <2>1
  <2>2. CASE new
    <3>1. PICK S \in SUBSET Sources : Picks(P, empty, R, S)
        BY Zenon, <1>1, <1>3, <1>4, <2>2, PickFacts
    <3>2. Range(producing) \subseteq Sources /\ Range(empty) \subseteq Sources
        BY <1>1 DEF Range
    <3>3. \A t \in Range(P) \cup Range(empty) : R[t] # "new"
        BY Zenon, <1>4, <3>2 DEF EndBase, RequestInv, ListedKnown
    <3>4. \A t \in Sources : (req'[t] = "new" <=> R[t] = "new") /\ (req'[t] = "received" => R[t] = "received")
        BY <1>1, <1>4, <3>1, <3>3, PickSame, Zenon
    <3> QED
        BY ZenonT(30), <1>2, <1>4, <3>4
  <2> QED
      BY ZenonT(30), <2>1, <2>2
<1>6. AllPagesSent'
    BY Zenon, <1>3, <1>5, PagesSentStay DEF EndInv, SameResults
<1>7. Counted'
  <2>1. CASE ~new
      BY Zenon, <1>3, <2>1 DEF EndInv, Counted
  <2>2. CASE new
    <3> DEFINE X == {t \in Sources : req[t] # "new"}
               Y == {t \in Sources : req'[t] # "new"}
    <3>1. s \notin X /\ X \subseteq Sources /\ Y = X \cup {s}
        BY ZenonT(30), <1>2, <1>5, <2>2
    <3>2. numSources = Cardinality(X) /\ IsFiniteSet(X)
        BY ZenonT(30), <3>1, SourcesAssumption, FS_Subset DEF EndInv, Counted
    <3> HIDE DEF X, Y
    <3>3. numSources' = Cardinality(Y)
        BY ZenonT(30), <1>3, <2>2, <3>1, <3>2, FS_AddElement
    <3> QED
        BY ZenonT(30), <1>3, <3>3 DEF EndInv, Counted, Y
  <2> QED
      BY Zenon, <2>1, <2>2
<1>8. ~noMoreSources
    BY ZenonT(30), <1>3 DEF EndInv, SplitsKept
<1>9. SplitsKept'
  <2>1. ASSUME ~atEnd, ~quit, NEW i \in 1..splitsAdded
        PROVE  SplitList[i] \in Range(splits') \/ req'[SplitList[i]] # "new"
    <3>1. SplitList[i] \in Sources
      <4>1. SplitList \in Seq(Sources) /\ splitsAdded \in 0..Len(SplitList)
          BY ZenonT(30), <1>1, SourcesAssumption DEF Typed
      <4> QED
          BY <4>1
    <3>2. SplitList[i] \in Range(splits) \/ req[SplitList[i]] # "new"
        BY ZenonT(30), <2>1 DEF EndInv, SplitsKept
    <3>3. ~closed
        BY Zenon, <2>1 DEF EndInv, DoneAfterEnd
    <3>4. req'[s] # "new"
        BY ZenonT(30), <1>3, <1>5, <3>3
    <3> QED
        BY ZenonT(30), <1>2, <1>5, <3>1, <3>2, <3>4
  <2> QED
      BY ZenonT(30), <1>3, <1>8, <2>1 DEF EndInv, SplitsKept
<1>10. DoneAfterEnd'
    BY ZenonT(30), <1>3, DoneStay DEF EndInv
<1>11. EndComplete'
    BY ZenonT(30), <1>3, <1>8 DEF EndInv, EndComplete
<1> QED
    BY ZenonT(30), <1>6, <1>7, <1>9, <1>10, <1>11 DEF EndInv

(* The other steps of the splits *)
LEMMA EndSplit ==
    ASSUME EndBase, EndInv, AddSplit \/ NoMoreSplits \/ TakeLastSplit \/ AwaitSplit
    PROVE  EndInv'
<1>1. /\ Typed /\ UNCHANGED <<sequence, sourceAtEnd, result, req, numSources, numCompleted, error, closed, consumer, quit>>
      /\ atEnd => atEnd'
  <2>1. CASE AddSplit
      BY ZenonT(30), <2>1 DEF AddSplit, queueVars, clientVars, sourceVars, historyVars, EndBase
  <2>2. CASE NoMoreSplits
      BY ZenonT(30), <2>2 DEF NoMoreSplits, queueVars, clientVars, sourceVars, historyVars, EndBase
  <2>3. CASE TakeLastSplit
    <3>1. UNCHANGED <<sequence, sourceAtEnd, result, req, numSources, numCompleted, error, closed, consumer, quit>>
        BY Zenon, <2>3 DEF TakeLastSplit, clientVars, sourceVars, historyVars
    <3>2. atEnd' = (atEnd \/ (TRUE /\ numCompleted = numSources))
        BY Zenon, <2>3 DEF TakeLastSplit, CheckComplete
    <3> QED
        BY ZenonT(30), <3>1, <3>2 DEF EndBase
  <2>4. CASE AwaitSplit
      BY Zenon, <2>4 DEF AwaitSplit, queueVars, clientVars, sourceVars, historyVars, EndBase
  <2> QED
      BY ZenonT(30), <2>1, <2>2, <2>3, <2>4
<1>2. SameSources /\ SameResults
    BY Zenon, <1>1 DEF SameSources, SameResults
<1>3. AllPagesSent' /\ Counted' /\ DoneAfterEnd'
    BY ZenonT(30), <1>1, <1>2, PagesSentStay, CountedStay, DoneStay DEF EndInv
<1>4. CASE AddSplit
  <2>1. /\ splitsAdded < Len(SplitList) /\ splitsAdded' = splitsAdded + 1
        /\ splits' = Append(splits, SplitList[splitsAdded + 1])
        /\ UNCHANGED <<noMoreSplits, noMoreSources, splitsSeen, atEnd>>
      BY Zenon, <1>4 DEF AddSplit, queueVars
  <2>2. /\ splitsAdded \in Nat /\ SplitList \in Seq(Sources) /\ splits \in Seq(Sources)
      BY <1>1, SourcesAssumption DEF Typed
  <2>3. SplitList[splitsAdded + 1] \in Sources
      BY <2>1, <2>2
  <2>4. Range(splits') = Range(splits) \cup {SplitList[splitsAdded + 1]}
      BY <2>1, <2>2, <2>3, RangeAppend
  <2>5. ~noMoreSplits /\ ~noMoreSources
    <3>1. splitsAdded # Len(SplitList)
        BY <2>1, <2>2
    <3> QED
        BY ZenonT(30), <3>1 DEF EndInv, SplitsKept
  <2>6. \A i \in 1..splitsAdded' : i \in 1..splitsAdded \/ i = splitsAdded + 1
      BY <2>1, <2>2
  <2>7. SplitsKept'
      BY ZenonT(30), <1>1, <2>1, <2>4, <2>5, <2>6 DEF EndInv, SplitsKept
  <2>8. EndComplete'
      BY ZenonT(30), <1>1, <1>2, <2>1, CompleteStay DEF EndInv
  <2> QED
      BY ZenonT(30), <1>3, <2>7, <2>8 DEF EndInv
<1>5. CASE NoMoreSplits
  <2>1. /\ splitsAdded = Len(SplitList) /\ noMoreSplits'
        /\ UNCHANGED <<splits, splitsAdded, noMoreSources, splitsSeen, atEnd>>
      BY ZenonT(30), <1>5 DEF NoMoreSplits, queueVars
  <2>2. SplitsKept'
      BY ZenonT(30), <1>1, <2>1 DEF EndInv, SplitsKept
  <2>3. EndComplete'
      BY ZenonT(30), <1>1, <1>2, <2>1, CompleteStay DEF EndInv
  <2> QED
      BY Zenon, <1>3, <2>2, <2>3 DEF EndInv
<1>6. CASE TakeLastSplit
  <2>1. /\ splits = <<>> /\ noMoreSplits /\ splitsSeen' = TRUE /\ noMoreSources' = TRUE
        /\ UNCHANGED <<splits, splitsAdded, noMoreSplits>>
        /\ atEnd' = (atEnd \/ numCompleted = numSources) /\ ~splitsSeen
      BY ZenonT(30), <1>6 DEF TakeLastSplit, CheckComplete, splitVars, WantsSplit
  <2>2. SplitsKept'
      BY ZenonT(30), <1>1, <2>1 DEF EndInv, SplitsKept
  <2>3. EndComplete'
    <3>1. CASE numCompleted = numSources
      <4>1. \A t \in Sources : sourceAtEnd'[t] => req'[t] # "new"
          BY ZenonT(30), <1>1 DEF EndBase, RequestInv, EndIdle
      <4>2. Cardinality({t \in Sources : req'[t] # "new"}) = Cardinality({t \in Sources : sourceAtEnd'[t]})
          BY ZenonT(30), <1>1, <1>3, <3>1 DEF Counted
      <4>3. \A t \in Sources : sourceAtEnd[t] => sourceAtEnd'[t]
          BY ZenonT(30), <1>1
      <4> QED
          BY ZenonT(30), <1>1, <1>2, <2>1, <4>1, <4>2, <4>3, CompleteCheck DEF EndInv
    <3>2. CASE numCompleted # numSources
      <4>1. ~(atEnd /\ ~error /\ ~quit)
          BY ZenonT(30), <2>1 DEF EndInv, EndComplete, SplitsKept
      <4>2. atEnd' = atEnd
          BY ZenonT(30), <1>1, <2>1, <3>2 DEF Typed
      <4> QED
          BY ZenonT(30), <1>1, <4>1, <4>2 DEF EndComplete
    <3> QED
        BY ZenonT(30), <3>1, <3>2
  <2> QED
      BY Zenon, <1>3, <2>2, <2>3 DEF EndInv
<1>7. CASE AwaitSplit
  <2>1. UNCHANGED <<splits, splitsAdded, noMoreSplits, noMoreSources, splitsSeen, atEnd>>
      BY ZenonT(30), <1>7 DEF AwaitSplit, queueVars
  <2>2. SplitsKept' /\ EndComplete'
      BY ZenonT(30), <1>1, <1>2, <2>1, SplitsStay, CompleteStay DEF EndInv
  <2> QED
      BY ZenonT(30), <1>3, <2>2 DEF EndInv
<1> QED
    BY ZenonT(30), <1>4, <1>5, <1>6, <1>7

(* The steps of the operators *)
LEMMA EndConsumer ==
    ASSUME EndBase, EndInv, NEW c \in Consumers, ConsumerStep(c)
    PROVE  EndInv'
<1>1. /\ Typed /\ consumer \in [Consumers -> ConsumerStates]
      /\ UNCHANGED <<sequence, sourceAtEnd, result, numSources, numCompleted, noMoreSources, atEnd, error>>
      /\ UNCHANGED <<splits, splitsAdded, noMoreSplits, splitsSeen>> /\ (quit => quit') /\ (closed => closed')
    BY ZenonT(30) DEF ConsumerStep, Next_, NextFails, GetOutput, Wake, Terminate, Quit, Unblock, Close, CloseQueue, queueVars,
       clientVars, sourceVars, splitVars, historyVars, EndBase, Typed
<1>2. SameSources /\ SameResults
  <2>1. CASE Next_(c)
    <3>1. \/ UNCHANGED <<producing, empty, req, answered>>
          \/ \E S \in SUBSET Sources : Picks(producing, empty, req, S)
        BY ZenonT(30), <1>1, <2>1, NextFacts
    <3>2. CASE UNCHANGED <<producing, empty, req, answered>>
        BY ZenonT(30), <1>1, <3>2 DEF SameSources, SameResults
    <3>3. CASE \E S \in SUBSET Sources : Picks(producing, empty, req, S)
      <4>1. PICK S \in SUBSET Sources : Picks(producing, empty, req, S)
          BY Zenon, <3>3
      <4>2. producing \in Seq(Sources) /\ empty \in Seq(Sources) /\ req \in [Sources -> ReqStates]
          BY Zenon, <1>1 DEF Typed
      <4>3. \A t \in Range(producing) \cup Range(empty) : req[t] # "new"
          BY Zenon DEF EndBase, RequestInv, ListedKnown
      <4>4. \A t \in Sources : (req'[t] = "new" <=> req[t] = "new") /\ (req'[t] = "received" => req[t] = "received")
          BY <1>1, <4>1, <4>2, <4>3, PickSame, Zenon
      <4> QED
          BY ZenonT(30), <1>1, <4>4 DEF SameSources, SameResults
    <3> QED
        BY ZenonT(30), <3>1, <3>2, <3>3
  <2>2. CASE ~Next_(c)
    <3>1. req' = req
        BY ZenonT(30), <2>2 DEF ConsumerStep, NextFails, GetOutput, Wake, Terminate, Quit, Unblock, Close, CloseQueue, sourceVars
    <3> QED
        BY ZenonT(30), <1>1, <3>1 DEF SameSources, SameResults
  <2> QED
      BY Zenon, <2>1, <2>2
<1>3. AllPagesSent' /\ Counted' /\ SplitsKept' /\ EndComplete'
    BY ZenonT(30), <1>1, <1>2, PagesSentStay, CountedStay, SplitsStay, CompleteStay DEF EndInv
<1>4. DoneAfterEnd'
  <2>1. /\ \A d \in Consumers \ {c} : consumer'[d] = consumer[d]
        /\ consumer'[c] \in {"last", "done", "closing", "closed", "failed"} => atEnd' \/ quit'
        /\ consumer'[c] = "failed" => error
        /\ closed' => closed \/ atEnd \/ quit
    <3>1. CASE Next_(c)
      <4>1. PICK n \in 0..Len(queue) :
               consumer' = [consumer EXCEPT ![c] = IF n > 0 THEN IF n = Len(queue) /\ atEnd THEN "last" ELSE "pages"
                                                   ELSE IF n = Len(queue) /\ atEnd THEN "done" ELSE "blocked"]
          BY <1>1, <3>1, NextFacts, Zenon
      <4>2. closed' = closed
          BY ZenonT(30), <3>1 DEF Next_
      <4> QED
          BY ZenonT(30), <1>1, <4>1, <4>2
    <3>2. CASE NextFails(c)
        BY Zenon, <1>1, <3>2 DEF NextFails, clientVars, EndBase, ErrorEnds
    <3>3. CASE GetOutput(c)
        BY ZenonT(30), <1>1, <3>3 DEF GetOutput, clientVars, historyVars, EndInv, DoneAfterEnd
    <3>4. CASE Wake(c)
        BY ZenonT(30), <1>1, <3>4 DEF Wake, Unblock, clientVars
    <3>5. CASE Terminate(c)
      <4>1. error /\ atEnd
          BY Zenon, <3>5 DEF Terminate, EndInv, DoneAfterEnd, EndBase, ErrorEnds
      <4> QED
          BY <1>1, <3>5, <4>1 DEF Terminate, Unblock, clientVars
    <3>6. CASE Quit(c)
        BY Zenon, <1>1, <3>6 DEF Quit, Unblock, clientVars
    <3>7. CASE Close(c)
        BY ZenonT(30), <1>1, <3>7 DEF Close, EndInv, DoneAfterEnd
    <3>8. CASE CloseQueue(c)
        BY <1>1, <3>8 DEF CloseQueue, clientVars, EndInv, DoneAfterEnd
    <3> QED
        BY ZenonT(30), <3>1, <3>2, <3>3, <3>4, <3>5, <3>6, <3>7, <3>8 DEF ConsumerStep
  <2> QED
      BY Zenon, <1>1, <2>1 DEF EndInv, DoneAfterEnd
<1> QED
    BY ZenonT(30), <1>3, <1>4 DEF EndInv

\* The whole inductive invariant
ExchangeInv == Typed /\ ClosingClosed /\ SleepInv /\ RequestInv /\ KnownOnce /\ EndInv

(* It holds at the start *)
LEMMA ExchangeInit == Init => ExchangeInv
<1> SUFFICES ASSUME Init PROVE ExchangeInv
    BY Zenon
<1>1. Typed /\ RequestInv /\ KnownOnce
    BY ZenonT(30), AskInit DEF AskInv
<1>2. ClosingClosed /\ ErrorEnds /\ PromiseKept
    BY Zenon DEF Init, ClosingClosed, ErrorEnds, PromiseKept
<1>3. LastPromise
    BY ZenonT(30), ConsumersAssumption DEF Init, LastPromise, Active
<1>4. AllPagesSent
    BY Zenon DEF Init, AllPagesSent
<1>5. Counted
  <2>1. {s \in Sources : req[s] # "new"} = {} /\ {s \in Sources : sourceAtEnd[s]} = {}
      BY Zenon DEF Init
  <2> QED
      BY ZenonT(30), <2>1, FS_EmptySet DEF Init, Counted
<1>6. SplitsKept
  <2>1. \A i \in 1..EarlySplits : SplitList[i] \in Range(SubSeq(SplitList, 1, EarlySplits))
    <3>1. SplitList \in Seq(Sources) /\ EarlySplits \in 0..Len(SplitList)
        BY Zenon, SourcesAssumption
    <3>2. /\ DOMAIN SubSeq(SplitList, 1, EarlySplits) = 1..EarlySplits
          /\ \A i \in 1..EarlySplits : SubSeq(SplitList, 1, EarlySplits)[i] = SplitList[i]
        BY <3>1
    <3> QED
        BY ZenonT(30), <3>2 DEF Range
  <2> QED
      BY Zenon, <2>1 DEF Init, SplitsKept
<1>7. DoneAfterEnd /\ EndComplete
    BY Zenon DEF Init, DoneAfterEnd, EndComplete
<1> QED
    BY ZenonT(30), <1>1, <1>2, <1>3, <1>4, <1>5, <1>6, <1>7 DEF ExchangeInv, SleepInv, EndInv

(* and every step keeps it. *)
LEMMA ExchangeStep == ExchangeInv /\ [Next]_vars => ExchangeInv'
<1> SUFFICES ASSUME ExchangeInv, [Next]_vars PROVE ExchangeInv'
    BY Zenon
<1>1. Typed' /\ ClosingClosed' /\ RequestInv' /\ KnownOnce'
    BY Zenon, TypedNext, ClosingNext, RequestStep DEF ExchangeInv
<1>2. CASE UNCHANGED vars
  <2>1. SleepInv'
    <3>1. UNCHANGED <<error, atEnd, consumer, waking, promises, queue, splitFuture, closed>>
        BY Zenon, <1>2 DEF vars, queueVars, clientVars, consumerVars
    <3> QED
        BY Zenon, <3>1 DEF ExchangeInv, SleepInv, ErrorEnds, PromiseKept, LastPromise, QueueIntact, Active
  <2>2. EndInv'
    <3>1. /\ UNCHANGED <<sequence, sourceAtEnd, result, req, numSources, numCompleted, noMoreSources, atEnd, error, quit>>
          /\ UNCHANGED <<splits, splitsAdded, noMoreSplits, splitsSeen, consumer, closed>>
        BY ZenonT(30), <1>2 DEF vars, queueVars, clientVars, sourceVars, splitVars, consumerVars, historyVars
    <3>2. SameSources /\ SameResults
        BY ZenonT(30), <3>1 DEF SameSources, SameResults
    <3> QED
        BY ZenonT(30), <3>1, <3>2, PagesSentStay, CountedStay, SplitsStay, DoneStay, CompleteStay DEF ExchangeInv, EndInv
  <2> QED
      BY Zenon, <1>1, <2>1, <2>2 DEF ExchangeInv
<1>3. CASE Next
  <2>1. EndBase
      BY Zenon DEF ExchangeInv, SleepInv, EndBase
  <2>2. SleepInv'
      BY ZenonT(30), <1>3, SleepSource, SleepSplit, SleepConsumer DEF ExchangeInv, Next
  <2>3. EndInv'
      BY ZenonT(30), <1>3, <2>1, EndEnqueue, EndSource, EndTakeSplit, EndSplit, EndConsumer DEF ExchangeInv, Next
  <2> QED
      BY Zenon, <1>1, <2>2, <2>3 DEF ExchangeInv
<1> QED
    BY Zenon, <1>2, <1>3

(* The queue is at its end only when the source of every split has put all *)
(* its pages and its end mark into it.                                     *)
THEOREM EndIsComplete == Spec => []EndAfterAllPages
<1>1. ExchangeInv => EndAfterAllPages
  <2> SUFFICES ASSUME ExchangeInv, atEnd, ~error, ~quit, NEW s \in Range(SplitList)
               PROVE  sequence[s] = NumPages[s] /\ sourceAtEnd[s]
      BY ZenonT(30) DEF EndAfterAllPages
  <2>1. SplitList \in Seq(Sources)
      BY ZenonT(30), SourcesAssumption
  <2>2. PICK i \in 1..Len(SplitList) : s = SplitList[i]
      BY <2>1 DEF Range
  <2>3. s \in Sources /\ sourceAtEnd[s]
      BY <2>1, <2>2 DEF ExchangeInv, EndInv, EndComplete
  <2> QED
      BY ZenonT(30), <2>3 DEF ExchangeInv, EndInv, AllPagesSent
<1> QED
    BY <1>1, ExchangeInit, ExchangeStep, PTL DEF Spec
=============================================================================
