-------------------------- MODULE ArbitratorProofs --------------------------
(***************************************************************************)
(* The inductive invariant of the arbitrator, and what follows from it for *)
(* any number of queries and tasks and any sizes: arbitrations are         *)
(* serialized, no pool exceeds its maximum or overuses its capacity outside*)
(* a spill, the checks of the arbitrator hold, a grant covers the request, *)
(* an aborted pool never grows, and no capacity is lost or invented.       *)
(***************************************************************************)
EXTENDS Arbitrator, WellFoundedInduction, TLAPS

-----------------------------------------------------------------------------
(* The sum of an integer function over a finite set.                       *)

Sum(f, S) == FoldFunctionOnSet(+, 0, f, S)

Pick(s) == CHOOSE x \in s : TRUE

SumStep(f, g, s) == IF s = {} THEN 0 ELSE f[Pick(s)] + g[s \ {Pick(s)}]

(* g holds the sums of f over all subsets of S. *)
IsSum(f, S, g) == g = [s \in SUBSET S |-> SumStep(f, g, s)]

(* Every nonempty set of natural numbers has a least element. *)
LEMMA LeastNat ==
    ASSUME NEW V \in SUBSET Nat, V # {}
    PROVE  \E x \in V : \A y \in V : x <= y
<1>1. PICK x \in V : \A y \in V : ~(<<y, x>> \in OpToRel(<, Nat))
    BY WFMin, NatLessThanWellFounded, Zenon
<1>2. ASSUME NEW y \in V PROVE x <= y
  <2>1. x \in Nat /\ y \in Nat
      BY Zenon
  <2>2. ~(y < x)
      BY <1>1, <2>1, Zenon DEF OpToRel
  <2> QED
      BY <2>1, <2>2
<1> QED
    BY <1>2, Zenon

(* The subsets of a finite set are finite. *)
LEMMA FiniteSubset ==
    ASSUME NEW S, IsFiniteSet(S), NEW T \in SUBSET S
    PROVE  IsFiniteSet(T)
<1>1. PICK q \in Seq(S) : \A s \in S : \E n \in 1..Len(q) : q[n] = s
    BY Zenon DEF IsFiniteSet
<1>2. CASE T = {}
  <2>1. <<>> \in Seq(T)
      OBVIOUS
  <2> QED
      BY <1>2, <2>1, Zenon DEF IsFiniteSet
<1>3. ASSUME NEW t \in T PROVE IsFiniteSet(T)
  <2> DEFINE r == [n \in 1..Len(q) |-> IF q[n] \in T THEN q[n] ELSE t]
  <2>1. r \in Seq(T) /\ Len(r) = Len(q)
      OBVIOUS
  <2>2. \A s \in T : \E n \in 1..Len(r) : r[n] = s
      BY <1>1, <2>1, Zenon
  <2> HIDE DEF r
  <2> QED
      BY <2>1, <2>2, Zenon DEF IsFiniteSet
<1> QED
    BY <1>2, <1>3, Zenon

Covers(f, n, S) == \A s \in S : \E i \in 1..n : f[i] = s

NoMinimal(B) == B # {} /\ \A T \in B : \E U \in B : U \subseteq T /\ U # T

(* What the first n values of a function cover without the n-th of them. *)
LEMMA CoversLess ==
    ASSUME NEW f, NEW n \in Nat, n # 0, NEW T, Covers(f, n, T), f[n] \notin T
    PROVE  Covers(f, n - 1, T)
<1>1. \A i \in 1..n : i # n => i \in 1..(n - 1)
    OBVIOUS
<1> QED
    BY <1>1, Zenon DEF Covers

(* Sets of subsets of a finite set have minimal elements. *)
LEMMA MinimalSubset ==
    ASSUME NEW S, IsFiniteSet(S), NEW B \in SUBSET (SUBSET S), B # {}
    PROVE  \E T \in B : \A U \in B : U \subseteq T => U = T
<1> SUFFICES ASSUME NoMinimal(B) PROVE FALSE
    BY Zenon DEF NoMinimal
<1> DEFINE V == {n \in Nat : \E f, C : NoMinimal(C) /\ \A T \in C : Covers(f, n, T)}
<1>1. V \in SUBSET Nat /\ V # {}
  <2>1. PICK q \in Seq(S) : \A s \in S : \E n \in 1..Len(q) : q[n] = s
      BY Zenon DEF IsFiniteSet
  <2>2. Len(q) \in Nat
      OBVIOUS
  <2>3. \A T \in B : Covers(q, Len(q), T)
      BY <2>1, Zenon DEF Covers
  <2> QED
      BY <2>2, <2>3, Zenon
<1>2. /\ \A n \in V : \E f, C : NoMinimal(C) /\ \A T \in C : Covers(f, n, T)
      /\ \A n \in Nat : \A f, C : NoMinimal(C) /\ (\A T \in C : Covers(f, n, T)) => n \in V
    BY Zenon
<1> HIDE DEF V
<1>3. PICK n \in V : \A k \in V : n <= k
    BY <1>1, LeastNat, Zenon
<1>4. PICK f, C : NoMinimal(C) /\ \A T \in C : Covers(f, n, T)
    BY <1>2, Zenon
<1>5. n \in Nat
    BY <1>1, Zenon
<1>6. n # 0
  <2>1. PICK T \in C, U \in C : U # T
      BY <1>4, Zenon DEF NoMinimal
  <2>2. Covers(f, n, T) /\ Covers(f, n, U)
      BY <1>4, Zenon
  <2>3. n = 0 => \A i \in 1..n : FALSE
      OBVIOUS
  <2> QED
      BY <2>1, <2>2, <2>3, Zenon DEF Covers
<1>7. n - 1 \notin V /\ n - 1 \in Nat
  <2>1. ~(n <= n - 1) /\ n - 1 \in Nat
      BY <1>5, <1>6
  <2>2. n - 1 \in V => n <= n - 1
      BY <1>3, Zenon
  <2> QED
      BY <2>1, <2>2, Zenon
<1>8. ASSUME NEW D, NoMinimal(D), \A T \in D : Covers(f, n, T) /\ f[n] \notin T PROVE FALSE
  <2>1. ASSUME NEW T \in D PROVE Covers(f, n - 1, T)
    <3>1. Covers(f, n, T) /\ f[n] \notin T
        BY <1>8, Zenon
    <3> QED
        BY <1>5, <1>6, <3>1, CoversLess, Zenon
  <2>2. NoMinimal(D) /\ (\A T \in D : Covers(f, n - 1, T)) => n - 1 \in V
      BY <1>2, <1>7, ZenonT(30)
  <2> QED
      BY <1>7, <1>8, <2>1, <2>2, Zenon
<1>9. CASE \E T \in C : f[n] \notin T
  <2> DEFINE D == {T \in C : f[n] \notin T}
  <2>1. NoMinimal(D)
    <3>1. D # {}
        BY <1>9, Zenon
    <3>2. ASSUME NEW T \in D PROVE \E U \in D : U \subseteq T /\ U # T
      <4>1. PICK U \in C : U \subseteq T /\ U # T
          BY <1>4, Zenon DEF NoMinimal
      <4> QED
          BY <4>1, Zenon
    <3> HIDE DEF D
    <3> QED
        BY <3>1, <3>2, Zenon DEF NoMinimal
  <2> QED
      BY <1>4, <1>8, <2>1, Zenon
<1>10. CASE \A T \in C : f[n] \in T
  <2> DEFINE D == {T \ {f[n]} : T \in C}
  <2>1. NoMinimal(D)
    <3>1. D # {}
      <4>1. PICK T \in C : TRUE
          BY <1>4, Zenon DEF NoMinimal
      <4>2. T \ {f[n]} \in D
          BY Zenon
      <4> QED
          BY <4>2, Zenon
    <3>2. ASSUME NEW T \in C PROVE \E W \in D : W \subseteq T \ {f[n]} /\ W # T \ {f[n]}
      <4>1. PICK U \in C : U \subseteq T /\ U # T
          BY <1>4, Zenon DEF NoMinimal
      <4>2. U \ {f[n]} \subseteq T \ {f[n]} /\ U \ {f[n]} # T \ {f[n]}
          BY <1>10, <4>1, ZenonT(30)
      <4> QED
          BY <4>2, Zenon
    <3>3. ASSUME NEW W \in D PROVE \E X \in D : X \subseteq W /\ X # W
      <4>1. PICK T \in C : W = T \ {f[n]}
          BY Zenon
      <4> HIDE DEF D
      <4> QED
          BY <3>2, <4>1, Zenon
    <3> HIDE DEF D
    <3> QED
        BY <3>1, <3>3, Zenon DEF NoMinimal
  <2>2. ASSUME NEW W \in D PROVE Covers(f, n, W) /\ f[n] \notin W
    <3>1. PICK T \in C : W = T \ {f[n]}
        BY Zenon
    <3>2. Covers(f, n, T)
        BY <1>4, Zenon
    <3> HIDE DEF D
    <3> QED
        BY <3>1, <3>2, ZenonT(30) DEF Covers
  <2> HIDE DEF D
  <2> QED
      BY <1>8, <2>1, <2>2, Zenon
<1> QED
    BY <1>9, <1>10, Zenon

(* An element that a nonempty set has. *)
LEMMA PickIn == \A s : s # {} => Pick(s) \in s
    BY ZenonT(30) DEF Pick

(* There is at most one table of sums. *)
LEMMA SumsAgree ==
    ASSUME NEW f, NEW S, NEW T, IsFiniteSet(S), NEW g, IsSum(f, S, g), NEW h, IsSum(f, T, h),
           NEW s \in SUBSET S, s \in SUBSET T
    PROVE  g[s] = h[s]
<1> DEFINE B == {u \in SUBSET s : g[u] # h[u]}
<1>1. SUFFICES ASSUME B # {} PROVE FALSE
    BY ZenonT(30)
<1>2. IsFiniteSet(s) /\ B \in SUBSET (SUBSET s)
    BY ZenonT(30), FiniteSubset
<1> HIDE DEF B
<1>3. PICK m \in B : \A u \in B : u \subseteq m => u = m
    BY <1>1, <1>2, MinimalSubset
<1>4. m \in SUBSET S /\ m \in SUBSET T /\ m \in SUBSET s /\ g[m] # h[m]
    BY Zenon, <1>3 DEF B
<1>5. g[m] = SumStep(f, g, m) /\ h[m] = SumStep(f, h, m)
    BY Zenon, <1>4 DEF IsSum
<1>6. m # {}
    BY Zenon, <1>4, <1>5 DEF SumStep
<1>7. m \ {Pick(m)} \notin B
    BY Zenon, <1>3, <1>6, PickIn
<1>8. g[m \ {Pick(m)}] = h[m \ {Pick(m)}]
    BY ZenonT(30), <1>4, <1>7 DEF B
<1> QED
    BY ZenonT(30), <1>4, <1>5, <1>6, <1>8 DEF SumStep

(* There is a table of sums. *)
LEMMA SumsExist ==
    ASSUME NEW f, NEW S, IsFiniteSet(S)
    PROVE  \E g : IsSum(f, S, g)
<1> DEFINE B == {s \in SUBSET S : ~\E g : IsSum(f, s, g)}
<1>1. SUFFICES ASSUME B # {} PROVE FALSE
    BY ZenonT(30)
<1>2. B \in SUBSET (SUBSET S)
    BY ZenonT(30)
<1> HIDE DEF B
<1>3. PICK m \in B : \A u \in B : u \subseteq m => u = m
    BY <1>1, <1>2, MinimalSubset
<1>4. m \in SUBSET S /\ ~\E g : IsSum(f, m, g)
    BY Zenon, <1>3 DEF B
<1> DEFINE Table(u) == CHOOSE g : IsSum(f, u, g)
<1> DEFINE total == [s \in SUBSET m |->
                        IF s = {} THEN 0 ELSE f[Pick(s)] + Table(s \ {Pick(s)})[s \ {Pick(s)}]]
<1>5. ASSUME NEW u \in SUBSET m, u # m PROVE IsFiniteSet(u) /\ IsSum(f, u, Table(u))
  <2>1. u \in SUBSET S /\ u \notin B
      BY Zenon, <1>3, <1>4, <1>5
  <2>2. \E g : IsSum(f, u, g)
      BY Zenon, <2>1 DEF B
  <2>3. IsFiniteSet(u)
      BY Zenon, <2>1, FiniteSubset
  <2> QED
      BY <2>2, <2>3, Zenon
<1> HIDE DEF Table
<1>6. ASSUME NEW u \in SUBSET m, u # m PROVE total[u] = Table(u)[u]
  <2>1. Table(u)[u] = SumStep(f, Table(u), u)
    <3>1. IsSum(f, u, Table(u))
        BY ZenonT(30), <1>5, <1>6
    <3> DEFINE g == Table(u)
    <3>2. g = [s \in SUBSET u |-> SumStep(f, g, s)]
        BY ZenonT(30), <3>1 DEF IsSum
    <3> HIDE DEF g
    <3>3. g[u] = SumStep(f, g, u)
        BY ZenonT(30), <3>2
    <3> QED
        BY ZenonT(30), <3>3 DEF g
  <2>2. CASE u = {}
      BY ZenonT(30), <2>1, <2>2 DEF SumStep
  <2>3. CASE u # {}
    <3> DEFINE v == u \ {Pick(u)}
    <3>1. v \in SUBSET u /\ v \in SUBSET m /\ v # m
        BY ZenonT(30), <1>6, <2>3, PickIn
    <3>2. IsFiniteSet(u) /\ IsSum(f, u, Table(u)) /\ IsSum(f, v, Table(v))
        BY ZenonT(30), <1>5, <1>6, <3>1
    <3>3. Table(u)[v] = Table(v)[v]
      <4> HIDE DEF v
      <4> QED
        BY <3>1, <3>2, SumsAgree
    <3> QED
        BY ZenonT(30), <2>1, <2>3, <3>3 DEF SumStep
  <2> QED
      BY Zenon, <2>2, <2>3
<1>7. ASSUME NEW s \in SUBSET m PROVE total[s] = SumStep(f, total, s)
  <2>1. CASE s = {}
      BY Zenon, <2>1 DEF SumStep
  <2>2. CASE s # {}
    <3>1. s \ {Pick(s)} \in SUBSET m /\ s \ {Pick(s)} # m
        BY Zenon, <2>2, PickIn
    <3>2. total[s \ {Pick(s)}] = Table(s \ {Pick(s)})[s \ {Pick(s)}]
        BY Zenon, <1>6, <3>1
    <3>3. total[s] = f[Pick(s)] + Table(s \ {Pick(s)})[s \ {Pick(s)}]
        BY ZenonT(30), <2>2
    <3> HIDE DEF total
    <3> QED
        BY Zenon, <2>2, <3>2, <3>3 DEF SumStep
  <2> QED
      BY Zenon, <2>1, <2>2
<1>8. IsSum(f, m, total)
  <2>1. total = [s \in SUBSET m |-> total[s]]
      BY ZenonT(30)
  <2> HIDE DEF total
  <2> QED
      BY Zenon, <1>7, <2>1 DEF IsSum
<1> QED
    BY ZenonT(30), <1>4, <1>8

(* The fold computes the sum from such a table. *)
LEMMA SumTable ==
    ASSUME NEW f, NEW S, IsFiniteSet(S)
    PROVE  \E g : IsSum(f, S, g) /\ Sum(f, S) = g[S]
<1> DEFINE g == CHOOSE g : g = [s \in SUBSET S |-> SumStep(f, g, s)]
<1>1. \E h : h = [s \in SUBSET S |-> SumStep(f, h, s)]
    BY ZenonT(30), SumsExist DEF IsSum
<1>2. g = [s \in SUBSET S |-> SumStep(f, g, s)]
    BY <1>1, Zenon
<1>3. Sum(f, S) = g[S]
    BY ZenonT(30) DEF Sum, FoldFunctionOnSet, MapThenFoldSet, SumStep, Pick
<1> QED
    BY Zenon, <1>2, <1>3 DEF IsSum

(* The sum over a set that is not empty. *)
LEMMA SumPick ==
    ASSUME NEW f, NEW S, IsFiniteSet(S)
    PROVE  Sum(f, S) = IF S = {} THEN 0 ELSE f[Pick(S)] + Sum(f, S \ {Pick(S)})
<1>1. PICK g : IsSum(f, S, g) /\ Sum(f, S) = g[S]
    BY ZenonT(30), SumTable
<1>2. g[S] = SumStep(f, g, S)
    BY ZenonT(30), <1>1 DEF IsSum
<1>3. CASE S = {}
    BY ZenonT(30), <1>1, <1>2, <1>3 DEF SumStep
<1>4. CASE S # {}
  <2> DEFINE T == S \ {Pick(S)}
  <2>1. IsFiniteSet(T) /\ T \in SUBSET S /\ T \in SUBSET T
      BY ZenonT(30), FiniteSubset
  <2> HIDE DEF T
  <2>2. PICK h : IsSum(f, T, h) /\ Sum(f, T) = h[T]
      BY ZenonT(30), <2>1, SumTable
  <2>3. g[T] = h[T]
      BY <1>1, <2>1, <2>2, SumsAgree
  <2> QED
      BY ZenonT(30), <1>1, <1>2, <1>4, <2>2, <2>3 DEF SumStep, T
<1> QED
    BY ZenonT(30), <1>3, <1>4

(* Sums of integers are integers. *)
LEMMA SumType ==
    ASSUME NEW f, NEW S, IsFiniteSet(S), \A x \in S : f[x] \in Int
    PROVE  Sum(f, S) \in Int
<1> DEFINE B == {s \in SUBSET S : Sum(f, s) \notin Int}
<1>1. SUFFICES ASSUME B # {} PROVE FALSE
    BY Zenon
<1>2. B \in SUBSET (SUBSET S)
    BY Zenon
<1> HIDE DEF B
<1>3. PICK m \in B : \A u \in B : u \subseteq m => u = m
    BY <1>1, <1>2, MinimalSubset
<1>4. m \in SUBSET S /\ Sum(f, m) \notin Int /\ IsFiniteSet(m)
    BY Zenon, <1>3, FiniteSubset DEF B
<1>5. m # {}
  <2>1. ASSUME m = {} PROVE Sum(f, m) = 0
      BY ZenonT(30), <1>4, <2>1, SumPick
  <2> QED
      BY <1>4, <2>1
<1>6. m \ {Pick(m)} \in SUBSET S /\ m \ {Pick(m)} \notin B /\ Pick(m) \in S
    BY ZenonT(30), <1>3, <1>4, <1>5, PickIn
<1>7. Sum(f, m \ {Pick(m)}) \in Int /\ f[Pick(m)] \in Int
    BY ZenonT(30), <1>6 DEF B
<1>8. Sum(f, m) = f[Pick(m)] + Sum(f, m \ {Pick(m)})
    BY ZenonT(30), <1>4, <1>5, SumPick
<1> QED
    BY <1>4, <1>7, <1>8

(* The elements may be summed up in any order. *)
LEMMA SumRemove ==
    ASSUME NEW f, NEW S, IsFiniteSet(S), \A x \in S : f[x] \in Int, NEW e \in S
    PROVE  Sum(f, S) = f[e] + Sum(f, S \ {e})
<1> DEFINE B == {s \in SUBSET S : \E x \in s : Sum(f, s) # f[x] + Sum(f, s \ {x})}
<1>1. SUFFICES ASSUME B # {} PROVE FALSE
    BY Zenon
<1>2. B \in SUBSET (SUBSET S)
    BY Zenon
<1> HIDE DEF B
<1>3. PICK m \in B : \A u \in B : u \subseteq m => u = m
    BY <1>1, <1>2, MinimalSubset
<1>4. PICK x \in m : Sum(f, m) # f[x] + Sum(f, m \ {x})
    BY Zenon, <1>3 DEF B
<1>5. m \in SUBSET S /\ IsFiniteSet(m) /\ m # {}
    BY Zenon, <1>3, <1>4, FiniteSubset DEF B
<1> DEFINE c == Pick(m)
<1>6. c \in m /\ Sum(f, m) = f[c] + Sum(f, m \ {c})
    BY Zenon, <1>5, SumPick, PickIn
<1> HIDE DEF c
<1>7. c # x
    BY ZenonT(30), <1>4, <1>6
<1>8. m \ {c} \in SUBSET S /\ m \ {c} \notin B /\ m \ {x} \in SUBSET S /\ m \ {x} \notin B
    BY ZenonT(30), <1>3, <1>5, <1>6
<1>9. /\ Sum(f, m \ {c}) = f[x] + Sum(f, (m \ {c}) \ {x})
      /\ Sum(f, m \ {x}) = f[c] + Sum(f, (m \ {x}) \ {c})
    BY Zenon, <1>6, <1>7, <1>8 DEF B
<1>10. (m \ {c}) \ {x} = (m \ {x}) \ {c}
    BY ZenonT(30)
<1>11. IsFiniteSet((m \ {x}) \ {c}) /\ \A y \in (m \ {x}) \ {c} : f[y] \in Int
    BY ZenonT(30), <1>5, FiniteSubset
<1>12. Sum(f, (m \ {x}) \ {c}) \in Int /\ f[x] \in Int /\ f[c] \in Int
    BY ZenonT(30), <1>5, <1>6, <1>11, SumType
<1>13. Sum(f, m \ {c}) = f[x] + Sum(f, (m \ {x}) \ {c})
    BY <1>9, <1>10, Zenon
<1> QED
    BY <1>4, <1>6, <1>9, <1>12, <1>13

(* The sum depends on the function's values only. *)
LEMMA SumSame ==
    ASSUME NEW f, NEW g, NEW S, IsFiniteSet(S), \A x \in S : f[x] = g[x]
    PROVE  Sum(f, S) = Sum(g, S)
<1> DEFINE B == {s \in SUBSET S : Sum(f, s) # Sum(g, s)}
<1>1. SUFFICES ASSUME B # {} PROVE FALSE
    BY Zenon
<1>2. B \in SUBSET (SUBSET S)
    BY Zenon
<1> HIDE DEF B
<1>3. PICK m \in B : \A u \in B : u \subseteq m => u = m
    BY <1>1, <1>2, MinimalSubset
<1>4. m \in SUBSET S /\ Sum(f, m) # Sum(g, m) /\ IsFiniteSet(m)
    BY Zenon, <1>3, FiniteSubset DEF B
<1>5. m # {}
    BY ZenonT(30), <1>4, SumPick
<1>6. m \ {Pick(m)} \in SUBSET S /\ m \ {Pick(m)} \notin B /\ f[Pick(m)] = g[Pick(m)]
    BY Zenon, <1>3, <1>4, <1>5, PickIn
<1>7. Sum(f, m \ {Pick(m)}) = Sum(g, m \ {Pick(m)})
    BY Zenon, <1>6 DEF B
<1>8. /\ Sum(f, m) = f[Pick(m)] + Sum(f, m \ {Pick(m)})
      /\ Sum(g, m) = g[Pick(m)] + Sum(g, m \ {Pick(m)})
    BY Zenon, <1>4, <1>5, SumPick
<1> QED
    BY ZenonT(30), <1>4, <1>6, <1>7, <1>8

(* One value changes. *)
LEMMA SumChange ==
    ASSUME NEW f, NEW g, NEW S, IsFiniteSet(S), \A x \in S : f[x] \in Int /\ g[x] \in Int,
           NEW e \in S, \A x \in S \ {e} : g[x] = f[x]
    PROVE  /\ Sum(f, S) \in Int /\ Sum(g, S) \in Int
           /\ Sum(g, S) = Sum(f, S) - f[e] + g[e]
<1>1. IsFiniteSet(S \ {e})
    BY ZenonT(30), FiniteSubset
<1>2. Sum(f, S) = f[e] + Sum(f, S \ {e}) /\ Sum(g, S) = g[e] + Sum(g, S \ {e})
    BY SumRemove
<1>3. Sum(f, S \ {e}) = Sum(g, S \ {e})
    BY <1>1, SumSame
<1>4. Sum(f, S \ {e}) \in Int
    BY Zenon, <1>1, SumType
<1>5. f[e] \in Int /\ g[e] \in Int /\ Sum(f, S) \in Int /\ Sum(g, S) \in Int
    BY Zenon, SumType
<1> QED
    BY <1>2, <1>3, <1>4, <1>5

(* Zeros add up to zero. *)
LEMMA SumZero ==
    ASSUME NEW f, NEW S, IsFiniteSet(S), \A x \in S : f[x] = 0
    PROVE  Sum(f, S) = 0
<1> DEFINE B == {s \in SUBSET S : Sum(f, s) # 0}
<1>1. SUFFICES ASSUME B # {} PROVE FALSE
    BY Zenon
<1>2. B \in SUBSET (SUBSET S)
    BY Zenon
<1> HIDE DEF B
<1>3. PICK m \in B : \A u \in B : u \subseteq m => u = m
    BY <1>1, <1>2, MinimalSubset
<1>4. m \in SUBSET S /\ Sum(f, m) # 0 /\ IsFiniteSet(m)
    BY Zenon, <1>3, FiniteSubset DEF B
<1>5. m # {}
    BY ZenonT(30), <1>4, SumPick
<1>6. m \ {Pick(m)} \in SUBSET S /\ m \ {Pick(m)} \notin B /\ f[Pick(m)] = 0
    BY ZenonT(30), <1>3, <1>4, <1>5, PickIn
<1>7. Sum(f, m \ {Pick(m)}) = 0
    BY ZenonT(30), <1>6 DEF B
<1> QED
    BY <1>4, <1>5, <1>6, <1>7, SumPick


-----------------------------------------------------------------------------
(* Arbitrations are serialized, for any number of queries and tasks.       *)

Outside == {"idle", "enter", "grown", "closing", "closed"}

QueueTypes ==
    /\ pc \in [Tasks -> Outside \cup {"wait"} \cup Arbitrating]
    /\ running \in BOOLEAN /\ waitPromises \in Seq(Tasks)

QueueInv == QueueTypes /\ Serialized

Front(s) == SubSeq(s, 1, Len(s) - 1)
Last(s) == s[Len(s)]

(* A step that leaves the queue alone and moves nobody into or out of an   *)
(* arbitration or a wait keeps the invariant.                              *)
LEMMA QueueKept ==
    ASSUME QueueInv, UNCHANGED queueVars,
           pc' \in [Tasks -> Outside \cup {"wait"} \cup Arbitrating],
           \A u \in Tasks : /\ pc'[u] \in Arbitrating <=> pc[u] \in Arbitrating
                            /\ pc'[u] = "wait" <=> pc[u] = "wait"
    PROVE  QueueInv'
<1>1. running' = running /\ waitPromises' = waitPromises
    BY Zenon DEF queueVars
<1>2. QueueTypes'
    BY Zenon, <1>1 DEF QueueInv, QueueTypes
<1>3. {t \in Tasks : pc[t] = "wait"}' = {t \in Tasks : pc[t] = "wait"}
    BY Zenon
<1>4. Serialized'
    BY <1>1, <1>3, Zenon DEF QueueInv, Serialized
<1> QED
    BY Zenon, <1>2, <1>4 DEF QueueInv

(* The pc of one task changes, within or outside the arbitrations. *)
LEMMA PcKept ==
    ASSUME QueueInv, UNCHANGED queueVars, NEW u \in Tasks, NEW l,
           pc' = [pc EXCEPT ![u] = l],
           \/ pc[u] \in Arbitrating /\ l \in Arbitrating
           \/ pc[u] \in Outside /\ l \in Outside
           \/ l = pc[u]
    PROVE  QueueInv'
<1>1. pc \in [Tasks -> Outside \cup {"wait"} \cup Arbitrating]
    BY Zenon DEF QueueInv, QueueTypes
<1>2. \A x : x \in Outside => x \notin Arbitrating /\ x # "wait"
    BY Zenon DEF Outside, Arbitrating, Reclaiming
<1>3. "wait" \notin Arbitrating
    BY Zenon DEF Arbitrating, Reclaiming
<1>4. l \in Outside \cup {"wait"} \cup Arbitrating
    BY Zenon, <1>1
<1>5. \A v \in Tasks : /\ pc'[v] \in Arbitrating <=> pc[v] \in Arbitrating
                       /\ pc'[v] = "wait" <=> pc[v] = "wait"
    BY Zenon, <1>1, <1>2, <1>3
<1> QED
    BY Zenon, <1>1, <1>4, <1>5, QueueKept

(* AddRootPool, DropPool, Release and Done do not move a task. *)
LEMMA PcStays ==
    ASSUME QueueInv, UNCHANGED <<queueVars, pc>>
    PROVE  QueueInv'
BY Zenon, QueueKept DEF QueueInv, QueueTypes

(* The operations of a task outside the arbitrator. *)
LEMMA OutsideKept ==
    ASSUME QueueInv, NEW t \in Tasks, Ask(t) \/ Retry(t) \/ Close(t)
    PROVE  QueueInv'
<1>1. UNCHANGED queueVars
    BY Zenon DEF Ask, Retry, Close
<1>2. pc[t] \in Outside
    BY Zenon DEF Ask, Retry, Close, Outside
<1>3. \E l \in Outside : pc' = [pc EXCEPT ![t] = l]
    BY Zenon DEF Ask, Retry, Close, Reserve, Outside
<1> QED
    BY Zenon, <1>1, <1>2, <1>3, PcKept

(* The abort of a task may move that task, from idle to closed, and no other. *)
LEMMA AbortTaskKept ==
    ASSUME QueueInv, NEW t \in Tasks, AbortTask(t)
    PROVE  QueueInv'
<1>1. UNCHANGED queueVars
    BY Zenon DEF AbortTask
<1>2. PICK u \in rc[t].left :
        pc' = pc \/ pc' = [pc EXCEPT ![u] = IF pc[u] = "idle" THEN "closed" ELSE pc[u]]
    BY Zenon DEF AbortTask
<1>3. pc \in [Tasks -> Outside \cup {"wait"} \cup Arbitrating]
    BY Zenon DEF QueueInv, QueueTypes
<1>4. CASE pc' = pc
    BY Zenon, <1>1, <1>4, PcStays
<1>5. CASE u \notin Tasks /\ pc' # pc
    BY <1>2, <1>3, <1>5
<1>6. CASE u \in Tasks /\ pc' # pc
    <2>1. pc[u] = "idle" => pc[u] \in Outside /\ "closed" \in Outside
        BY Zenon DEF Outside
    <2> QED
        BY Zenon, <1>1, <1>2, <1>6, <2>1, PcKept
<1> QED
    BY Zenon, <1>4, <1>5, <1>6

(* A step of an arbitration that does not end it. *)
LEMMA ArbitratingKept ==
    ASSUME QueueInv, NEW t \in Tasks, Arbitrate(t), ~FinishArbitration(t)
    PROVE  QueueInv'
<1> DEFINE Moves == \E l \in Arbitrating : pc' = [pc EXCEPT ![t] = l]
<1>1. ASSUME UNCHANGED queueVars, pc[t] \in Arbitrating, Moves
      PROVE  QueueInv'
    BY Zenon, <1>1, PcKept
<1>2. CASE Check(t) \/ Stats(t) \/ ReclaimCandidate(t)
    <2>1. UNCHANGED queueVars /\ pc[t] \in Arbitrating
        BY ZenonT(30), <1>2 DEF Check, Stats, ReclaimCandidate, Arbitrating
    <2>2. Moves
        BY Zenon, <1>2 DEF Check, Stats, ReclaimCandidate, Arbitrating, Reclaiming
    <2> QED
        BY ZenonT(30), <1>1, <2>1, <2>2
<1>3. CASE FreeReclaimed(t) \/ UsedReclaimed(t)
    <2>1. UNCHANGED queueVars /\ pc[t] \in Arbitrating
        BY Zenon, <1>3 DEF FreeReclaimed, UsedReclaimed, Arbitrating
    <2>2. Moves
        BY Zenon, <1>3 DEF FreeReclaimed, UsedReclaimed, Grow, Arbitrating
    <2> QED
        BY ZenonT(30), <1>1, <2>1, <2>2
<1>4. CASE ShrinkCandidate(t)
    BY Zenon, <1>4, PcStays DEF ShrinkCandidate
<1>5. CASE HandleOOM(t) \/ PauseTimesOut(t) \/ SpillFails(t)
    <2>1. UNCHANGED queueVars /\ pc[t] \in Arbitrating
        BY ZenonT(30), <1>5 DEF HandleOOM, PauseTimesOut, SpillFails, ReclaimFails, Arbitrating, Reclaiming
    <2>2. Moves
        BY ZenonT(30), <1>5 DEF HandleOOM, PauseTimesOut, SpillFails, ReclaimFails, StartAbort, Arbitrating, Reclaiming
    <2> QED
        BY ZenonT(30), <1>1, <2>1, <2>2
<1>6. CASE ReclaimShrink(t) \/ SpillShrink(t) \/ Spill(t)
    <2>1. UNCHANGED queueVars /\ pc[t] \in Arbitrating
        BY Zenon, <1>6 DEF ReclaimShrink, SpillShrink, Spill, Arbitrating, Reclaiming
    <2>2. Moves
        BY Zenon, <1>6 DEF ReclaimShrink, SpillShrink, Spill, ShrinkTowards, Arbitrating, Reclaiming
    <2> QED
        BY ZenonT(30), <1>1, <2>1, <2>2
<1>7. CASE ReclaimTask(t)
    <2>1. UNCHANGED queueVars /\ pc[t] \in Arbitrating
        BY Zenon, <1>7 DEF ReclaimTask, Arbitrating, Reclaiming
    <2>2. pc' = pc \/ Moves
        BY Zenon, <1>7 DEF ReclaimTask, ShrinkTowards, Arbitrating, Reclaiming
    <2> QED
        BY Zenon, <1>1, <2>1, <2>2, PcStays
<1>8. CASE AbortDone(t) \/ Reclaimed(t)
    <2>1. UNCHANGED queueVars /\ pc[t] \in Arbitrating
        BY Zenon, <1>8 DEF AbortDone, Reclaimed, Arbitrating, Reclaiming
    <2>2. Moves
        BY Zenon, <1>8 DEF AbortDone, Reclaimed, Arbitrating, Reclaiming
    <2> QED
        BY ZenonT(30), <1>1, <2>1, <2>2
<1> QED
    BY Zenon, <1>2, <1>3, <1>4, <1>5, <1>6, <1>7, <1>8, AbortTaskKept DEF Arbitrate

(* The queue after push_back. *)
LEMMA AppendFacts ==
    ASSUME NEW S, NEW s \in Seq(S), NEW x \in S, IsInjective(s), x \notin Range(s)
    PROVE  IsInjective(Append(s, x)) /\ Range(Append(s, x)) = Range(s) \cup {x}
<1>1. DOMAIN Append(s, x) = 1..Len(s) + 1 /\ DOMAIN s = 1..Len(s)
    OBVIOUS
<1>2. \A i \in 1..Len(s) : Append(s, x)[i] = s[i]
    OBVIOUS
<1>3. Append(s, x)[Len(s) + 1] = x /\ Len(s) \in Nat
    OBVIOUS
<1>4. \A i \in 1..Len(s) + 1 : i \in 1..Len(s) \/ i = Len(s) + 1
    BY <1>3
<1>5. Range(Append(s, x)) = Range(s) \cup {x}
    BY <1>1, <1>2, <1>3, <1>4 DEF Range
<1>6. \A i \in 1..Len(s) : s[i] # x
    BY Zenon, <1>1 DEF Range
<1>7. IsInjective(Append(s, x))
    BY Zenon, <1>1, <1>2, <1>3, <1>4, <1>6 DEF IsInjective
<1> QED
    BY Zenon, <1>5, <1>7

(* The queue after pop_back. *)
LEMMA FrontFacts ==
    ASSUME NEW S, NEW s \in Seq(S), s # <<>>, IsInjective(s)
    PROVE  /\ Front(s) \in Seq(S) /\ IsInjective(Front(s))
           /\ Last(s) \in Range(s) /\ Range(Front(s)) = Range(s) \ {Last(s)}
<1>1. Len(s) \in Nat /\ Len(s) > 0 /\ DOMAIN s = 1..Len(s)
    OBVIOUS
<1>2. Front(s) \in Seq(S) /\ DOMAIN Front(s) = 1..Len(s) - 1
    BY <1>1 DEF Front
<1>a. \A n \in Nat \ {0} : \A i \in 1..n - 1 : i \in 1..n /\ i # n
    OBVIOUS
<1>b. \A n \in Nat \ {0} : \A i \in 1..n : i \in 1..n - 1 \/ i = n
    OBVIOUS
<1>3. \A i \in 1..Len(s) - 1 : Front(s)[i] = s[i] /\ i \in 1..Len(s) /\ i # Len(s)
    <2>1. \A i \in 1..Len(s) - 1 : Front(s)[i] = s[i]
        BY <1>1 DEF Front
    <2>2. \A i \in 1..Len(s) - 1 : i \in 1..Len(s) /\ i # Len(s)
        <3>1. Len(s) \in Nat \ {0}
            BY <1>1
        <3> QED
            BY <1>a, <3>1, Zenon
    <2> QED
        BY <2>1, <2>2, Zenon
<1>4. Len(s) \in DOMAIN s /\ Last(s) = s[Len(s)]
    BY <1>1 DEF Last
<1>5. \A i \in 1..Len(s) : i \in 1..Len(s) - 1 \/ i = Len(s)
    <2>1. Len(s) \in Nat \ {0}
        BY <1>1
    <2> QED
        BY <1>b, <2>1, Zenon
<1>6. \A i \in 1..Len(s) - 1 : s[i] # Last(s)
    BY <1>1, <1>3, <1>4, ZenonT(30) DEF IsInjective
<1>7. Range(Front(s)) = Range(s) \ {Last(s)}
    BY <1>1, <1>2, <1>3, <1>4, <1>5, <1>6, ZenonT(30) DEF Range
<1>8. IsInjective(Front(s))
    BY <1>1, <1>2, <1>3, ZenonT(30) DEF IsInjective
<1> QED
    BY Zenon, <1>1, <1>2, <1>4, <1>7, <1>8 DEF Range

(* startArbitration: the task fails, queues behind the running arbitration or *)
(* runs itself.                                                              *)
LEMMA StartKept ==
    ASSUME QueueInv, NEW t \in Tasks, StartArbitration(t)
    PROVE  QueueInv'
<1>1. pc \in [Tasks -> Outside \cup {"wait"} \cup Arbitrating] /\ pc[t] = "enter"
    BY Zenon DEF QueueInv, QueueTypes, StartArbitration
<1>2. "enter" \in Outside /\ "closing" \in Outside /\ "wait" \notin Arbitrating
      /\ "check" \in Arbitrating /\ "enter" \notin Arbitrating
    BY Zenon DEF Outside, Arbitrating, Reclaiming
<1>3. CASE UNCHANGED queueVars /\ pc' = [pc EXCEPT ![t] = "closing"]
    BY Zenon, <1>1, <1>2, <1>3, PcKept
<1>4. CASE /\ running /\ waitPromises' = Append(waitPromises, t)
           /\ pc' = [pc EXCEPT ![t] = "wait"] /\ running' = running
    <2>1. QueueTypes'
        BY <1>1, <1>2, <1>4 DEF QueueInv, QueueTypes
    <2>2. \A u \in Tasks : pc'[u] \in Arbitrating <=> pc[u] \in Arbitrating
        BY Zenon, <1>1, <1>2, <1>4
    <2>3. {u \in Tasks : pc[u] = "wait"}' = {u \in Tasks : pc[u] = "wait"} \cup {t}
        BY Zenon, <1>1, <1>4
    <2>4. waitPromises \in Seq(Tasks) /\ t \notin Range(waitPromises)
        BY Zenon, <1>1 DEF QueueInv, QueueTypes, Serialized
    <2>5. IsInjective(waitPromises)' /\ Range(waitPromises)' = Range(waitPromises) \cup {t}
        BY <1>4, <2>4, AppendFacts DEF QueueInv, Serialized
    <2>6. Range(waitPromises)' = {u \in Tasks : pc[u] = "wait"}'
        BY Zenon, <2>3, <2>5 DEF QueueInv, Serialized
    <2>7. Serialized'
        BY Zenon, <1>4, <2>2, <2>5, <2>6 DEF QueueInv, Serialized
    <2> QED
        BY Zenon, <2>1, <2>7 DEF QueueInv
<1>5. CASE /\ ~running /\ running' = TRUE /\ pc' = [pc EXCEPT ![t] = "check"]
           /\ waitPromises' = waitPromises
    <2>1. QueueTypes'
        BY Zenon, <1>1, <1>2, <1>5 DEF QueueInv, QueueTypes
    <2>2. \A u \in Tasks : pc'[u] \in Arbitrating <=> u = t
        BY Zenon, <1>1, <1>2, <1>5 DEF QueueInv, Serialized
    <2>3. {u \in Tasks : pc[u] = "wait"}' = {u \in Tasks : pc[u] = "wait"}
        BY Zenon, <1>1, <1>5
    <2>4. Serialized'
        BY ZenonT(30), <1>5, <2>2, <2>3 DEF QueueInv, Serialized
    <2> QED
        BY Zenon, <2>1, <2>4 DEF QueueInv
<1> QED
    BY Zenon, <1>3, <1>4, <1>5 DEF StartArbitration, queueVars

(* finishArbitration: the arbitration is handed to the last that queued, or *)
(* none runs any more.                                                      *)
LEMMA FinishKept ==
    ASSUME QueueInv, NEW t \in Tasks, FinishArbitration(t)
    PROVE  QueueInv'
<1>1. pc \in [Tasks -> Outside \cup {"wait"} \cup Arbitrating] /\ pc[t] = "finish"
    BY Zenon DEF QueueInv, QueueTypes, FinishArbitration
<1>2. "grown" \in Outside /\ "closing" \in Outside /\ "check" \in Arbitrating
      /\ "finish" \in Arbitrating /\ "wait" \notin Arbitrating
      /\ "grown" \notin Arbitrating /\ "closing" \notin Arbitrating
    BY Zenon DEF Outside, Arbitrating, Reclaiming
<1>3. running /\ \A u \in Tasks : pc[u] \in Arbitrating <=> u = t
    BY ZenonT(30), <1>1, <1>2 DEF QueueInv, Serialized
<1>4. PICK l \in {"grown", "closing"} :
        \/ /\ waitPromises # <<>> /\ waitPromises' = Front(waitPromises) /\ running' = running
           /\ pc' = [pc EXCEPT ![t] = l, ![Last(waitPromises)] = "check"]
        \/ /\ waitPromises = <<>> /\ waitPromises' = waitPromises /\ running' = FALSE
           /\ pc' = [pc EXCEPT ![t] = l]
    BY Zenon DEF FinishArbitration, Earlier, Latest, Front, Last
<1>5. CASE waitPromises # <<>>
    <2> DEFINE u == Last(waitPromises)
    <2>1. waitPromises \in Seq(Tasks) /\ IsInjective(waitPromises)
        BY Zenon DEF QueueInv, QueueTypes, Serialized
    <2>2. /\ Front(waitPromises) \in Seq(Tasks) /\ IsInjective(Front(waitPromises))
          /\ u \in Range(waitPromises)
          /\ Range(Front(waitPromises)) = Range(waitPromises) \ {u}
        BY Zenon, <1>5, <2>1, FrontFacts
    <2>3. u \in Tasks /\ pc[u] = "wait" /\ u # t
        BY Zenon, <1>1, <2>2 DEF QueueInv, Serialized
    <2> HIDE DEF u
    <2>4. pc' = [pc EXCEPT ![t] = l, ![u] = "check"]
        BY Zenon, <1>4, <1>5 DEF u
    <2>5. QueueTypes'
        BY ZenonT(30), <1>1, <1>2, <1>4, <1>5, <2>2, <2>4 DEF QueueInv, QueueTypes
    <2>6. \A v \in Tasks : pc'[v] \in Arbitrating <=> v = u
        BY Zenon, <1>1, <1>2, <1>3, <2>3, <2>4
    <2>7. {v \in Tasks : pc[v] = "wait"}' = {v \in Tasks : pc[v] = "wait"} \ {u}
        BY Zenon, <1>1, <1>2, <2>3, <2>4
    <2>8. IsInjective(waitPromises)' /\ Range(waitPromises)' = {v \in Tasks : pc[v] = "wait"}'
        BY Zenon, <1>4, <1>5, <2>2, <2>7 DEF QueueInv, Serialized
    <2>9. Serialized'
        BY Zenon, <1>3, <1>4, <1>5, <2>3, <2>6, <2>8 DEF Serialized
    <2> QED
        BY Zenon, <2>5, <2>9 DEF QueueInv
<1>6. CASE waitPromises = <<>>
    <2>1. QueueTypes'
        BY Zenon, <1>1, <1>2, <1>4, <1>6 DEF QueueInv, QueueTypes
    <2>2. \A v \in Tasks : pc'[v] \notin Arbitrating
        BY Zenon, <1>1, <1>2, <1>3, <1>4, <1>6
    <2>3. {v \in Tasks : pc[v] = "wait"}' = {v \in Tasks : pc[v] = "wait"}
        BY Zenon, <1>1, <1>4, <1>6
    <2>4. Serialized'
        BY Zenon, <1>4, <1>6, <2>2, <2>3 DEF QueueInv, Serialized
    <2> QED
        BY Zenon, <2>1, <2>4 DEF QueueInv
<1> QED
    BY Zenon, <1>5, <1>6

(* No arbitration runs at first. *)
LEMMA InitQueue == Init => QueueInv
<1> SUFFICES ASSUME Init PROVE QueueInv
    BY Zenon
<1>1. <<>> \in Seq(Tasks)
    OBVIOUS
<1>2. QueueTypes
    BY Zenon, <1>1 DEF Init, QueueTypes, Outside
<1>3. \A u \in Tasks : pc[u] \notin Arbitrating /\ pc[u] # "wait"
    BY Zenon DEF Init, Arbitrating, Reclaiming
<1>4. Range(waitPromises) = {} /\ IsInjective(waitPromises)
    BY DEF Init, Range, IsInjective
<1> QED
    BY Zenon, <1>2, <1>3, <1>4 DEF QueueInv, Init, Serialized

(* Every step keeps the queue in order. *)
LEMMA NextQueue ==
    ASSUME QueueInv, [Next]_vars
    PROVE  QueueInv'
<1>1. CASE UNCHANGED vars
    BY Zenon, <1>1, PcStays DEF vars, queueVars
<1>2. CASE \E p \in Pools : AddRootPool(p) \/ DropPool(p)
    BY Zenon, <1>2, PcStays DEF AddRootPool, DropPool
<1>3. ASSUME NEW t \in Tasks, Release(t) PROVE QueueInv'
    BY Zenon, <1>3, PcStays DEF Release
<1> QED
    BY Zenon, <1>1, <1>2, <1>3, OutsideKept, StartKept, ArbitratingKept, FinishKept DEF Next, Done

(* At most one arbitration runs, running_ says so, and whoever waits is in *)
(* the queue, once, and behind a running arbitration.                      *)
THEOREM ArbitrationsSerialized == Spec => []Serialized
<1>1. QueueInv /\ [Next]_vars => QueueInv'
    BY Zenon, NextQueue
<1>2. QueueInv => Serialized
    BY Zenon DEF QueueInv
<1> QED
    BY <1>1, <1>2, InitQueue, PTL DEF Spec

-----------------------------------------------------------------------------
(* The inductive invariant of the arbitrator and the steps that keep it:   *)
(* what the thread of a task knows at each point of an arbitration, and    *)
(* what the other threads cannot change under it.                          *)

ArbRecord == [size : Nat, pools : SUBSET Pools, todo : SUBSET Pools, hand : Nat, got : Nat,
              goal : Int, retried : BOOLEAN, granted : BOOLEAN]
ReclaimRecord == [pool : Pools \cup {NoPool}, want : Int, old : Int, left : SUBSET Tasks,
                  task : Tasks \cup {NoTask}, caller : {"used", "ensure", "oom"}]

Types ==
    /\ pools \in [Pools -> {"none", "live", "dropped"}]
    /\ capacity \in [Pools -> Int] /\ reserved \in [Pools -> Int]
    /\ aborted \in SUBSET Pools /\ freeCapacity \in Nat
    /\ held \in [Tasks -> Nat] /\ arb \in [Tasks -> ArbRecord] /\ rc \in [Tasks -> ReclaimRecord]
    /\ stats = [t \in Tasks |-> stats[t]]

\* A pool that does not exist yet is not touched.
Fresh == \A p \in Pools : pools[p] = "none" => capacity[p] = 0 /\ p \notin aborted

\* The reservations, up to what a running spill has allocated.
Covered ==
    \A p \in Pools :
        \/ reserved[p] <= capacity[p]
        \/ \E t \in Tasks : /\ pc[t] = "spill" /\ rc[t].pool = p
                            /\ reserved[p] - SpillNeed <= capacity[p]

\* What the thread of a task relies on.
Known(t) ==
    /\ pc[t] # "idle" => pools[PoolOf[t]] # "none"
    /\ \A q \in arb[t].pools : pools[q] # "none"
    /\ arb[t].todo \subseteq arb[t].pools
    /\ pc[t] \in {"enter", "wait", "grown"} \cup Arbitrating => arb[t].size > 0

\* ... while it reclaims from a pool,
Reclaims(t) ==
    /\ pc[t] \in Reclaiming =>
        /\ rc[t].pool \in arb[t].pools \cup {PoolOf[t]} /\ capacity[rc[t].pool] <= rc[t].old
        /\ rc[t].left \subseteq Members(rc[t].pool)
        /\ rc[t].caller = "oom" => pc[t] = "abort"
        /\ rc[t].caller = "ensure" => rc[t].pool = PoolOf[t]
    /\ pc[t] \in {"shrink", "task", "spill", "spilled"} => rc[t].want > 0
    /\ pc[t] \in {"spill", "spilled"} => rc[t].task \in rc[t].left

\* ... and in the rounds of the arbitration.
Grows(t) ==
    /\ pc[t] \in {"stats", "oom"} \/ (pc[t] = "abort" /\ rc[t].caller = "oom") =>
        capacity[PoolOf[t]] + arb[t].size <= MaxCapacity[PoolOf[t]] /\ PoolOf[t] \notin aborted
    /\ pc[t] = "free" =>
        PoolOf[t] \notin aborted /\ \A q \in arb[t].todo : stats[t][q].free \in Nat
    /\ pc[t] \in {"free", "used"} \/ (pc[t] \in Reclaiming /\ rc[t].caller = "used") =>
        /\ arb[t].size <= arb[t].goal /\ arb[t].hand < arb[t].goal
        /\ capacity[PoolOf[t]] + arb[t].goal <= MaxCapacity[PoolOf[t]]

Local(t) == Known(t) /\ Reclaims(t) /\ Grows(t)

Inv == Types /\ Fresh /\ Covered /\ WithinMax /\ \A t \in Tasks : Local(t)

-----------------------------------------------------------------------------
(* Arithmetic of the pools *)

(* The difference and the sum of sizes, and what stays below a limit. *)
LEMMA SizeFacts ==
    /\ \A m, n \in Nat : m + n \in Nat
    /\ \A m, n \in Int : n <= m => m - n \in Nat
    /\ \A m, n, k, l \in Int : m <= n /\ n + k <= l => m + k <= l
    /\ \A m, n \in Nat, k \in Int : ~(m >= n) /\ n <= k => m < k
    OBVIOUS

(* What Grow gives covers the request and fits the pool. *)
LEMMA LesserFits ==
    ASSUME NEW size \in Nat, NEW goal \in Int, NEW freed \in Nat, size <= goal, size <= freed,
           NEW before \in Int, NEW most \in Nat, before + goal <= most, NEW free \in Nat
    PROVE  /\ Lesser(goal, freed) \in Nat /\ size <= Lesser(goal, freed)
           /\ Lesser(goal, freed) <= freed /\ before + Lesser(goal, freed) <= most
           /\ free + freed - Lesser(goal, freed) \in Nat
    BY DEF Lesser

(* The record outside of a reclaim has its type. *)
LEMMA NoReclaimTyped == NoReclaim \in ReclaimRecord
    BY DEF NoReclaim, ReclaimRecord

(* The unsigned difference is exact while the pool does not overuse. *)
LEMMA ModFacts ==
    /\ \A x \in Int : x % Word \in Nat
    /\ \A x \in Nat : x % Word <= x
<1>1. Word \in Nat /\ Word > 0
    BY ArbitratorAssumption
<1> QED
    BY <1>1

(* What a shrink may take. *)
LEMMA ShrunkFacts ==
    ASSUME Types, NEW q \in Pools, NEW target \in Nat
    PROVE  /\ FreeBytes(q) \in Nat /\ Shrunk(q, target) \in Nat
           /\ target # 0 => Shrunk(q, target) <= target
           /\ reserved[q] <= capacity[q] => /\ FreeBytes(q) <= capacity[q] - reserved[q]
                                            /\ Shrunk(q, target) <= capacity[q] - reserved[q]
<1>1. capacity[q] - reserved[q] \in Int
    BY DEF Types
<1>2. FreeBytes(q) \in Nat
    BY Zenon, <1>1, ModFacts DEF FreeBytes
<1>3. reserved[q] <= capacity[q] => FreeBytes(q) <= capacity[q] - reserved[q]
    <2>1. reserved[q] <= capacity[q] => capacity[q] - reserved[q] \in Nat
        BY DEF Types
    <2> QED
        BY Zenon, <2>1, ModFacts DEF FreeBytes
<1> QED
    BY <1>1, <1>2, <1>3 DEF Shrunk, Lesser

-----------------------------------------------------------------------------
(* Frames *)

(* A task keeps what it knows when it does not move and, if it arbitrates, *)
(* no pool grows and none is aborted.                                      *)
LEMMA LocalStays ==
    ASSUME Types, NEW u \in Tasks, Local(u),
           \A p \in Pools : pools[p] # "none" => pools'[p] # "none",
           pc'[u] = pc[u], arb'[u] = arb[u], rc'[u] = rc[u], stats'[u] = stats[u],
           pc[u] \in Arbitrating =>
               /\ aborted' = aborted /\ capacity' \in [Pools -> Int]
               /\ \A p \in Pools : capacity'[p] <= capacity[p]
    PROVE  Local(u)'
<1>1. PoolOf[u] \in Pools /\ MaxCapacity \in [Pools -> Nat] /\ arb[u] \in ArbRecord /\ rc[u] \in ReclaimRecord
    BY Zenon, ArbitratorAssumption DEF Types
<1>2. Known(u)'
    BY Zenon, <1>1 DEF Local, Known, ArbRecord
<1>3. Reclaims(u)'
    <2>1. pc[u] \in Reclaiming => rc[u].pool \in Pools
        BY Zenon, <1>1 DEF Local, Reclaims, ArbRecord
    <2>2. pc[u] \in Reclaiming => capacity'[rc[u].pool] <= rc[u].old
        BY <1>1, <2>1 DEF Local, Reclaims, ReclaimRecord, Types, Arbitrating
    <2> QED
        BY Zenon, <2>2 DEF Local, Reclaims, Members, Reclaiming
<1>4. Grows(u)'
    <2>1. {"stats", "oom", "abort", "free", "used"} \cup Reclaiming \subseteq Arbitrating
        BY Zenon DEF Arbitrating, Reclaiming
    <2>2. CASE pc[u] \in Arbitrating
        BY <1>1, <2>2 DEF Local, Grows, ArbRecord, Types
    <2>3. CASE pc[u] \notin Arbitrating
        BY Zenon, <2>1, <2>3 DEF Grows
    <2> QED
        BY Zenon, <2>2, <2>3
<1> QED
    BY Zenon, <1>2, <1>3, <1>4 DEF Local

(* While a task arbitrates without spilling, no pool overuses its capacity. *)
LEMMA NoSpill ==
    ASSUME QueueInv, Inv, NEW t \in Tasks, pc[t] \in Arbitrating, pc[t] # "spill"
    PROVE  \A p \in Pools : reserved[p] <= capacity[p]
<1>1. \A u \in Tasks : pc[u] # "spill"
    BY Zenon DEF QueueInv, Serialized, Arbitrating, Reclaiming
<1> QED
    BY Zenon, <1>1 DEF Inv, Covered

(* The invariant after a step of the arbitrating task, from what the step  *)
(* does to the task itself and to the pools.                               *)
LEMMA ArbStep ==
    ASSUME QueueInv, Inv, NEW t \in Tasks, pc[t] \in Arbitrating, Types', pools' = pools,
           \A p \in Pools : pools[p] = "none" => capacity'[p] = capacity[p] /\ p \notin aborted',
           \A u \in Tasks \ {t} : /\ pc'[u] = pc[u] /\ arb'[u] = arb[u]
                                  /\ rc'[u] = rc[u] /\ stats'[u] = stats[u],
           Local(t)', Covered', WithinMax'
    PROVE  Inv'
<1>1. \A u \in Tasks \ {t} : pc[u] \notin Arbitrating
    BY Zenon DEF QueueInv, Serialized
<1>2. \A u \in Tasks \ {t} : Local(u)'
    BY Zenon, <1>1, LocalStays DEF Inv
<1>3. Fresh'
    BY Zenon DEF Inv, Fresh
<1> QED
    BY Zenon, <1>2, <1>3 DEF Inv

(* A step that leaves capacities and reservations alone keeps them in bounds. *)
LEMMA PoolsKept ==
    ASSUME QueueInv, Inv, NEW t \in Tasks, pc[t] \in Arbitrating, pc[t] # "spill",
           capacity' = capacity, reserved' = reserved
    PROVE  Covered' /\ WithinMax'
BY Zenon, NoSpill DEF Covered, WithinMax, Inv

(* ... and so does a shrink by at most what is free, *)
LEMMA PoolShrinks ==
    ASSUME QueueInv, Inv, NEW t \in Tasks, pc[t] \in Arbitrating, pc[t] # "spill",
           NEW q \in Pools, NEW n \in Nat, n <= capacity[q] - reserved[q],
           capacity' = [capacity EXCEPT ![q] = @ - n], reserved' = reserved
    PROVE  /\ Covered' /\ WithinMax' /\ capacity' \in [Pools -> Int]
           /\ \A p \in Pools : capacity'[p] <= capacity[p]
<1>1. \A p \in Pools : reserved[p] <= capacity[p]
    BY Zenon, NoSpill
<1>2. capacity \in [Pools -> Int] /\ reserved \in [Pools -> Int] /\ MaxCapacity \in [Pools -> Nat]
    BY Zenon, ArbitratorAssumption DEF Inv, Types
<1>3. capacity' \in [Pools -> Int]
    BY <1>2
<1>4. \A p \in Pools : capacity'[p] <= capacity[p] /\ reserved'[p] <= capacity'[p]
    BY <1>1, <1>2
<1>5. Covered'
    BY Zenon, <1>4 DEF Covered
<1>6. WithinMax'
    BY <1>2, <1>3, <1>4 DEF WithinMax, Inv
<1> QED
    BY Zenon, <1>3, <1>4, <1>5, <1>6

(* ... and a growth up to the maximum. *)
LEMMA PoolGrows ==
    ASSUME QueueInv, Inv, NEW t \in Tasks, pc[t] \in Arbitrating, pc[t] # "spill",
           NEW q \in Pools, NEW n \in Nat, capacity[q] + n <= MaxCapacity[q],
           capacity' = [capacity EXCEPT ![q] = @ + n], reserved' = reserved
    PROVE  Covered' /\ WithinMax' /\ capacity' \in [Pools -> Int]
<1>1. \A p \in Pools : reserved[p] <= capacity[p]
    BY Zenon, NoSpill
<1>2. capacity \in [Pools -> Int] /\ reserved \in [Pools -> Int] /\ MaxCapacity \in [Pools -> Nat]
    BY Zenon, ArbitratorAssumption DEF Inv, Types
<1>3. capacity' \in [Pools -> Int]
    BY <1>2
<1>4. \A p \in Pools : reserved'[p] <= capacity'[p]
    BY <1>1, <1>2
<1>5. Covered'
    BY Zenon, <1>4 DEF Covered
<1>6. WithinMax'
    BY Zenon, <1>2, <1>3 DEF WithinMax, Inv
<1> QED
    BY Zenon, <1>3, <1>5, <1>6

-----------------------------------------------------------------------------
(* Steps outside the arbitrations *)

\* The record a thread starts a request with.
Request(n, S) == [Idle EXCEPT !.size = n, !.pools = S]

(* The fields of a request. *)
LEMMA IdleFacts ==
    ASSUME NEW n \in Nat, NEW S \in SUBSET Pools
    PROVE  /\ Request(n, S) \in ArbRecord /\ Request(n, S).todo = {} /\ Request(n, S).pools = S
           /\ Request(n, S).size = n /\ ~Request(n, S).granted
<1> DEFINE b == [size |-> n, pools |-> S, todo |-> {}, hand |-> 0, got |-> 0, goal |-> 0,
                 retried |-> FALSE, granted |-> FALSE]
<1>0. ASSUME NEW r, r = [Idle EXCEPT !.size = n, !.pools = S]
      PROVE  r = b
    BY Zenon, <1>0 DEF Idle
<1>1. Request(n, S) = b
    BY Zenon, <1>0 DEF Request
<1>2. b \in ArbRecord
    BY DEF ArbRecord
<1>3. b.todo = {} /\ b.pools = S /\ b.size = n
    BY Zenon
<1>4. ~b.granted
    BY Zenon
<1> QED
    BY Zenon, <1>1, <1>2, <1>3, <1>4

(* A reservation, before or after the arbitrator was asked. *)
LEMMA ReserveKept ==
    ASSUME QueueInv, Inv, NEW t \in Tasks, NEW size \in Nat \ {0}, Reserve(t, size),
           pc[t] \in {"idle", "grown"}, pools[PoolOf[t]] # "none",
           UNCHANGED <<pools, capacity, aborted, freeCapacity, rc, stats>>
    PROVE  Inv'
<1>1. Types /\ PoolOf[t] \in Pools /\ pc[t] \notin Arbitrating
    BY Zenon, ArbitratorAssumption DEF Inv, Arbitrating, Reclaiming
<1>2. pc \in [Tasks -> Outside \cup {"wait"} \cup Arbitrating]
    BY Zenon DEF QueueInv, QueueTypes
<1>3. PICK l \in {"closing", "idle", "enter"} : pc' = [pc EXCEPT ![t] = l]
    BY Zenon DEF Reserve
<1>4. PICK a \in ArbRecord :
        /\ arb' = [arb EXCEPT ![t] = a]
        /\ a.todo = {} /\ \A q \in a.pools : pools[q] # "none"
        /\ l = "enter" => a.size > 0
    <2>1. Idle \in ArbRecord /\ Idle.todo = {} /\ Idle.pools = {}
        BY DEF Idle, ArbRecord
    <2>2. CASE l = "enter"
        <3> DEFINE b == Request(size, {q \in Pools : pools[q] = "live"})
        <3>1. b \in ArbRecord /\ b.todo = {} /\ b.pools = {q \in Pools : pools[q] = "live"} /\ b.size = size
            BY IdleFacts
        <3>2. pc'[t] = "enter"
            BY Zenon, <1>2, <1>3, <2>2
        <3>3. arb' = [arb EXCEPT ![t] = b]
            BY Zenon, <1>2, <3>2 DEF Reserve, Request
        <3> HIDE DEF b
        <3>4. (\A q \in b.pools : pools[q] # "none") /\ b.size > 0
            BY <3>1
        <3> QED
            BY Zenon, <3>1, <3>3, <3>4
    <2>3. CASE l # "enter"
        <3>1. pc'[t] # "enter"
            BY Zenon, <1>2, <1>3, <2>3
        <3>2. arb' = [arb EXCEPT ![t] = Idle]
            BY Zenon, <1>2, <3>1 DEF Reserve
        <3> QED
            BY Zenon, <2>1, <2>3, <3>2
    <2> QED
        BY Zenon, <2>2, <2>3
<1>5. /\ held' \in [Tasks -> Nat] /\ reserved' \in [Pools -> Int]
      /\ \A p \in Pools : reserved'[p] = reserved[p] \/ reserved'[p] <= capacity[p]
    BY <1>1 DEF Reserve, Types
<1>6. Types'
    BY Zenon, <1>1, <1>4, <1>5 DEF Types
<1>7. \A u \in Tasks \ {t} : Local(u)'
    <2>1. \A u \in Tasks \ {t} : /\ pc'[u] = pc[u] /\ arb'[u] = arb[u]
                                  /\ rc'[u] = rc[u] /\ stats'[u] = stats[u]
        BY Zenon, <1>1, <1>2, <1>3, <1>4 DEF Types
    <2>2. capacity' \in [Pools -> Int] /\ \A p \in Pools : capacity'[p] <= capacity[p]
        BY <1>1 DEF Types
    <2> QED
        BY Zenon, <1>1, <2>1, <2>2, LocalStays DEF Inv
<1>8. Local(t)'
    <2>1. pc'[t] = l /\ arb'[t] = a
        BY Zenon, <1>1, <1>2, <1>3, <1>4 DEF Types
    <2>2. Known(t)'
        BY Zenon, <1>3, <1>4, <2>1 DEF Known, Arbitrating, Reclaiming
    <2>3. Reclaims(t)' /\ Grows(t)'
        BY Zenon, <1>3, <2>1 DEF Reclaims, Grows, Reclaiming
    <2> QED
        BY Zenon, <2>2, <2>3 DEF Local
<1>9. Covered'
    <2>1. \A u \in Tasks : pc[u] = "spill" => pc'[u] = "spill"
        BY Zenon, <1>1, <1>2, <1>3 DEF Arbitrating, Reclaiming
    <2> QED
        BY <1>5, <2>1 DEF Inv, Covered
<1>10. Fresh' /\ WithinMax'
    BY Zenon DEF Inv, Fresh, WithinMax
<1> QED
    BY Zenon, <1>6, <1>7, <1>8, <1>9, <1>10 DEF Inv

(* Ask and Retry *)
LEMMA AsksKept ==
    ASSUME QueueInv, Inv, NEW t \in Tasks, Ask(t) \/ Retry(t)
    PROVE  Inv'
<1>1. CASE Ask(t)
    <2>1. PICK size \in Sizes : Reserve(t, size)
        BY Zenon, <1>1 DEF Ask
    <2>2. size \in Nat \ {0}
        BY Zenon, ArbitratorAssumption
    <2> QED
        BY Zenon, <1>1, <2>1, <2>2, ReserveKept DEF Ask
<1>2. CASE Retry(t)
    <2>1. arb[t].size \in Nat \ {0} /\ pools[PoolOf[t]] # "none"
        BY <1>2 DEF Retry, Inv, Local, Known, Types, ArbRecord
    <2> QED
        BY Zenon, <1>2, <2>1, ReserveKept DEF Retry
<1> QED
    BY Zenon, <1>1, <1>2

(* Steps that only give memory back: Release and Close. *)
LEMMA ReleasesKept ==
    ASSUME QueueInv, Inv, NEW t \in Tasks, Release(t) \/ Close(t)
    PROVE  Inv'
<1>1. Types /\ PoolOf[t] \in Pools
    BY Zenon, ArbitratorAssumption DEF Inv
<1>2. pc \in [Tasks -> Outside \cup {"wait"} \cup Arbitrating]
    BY Zenon DEF QueueInv, QueueTypes
<1>3. /\ UNCHANGED <<pools, capacity, aborted, freeCapacity, arb, rc, stats>>
      /\ pc[t] \notin Arbitrating
      /\ pc' = pc \/ (pools[PoolOf[t]] = "live" /\ pc' = [pc EXCEPT ![t] = "closed"])
    BY Zenon DEF Release, Close, Arbitrating, Reclaiming
<1>4. /\ held' \in [Tasks -> Nat] /\ reserved' \in [Pools -> Int]
      /\ \A p \in Pools : reserved'[p] <= reserved[p]
    BY <1>1 DEF Release, Close, Types
<1>5. Types'
    BY Zenon, <1>1, <1>3, <1>4 DEF Types
<1>6. ASSUME NEW u \in Tasks, pc'[u] = pc[u] PROVE Local(u)'
    <2>1. capacity' \in [Pools -> Int] /\ \A p \in Pools : capacity'[p] <= capacity[p]
        BY <1>1, <1>3 DEF Types
    <2> QED
        BY Zenon, <1>1, <1>3, <1>6, <2>1, LocalStays DEF Inv
<1>7. ASSUME NEW u \in Tasks, pc'[u] # pc[u] PROVE Local(u)'
    <2>1. u = t /\ pc'[t] = "closed" /\ pools[PoolOf[t]] = "live"
        BY Zenon, <1>2, <1>3, <1>7
    <2>2. Known(t)'
        BY Zenon, <1>3, <2>1 DEF Known, Inv, Local, Arbitrating, Reclaiming
    <2>3. Reclaims(t)' /\ Grows(t)'
        BY Zenon, <2>1 DEF Reclaims, Grows, Reclaiming
    <2> QED
        BY Zenon, <2>1, <2>2, <2>3 DEF Local
<1>8. Covered'
    <2>1. \A u \in Tasks : pc[u] = "spill" => pc'[u] = "spill"
        BY Zenon, <1>2, <1>3 DEF Arbitrating, Reclaiming
    <2>2. capacity' = capacity /\ rc' = rc /\ SpillNeed \in Nat
        BY Zenon, <1>3, ArbitratorAssumption
    <2>3. capacity \in [Pools -> Int] /\ reserved \in [Pools -> Int]
        BY Zenon, <1>1 DEF Types
    <2> QED
        BY <1>4, <2>1, <2>2, <2>3 DEF Inv, Covered
<1>9. Fresh' /\ WithinMax'
    BY Zenon, <1>3 DEF Inv, Fresh, WithinMax
<1> QED
    BY Zenon, <1>5, <1>6, <1>7, <1>8, <1>9 DEF Inv

(* startArbitration touches no pool. *)
LEMMA StartKeepsInv ==
    ASSUME QueueInv, Inv, NEW t \in Tasks, StartArbitration(t)
    PROVE  Inv'
<1>1. Types /\ Local(t) /\ pc[t] = "enter"
    BY Zenon DEF Inv, StartArbitration
<1>2. pc \in [Tasks -> Outside \cup {"wait"} \cup Arbitrating]
    BY Zenon DEF QueueInv, QueueTypes
<1>3. UNCHANGED <<poolVars, freeCapacity, held, rc, stats>>
    BY Zenon DEF StartArbitration
<1>4. Idle \in ArbRecord /\ Idle.todo = {} /\ Idle.pools = {}
    BY DEF Idle, ArbRecord
<1>5. \/ pc' = [pc EXCEPT ![t] = "closing"] /\ arb' = [arb EXCEPT ![t] = Idle]
      \/ (pc' = [pc EXCEPT ![t] = "wait"] \/ pc' = [pc EXCEPT ![t] = "check"]) /\ arb' = arb
    BY Zenon DEF StartArbitration
<1>6. Types'
    BY ZenonT(30), <1>1, <1>3, <1>4, <1>5 DEF Types, poolVars
<1>7. \A u \in Tasks \ {t} : Local(u)'
    <2>1. \A u \in Tasks \ {t} : /\ pc'[u] = pc[u] /\ arb'[u] = arb[u]
                                  /\ rc'[u] = rc[u] /\ stats'[u] = stats[u]
        BY Zenon, <1>1, <1>2, <1>3, <1>5 DEF Types
    <2>2. capacity' \in [Pools -> Int] /\ \A p \in Pools : capacity'[p] <= capacity[p]
        BY <1>1, <1>3 DEF Types, poolVars
    <2> QED
        BY Zenon, <1>1, <1>3, <2>1, <2>2, LocalStays DEF Inv, poolVars
<1>8. Local(t)'
    <2>1. \/ pc'[t] = "closing" /\ arb'[t] = Idle
          \/ pc'[t] \in {"wait", "check"} /\ arb'[t] = arb[t]
        BY Zenon, <1>1, <1>2, <1>5 DEF Types
    <2>2. Known(t)'
        BY Zenon, <1>1, <1>3, <1>4, <2>1 DEF Known, Local, Arbitrating, Reclaiming, poolVars
    <2>3. Reclaims(t)' /\ Grows(t)'
        BY Zenon, <2>1 DEF Reclaims, Grows, Reclaiming
    <2> QED
        BY Zenon, <2>2, <2>3 DEF Local
<1>9. Covered'
    <2>1. \A u \in Tasks : pc[u] = "spill" => pc'[u] = "spill"
        BY Zenon, <1>1, <1>2, <1>5
    <2> QED
        BY Zenon, <1>3, <2>1 DEF Inv, Covered, poolVars
<1>10. Fresh' /\ WithinMax'
    BY Zenon, <1>3 DEF Inv, Fresh, WithinMax, poolVars
<1> QED
    BY Zenon, <1>6, <1>7, <1>8, <1>9, <1>10 DEF Inv

(* A pool comes or goes: nothing grows under a running arbitration, and only *)
(* what is free is taken from a pool that goes.                              *)
LEMMA PoolsComeAndGo ==
    ASSUME QueueInv, Inv, NEW p \in Pools, AddRootPool(p) \/ DropPool(p)
    PROVE  Inv'
<1>1. Types /\ WithinMax /\ Covered /\ InitCapacity \in Nat /\ MaxCapacity \in [Pools -> Nat]
      /\ PoolOf \in [Tasks -> Pools]
    BY Zenon, ArbitratorAssumption DEF Inv
<1>2. UNCHANGED <<reserved, aborted, queueVars, pc, held, arb, rc, stats>>
    BY Zenon DEF AddRootPool, DropPool
<1>3. pools' \in [Pools -> {"none", "live", "dropped"}]
      /\ \A q \in Pools : pools'[q] = "none" <=> pools[q] = "none" /\ q # p
    BY Zenon, <1>1 DEF AddRootPool, DropPool, Types
<1>4. CASE DropPool(p)
    <2> DEFINE freed == Shrunk(p, 0)
    <2>1. reserved[p] <= capacity[p]
        <3>1. \A t \in Tasks : pc[t] = "spill" => rc[t].pool # p
            BY Zenon, <1>4 DEF DropPool, Inv, Local, Reclaims, Reclaiming
        <3> QED
            BY Zenon, <1>1, <3>1 DEF Covered
    <2>2. freed \in Nat /\ freed <= capacity[p] - reserved[p]
        BY Zenon, <1>1, <2>1, ShrunkFacts
    <2>3. capacity' = [capacity EXCEPT ![p] = @ - freed] /\ freeCapacity' = freeCapacity + freed
        BY Zenon, <1>4 DEF DropPool
    <2> HIDE DEF freed
    <2>4. /\ capacity' \in [Pools -> Int] /\ freeCapacity' \in Nat
          /\ \A q \in Pools : capacity'[q] <= capacity[q] /\ (q # p => capacity'[q] = capacity[q])
          /\ capacity'[p] >= reserved[p]
        BY <1>1, <2>2, <2>3 DEF Types
    <2>5. Types'
        BY Zenon, <1>1, <1>2, <1>3, <2>4 DEF Types
    <2>6. \A t \in Tasks : Local(t)'
        BY Zenon, <1>1, <1>2, <1>3, <2>4, LocalStays DEF Inv
    <2>7. Covered'
        BY ZenonT(30), <1>1, <1>2, <2>4 DEF Covered
    <2>8. WithinMax'
        BY <1>1, <2>4 DEF WithinMax, Types
    <2>9. Fresh'
        BY Zenon, <1>2, <1>3, <2>4 DEF Fresh, Inv
    <2> QED
        BY Zenon, <2>5, <2>6, <2>7, <2>8, <2>9 DEF Inv
<1>5. CASE AddRootPool(p)
    <2> DEFINE grown == IF running THEN 0 ELSE Lesser(freeCapacity, Lesser(MaxCapacity[p], InitCapacity))
    <2>1. capacity' = [capacity EXCEPT ![p] = @ + grown] /\ freeCapacity' = freeCapacity - grown
        BY Zenon, <1>5 DEF AddRootPool
    <2>2. grown \in Nat /\ grown <= freeCapacity /\ grown <= MaxCapacity[p] /\ (running => grown = 0)
        BY <1>1 DEF Lesser, Types
    <2>3. capacity[p] = 0 /\ pools[p] = "none"
        BY Zenon, <1>5 DEF AddRootPool, Inv, Fresh
    <2> HIDE DEF grown
    <2>4. /\ capacity' \in [Pools -> Int] /\ freeCapacity' \in Nat
          /\ \A q \in Pools : capacity'[q] >= capacity[q] /\ (q # p => capacity'[q] = capacity[q])
          /\ capacity'[p] <= MaxCapacity[p]
        BY <1>1, <2>1, <2>2, <2>3 DEF Types
    <2>5. Types'
        BY Zenon, <1>1, <1>2, <1>3, <2>4 DEF Types
    <2>6. running => \A q \in Pools : capacity'[q] <= capacity[q]
        BY <1>1, <2>1, <2>2 DEF Types
    <2>7. \A t \in Tasks : pc[t] \in Arbitrating => running
        BY Zenon DEF QueueInv, Serialized
    <2>8. \A t \in Tasks : Local(t)'
        BY Zenon, <1>1, <1>2, <1>3, <2>4, <2>6, <2>7, LocalStays DEF Inv
    <2>9. Covered'
        <3>1. \A q \in Pools : capacity[q] \in Int /\ capacity'[q] \in Int /\ reserved[q] \in Int
            BY Zenon, <1>1, <2>4 DEF Types
        <3>2. SpillNeed \in Nat
            BY Zenon, ArbitratorAssumption
        <3> QED
            BY <1>1, <1>2, <2>4, <3>1, <3>2 DEF Covered
    <2>10. WithinMax'
        BY Zenon, <1>1, <2>4 DEF WithinMax
    <2>11. Fresh'
        BY Zenon, <1>2, <1>3, <2>4 DEF Fresh, Inv
    <2> QED
        BY Zenon, <2>5, <2>8, <2>9, <2>10, <2>11 DEF Inv
<1> QED
    BY Zenon, <1>4, <1>5

(* A step that changes nothing keeps the invariant. *)
LEMMA StutterKeepsInv ==
    ASSUME Inv, UNCHANGED vars
    PROVE  Inv'
BY SMTT(60) DEF Inv, vars, Types, Fresh, Covered, WithinMax, Local, Known, Reclaims, Grows

-----------------------------------------------------------------------------
(* The rounds of an arbitration keep the invariant: the checks, the free   *)
(* capacity, the unused capacity of the candidates, and the grant.         *)

\* Only the thread of t moves.
Alone(t) ==
    \A u \in Tasks \ {t} : /\ pc'[u] = pc[u] /\ arb'[u] = arb[u]
                           /\ rc'[u] = rc[u] /\ stats'[u] = stats[u]

(* The types of everything a step reads. *)
LEMMA Typed ==
    ASSUME QueueInv, Inv, NEW t \in Tasks
    PROVE  /\ Types /\ Local(t) /\ PoolOf[t] \in Pools /\ MaxCapacity \in [Pools -> Nat]
           /\ pc \in [Tasks -> Outside \cup {"wait"} \cup Arbitrating]
           /\ arb[t] \in ArbRecord /\ rc[t] \in ReclaimRecord
           /\ SpillNeed \in Nat /\ Transfer \in Nat /\ Capacity \in Nat
BY Zenon, ArbitratorAssumption DEF Inv, QueueInv, QueueTypes, Types

\* The record a reclaim starts with.
Victim(q, want, old, left, caller) ==
    [pool |-> q, want |-> want, old |-> old, left |-> left, task |-> NoTask, caller |-> caller]

(* It has its type, and the fields it was given. *)
LEMMA ReclaimFacts ==
    ASSUME NEW q \in Pools, NEW want \in Int, NEW old \in Int, NEW left \in SUBSET Tasks,
           NEW caller \in {"used", "ensure", "oom"}
    PROVE  LET r == Victim(q, want, old, left, caller)
           IN  /\ r \in ReclaimRecord /\ r.pool = q /\ r.want = want /\ r.old = old /\ r.left = left
               /\ r.caller = caller
BY Zenon DEF ReclaimRecord, Victim

(* Check: what is asked is possible at all, or the requestor must give first. *)
LEMMA CheckKept ==
    ASSUME QueueInv, Inv, NEW t \in Tasks, Check(t)
    PROVE  Inv'
<1> DEFINE p == PoolOf[t]
           a == arb[t]
<1>1. Types /\ Local(t) /\ p \in Pools /\ a \in ArbRecord /\ pc[t] = "check"
      /\ pc \in [Tasks -> Outside \cup {"wait"} \cup Arbitrating]
    BY Zenon, Typed DEF Check
<1>2. UNCHANGED <<poolVars, freeCapacity, held, arb, stats>>
    BY Zenon DEF Check
<1>3. PICK l \in {"finish", "stats", "shrink"} : pc' = [pc EXCEPT ![t] = l]
    BY Zenon DEF Check
<1>4. /\ l = "stats" => p \notin aborted /\ capacity[p] + a.size <= MaxCapacity[p] /\ rc' = rc
      /\ l = "finish" => rc' = rc
    <2>1. pc'[t] = l
        BY Zenon, <1>1, <1>3
    <2>2. capacity[p] \in Int /\ MaxCapacity[p] \in Nat /\ a.size \in Nat
        BY Zenon, <1>1, Typed DEF Types, ArbRecord
    <2> QED
        BY <1>1, <2>1, <2>2 DEF Check, checkCapacityGrowth, maxGrowBytes
<1>5. l = "shrink" => \E r \in ReclaimRecord : /\ rc' = [rc EXCEPT ![t] = r] /\ r.pool = p
                                              /\ r.want = a.size /\ r.old = capacity[p]
                                              /\ r.left = {} /\ r.caller = "ensure"
    <2> DEFINE r == Victim(p, a.size, capacity[p], {}, "ensure")
    <2>1. l = "shrink" => rc' = [rc EXCEPT ![t] = r]
        BY Zenon, <1>1, <1>3 DEF Check, NoReclaim, Victim
    <2>2. capacity[p] \in Int /\ a.size \in Int
        BY <1>1 DEF Types, ArbRecord
    <2>3. /\ r \in ReclaimRecord /\ r.pool = p /\ r.want = a.size /\ r.old = capacity[p]
          /\ r.left = {} /\ r.caller = "ensure"
        BY <1>1, <2>2, ReclaimFacts
    <2> HIDE DEF r
    <2> QED
        BY Zenon, <2>1, <2>3
<1>6. rc' \in [Tasks -> ReclaimRecord] /\ Alone(t)
    BY Zenon, <1>1, <1>2, <1>3, <1>4, <1>5 DEF Types, Alone
<1>7. Types'
    BY Zenon, <1>1, <1>2, <1>6 DEF Types, poolVars
<1>8. Local(t)'
    <2>1. pc'[t] = l
        BY Zenon, <1>1, <1>3
    <2>2. Known(t)'
        BY Zenon, <1>1, <1>2, <2>1 DEF Known, Local, Arbitrating, Reclaiming, poolVars
    <2>3. Reclaims(t)'
        BY <1>1, <1>2, <1>3, <1>5, <2>1 DEF Reclaims, Types, Reclaiming, Known, Local, Arbitrating, poolVars
    <2>4. Grows(t)'
        BY Zenon, <1>1, <1>2, <1>3, <1>4, <1>5, <2>1 DEF Grows, Types, Reclaiming, poolVars
    <2> QED
        BY Zenon, <2>2, <2>3, <2>4 DEF Local
<1>9. pc[t] \in Arbitrating /\ pc[t] # "spill"
    BY Zenon, <1>1 DEF Arbitrating
<1>10. \A q \in Pools : pools[q] = "none" => capacity'[q] = capacity[q] /\ q \notin aborted'
    BY Zenon, <1>2 DEF Inv, Fresh, poolVars
<1> QED
    BY Zenon, <1>2, <1>6, <1>7, <1>8, <1>9, <1>10, ArbStep, PoolsKept DEF Alone, poolVars

\* The record a round starts with, and the one after a candidate has given n.
Round(a, goal, hand) == [a EXCEPT !.goal = goal, !.hand = hand, !.got = 0, !.todo = a.pools]
Given(a, q, n) == [a EXCEPT !.got = @ + n, !.todo = @ \ {q}]

(* The fields of these records *)
LEMMA RoundFacts ==
    ASSUME NEW a \in ArbRecord, NEW hand \in Nat, NEW goal \in Int
    PROVE  LET b == Round(a, goal, hand)
           IN  /\ b \in ArbRecord /\ b.size = a.size /\ b.pools = a.pools /\ b.todo = a.pools
               /\ b.goal = goal /\ b.hand = hand /\ b.granted = a.granted
<1> DEFINE b == Round(a, goal, hand)
<1>1. b \in ArbRecord
    BY Zenon DEF ArbRecord, Round
<1>2. b.size = a.size /\ b.pools = a.pools /\ b.todo = a.pools /\ b.goal = goal /\ b.hand = hand
    BY Zenon DEF ArbRecord, Round
<1>3. b.granted = a.granted
    BY Zenon DEF ArbRecord, Round
<1> QED
    BY Zenon, <1>1, <1>2, <1>3

(* What a candidate gives is added to what the round has got. *)
LEMMA GivenFacts ==
    ASSUME NEW a \in ArbRecord, NEW q \in Pools, NEW n \in Nat
    PROVE  LET b == Given(a, q, n)
           IN  /\ b \in ArbRecord /\ b.size = a.size /\ b.pools = a.pools /\ b.todo \subseteq a.todo
               /\ b.goal = a.goal /\ b.hand = a.hand /\ b.granted = a.granted
<1> DEFINE b == Given(a, q, n)
<1>1. a.got \in Nat /\ a.got + n \in Nat /\ a.todo \ {q} \in SUBSET Pools
    BY DEF ArbRecord
<1>2. b = [a EXCEPT !.got = a.got + n, !.todo = a.todo \ {q}]
    BY Zenon DEF Given
<1>3. b \in ArbRecord
    BY ZenonT(30), <1>1, <1>2 DEF ArbRecord
<1>4. b.size = a.size /\ b.pools = a.pools /\ b.todo \subseteq a.todo /\ b.goal = a.goal /\ b.hand = a.hand
    BY Zenon, <1>2 DEF ArbRecord
<1>5. b.granted = a.granted
    BY <1>2, Zenon DEF ArbRecord
<1> QED
    BY Zenon, <1>3, <1>4, <1>5

(* The requestor's pool grows to the end of the arbitration. *)
LEMMA GrantKept ==
    ASSUME QueueInv, Inv, NEW t \in Tasks, pc[t] \in {"stats", "free", "used"}, NEW n \in Nat,
           capacity[PoolOf[t]] + n <= MaxCapacity[PoolOf[t]], arb[t].size <= n,
           capacity' = [capacity EXCEPT ![PoolOf[t]] = @ + n], freeCapacity' \in Nat,
           pc' = [pc EXCEPT ![t] = "finish"], NEW b \in ArbRecord, arb' = [arb EXCEPT ![t] = b],
           b.size = arb[t].size, b.pools = arb[t].pools, b.todo = arb[t].todo,
           UNCHANGED <<pools, reserved, aborted, held, rc, stats>>
    PROVE  Inv' /\ capacity'[PoolOf[t]] - reserved'[PoolOf[t]] >= arb[t].size
<1> DEFINE p == PoolOf[t]
<1>1. Types /\ Local(t) /\ p \in Pools /\ arb[t] \in ArbRecord
      /\ pc \in [Tasks -> Outside \cup {"wait"} \cup Arbitrating]
    BY Zenon, Typed
<1>2. pc[t] \in Arbitrating /\ pc[t] # "spill"
    BY Zenon DEF Arbitrating
<1>3. Covered' /\ WithinMax' /\ capacity' \in [Pools -> Int]
    BY ZenonT(30), <1>1, <1>2, PoolGrows
<1>4. Types' /\ Alone(t)
    BY Zenon, <1>1, <1>3 DEF Types, Alone
<1>5. pc'[t] = "finish" /\ arb'[t] = b
    BY Zenon, <1>1 DEF Types
<1>6. Local(t)'
    <2>1. Known(t)'
        BY ZenonT(30), <1>1, <1>2, <1>5 DEF Known, Local, Arbitrating
    <2> QED
        BY Zenon, <1>5, <2>1 DEF Local, Reclaims, Grows, Reclaiming
<1>7. \A q \in Pools : pools[q] = "none" => capacity'[q] = capacity[q] /\ q \notin aborted'
    BY ZenonT(30), <1>1, <1>2 DEF Inv, Fresh, Types, Local, Known, Arbitrating
<1>8. Inv'
    BY ZenonT(30), <1>2, <1>3, <1>4, <1>6, <1>7, ArbStep DEF Alone
<1>9. reserved[p] <= capacity[p]
    BY ZenonT(30), <1>1, <1>2, NoSpill
<1>10. capacity'[p] - reserved'[p] >= arb[t].size
    BY <1>1, <1>9 DEF Types, ArbRecord
<1> QED
    BY Zenon, <1>8, <1>10

(* The start of a round *)
LEMMA StatsKept ==
    ASSUME QueueInv, Inv, NEW t \in Tasks, Stats(t)
    PROVE  /\ Inv'
           /\ arb'[t].granted => \/ arb[t].granted
                                 \/ capacity'[PoolOf[t]] - reserved'[PoolOf[t]] >= arb[t].size
<1> DEFINE p == PoolOf[t]
           a == arb[t]
           goal == Lesser(maxGrowBytes(p), Larger(Transfer, a.size))
           taken == Lesser(freeCapacity, goal)
<1>1. Types /\ Local(t) /\ p \in Pools /\ a \in ArbRecord /\ pc[t] = "stats"
      /\ pc \in [Tasks -> Outside \cup {"wait"} \cup Arbitrating]
    BY Zenon, Typed DEF Stats
<1>2. a.size \in Nat /\ a.size > 0 /\ capacity[p] \in Int /\ MaxCapacity[p] \in Nat
      /\ freeCapacity \in Nat /\ Transfer \in Nat
      /\ capacity[p] + a.size <= MaxCapacity[p] /\ p \notin aborted
    BY Zenon, <1>1, Typed DEF Types, ArbRecord, Local, Known, Grows, Arbitrating
<1>3. goal \in Nat /\ a.size <= goal /\ capacity[p] + goal <= MaxCapacity[p]
    BY <1>2 DEF Lesser, Larger, maxGrowBytes
<1>4. taken \in Nat /\ taken <= goal /\ taken <= freeCapacity
    BY <1>2, <1>3 DEF Lesser
<1>5. freeCapacity' = freeCapacity - taken /\ UNCHANGED <<pools, reserved, aborted, held, rc>>
    BY Zenon DEF Stats
<1>6. CASE taken >= a.size
    <2> DEFINE b == [a EXCEPT !.granted = TRUE]
    <2>1. /\ capacity' = [capacity EXCEPT ![p] = @ + taken] /\ arb' = [arb EXCEPT ![t] = b]
          /\ pc' = [pc EXCEPT ![t] = "finish"] /\ stats' = stats
        BY Zenon, <1>6 DEF Stats
    <2>2. b \in ArbRecord /\ b.size = a.size /\ b.pools = a.pools /\ b.todo = a.todo
        BY ZenonT(30), <1>1 DEF ArbRecord
    <2>3. capacity[p] + taken <= MaxCapacity[p] /\ freeCapacity' \in Nat
        BY <1>2, <1>3, <1>4, <1>5
    <2> HIDE DEF b, taken
    <2> QED
        BY Zenon, <1>1, <1>4, <1>5, <1>6, <2>1, <2>2, <2>3, GrantKept
<1>7. CASE ~(taken >= a.size)
    <2> DEFINE b == Round(a, goal, taken)
               s == [q \in a.pools |-> CandidateStats(q)]
    <2>1. /\ capacity' = capacity /\ arb' = [arb EXCEPT ![t] = b]
          /\ pc' = [pc EXCEPT ![t] = "free"] /\ stats' = [stats EXCEPT ![t] = s]
        BY Zenon, <1>7 DEF Stats, Round
    <2>2. /\ b \in ArbRecord /\ b.size = a.size /\ b.pools = a.pools /\ b.todo = a.pools
          /\ b.goal = goal /\ b.hand = taken /\ b.granted = a.granted
        <3> HIDE DEF goal, taken
        <3> QED
            BY <1>1, <1>3, <1>4, RoundFacts
    <2>3. \A q \in a.pools : s[q].free \in Nat
        <3>1. \A q \in a.pools : q \in Pools /\ FreeBytes(q) \in Nat
            BY Zenon, <1>1, ShrunkFacts DEF ArbRecord
        <3> QED
            BY Zenon, <3>1 DEF CandidateStats
    <2>4. taken < goal /\ freeCapacity' \in Nat
        BY <1>2, <1>3, <1>4, <1>5, <1>7, SMTT(60)
    <2> HIDE DEF b, s, taken, goal
    <2>5. pc[t] \in Arbitrating /\ pc[t] # "spill"
        BY Zenon, <1>1 DEF Arbitrating
    <2>6. Covered' /\ WithinMax'
        BY Zenon, <1>5, <2>1, <2>5, PoolsKept
    <2>7. Types' /\ Alone(t)
        BY ZenonT(30), <1>1, <1>5, <2>1, <2>2, <2>4 DEF Types, Alone
    <2>8. pc'[t] = "free" /\ arb'[t] = b /\ stats'[t] = s
        BY Zenon, <1>1, <2>1 DEF Types
    <2>9. Local(t)'
        <3>1. Known(t)'
            BY ZenonT(30), <1>1, <1>5, <2>2, <2>5, <2>8 DEF Known, Local, Arbitrating
        <3>2. Grows(t)'
            BY ZenonT(30), <1>2, <1>3, <1>5, <2>1, <2>2, <2>3, <2>4, <2>8 DEF Grows, Reclaiming
        <3> QED
            BY Zenon, <2>8, <3>1, <3>2 DEF Local, Reclaims, Reclaiming
    <2>10. \A q \in Pools : pools[q] = "none" => capacity'[q] = capacity[q] /\ q \notin aborted'
        BY ZenonT(30), <1>5, <2>1 DEF Inv, Fresh
    <2>11. Inv'
        BY ZenonT(30), <1>5, <2>5, <2>6, <2>7, <2>9, <2>10, ArbStep DEF Alone
    <2> QED
        BY Zenon, <2>2, <2>8, <2>11
<1> QED
    BY Zenon, <1>6, <1>7

(* Grow, at the end of the first or of the second half of arbitrateMemory *)
LEMMA GrowKept ==
    ASSUME QueueInv, Inv, NEW t \in Tasks, pc[t] \in {"free", "used"},
           NEW freed \in Nat, arb[t].size <= freed, Grow(t, freed),
           UNCHANGED <<pools, reserved, aborted, held, rc, stats>>
    PROVE  Inv' /\ capacity'[PoolOf[t]] - reserved'[PoolOf[t]] >= arb[t].size
<1> DEFINE p == PoolOf[t]
           a == arb[t]
           grown == Lesser(a.goal, freed)
           b == [a EXCEPT !.hand = 0, !.got = 0, !.granted = TRUE]
<1>1. Types /\ Local(t) /\ p \in Pools /\ a \in ArbRecord
    BY Zenon, Typed
<1>2. a.size \in Nat /\ a.goal \in Int /\ a.size <= a.goal /\ capacity[p] \in Int
      /\ capacity[p] + a.goal <= MaxCapacity[p] /\ MaxCapacity[p] \in Nat /\ freeCapacity \in Nat
    BY Zenon, <1>1, Typed DEF Types, ArbRecord, Local, Grows
<1>3. grown \in Nat /\ a.size <= grown /\ grown <= freed /\ capacity[p] + grown <= MaxCapacity[p]
    BY ZenonT(30), <1>2, LesserFits
<1>4. freeCapacity + freed - grown \in Nat
    BY ZenonT(30), <1>2, LesserFits
<1>5. /\ capacity' = [capacity EXCEPT ![p] = @ + grown] /\ freeCapacity' = freeCapacity + freed - grown
      /\ pc' = [pc EXCEPT ![t] = "finish"] /\ arb' = [arb EXCEPT ![t] = b]
    BY Zenon DEF Grow
<1>6. b \in ArbRecord /\ b.size = a.size /\ b.pools = a.pools /\ b.todo = a.todo
    BY Zenon, <1>1 DEF ArbRecord
<1> HIDE DEF b, grown
<1> QED
    BY Zenon, <1>1, <1>3, <1>4, <1>5, <1>6, GrantKept

(* One candidate gives unused capacity. *)
LEMMA ShrinkCandidateKept ==
    ASSUME QueueInv, Inv, NEW t \in Tasks, ShrinkCandidate(t)
    PROVE  Inv' /\ arb'[t].granted = arb[t].granted
<1> DEFINE p == PoolOf[t]
           a == arb[t]
           target(q) == Lesser(a.goal - a.hand - a.got, stats[t][q].free)
           freed(q) == Shrunk(q, target(q))
           b(q) == Given(a, q, freed(q))
<1>1. Types /\ Local(t) /\ p \in Pools /\ a \in ArbRecord /\ pc[t] = "free"
      /\ pc \in [Tasks -> Outside \cup {"wait"} \cup Arbitrating]
    BY Zenon, Typed DEF ShrinkCandidate
<1>2. PICK q \in a.todo : /\ stats[t][q].free > 0 /\ capacity' = [capacity EXCEPT ![q] = @ - freed(q)]
                          /\ arb' = [arb EXCEPT ![t] = b(q)]
    BY Zenon DEF ShrinkCandidate, Given
<1>3. UNCHANGED <<pools, reserved, aborted, freeCapacity, pc, held, rc, stats>> /\ a.got < a.goal - a.hand
    BY Zenon DEF ShrinkCandidate
<1>4. q \in Pools /\ a.goal \in Int /\ a.hand \in Nat /\ a.got \in Nat /\ stats[t][q].free \in Nat
    BY Zenon, <1>1 DEF ArbRecord, Local, Grows
<1>5. target(q) \in Nat
    BY <1>2, <1>3, <1>4 DEF Lesser
<1>6. pc[t] \in Arbitrating /\ pc[t] # "spill"
    BY Zenon, <1>1 DEF Arbitrating
<1>7. freed(q) \in Nat /\ freed(q) <= capacity[q] - reserved[q]
    BY Zenon, <1>1, <1>4, <1>5, <1>6, NoSpill, ShrunkFacts
<1>8. /\ b(q) \in ArbRecord /\ b(q).size = a.size /\ b(q).pools = a.pools /\ b(q).todo \subseteq a.todo
      /\ b(q).goal = a.goal /\ b(q).hand = a.hand /\ b(q).granted = a.granted
    BY ZenonT(30), <1>1, <1>4, <1>7, GivenFacts
<1> HIDE DEF b, freed, target
<1>10. /\ Covered' /\ WithinMax' /\ capacity' \in [Pools -> Int]
       /\ \A r \in Pools : capacity'[r] <= capacity[r]
    BY ZenonT(30), <1>2, <1>3, <1>4, <1>6, <1>7, PoolShrinks
<1>11. Types' /\ Alone(t)
    BY Zenon, <1>1, <1>2, <1>3, <1>8, <1>10 DEF Types, Alone
<1>12. arb'[t] = b(q) /\ pools[q] # "none"
    BY Zenon, <1>1, <1>2 DEF Types, Local, Known
<1>13. Local(t)'
    <2>1. Known(t)'
        BY ZenonT(30), <1>1, <1>3, <1>6, <1>8, <1>12 DEF Known, Local
    <2>2. Grows(t)'
        <3>1. capacity'[p] \in Int /\ capacity[p] \in Int /\ capacity'[p] <= capacity[p]
              /\ MaxCapacity[p] \in Nat
            BY ZenonT(30), <1>1, <1>10, Typed DEF Types
        <3>2. /\ a.size <= a.goal /\ a.hand < a.goal /\ capacity[p] + a.goal <= MaxCapacity[p]
              /\ p \notin aborted /\ \A r \in a.todo : stats[t][r].free \in Nat
            BY ZenonT(30), <1>1 DEF Grows, Local
        <3>3. MaxCapacity[p] \in Int
            BY <3>1
        <3>4. capacity'[p] + a.goal <= MaxCapacity[p]
            BY ZenonT(30), <1>4, <3>1, <3>2, <3>3, SizeFacts
        <3> QED
            BY ZenonT(30), <1>1, <1>3, <1>8, <1>12, <3>2, <3>4 DEF Grows, Reclaiming
    <2> QED
        BY Zenon, <1>1, <1>3, <2>1, <2>2 DEF Local, Reclaims, Reclaiming
<1>14. \A r \in Pools : pools[r] = "none" => capacity'[r] = capacity[r] /\ r \notin aborted'
    BY ZenonT(30), <1>1, <1>2, <1>3, <1>4, <1>12 DEF Inv, Fresh, Types
<1>15. Inv'
    BY ZenonT(30), <1>3, <1>6, <1>10, <1>11, <1>13, <1>14, ArbStep DEF Alone
<1> QED
    BY Zenon, <1>8, <1>12, <1>15

(* A step of the requestor that leaves the pools and the reclaim alone. *)
LEMMA QuietKept ==
    ASSUME QueueInv, Inv, NEW t \in Tasks, pc[t] \in Arbitrating, pc[t] # "spill",
           NEW l, pc' = [pc EXCEPT ![t] = l], NEW b \in ArbRecord, arb' = [arb EXCEPT ![t] = b],
           b.pools = arb[t].pools, b.todo \subseteq b.pools, b.size = arb[t].size,
           rc' \in [Tasks -> ReclaimRecord], \A u \in Tasks \ {t} : rc'[u] = rc[u],
           freeCapacity' \in Nat, UNCHANGED <<poolVars, held, stats>>,
           l \in Arbitrating, Reclaims(t)', Grows(t)'
    PROVE  Inv'
<1>1. Types /\ Local(t)
      /\ pc \in [Tasks -> Outside \cup {"wait"} \cup Arbitrating]
    BY ZenonT(30), Typed
<1>2. Types' /\ Alone(t) /\ pc'[t] = l /\ arb'[t] = b
    BY Zenon, <1>1 DEF Types, Alone, poolVars
<1>3. Known(t)'
    BY ZenonT(30), <1>1, <1>2 DEF Local, Known, Arbitrating, Reclaiming, poolVars
<1>4. Covered' /\ WithinMax'
    BY Zenon, PoolsKept DEF poolVars
<1>5. \A q \in Pools : pools[q] = "none" => capacity'[q] = capacity[q] /\ q \notin aborted'
    BY Zenon DEF Inv, Fresh, poolVars
<1> QED
    BY ZenonT(30), <1>2, <1>3, <1>4, <1>5, ArbStep DEF Alone, Local, poolVars

(* What arbitrateMemory does after the unused capacity *)
LEMMA FreeReclaimedKept ==
    ASSUME QueueInv, Inv, NEW t \in Tasks, FreeReclaimed(t)
    PROVE  /\ Inv'
           /\ arb'[t].granted => \/ arb[t].granted
                                 \/ capacity'[PoolOf[t]] - reserved'[PoolOf[t]] >= arb[t].size
<1> DEFINE a == arb[t]
           freed == a.hand + a.got
           b == [a EXCEPT !.hand = freed, !.got = 0, !.todo = a.pools]
<1>1. Types /\ Local(t) /\ a \in ArbRecord /\ pc[t] = "free" /\ PoolOf[t] \in Pools
      /\ pc \in [Tasks -> Outside \cup {"wait"} \cup Arbitrating]
    BY Zenon, Typed DEF FreeReclaimed
<1>2. UNCHANGED <<pools, reserved, aborted, held, rc, stats>>
    BY Zenon DEF FreeReclaimed
<1>3. a.hand \in Nat /\ a.got \in Nat /\ freed \in Nat /\ a.size \in Nat /\ a.goal \in Int
    BY <1>1 DEF ArbRecord
<1>4. CASE freed >= a.size
    <2>1. Grow(t, freed)
        BY Zenon, <1>4 DEF FreeReclaimed
    <2>2. a.size <= freed
        BY Zenon, <1>3, <1>4
    <2> HIDE DEF freed
    <2> QED
        BY Zenon, <1>1, <1>2, <1>3, <2>1, <2>2, GrowKept
<1>5. CASE ~(freed >= a.size)
    <2>1. /\ arb' = [arb EXCEPT ![t] = b] /\ pc' = [pc EXCEPT ![t] = "used"]
          /\ UNCHANGED <<capacity, freeCapacity>>
        BY Zenon, <1>5 DEF FreeReclaimed
    <2>2. /\ b \in ArbRecord /\ b.size = a.size /\ b.pools = a.pools /\ b.todo = a.pools
          /\ b.goal = a.goal /\ b.hand = freed
        BY ZenonT(30), <1>1, <1>3 DEF ArbRecord
    <2>3. b.granted = a.granted
        BY <1>1, Zenon DEF ArbRecord
    <2> HIDE DEF b
    <2>4. pc[t] \in Arbitrating /\ pc[t] # "spill" /\ "used" \in Arbitrating
        BY Zenon, <1>1 DEF Arbitrating
    <2>5. pc'[t] = "used" /\ arb'[t] = b
        BY Zenon, <1>1, <2>1 DEF Types
    <2>6. Reclaims(t)'
        BY Zenon, <2>5 DEF Reclaims, Reclaiming
    <2>7. Grows(t)'
        <3>1. a.size <= a.goal /\ capacity[PoolOf[t]] + a.goal <= MaxCapacity[PoolOf[t]]
            BY ZenonT(30), <1>1 DEF Local, Grows
        <3>2. freed < a.goal
            BY ZenonT(30), <1>3, <1>5, <3>1, SizeFacts
        <3> HIDE DEF freed
        <3> QED
            BY ZenonT(30), <2>1, <2>2, <2>5, <3>1, <3>2 DEF Grows, Reclaiming
    <2>8. rc' \in [Tasks -> ReclaimRecord] /\ freeCapacity' \in Nat
        BY Zenon, <1>1, <1>2, <2>1 DEF Types
    <2>9. Inv'
        BY Zenon, <1>2, <2>1, <2>2, <2>4, <2>6, <2>7, <2>8, QuietKept DEF poolVars
    <2> QED
        BY Zenon, <2>3, <2>5, <2>9
<1> QED
    BY Zenon, <1>4, <1>5

(* A candidate is asked to spill. *)
LEMMA ReclaimCandidateKept ==
    ASSUME QueueInv, Inv, NEW t \in Tasks, ReclaimCandidate(t)
    PROVE  Inv' /\ arb'[t].granted = arb[t].granted
<1> DEFINE a == arb[t]
           want == Larger(a.goal - a.hand - a.got, Transfer)
           b(q) == [a EXCEPT !.todo = @ \ {q}]
           r(q) == Victim(q, want, capacity[q], {}, "used")
<1>1. Types /\ Local(t) /\ a \in ArbRecord /\ pc[t] = "used" /\ Transfer \in Nat
      /\ pc \in [Tasks -> Outside \cup {"wait"} \cup Arbitrating]
    BY Zenon, Typed DEF ReclaimCandidate
<1>a. ASSUME NEW q, NEW w, NEW o, NEW x, x = [NoReclaim EXCEPT !.pool = q, !.want = w, !.old = o]
      PROVE  x = Victim(q, w, o, {}, "used")
    BY ZenonT(30), <1>a DEF NoReclaim, Victim
<1>b. PICK q \in a.todo :
        /\ rc' = [rc EXCEPT ![t] = [NoReclaim EXCEPT !.pool = q, !.want = want, !.old = capacity[q]]]
        /\ arb' = [arb EXCEPT ![t] = b(q)]
    BY Zenon DEF ReclaimCandidate
<1>2. rc' = [rc EXCEPT ![t] = r(q)] /\ arb' = [arb EXCEPT ![t] = b(q)]
    BY ZenonT(30), <1>a, <1>b
<1>3. UNCHANGED <<poolVars, freeCapacity, held, stats>> /\ pc' = [pc EXCEPT ![t] = "shrink"]
      /\ ~(a.got >= a.goal - a.hand)
    BY Zenon DEF ReclaimCandidate, UsedDone
<1>4. q \in Pools /\ q \in a.pools /\ capacity[q] \in Int
      /\ a.goal \in Int /\ a.hand \in Nat /\ a.got \in Nat /\ a.size \in Nat
    BY Zenon, <1>1 DEF Types, ArbRecord, Local, Known
<1>5. want \in Int /\ want > 0
    BY <1>1, <1>3, <1>4 DEF Larger
<1> HIDE DEF want
<1>6. /\ r(q) \in ReclaimRecord /\ r(q).pool = q /\ r(q).want = want /\ r(q).old = capacity[q]
      /\ r(q).left = {} /\ r(q).caller = "used"
    BY <1>4, <1>5, ReclaimFacts
<1>7. /\ b(q) \in ArbRecord /\ b(q).size = a.size /\ b(q).pools = a.pools /\ b(q).todo \subseteq a.todo
      /\ b(q).goal = a.goal /\ b(q).hand = a.hand
    BY Zenon, <1>1 DEF ArbRecord
<1>8. b(q).granted = a.granted
    BY <1>1, Zenon DEF ArbRecord
<1> HIDE DEF b, r
<1>9. pc[t] \in Arbitrating /\ pc[t] # "spill" /\ "shrink" \in Arbitrating
    BY Zenon, <1>1 DEF Arbitrating, Reclaiming
<1>10. pc'[t] = "shrink" /\ arb'[t] = b(q) /\ rc'[t] = r(q) /\ rc' \in [Tasks -> ReclaimRecord]
      /\ \A u \in Tasks \ {t} : rc'[u] = rc[u]
    BY Zenon, <1>1, <1>2, <1>3, <1>6 DEF Types
<1>11. Reclaims(t)'
    BY <1>3, <1>4, <1>5, <1>6, <1>7, <1>10, SMTT(60) DEF Reclaims, poolVars
<1>12. Grows(t)'
    BY Zenon, <1>1, <1>3, <1>6, <1>7, <1>10 DEF Local, Grows, poolVars
<1>13. freeCapacity' \in Nat /\ b(q).todo \subseteq b(q).pools
    BY Zenon, <1>1, <1>3, <1>7 DEF Types, Local, Known
<1>14. Inv'
    BY Zenon, <1>2, <1>3, <1>7, <1>9, <1>10, <1>11, <1>12, <1>13, QuietKept
<1> QED
    BY Zenon, <1>8, <1>10, <1>14

(* The end of arbitrateMemory *)
LEMMA UsedReclaimedKept ==
    ASSUME QueueInv, Inv, NEW t \in Tasks, UsedReclaimed(t)
    PROVE  /\ Inv'
           /\ arb'[t].granted => \/ arb[t].granted
                                 \/ capacity'[PoolOf[t]] - reserved'[PoolOf[t]] >= arb[t].size
<1> DEFINE p == PoolOf[t]
           a == arb[t]
           freed == a.hand + a.got
           b == [a EXCEPT !.hand = 0, !.got = 0]
<1>1. Types /\ Local(t) /\ a \in ArbRecord /\ pc[t] = "used" /\ p \in Pools /\ MaxCapacity[p] \in Nat
      /\ pc \in [Tasks -> Outside \cup {"wait"} \cup Arbitrating]
    BY Zenon, Typed DEF UsedReclaimed
<1>2. UNCHANGED <<pools, reserved, aborted, held, rc, stats>>
    BY Zenon DEF UsedReclaimed
<1>3. a.hand \in Nat /\ a.got \in Nat /\ freed \in Nat /\ a.size \in Nat /\ a.goal \in Int
      /\ freeCapacity \in Nat /\ capacity[p] \in Int
    BY <1>1 DEF ArbRecord, Types
<1>4. CASE p \notin aborted /\ freed >= a.size
    <2>1. Grow(t, freed)
        BY Zenon, <1>4 DEF UsedReclaimed
    <2>2. a.size <= freed
        BY Zenon, <1>3, <1>4
    <2> HIDE DEF freed
    <2> QED
        BY Zenon, <1>1, <1>2, <1>3, <2>1, <2>2, GrowKept
<1>5. CASE ~(p \notin aborted /\ freed >= a.size)
    <2>1. PICK l \in {"finish", "oom"} :
            /\ arb' = [arb EXCEPT ![t] = b] /\ pc' = [pc EXCEPT ![t] = l]
            /\ freeCapacity' = freeCapacity + freed /\ capacity' = capacity
            /\ l = "oom" => p \notin aborted
        BY Zenon, <1>5 DEF UsedReclaimed
    <2>2. b \in ArbRecord /\ b.size = a.size /\ b.pools = a.pools /\ b.todo = a.todo
        BY ZenonT(30), <1>1 DEF ArbRecord
    <2>3. b.granted = a.granted
        BY <1>1, Zenon DEF ArbRecord
    <2> HIDE DEF b
    <2>4. pc[t] \in Arbitrating /\ pc[t] # "spill" /\ l \in Arbitrating
        BY Zenon, <1>1, <2>1 DEF Arbitrating
    <2>5. pc'[t] = l /\ arb'[t] = b
        BY Zenon, <1>1, <2>1 DEF Types
    <2>6. Reclaims(t)'
        BY Zenon, <2>1, <2>5 DEF Reclaims, Reclaiming
    <2>7. Grows(t)'
        BY <1>1, <1>2, <1>3, <2>1, <2>2, <2>5, SMTT(60) DEF Local, Grows, Reclaiming
    <2>8. rc' \in [Tasks -> ReclaimRecord] /\ freeCapacity' \in Nat /\ b.todo \subseteq b.pools
        BY <1>1, <1>2, <1>3, <2>1, <2>2 DEF Types, Local, Known
    <2>9. Inv'
        BY Zenon, <1>2, <2>1, <2>2, <2>4, <2>6, <2>7, <2>8, QuietKept DEF poolVars
    <2> QED
        BY Zenon, <2>3, <2>5, <2>9
<1> QED
    BY Zenon, <1>4, <1>5

-----------------------------------------------------------------------------
(* The reclaim and the abort of a pool keep the invariant.                *)

(* What is known of the pool a task reclaims from. *)
LEMMA VictimFacts ==
    ASSUME QueueInv, Inv, NEW t \in Tasks, pc[t] \in Reclaiming
    PROVE  /\ rc[t].pool \in Pools /\ pools[rc[t].pool] # "none" /\ pc[t] \in Arbitrating
           /\ rc[t].want \in Int /\ rc[t].old \in Int /\ rc[t].left \subseteq Members(rc[t].pool)
           /\ capacity[rc[t].pool] \in Int /\ reserved[rc[t].pool] \in Int
           /\ \A u \in Members(rc[t].pool) : u \in Tasks /\ pools[PoolOf[u]] # "none"
<1>1. Types /\ Local(t) /\ PoolOf[t] \in Pools /\ arb[t] \in ArbRecord /\ rc[t] \in ReclaimRecord
    BY Zenon, Typed
<1>2. pc[t] \in Arbitrating /\ pc[t] # "idle"
    BY Zenon DEF Arbitrating, Reclaiming
<1>3. rc[t].pool \in Pools /\ pools[rc[t].pool] # "none"
    BY Zenon, <1>1, <1>2 DEF Local, Known, Reclaims, ArbRecord
<1>4. rc[t].want \in Int /\ rc[t].old \in Int
    BY Zenon, <1>1 DEF ReclaimRecord
<1> QED
    BY Zenon, <1>1, <1>2, <1>3, <1>4 DEF Types, Local, Reclaims, Members

(* A step of a reclaim: the thread's own records stay what they were but for *)
(* what is wanted, the tasks left and the spilling task; no pool grows.      *)
LEMMA ReclaimStep ==
    ASSUME QueueInv, Inv, NEW t \in Tasks, pc[t] \in Reclaiming, NEW l \in Reclaiming \ {"shrink"},
           pc' = [pc EXCEPT ![t] = l], NEW r \in ReclaimRecord, rc' = [rc EXCEPT ![t] = r],
           r.pool = rc[t].pool, r.old = rc[t].old, r.caller = rc[t].caller,
           r.left \subseteq Members(r.pool), pc[t] = "abort" \/ r.caller # "oom",
           l \in {"task", "spill", "spilled"} => r.want > 0,
           l \in {"spill", "spilled"} => r.task \in r.left,
           pc[t] = "abort" => l = "reclaimed" /\ rc[t].caller # "oom",
           aborted' = aborted \/ (aborted' = aborted \cup {r.pool} /\ r.caller # "oom"),
           capacity' \in [Pools -> Int], \A q \in Pools : capacity'[q] <= capacity[q],
           \A q \in Pools \ {r.pool} : capacity'[q] = capacity[q],
           reserved' \in [Pools -> Int], held' \in [Tasks -> Nat], Covered',
           UNCHANGED <<pools, freeCapacity, arb, stats>>
    PROVE  Inv'
<1> DEFINE p == PoolOf[t]
           a == arb[t]
<1>1. Types /\ Local(t) /\ p \in Pools /\ a \in ArbRecord /\ rc[t] \in ReclaimRecord
      /\ MaxCapacity \in [Pools -> Nat]
      /\ pc \in [Tasks -> Outside \cup {"wait"} \cup Arbitrating]
    BY ZenonT(30), Typed
<1>2. /\ r.pool \in Pools /\ pools[r.pool] # "none" /\ pc[t] \in Arbitrating
      /\ r.pool \in a.pools \cup {p} /\ capacity[r.pool] <= r.old /\ r.old \in Int
      /\ r.caller = "ensure" => r.pool = p
    BY ZenonT(30), <1>1, VictimFacts DEF Local, Reclaims
<1>3. Types' /\ Alone(t) /\ pc'[t] = l /\ rc'[t] = r /\ arb'[t] = a
    BY ZenonT(30), <1>1, <1>2 DEF Types, Alone
<1>4. WithinMax'
    BY <1>1 DEF Inv, WithinMax, Types
<1>5. \A q \in Pools : pools[q] = "none" => capacity'[q] = capacity[q] /\ q \notin aborted'
    BY ZenonT(30), <1>2 DEF Inv, Fresh
<1>6. Known(t)'
    BY ZenonT(30), <1>1, <1>2, <1>3 DEF Known, Local, Arbitrating, Reclaiming
<1>7. Reclaims(t)'
    <2>1. capacity'[r.pool] <= r.old
        BY <1>1, <1>2 DEF Types
    <2> QED
        BY ZenonT(30), <1>2, <1>3, <2>1 DEF Reclaims, Members, Reclaiming
<1>8. Grows(t)'
    <2>1. r.caller = "used" => /\ a.size <= a.goal /\ a.hand < a.goal
                               /\ capacity[p] + a.goal <= MaxCapacity[p]
        BY ZenonT(30), <1>1 DEF Local, Grows
    <2>2. r.caller = "used" => capacity'[p] + a.goal <= MaxCapacity[p]
        BY <1>1, <2>1 DEF Types, ArbRecord
    <2> QED
        BY Zenon, <1>3, <2>1, <2>2 DEF Grows, Reclaiming
<1> QED
    BY Zenon, <1>2, <1>3, <1>4, <1>5, <1>6, <1>7, <1>8, ArbStep DEF Alone, Local

-----------------------------------------------------------------------------

\* A reclaim's record after a shrink by n.
Towards(r, n, left) == [r EXCEPT !.want = @ - n, !.left = left, !.task = NoTask]

(* The fields of that record *)
LEMMA TowardsFacts ==
    ASSUME NEW r \in ReclaimRecord, NEW n \in Nat, NEW left \in SUBSET Tasks
    PROVE  LET x == Towards(r, n, left)
           IN  /\ x \in ReclaimRecord /\ x.pool = r.pool /\ x.old = r.old /\ x.caller = r.caller
               /\ x.want = r.want - n /\ x.left = left
<1>1. r.want \in Int /\ r.want - n \in Int
    BY DEF ReclaimRecord
<1>2. Towards(r, n, left) = [r EXCEPT !.want = r.want - n, !.left = left, !.task = NoTask]
    BY Zenon DEF Towards
<1> QED
    BY Zenon, <1>1, <1>2 DEF ReclaimRecord

(* The shrinks of a reclaim *)
LEMMA ShrinkTowardsKept ==
    ASSUME QueueInv, Inv, NEW t \in Tasks, pc[t] \in {"shrink", "task", "spilled"},
           NEW left, left \subseteq Members(rc[t].pool), ShrinkTowards(t, left),
           UNCHANGED <<pools, reserved, aborted, freeCapacity, held, arb, stats>>
    PROVE  Inv'
<1> DEFINE q == rc[t].pool
           freed == Shrunk(q, rc[t].want)
           r == Towards(rc[t], freed, left)
<1>1. Types /\ Local(t) /\ rc[t] \in ReclaimRecord
      /\ pc \in [Tasks -> Outside \cup {"wait"} \cup Arbitrating]
    BY ZenonT(30), Typed
<1>2. pc[t] \in Reclaiming /\ pc[t] # "spill" /\ pc[t] # "abort"
    BY Zenon DEF Reclaiming
<1>3. q \in Pools /\ pc[t] \in Arbitrating /\ rc[t].want \in Int /\ left \in SUBSET Tasks
    BY Zenon, <1>2, VictimFacts DEF Members
<1>4. rc[t].want > 0 /\ rc[t].want \in Nat /\ rc[t].caller # "oom"
    BY <1>1, <1>2, <1>3 DEF Local, Reclaims
<1>5. reserved[q] <= capacity[q]
    BY Zenon, <1>2, <1>3, NoSpill
<1>6. freed \in Nat /\ freed <= rc[t].want /\ freed <= capacity[q] - reserved[q]
    BY <1>1, <1>3, <1>4, <1>5, ShrunkFacts
<1>7. PICK l \in {"task", "reclaimed"} :
        /\ capacity' = [capacity EXCEPT ![q] = @ - freed] /\ rc' = [rc EXCEPT ![t] = r]
        /\ pc' = [pc EXCEPT ![t] = l] /\ (l = "task" => freed < rc[t].want)
    BY Zenon DEF ShrinkTowards, Towards
<1> HIDE DEF freed
<1>8. /\ r \in ReclaimRecord /\ r.pool = q /\ r.old = rc[t].old /\ r.caller = rc[t].caller
      /\ r.want = rc[t].want - freed /\ r.left = left
    BY Zenon, <1>1, <1>3, <1>6, TowardsFacts
<1> HIDE DEF r
<1>9. /\ Covered' /\ capacity' \in [Pools -> Int] /\ \A x \in Pools : capacity'[x] <= capacity[x]
    BY Zenon, <1>2, <1>3, <1>6, <1>7, PoolShrinks
<1>10. \A x \in Pools \ {q} : capacity'[x] = capacity[x]
    BY Zenon, <1>1, <1>7 DEF Types
<1>11. l = "task" => r.want > 0
    BY <1>3, <1>6, <1>7, <1>8
<1>12. reserved' \in [Pools -> Int] /\ held' \in [Tasks -> Nat] /\ l \in Reclaiming \ {"shrink"}
       /\ l \notin {"spill", "spilled"}
    BY Zenon, <1>1, <1>7 DEF Types, Reclaiming
<1> QED
    BY Zenon, <1>2, <1>4, <1>7, <1>8, <1>9, <1>10, <1>11, <1>12, ReclaimStep

(* One task of the pool: it is passed over, it is not worth a spill, or it *)
(* starts to spill.                                                        *)
LEMMA ReclaimTaskKept ==
    ASSUME QueueInv, Inv, NEW t \in Tasks, ReclaimTask(t)
    PROVE  Inv'
<1> DEFINE q == rc[t].pool
<1>1. Types /\ Local(t) /\ rc[t] \in ReclaimRecord /\ pc[t] = "task" /\ SpillNeed \in Nat
      /\ pc \in [Tasks -> Outside \cup {"wait"} \cup Arbitrating]
    BY Zenon, Typed DEF ReclaimTask
<1>2. pc[t] \in Reclaiming /\ pc[t] # "spill" /\ pc[t] # "abort" /\ pc[t] \in Reclaiming \ {"shrink"}
      /\ "spill" \in Reclaiming \ {"shrink"}
    BY Zenon, <1>1 DEF Reclaiming
<1>3. q \in Pools /\ pc[t] \in Arbitrating /\ rc[t].want \in Int /\ rc[t].left \subseteq Members(q)
      /\ rc[t].left \subseteq Tasks /\ capacity[q] \in Int /\ reserved[q] \in Int
    BY Zenon, <1>2, VictimFacts DEF Members
<1>4. rc[t].want > 0 /\ rc[t].caller # "oom"
    BY Zenon, <1>1, <1>2, <1>3 DEF Local, Reclaims
<1>5. \A x \in Pools : reserved[x] <= capacity[x]
    BY Zenon, <1>2, <1>3, NoSpill
<1>6. FreeBytes(q) \in Nat /\ FreeBytes(q) <= capacity[q] - reserved[q]
    BY Zenon, <1>1, <1>3, <1>5, ShrunkFacts
<1>7. UNCHANGED <<pools, aborted, freeCapacity, held, arb, stats>>
    BY Zenon DEF ReclaimTask
<1>8. PICK u \in rc[t].left :
        \/ /\ rc' = [rc EXCEPT ![t] = [rc[t] EXCEPT !.left = rc[t].left \ {u}]]
           /\ UNCHANGED <<capacity, reserved, pc>>
        \/ ShrinkTowards(t, rc[t].left \ {u}) /\ UNCHANGED reserved
        \/ /\ FreeBytes(q) < rc[t].want /\ capacity' = [capacity EXCEPT ![q] = @ - FreeBytes(q)]
           /\ rc' = [rc EXCEPT ![t] = [rc[t] EXCEPT !.want = rc[t].want - FreeBytes(q), !.task = u]]
           /\ reserved' = [reserved EXCEPT ![q] = @ + SpillNeed]
           /\ pc' = [pc EXCEPT ![t] = "spill"]
    BY ZenonT(30) DEF ReclaimTask
<1>9. CASE /\ rc' = [rc EXCEPT ![t] = [rc[t] EXCEPT !.left = rc[t].left \ {u}]]
           /\ UNCHANGED <<capacity, reserved, pc>>
    <2> DEFINE r == [rc[t] EXCEPT !.left = rc[t].left \ {u}]
    <2>1. /\ r \in ReclaimRecord /\ r.pool = q /\ r.old = rc[t].old /\ r.caller = rc[t].caller
          /\ r.want = rc[t].want /\ r.left = rc[t].left \ {u}
        BY Zenon, <1>1 DEF ReclaimRecord
    <2>2. rc' = [rc EXCEPT ![t] = r] /\ pc' = [pc EXCEPT ![t] = "task"]
        BY Zenon, <1>1, <1>9
    <2> HIDE DEF r
    <2>3. Covered'
        BY ZenonT(30), <1>2, <1>3, <1>9, PoolsKept
    <2>4. /\ capacity' \in [Pools -> Int] /\ \A x \in Pools : capacity'[x] <= capacity[x]
          /\ \A x \in Pools \ {q} : capacity'[x] = capacity[x]
          /\ reserved' \in [Pools -> Int] /\ held' \in [Tasks -> Nat]
        BY <1>1, <1>7, <1>9 DEF Types
    <2>5. r.left \subseteq Members(r.pool) /\ r.want > 0 /\ "task" \in Reclaiming \ {"shrink"}
        BY Zenon, <1>3, <1>4, <2>1 DEF Reclaiming
    <2> QED
        BY ZenonT(30), <1>1, <1>2, <1>4, <1>7, <2>1, <2>2, <2>3, <2>4, <2>5, ReclaimStep
<1>10. CASE ShrinkTowards(t, rc[t].left \ {u}) /\ UNCHANGED reserved
    BY ZenonT(30), <1>1, <1>3, <1>7, <1>10, ShrinkTowardsKept
<1>11. CASE /\ FreeBytes(q) < rc[t].want /\ capacity' = [capacity EXCEPT ![q] = @ - FreeBytes(q)]
            /\ rc' = [rc EXCEPT ![t] = [rc[t] EXCEPT !.want = rc[t].want - FreeBytes(q), !.task = u]]
            /\ reserved' = [reserved EXCEPT ![q] = @ + SpillNeed]
            /\ pc' = [pc EXCEPT ![t] = "spill"]
    <2> DEFINE n == rc[t].want - FreeBytes(q)
               r == [rc[t] EXCEPT !.want = n, !.task = u]
    <2>1. n \in Int /\ n > 0 /\ u \in Tasks
        BY <1>3, <1>6, <1>11
    <2> HIDE DEF n
    <2>2. /\ r \in ReclaimRecord /\ r.pool = q /\ r.old = rc[t].old /\ r.caller = rc[t].caller
          /\ r.want = n /\ r.left = rc[t].left /\ r.task = u
        BY ZenonT(30), <1>1, <2>1 DEF ReclaimRecord
    <2>3. rc' = [rc EXCEPT ![t] = r]
        BY Zenon, <1>11 DEF n
    <2> HIDE DEF r
    <2>4. /\ capacity' \in [Pools -> Int] /\ \A x \in Pools : capacity'[x] <= capacity[x]
          /\ \A x \in Pools \ {q} : capacity'[x] = capacity[x] /\ reserved'[x] = reserved[x]
          /\ reserved' \in [Pools -> Int] /\ held' \in [Tasks -> Nat]
          /\ reserved'[q] - SpillNeed <= capacity'[q]
        BY <1>1, <1>3, <1>6, <1>7, <1>11 DEF Types
    <2>5. pc'[t] = "spill" /\ rc'[t].pool = q
        BY ZenonT(30), <1>1, <1>11, <2>2, <2>3 DEF Types
    <2>6. Covered'
        BY ZenonT(30), <1>5, <2>4, <2>5 DEF Covered
    <2>7. /\ r.left \subseteq Members(r.pool) /\ r.want > 0 /\ r.task \in r.left
          /\ r.caller # "oom"
        BY ZenonT(30), <1>3, <1>4, <2>1, <2>2
    <2>8. \A x \in Pools \ {r.pool} : capacity'[x] = capacity[x]
        BY Zenon, <2>2, <2>4
    <2>9. pc' = [pc EXCEPT ![t] = "spill"] /\ pc[t] # "abort" /\ aborted' = aborted
        BY Zenon, <1>2, <1>7, <1>11
    <2>10. /\ capacity' \in [Pools -> Int] /\ \A x \in Pools : capacity'[x] <= capacity[x]
           /\ reserved' \in [Pools -> Int] /\ held' \in [Tasks -> Nat]
        BY Zenon, <2>4
    <2> QED
        BY Zenon, <1>2, <1>7, <2>2, <2>3, <2>6, <2>7, <2>8, <2>9, <2>10, ReclaimStep
<1> QED
    BY Zenon, <1>8, <1>9, <1>10, <1>11

(* A pool in which a task has just spilled, or failed to, and what the step  *)
(* gives back of its reservation.                                            *)
LEMMA SpillEnds ==
    ASSUME QueueInv, Inv, NEW t \in Tasks, pc[t] = "spill", NEW n \in Nat, capacity' = capacity,
           reserved' = [reserved EXCEPT ![rc[t].pool] = @ - n - SpillNeed]
    PROVE  Covered' /\ reserved' \in [Pools -> Int]
<1> DEFINE q == rc[t].pool
<1>1. Types /\ SpillNeed \in Nat /\ pc[t] \in Reclaiming
    BY Zenon, Typed DEF Reclaiming
<1>2. q \in Pools /\ capacity[q] \in Int /\ reserved[q] \in Int /\ pc[t] \in Arbitrating
    BY Zenon, <1>1, VictimFacts
<1>3. \A u \in Tasks : pc[u] = "spill" => u = t
    BY Zenon, <1>2 DEF QueueInv, Serialized, Arbitrating, Reclaiming
<1>4. \A x \in Pools \ {q} : reserved[x] <= capacity[x]
    BY Zenon, <1>3 DEF Inv, Covered
<1>5. reserved[q] - SpillNeed <= capacity[q]
    BY <1>1, <1>2, <1>3 DEF Inv, Covered
<1>6. reserved' \in [Pools -> Int]
    BY <1>1, <1>2 DEF Types
<1>7. \A x \in Pools : reserved'[x] <= capacity'[x]
    BY <1>1, <1>2, <1>4, <1>5 DEF Types
<1> QED
    BY Zenon, <1>6, <1>7 DEF Covered

(* The spill *)
LEMMA SpillKept ==
    ASSUME QueueInv, Inv, NEW t \in Tasks, Spill(t)
    PROVE  Inv'
<1> DEFINE r == rc[t]
<1>1. Types /\ Local(t) /\ r \in ReclaimRecord /\ pc[t] = "spill" /\ pc[t] \in Reclaiming
    BY Zenon, Typed DEF Spill, Reclaiming
<1>2. UNCHANGED <<pools, capacity, aborted, freeCapacity, arb, rc, stats>>
      /\ pc' = [pc EXCEPT ![t] = "spilled"]
    BY Zenon DEF Spill
<1>3. r.task \in r.left /\ r.left \subseteq Members(r.pool) /\ r.want > 0 /\ r.caller # "oom"
    BY Zenon, <1>1 DEF Local, Reclaims
<1>4. r.task \in Tasks /\ held[r.task] \in Nat
    BY Zenon, <1>1, <1>3 DEF Types, Members
<1>5. PICK n \in 0..held[r.task] :
        /\ held' = [held EXCEPT ![r.task] = @ - n]
        /\ reserved' = [reserved EXCEPT ![r.pool] = @ - n - SpillNeed]
    BY Zenon DEF Spill
<1>6. n \in Nat /\ held[r.task] - n \in Nat
    BY <1>4
<1>7. Covered' /\ reserved' \in [Pools -> Int]
    BY Zenon, <1>1, <1>2, <1>5, <1>6, SpillEnds
<1>8. held' \in [Tasks -> Nat]
    BY Zenon, <1>1, <1>4, <1>5, <1>6 DEF Types
<1>9. /\ capacity' \in [Pools -> Int] /\ \A x \in Pools : capacity'[x] <= capacity[x]
      /\ \A x \in Pools \ {r.pool} : capacity'[x] = capacity[x] /\ rc' = [rc EXCEPT ![t] = r]
    BY <1>1, <1>2 DEF Types
<1>10. rc' = [rc EXCEPT ![t] = r] /\ "spilled" \in Reclaiming \ {"shrink"} /\ pc[t] # "abort"
    BY Zenon, <1>1, <1>2 DEF Types, Reclaiming
<1> QED
    BY Zenon, <1>1, <1>2, <1>3, <1>7, <1>8, <1>9, <1>10, ReclaimStep

(* The reclaimer throws: the pool is aborted. *)
LEMMA ReclaimFailsKept ==
    ASSUME QueueInv, Inv, NEW t \in Tasks, PauseTimesOut(t) \/ SpillFails(t)
    PROVE  Inv'
<1> DEFINE q == rc[t].pool
           left == IF q \in aborted THEN {} ELSE Members(q)
           r == [rc[t] EXCEPT !.task = NoTask, !.left = left]
<1>1. Types /\ Local(t) /\ rc[t] \in ReclaimRecord /\ SpillNeed \in Nat
    BY Zenon, Typed
<1>2. pc[t] \in {"task", "spill"} /\ pc[t] \in Reclaiming /\ "abort" \in Reclaiming \ {"shrink"}
    BY Zenon DEF PauseTimesOut, SpillFails, Reclaiming
<1>3. q \in Pools /\ pc[t] \in Arbitrating /\ rc[t].caller # "oom" /\ reserved[q] \in Int
    BY Zenon, <1>1, <1>2, VictimFacts DEF Local, Reclaims
<1>4. /\ UNCHANGED <<pools, capacity, freeCapacity, held, arb, stats>>
      /\ aborted' = aborted \cup {q} /\ pc' = [pc EXCEPT ![t] = "abort"]
      /\ rc' = [rc EXCEPT ![t] = r]
      /\ \/ pc[t] = "task" /\ reserved' = [reserved EXCEPT ![q] = @ - 0]
         \/ pc[t] = "spill" /\ reserved' = [reserved EXCEPT ![q] = @ - SpillNeed]
    BY Zenon DEF PauseTimesOut, SpillFails, ReclaimFails, StartAbort
<1>5. left \subseteq Members(q) /\ left \in SUBSET Tasks
    BY Zenon DEF Members
<1> HIDE DEF left
<1>6. /\ r \in ReclaimRecord /\ r.pool = q /\ r.old = rc[t].old /\ r.caller = rc[t].caller
      /\ r.left = left
    BY ZenonT(30), <1>1, <1>5 DEF ReclaimRecord
<1> HIDE DEF r
<1>7. Covered' /\ reserved' \in [Pools -> Int]
    <2>1. CASE pc[t] = "task"
        <3>1. reserved' = reserved
            BY <1>1, <1>3, <1>4, <2>1 DEF Types
        <3> QED
            BY ZenonT(30), <1>1, <1>3, <1>4, <2>1, <3>1, PoolsKept DEF Types
    <2>2. CASE pc[t] = "spill"
        <3>1. reserved[q] - SpillNeed = reserved[q] - 0 - SpillNeed
            BY <1>1, <1>3
        <3>2. reserved' = [reserved EXCEPT ![q] = @ - 0 - SpillNeed]
            BY Zenon, <1>4, <2>2, <3>1
        <3> QED
            BY ZenonT(30), <1>4, <2>2, <3>2, SpillEnds
    <2> QED
        BY Zenon, <1>2, <2>1, <2>2
<1>8. /\ capacity' \in [Pools -> Int] /\ \A x \in Pools : capacity'[x] <= capacity[x]
      /\ \A x \in Pools \ {q} : capacity'[x] = capacity[x] /\ held' \in [Tasks -> Nat]
    BY <1>1, <1>4 DEF Types
<1>9. held' \in [Tasks -> Nat]
    BY Zenon, <1>1, <1>4 DEF Types
<1> QED
    BY ZenonT(30), <1>2, <1>3, <1>4, <1>5, <1>6, <1>7, <1>8, <1>9, ReclaimStep

-----------------------------------------------------------------------------
(* Abort, reclaim and the end of an arbitration.                           *)

(* The shrinks before and after the spills *)
LEMMA ShrinksKept ==
    ASSUME QueueInv, Inv, NEW t \in Tasks, ReclaimShrink(t) \/ SpillShrink(t)
    PROVE  Inv'
<1>1. pc[t] \in {"shrink", "spilled"} /\ pc[t] \in Reclaiming
    BY Zenon DEF ReclaimShrink, SpillShrink, Reclaiming
<1>2. UNCHANGED <<pools, reserved, aborted, freeCapacity, held, arb, stats>>
    BY Zenon DEF ReclaimShrink, SpillShrink
<1>3. rc[t].left \subseteq Members(rc[t].pool)
    BY Zenon, <1>1, VictimFacts
<1>4. \E left : left \subseteq Members(rc[t].pool) /\ ShrinkTowards(t, left)
    BY Zenon, <1>3 DEF ReclaimShrink, SpillShrink
<1> QED
    BY Zenon, <1>1, <1>2, <1>4, ShrinkTowardsKept

(* A victim is found, or the requestor is the largest itself. *)
LEMMA HandleOOMKept ==
    ASSUME QueueInv, Inv, NEW t \in Tasks, HandleOOM(t)
    PROVE  Inv' /\ arb'[t].granted = arb[t].granted
<1> DEFINE p == PoolOf[t]
           a == arb[t]
<1>1. Types /\ Local(t) /\ p \in Pools /\ a \in ArbRecord /\ pc[t] = "oom"
      /\ pc \in [Tasks -> Outside \cup {"wait"} \cup Arbitrating]
    BY ZenonT(30), Typed DEF HandleOOM
<1>2. UNCHANGED <<pools, capacity, freeCapacity, held, stats>>
    BY Zenon DEF HandleOOM
<1>3. pc[t] \in Arbitrating /\ pc[t] # "spill" /\ "finish" \in Arbitrating
    BY Zenon, <1>1 DEF Arbitrating
<1>4. CASE p \in LargestCapacity(t)
    <2>1. pc' = [pc EXCEPT ![t] = "finish"] /\ UNCHANGED <<reserved, aborted, arb, rc>>
        BY Zenon, <1>4 DEF HandleOOM
    <2>2. arb' = [arb EXCEPT ![t] = a] /\ rc' \in [Tasks -> ReclaimRecord] /\ freeCapacity' \in Nat
        BY Zenon, <1>1, <1>2, <2>1 DEF Types
    <2>3. pc'[t] = "finish"
        BY Zenon, <1>1, <2>1
    <2>4. Reclaims(t)' /\ Grows(t)'
        BY Zenon, <2>3 DEF Reclaims, Grows, Reclaiming
    <2>5. a.todo \subseteq a.pools
        BY Zenon, <1>1 DEF Local, Known
    <2>6. Inv'
        BY Zenon, <1>1, <1>2, <1>3, <2>1, <2>2, <2>4, <2>5, QuietKept DEF poolVars
    <2> QED
        BY Zenon, <2>1, <2>6
<1>5. CASE p \notin LargestCapacity(t)
    <2> DEFINE left(q) == IF q \in aborted THEN {} ELSE Members(q)
               b == [a EXCEPT !.retried = TRUE]
               none == 0
               r(q) == Victim(q, none, capacity[q], left(q), "oom")
    <2>a. ASSUME NEW q, NEW o, NEW l, NEW x,
                 x = [NoReclaim EXCEPT !.pool = q, !.old = o, !.left = l, !.caller = "oom"]
          PROVE  x = Victim(q, none, o, l, "oom")
        BY ZenonT(30), <2>a DEF NoReclaim, Victim
    <2>b. PICK q \in LargestCapacity(t) :
            /\ StartAbort(t, q, 0) /\ arb' = [arb EXCEPT ![t] = b]
            /\ rc' = [rc EXCEPT ![t] = [NoReclaim EXCEPT !.pool = q, !.old = capacity[q],
                                                         !.left = left(q), !.caller = "oom"]]
        BY Zenon, <1>5 DEF HandleOOM
    <2>1. rc' = [rc EXCEPT ![t] = r(q)]
        BY ZenonT(30), <2>a, <2>b
    <2>2. q \in a.pools /\ q # p /\ q \in Pools /\ pools[q] # "none" /\ capacity[q] \in Int
        BY ZenonT(30), <1>1, <1>5 DEF LargestCapacity, ArbRecord, Types, Local, Known
    <2>3. left(q) \subseteq Members(q) /\ left(q) \in SUBSET Tasks
        BY Zenon DEF Members
    <2>z. none \in Int
        OBVIOUS
    <2> HIDE DEF left, none
    <2>4. /\ r(q) \in ReclaimRecord /\ r(q).pool = q /\ r(q).old = capacity[q] /\ r(q).left = left(q)
          /\ r(q).caller = "oom"
        BY <2>2, <2>3, <2>z, ReclaimFacts
    <2>5. b \in ArbRecord /\ b.size = a.size /\ b.pools = a.pools /\ b.todo = a.todo
        BY ZenonT(30), <1>1 DEF ArbRecord
    <2>6. b.granted = a.granted
        BY <1>1, Zenon DEF ArbRecord
    <2> HIDE DEF b, r
    <2>7. /\ aborted' = aborted \cup {q} /\ reserved' = reserved /\ pc' = [pc EXCEPT ![t] = "abort"]
        BY <1>1, <2>b, <2>2 DEF StartAbort, Types
    <2>8. Types' /\ Alone(t) /\ pc'[t] = "abort" /\ rc'[t] = r(q) /\ arb'[t] = b
        BY <1>1, <1>2, <2>b, <2>1, <2>2, <2>4, <2>5, <2>7 DEF Types, Alone
    <2>9. Known(t)'
        BY ZenonT(30), <1>1, <1>2, <1>3, <2>5, <2>8 DEF Known, Local
    <2>10. Reclaims(t)'
        BY <1>2, <2>2, <2>3, <2>4, <2>5, <2>8 DEF Reclaims, Types, Members
    <2>11. Grows(t)'
        BY ZenonT(30), <1>1, <1>2, <2>2, <2>4, <2>5, <2>7, <2>8 DEF Grows, Local
    <2>12. Covered' /\ WithinMax'
        BY Zenon, <1>2, <1>3, <2>7, PoolsKept
    <2>13. \A x \in Pools : pools[x] = "none" => capacity'[x] = capacity[x] /\ x \notin aborted'
        BY Zenon, <1>2, <2>2, <2>7 DEF Inv, Fresh
    <2>14. Inv'
        BY ZenonT(30), <1>2, <1>3, <2>8, <2>9, <2>10, <2>11, <2>12, <2>13, ArbStep DEF Alone, Local
    <2> QED
        BY Zenon, <2>6, <2>8, <2>14
<1> QED
    BY Zenon, <1>4, <1>5

(* The abort of one task of the pool *)
LEMMA AbortTaskKeepsInv ==
    ASSUME QueueInv, Inv, NEW t \in Tasks, AbortTask(t)
    PROVE  Inv'
<1> DEFINE q == rc[t].pool
           r(u) == [rc[t] EXCEPT !.left = rc[t].left \ {u}]
<1>1. Types /\ Local(t) /\ rc[t] \in ReclaimRecord /\ pc[t] = "abort" /\ pc[t] \in Reclaiming
      /\ pc \in [Tasks -> Outside \cup {"wait"} \cup Arbitrating]
    BY Zenon, Typed DEF AbortTask, Reclaiming
<1>2. q \in Pools /\ pc[t] \in Arbitrating /\ rc[t].left \subseteq Members(q)
      /\ \A u \in Members(q) : u \in Tasks /\ pools[PoolOf[u]] # "none"
    BY Zenon, <1>1, VictimFacts
<1>3. UNCHANGED <<pools, capacity, aborted, freeCapacity, arb, stats>>
    BY Zenon DEF AbortTask
<1>4. PICK u \in rc[t].left :
        /\ rc' = [rc EXCEPT ![t] = r(u)]
        /\ \/ /\ held' = [held EXCEPT ![u] = 0] /\ reserved' = [reserved EXCEPT ![q] = @ - held[u]]
              /\ pc' = [pc EXCEPT ![u] = IF pc[u] = "idle" THEN "closed" ELSE pc[u]]
           \/ UNCHANGED <<held, reserved, pc>>
    BY Zenon DEF AbortTask
<1>5. u \in Tasks /\ pools[PoolOf[u]] # "none" /\ held[u] \in Nat
    BY Zenon, <1>1, <1>2 DEF Types
<1>6. /\ r(u) \in ReclaimRecord /\ r(u).pool = q /\ r(u).old = rc[t].old /\ r(u).caller = rc[t].caller
      /\ r(u).left \subseteq rc[t].left
    BY Zenon, <1>1 DEF ReclaimRecord
<1> HIDE DEF r
<1>7. /\ held' \in [Tasks -> Nat] /\ reserved' \in [Pools -> Int]
      /\ \A x \in Pools : reserved'[x] <= reserved[x]
    BY <1>1, <1>2, <1>4, <1>5 DEF Types
<1>8. /\ rc' \in [Tasks -> ReclaimRecord] /\ rc'[t] = r(u)
      /\ \A v \in Tasks \ {t} : rc'[v] = rc[v]
    BY ZenonT(30), <1>1, <1>4, <1>6 DEF Types
<1>9. \A v \in Tasks : pc'[v] = pc[v] \/ (v = u /\ v # t /\ pc[v] = "idle" /\ pc'[v] = "closed")
    BY ZenonT(30), <1>1, <1>4, <1>5
<1>10. Types'
    BY ZenonT(30), <1>1, <1>3, <1>7, <1>8 DEF Types
<1>11. capacity' \in [Pools -> Int] /\ \A x \in Pools : capacity'[x] <= capacity[x]
    BY <1>1, <1>3 DEF Types
<1>12. Local(t)'
    <2>1. pc'[t] = "abort" /\ arb'[t] = arb[t]
        BY ZenonT(30), <1>1, <1>3, <1>9
    <2>2. Known(t)'
        BY ZenonT(30), <1>1, <1>3, <2>1 DEF Local, Known
    <2>3. Reclaims(t)'
        BY ZenonT(30), <1>1, <1>2, <1>3, <1>6, <1>8, <2>1 DEF Local, Reclaims, Members
    <2>4. Grows(t)'
        BY ZenonT(30), <1>1, <1>3, <1>6, <1>8, <2>1 DEF Local, Grows
    <2> QED
        BY ZenonT(30), <2>2, <2>3, <2>4 DEF Local
<1>13. ASSUME NEW v \in Tasks \ {t}, pc'[v] = pc[v] PROVE Local(v)'
    BY ZenonT(30), <1>1, <1>3, <1>8, <1>11, <1>13, LocalStays DEF Inv
<1>14. ASSUME NEW v \in Tasks \ {t}, pc'[v] # pc[v] PROVE Local(v)'
    <2>1. v = u /\ pc'[v] = "closed"
        BY Zenon, <1>9, <1>14
    <2>2. Known(v)'
        BY ZenonT(30), <1>3, <1>5, <2>1 DEF Inv, Local, Known, Arbitrating, Reclaiming
    <2>3. Reclaims(v)' /\ Grows(v)'
        BY ZenonT(30), <2>1 DEF Reclaims, Grows, Reclaiming
    <2> QED
        BY ZenonT(30), <2>2, <2>3 DEF Local
<1>15. \A x \in Pools : reserved[x] <= capacity[x]
    BY Zenon, <1>1, <1>2, NoSpill
<1>16. Covered'
    BY <1>1, <1>3, <1>7, <1>15 DEF Covered, Types
<1>17. Fresh' /\ WithinMax'
    BY ZenonT(30), <1>3 DEF Inv, Fresh, WithinMax
<1> QED
    BY Zenon, <1>10, <1>12, <1>13, <1>14, <1>16, <1>17 DEF Inv

(* The shrink after the abort *)
LEMMA AbortDoneKept ==
    ASSUME QueueInv, Inv, NEW t \in Tasks, AbortDone(t)
    PROVE  Inv'
<1> DEFINE p == PoolOf[t]
           q == rc[t].pool
           freed == Shrunk(q, 0)
<1>1. Types /\ Local(t) /\ rc[t] \in ReclaimRecord /\ pc[t] = "abort" /\ pc[t] \in Reclaiming
      /\ p \in Pools /\ MaxCapacity \in [Pools -> Nat] /\ arb[t] \in ArbRecord
      /\ pc \in [Tasks -> Outside \cup {"wait"} \cup Arbitrating]
    BY ZenonT(30), Typed DEF AbortDone, Reclaiming
<1>2. q \in Pools /\ pools[q] # "none" /\ pc[t] \in Arbitrating /\ pc[t] # "spill"
      /\ rc[t].left \subseteq Members(q)
    BY ZenonT(30), <1>1, VictimFacts
<1>3. freed \in Nat /\ freed <= capacity[q] - reserved[q]
    BY Zenon, <1>1, <1>2, NoSpill, ShrunkFacts
<1>4. capacity' = [capacity EXCEPT ![q] = @ - freed] /\ UNCHANGED <<pools, reserved, aborted, held, arb, stats>>
    BY Zenon DEF AbortDone
<1>5. /\ rc[t].caller = "oom" => /\ freeCapacity' = freeCapacity + freed
                                /\ pc' = [pc EXCEPT ![t] = "stats"] /\ rc' = [rc EXCEPT ![t] = NoReclaim]
      /\ rc[t].caller # "oom" => pc' = [pc EXCEPT ![t] = "reclaimed"] /\ UNCHANGED <<freeCapacity, rc>>
    BY Zenon DEF AbortDone
<1> HIDE DEF freed
<1>6. /\ Covered' /\ WithinMax' /\ capacity' \in [Pools -> Int]
      /\ \A x \in Pools : capacity'[x] <= capacity[x]
    BY Zenon, <1>2, <1>3, <1>4, PoolShrinks
<1>7. \A x \in Pools \ {q} : capacity'[x] = capacity[x]
    BY Zenon, <1>1, <1>4 DEF Types
<1>8. CASE rc[t].caller = "oom"
    <2>1. NoReclaim \in ReclaimRecord
        BY Zenon, NoReclaimTyped
    <2>2. freeCapacity' \in Nat
        BY <1>1, <1>3, <1>5, <1>8 DEF Types
    <2>3. Types' /\ Alone(t) /\ pc'[t] = "stats" /\ arb'[t] = arb[t]
        BY <1>1, <1>4, <1>5, <1>6, <1>8, <2>1, <2>2 DEF Types, Alone
    <2>4. Known(t)'
        BY ZenonT(30), <1>1, <1>2, <1>4, <2>3 DEF Local, Known, Arbitrating
    <2>5. Grows(t)'
        <3>1. capacity[p] \in Int /\ capacity'[p] \in Int /\ capacity'[p] <= capacity[p]
              /\ arb[t].size \in Nat /\ MaxCapacity[p] \in Nat
            BY Zenon, <1>1, <1>6 DEF Types, ArbRecord
        <3>2. capacity[p] + arb[t].size <= MaxCapacity[p] /\ p \notin aborted
            BY Zenon, <1>1, <1>8 DEF Local, Grows
        <3>3. capacity'[p] + arb[t].size <= MaxCapacity[p]
            BY <3>1, <3>2
        <3>4. /\ pc'[t] = "stats" /\ arb'[t] = arb[t] /\ p \notin aborted'
            BY ZenonT(30), <1>4, <2>3, <3>2
        <3> QED
            BY ZenonT(30), <3>3, <3>4 DEF Grows, Reclaiming
    <2>6. Reclaims(t)'
        BY ZenonT(30), <2>3 DEF Reclaims, Reclaiming
    <2>7. \A x \in Pools : pools[x] = "none" => capacity'[x] = capacity[x] /\ x \notin aborted'
        BY Zenon, <1>2, <1>4, <1>7 DEF Inv, Fresh
    <2> QED
        BY ZenonT(30), <1>2, <1>4, <1>6, <2>3, <2>4, <2>5, <2>6, <2>7, ArbStep DEF Alone, Local
<1>9. CASE rc[t].caller # "oom"
    <2>1. pc' = [pc EXCEPT ![t] = "reclaimed"] /\ rc' = [rc EXCEPT ![t] = rc[t]] /\ freeCapacity' = freeCapacity
        BY Zenon, <1>1, <1>5, <1>9 DEF Types
    <2>2. reserved' \in [Pools -> Int] /\ held' \in [Tasks -> Nat] /\ "reclaimed" \in Reclaiming \ {"shrink"}
        BY Zenon, <1>1, <1>4 DEF Types, Reclaiming
    <2> QED
        BY ZenonT(30), <1>1, <1>2, <1>4, <1>6, <1>7, <1>9, <2>1, <2>2, ReclaimStep
<1> QED
    BY Zenon, <1>8, <1>9

(* The end of a reclaim *)
LEMMA ReclaimedKept ==
    ASSUME QueueInv, Inv, NEW t \in Tasks, Reclaimed(t)
    PROVE  Inv' /\ arb'[t].granted = arb[t].granted
<1> DEFINE p == PoolOf[t]
           a == arb[t]
           q == rc[t].pool
           bytes == rc[t].old - capacity[q]
           b == [a EXCEPT !.got = a.got + bytes]
<1>1. Types /\ Local(t) /\ rc[t] \in ReclaimRecord /\ pc[t] \in {"reclaimed", "task"}
      /\ pc[t] \in Reclaiming /\ p \in Pools /\ a \in ArbRecord /\ MaxCapacity \in [Pools -> Nat]
      /\ pc \in [Tasks -> Outside \cup {"wait"} \cup Arbitrating]
    BY Zenon, Typed DEF Reclaimed, Reclaiming
<1>2. q \in Pools /\ pc[t] \in Arbitrating /\ pc[t] # "spill" /\ capacity[q] \in Int /\ rc[t].old \in Int
    BY Zenon, <1>1, VictimFacts
<1>3. bytes \in Nat /\ rc[t].caller \in {"ensure", "used"} /\ (rc[t].caller = "ensure" => q = p)
  <2>1. capacity[q] <= rc[t].old
      BY ZenonT(30), <1>1 DEF Local, Reclaims
  <2>2. bytes \in Nat
      BY ZenonT(30), <1>2, <2>1, SizeFacts
  <2>3. rc[t].caller \in {"used", "ensure", "oom"}
      BY ZenonT(30), <1>1 DEF ReclaimRecord
  <2> QED
      BY ZenonT(30), <1>1, <2>2, <2>3 DEF Local, Reclaims
<1>4. UNCHANGED <<poolVars, held, stats>> /\ rc' = [rc EXCEPT ![t] = NoReclaim]
    BY ZenonT(30) DEF Reclaimed
<1>5. NoReclaim \in ReclaimRecord
    BY Zenon, NoReclaimTyped
<1>6. rc' \in [Tasks -> ReclaimRecord] /\ \A u \in Tasks \ {t} : rc'[u] = rc[u]
    BY ZenonT(30), <1>1, <1>4, <1>5 DEF Types
<1>7. {"stats", "finish", "used"} \subseteq Arbitrating /\ a.todo \subseteq a.pools
    BY Zenon, <1>1 DEF Arbitrating, Local, Known
<1>8. CASE rc[t].caller = "ensure"
    <2>1. PICK l \in {"stats", "finish"} :
            /\ pc' = [pc EXCEPT ![t] = l] /\ freeCapacity' = freeCapacity + bytes /\ arb' = arb
            /\ l = "stats" => q \notin aborted /\ checkCapacityGrowth(q, a.size)
        BY Zenon, <1>8 DEF Reclaimed
    <2>2. arb' = [arb EXCEPT ![t] = a] /\ freeCapacity' \in Nat /\ pc'[t] = l
        BY <1>1, <1>3, <2>1 DEF Types
    <2>3. Reclaims(t)'
        BY Zenon, <2>1, <2>2 DEF Reclaims, Reclaiming
    <2>4. l = "stats" => capacity[p] + a.size <= MaxCapacity[p] /\ p \notin aborted
        <3>1. capacity[p] \in Int /\ a.size \in Nat /\ MaxCapacity[p] \in Nat
            BY Zenon, <1>1 DEF Types, ArbRecord
        <3> QED
            BY <1>3, <1>8, <2>1, <3>1 DEF checkCapacityGrowth, maxGrowBytes
    <2>5. Grows(t)'
        BY Zenon, <1>4, <2>1, <2>2, <2>4 DEF Grows, Reclaiming, poolVars
    <2>6. Inv'
        BY ZenonT(30), <1>1, <1>2, <1>4, <1>6, <1>7, <2>1, <2>2, <2>3, <2>5, QuietKept
    <2> QED
        BY Zenon, <2>1, <2>6
<1>9. CASE rc[t].caller = "used"
    <2>1. /\ pc' = [pc EXCEPT ![t] = "used"] /\ freeCapacity' = freeCapacity
          /\ arb' = [arb EXCEPT ![t] = b]
        BY Zenon, <1>9 DEF Reclaimed
    <2>2. a.got \in Nat /\ a.got + bytes \in Nat
      <3>1. a.got \in Nat
          BY ZenonT(30), <1>1 DEF ArbRecord
      <3> QED
          BY ZenonT(30), <1>3, <3>1, SizeFacts
    <2> HIDE DEF bytes
    <2>3. /\ b \in ArbRecord /\ b.size = a.size /\ b.pools = a.pools /\ b.todo = a.todo
          /\ b.goal = a.goal /\ b.hand = a.hand
        BY ZenonT(30), <1>1, <2>2 DEF ArbRecord
    <2>4. b.granted = a.granted
        BY <1>1, Zenon DEF ArbRecord
    <2> HIDE DEF b
    <2>5. freeCapacity' \in Nat /\ pc'[t] = "used" /\ arb'[t] = b
        BY Zenon, <1>1, <2>1 DEF Types
    <2>6. Reclaims(t)'
        BY Zenon, <2>5 DEF Reclaims, Reclaiming
    <2>7. Grows(t)'
        BY ZenonT(30), <1>1, <1>4, <1>9, <2>3, <2>5 DEF Local, Grows, poolVars
    <2>8. Inv'
        BY ZenonT(30), <1>2, <1>4, <1>6, <1>7, <2>1, <2>3, <2>5, <2>6, <2>7, QuietKept
    <2> QED
        BY Zenon, <2>4, <2>5, <2>8
<1> QED
    BY Zenon, <1>3, <1>8, <1>9

(* finishArbitration: the next request starts where it was queued. *)
LEMMA FinishKeepsInv ==
    ASSUME QueueInv, Inv, NEW t \in Tasks, FinishArbitration(t)
    PROVE  Inv' /\ ~arb'[t].granted
<1> DEFINE b == [Idle EXCEPT !.size = arb[t].size]
<1>1. Types /\ Local(t) /\ arb[t] \in ArbRecord /\ pc[t] = "finish" /\ pc[t] \in Arbitrating
      /\ pc \in [Tasks -> Outside \cup {"wait"} \cup Arbitrating]
    BY Zenon, Typed DEF FinishArbitration, Arbitrating
<1>2. /\ UNCHANGED <<poolVars, freeCapacity, held>> /\ arb' = [arb EXCEPT ![t] = b]
      /\ rc' = [rc EXCEPT ![t] = NoReclaim] /\ stats' = [stats EXCEPT ![t] = <<>>]
    BY Zenon DEF FinishArbitration
<1>3. arb[t].size \in Nat /\ arb[t].size > 0
    BY Zenon, <1>1 DEF ArbRecord, Local, Known
<1>4. b \in ArbRecord /\ b.size = arb[t].size /\ b.pools = {} /\ b.todo = {} /\ ~b.granted
    <2>1. ASSUME NEW n \in Nat, NEW x, x = [Idle EXCEPT !.size = n]
          PROVE  x = [size |-> n, pools |-> {}, todo |-> {}, hand |-> 0, got |-> 0, goal |-> 0,
                      retried |-> FALSE, granted |-> FALSE]
        BY Zenon, <2>1 DEF Idle
    <2> DEFINE c == [size |-> arb[t].size, pools |-> {}, todo |-> {}, hand |-> 0, got |-> 0, goal |-> 0,
                     retried |-> FALSE, granted |-> FALSE]
    <2>2. b = c
        BY ZenonT(30), <1>3, <2>1
    <2>b. ASSUME NEW n \in Nat
          PROVE  [size |-> n, pools |-> {}, todo |-> {}, hand |-> 0, got |-> 0, goal |-> 0,
                  retried |-> FALSE, granted |-> FALSE] \in ArbRecord
        BY <2>b DEF ArbRecord
    <2>3. c \in ArbRecord /\ c.size = arb[t].size /\ c.pools = {} /\ c.todo = {}
        BY ZenonT(30), <1>3, <2>b
    <2>4. ~c.granted
        BY Zenon
    <2> HIDE DEF b, c
    <2> QED
        BY Zenon, <2>2, <2>3, <2>4
<1> HIDE DEF b
<1>5. NoReclaim \in ReclaimRecord
    BY Zenon, NoReclaimTyped
<1>6. Types'
    BY Zenon, <1>1, <1>2, <1>4, <1>5 DEF Types, poolVars
<1>7. PICK l \in {"grown", "closing"} :
        \/ pc' = [pc EXCEPT ![t] = l]
        \/ /\ waitPromises # <<>> /\ pc' = [pc EXCEPT ![t] = l, ![Latest] = "check"]
    BY Zenon DEF FinishArbitration
<1>8. waitPromises # <<>> => Latest \in Tasks /\ pc[Latest] = "wait" /\ Latest # t
    <2>1. waitPromises \in Seq(Tasks) /\ IsInjective(waitPromises)
          /\ Range(waitPromises) = {u \in Tasks : pc[u] = "wait"}
        BY Zenon DEF QueueInv, QueueTypes, Serialized
    <2>2. waitPromises # <<>> => Latest \in Range(waitPromises)
        BY ZenonT(30), <2>1, FrontFacts DEF Latest, Last
    <2> QED
        BY Zenon, <1>1, <2>1, <2>2
<1>9. \A u \in Tasks \ {t} : pc'[u] = pc[u] \/ (pc[u] = "wait" /\ pc'[u] = "check")
    BY Zenon, <1>1, <1>7, <1>8
<1>10. pc'[t] = l
    BY Zenon, <1>1, <1>7, <1>8
<1>11. \A u \in Tasks \ {t} : arb'[u] = arb[u] /\ rc'[u] = rc[u] /\ stats'[u] = stats[u]
    BY Zenon, <1>1, <1>2 DEF Types
<1>12. arb'[t] = b
    BY Zenon, <1>1, <1>2 DEF Types
<1>13. Local(t)'
    <2>1. Known(t)'
        BY ZenonT(30), <1>1, <1>2, <1>3, <1>4, <1>10, <1>12 DEF Local, Known, Arbitrating, Reclaiming, poolVars
    <2> QED
        BY Zenon, <1>10, <2>1 DEF Local, Reclaims, Grows, Reclaiming
<1>14. ASSUME NEW u \in Tasks \ {t}, pc'[u] = pc[u] PROVE Local(u)'
    <2>1. capacity' \in [Pools -> Int] /\ \A x \in Pools : capacity'[x] <= capacity[x]
        BY <1>1, <1>2 DEF Types, poolVars
    <2> QED
        BY ZenonT(30), <1>1, <1>2, <1>11, <1>14, <2>1, LocalStays DEF Inv, poolVars
<1>15. ASSUME NEW u \in Tasks \ {t}, pc'[u] # pc[u] PROVE Local(u)'
    <2>1. pc[u] = "wait" /\ pc'[u] = "check" /\ arb'[u] = arb[u] /\ Local(u)
        BY ZenonT(30), <1>9, <1>11, <1>15 DEF Inv
    <2>2. Known(u)'
        BY ZenonT(30), <1>2, <2>1 DEF Local, Known, poolVars
    <2> QED
        BY ZenonT(30), <2>1, <2>2 DEF Local, Reclaims, Grows, Reclaiming
<1>16. Fresh' /\ Covered' /\ WithinMax'
    <2>1. \A x \in Pools : reserved[x] <= capacity[x]
        BY Zenon, <1>1, NoSpill
    <2> QED
        BY ZenonT(30), <1>2, <2>1 DEF Inv, Fresh, Covered, WithinMax, poolVars
<1> QED
    BY ZenonT(30), <1>4, <1>6, <1>12, <1>13, <1>14, <1>15, <1>16 DEF Inv

-----------------------------------------------------------------------------
(* The theorems *)

(* The invariant holds when nothing has been created yet. *)
LEMMA InitInv == Init => Inv
<1> SUFFICES ASSUME Init PROVE Inv
    BY Zenon
<1>1. Idle \in ArbRecord /\ Idle.todo = {} /\ Idle.pools = {}
    BY DEF Idle, ArbRecord
<1>2. NoReclaim \in ReclaimRecord
    BY Zenon, NoReclaimTyped
<1>3. Types
    BY <1>1, <1>2, ArbitratorAssumption DEF Init, Types
<1>4. Fresh /\ Covered /\ WithinMax
    BY ArbitratorAssumption DEF Init, Fresh, Covered, WithinMax
<1>5. \A t \in Tasks : pc[t] = "idle" /\ arb[t] = Idle
    BY Zenon DEF Init
<1>6. \A t \in Tasks : Local(t)
    BY ZenonT(30), <1>1, <1>5 DEF Local, Known, Reclaims, Grows, Arbitrating, Reclaiming
<1> QED
    BY Zenon, <1>3, <1>4, <1>6 DEF Inv

(* Every step keeps it. *)
LEMMA NextInv ==
    ASSUME QueueInv, Inv, [Next]_vars
    PROVE  Inv'
<1>1. ASSUME NEW t \in Tasks, Arbitrate(t) PROVE Inv'
    BY ZenonT(30), <1>1, CheckKept, StatsKept, ShrinkCandidateKept, FreeReclaimedKept, ReclaimCandidateKept,
       UsedReclaimedKept, HandleOOMKept, ShrinksKept, ReclaimTaskKept, ReclaimFailsKept, SpillKept,
       AbortTaskKeepsInv, AbortDoneKept, ReclaimedKept, FinishKeepsInv DEF Arbitrate
<1>2. CASE UNCHANGED vars
    BY ZenonT(30), <1>2, StutterKeepsInv
<1> QED
    BY Zenon, <1>1, <1>2, AsksKept, ReleasesKept, StartKeepsInv, PoolsComeAndGo DEF Next, Done

(* The inductive invariant holds in every state. *)
LEMMA InvAlways == Spec => [](QueueInv /\ Inv)
<1>1. Init => QueueInv /\ Inv
    BY ZenonT(30), InitQueue, InitInv
<1>2. QueueInv /\ Inv /\ [Next]_vars => (QueueInv /\ Inv)'
    BY ZenonT(30), NextQueue, NextInv
<1> QED
    BY <1>1, <1>2, PTL DEF Spec

(* Whatever the candidates' statistics said and whatever other tasks do      *)
(* meanwhile, no query's capacity exceeds its maximum, none overuses its     *)
(* capacity outside a spill, and the checks in the arbitrator hold.          *)
THEOREM ArbitrationSafe == Spec => [](WithinMax /\ OveruseOnlyInSpill /\ ArbitrationChecks)
<1>1. Inv => OveruseOnlyInSpill
    BY ZenonT(30) DEF Inv, Covered, OveruseOnlyInSpill
<1>2. Inv => ArbitrationChecks
    BY Zenon DEF Inv, Local, Grows, ArbitrationChecks
<1>3. Inv => WithinMax
    BY Zenon DEF Inv
<1> QED
    BY <1>1, <1>2, <1>3, InvAlways, PTL

(* A grant covers the request: of the steps only the grants set granted. *)
THEOREM GrantsFit == Spec => GrantFits
<1> DEFINE Fits(t) == arb'[t].granted /\ ~arb[t].granted =>
                          capacity'[PoolOf[t]] - reserved'[PoolOf[t]] >= arb[t].size
<1>1. ASSUME QueueInv, Inv, Next PROVE \A t \in Tasks : Fits(t)
    <2>1. arb \in [Tasks -> ArbRecord]
        BY ZenonT(30), <1>1 DEF Inv, Types
    <2>2. ASSUME arb' = arb PROVE \A t \in Tasks : Fits(t)
        BY Zenon, <2>2
    <2>3. ASSUME NEW t \in Tasks, Fits(t), \A u \in Tasks \ {t} : arb'[u] = arb[u]
          PROVE  \A u \in Tasks : Fits(u)
        BY ZenonT(30), <2>3
    <2>4. ASSUME NEW t \in Tasks, Ask(t) \/ Retry(t) \/ StartArbitration(t) PROVE \A u \in Tasks : Fits(u)
        <3>1. PICK b : (arb' = arb \/ arb' = [arb EXCEPT ![t] = b]) /\ ~b.granted
            <4>1. ~Idle.granted
                BY Zenon DEF Idle
            <4>2. \A n \in Nat : ~Request(n, {q \in Pools : pools[q] = "live"}).granted
                BY ZenonT(30), IdleFacts
            <4>3. \E n \in Nat : \/ arb' = arb \/ arb' = [arb EXCEPT ![t] = Idle]
                                 \/ arb' = [arb EXCEPT ![t] = Request(n, {q \in Pools : pools[q] = "live"})]
                <5>1. Sizes \subseteq Nat /\ arb[t].size \in Nat
                    BY Zenon, <2>1, ArbitratorAssumption DEF ArbRecord
                <5> QED
                    BY ZenonT(30), <2>4, <5>1 DEF Ask, Retry, StartArbitration, Reserve, Request
            <4> QED
                BY ZenonT(30), <4>1, <4>2, <4>3
        <3>2. (\A u \in Tasks \ {t} : arb'[u] = arb[u]) /\ (arb'[t] = arb[t] \/ arb'[t] = b)
            BY Zenon, <2>1, <3>1
        <3> QED
            BY ZenonT(30), <3>1, <3>2
    <2>5. ASSUME NEW t \in Tasks, Stats(t) \/ FreeReclaimed(t) \/ UsedReclaimed(t)
          PROVE  \A u \in Tasks : Fits(u)
        <3>1. Fits(t)
            BY ZenonT(30), <1>1, <2>5, StatsKept, FreeReclaimedKept, UsedReclaimedKept
        <3>2. \E b : arb' = [arb EXCEPT ![t] = b]
            BY Zenon, <2>5 DEF Stats, FreeReclaimed, UsedReclaimed, Grow
        <3>3. \A u \in Tasks \ {t} : arb'[u] = arb[u]
            BY Zenon, <2>1, <3>2
        <3> QED
            BY ZenonT(30), <2>3, <3>1, <3>3
    <2>6. ASSUME NEW t \in Tasks, \/ ShrinkCandidate(t) \/ ReclaimCandidate(t) \/ HandleOOM(t)
                                  \/ Reclaimed(t) \/ FinishArbitration(t)
          PROVE  \A u \in Tasks : Fits(u)
        <3>1. arb'[t].granted = arb[t].granted \/ ~arb'[t].granted
            BY ZenonT(30), <1>1, <2>6, ShrinkCandidateKept, ReclaimCandidateKept, HandleOOMKept, ReclaimedKept,
               FinishKeepsInv
        <3>2. arb' = arb \/ \E b : arb' = [arb EXCEPT ![t] = b]
            BY Zenon, <2>6 DEF ShrinkCandidate, ReclaimCandidate, HandleOOM, Reclaimed, FinishArbitration
        <3>3. \A u \in Tasks \ {t} : arb'[u] = arb[u]
            BY Zenon, <2>1, <3>2
        <3> QED
            BY Zenon, <2>3, <3>1, <3>3
    <2>7. ASSUME NEW t \in Tasks,
                 \/ Check(t) \/ ReclaimShrink(t) \/ ReclaimTask(t) \/ PauseTimesOut(t) \/ Spill(t)
                 \/ SpillFails(t) \/ SpillShrink(t) \/ AbortTask(t) \/ AbortDone(t)
          PROVE  arb' = arb
        BY ZenonT(30), <2>7 DEF Check, ReclaimShrink, ReclaimTask, PauseTimesOut, Spill, SpillFails, SpillShrink,
                    AbortTask, AbortDone, ReclaimFails
    <2>8. ASSUME NEW p \in Pools, AddRootPool(p) \/ DropPool(p) PROVE arb' = arb
        BY ZenonT(30), <2>8 DEF AddRootPool, DropPool
    <2>9. ASSUME NEW t \in Tasks, Release(t) \/ Close(t) PROVE arb' = arb
        BY ZenonT(30), <2>9 DEF Release, Close
    <2>10. Done => arb' = arb
        BY Zenon DEF Done, vars
    <2> HIDE DEF Fits
    <2> QED
        BY ZenonT(30), <1>1, <2>2, <2>4, <2>5, <2>6, <2>7, <2>8, <2>9, <2>10 DEF Next, Arbitrate
<1>2. QueueInv /\ Inv /\ [Next]_vars => [\A t \in Tasks : Fits(t)]_vars
    BY Zenon, <1>1
<1> QED
    BY <1>2, InvAlways, PTL DEF Spec, GrantFits

(* A step that takes n from one pool *)
LEMMA Takes ==
    ASSUME Types, NEW q \in Pools, NEW n \in Nat, capacity' = [capacity EXCEPT ![q] = @ - n]
    PROVE  \A p \in Pools : capacity'[p] <= capacity[p]
BY DEF Types

(* An aborted pool never grows, neither by a request that was queued before *)
(* the abort nor by the one that runs.                                      *)
THEOREM AbortedStaysSmall == Spec => AbortedNeverGrows
<1> DEFINE NoneGrows == \A p \in aborted : capacity'[p] <= capacity[p]
<1>1. ASSUME QueueInv, Inv, Next PROVE NoneGrows
    <2>0. Types /\ Fresh /\ aborted \subseteq Pools /\ \A p \in Pools : capacity[p] \in Int
        BY Zenon, <1>1 DEF Inv, Types
    <2>1. ASSUME capacity' = capacity PROVE NoneGrows
        BY <2>0, <2>1
    <2>2. ASSUME NEW q \in Pools, NEW n \in Nat, capacity' = [capacity EXCEPT ![q] = @ - n] PROVE NoneGrows
        BY Zenon, <2>0, <2>2, Takes
    <2>3. ASSUME NEW q \in Pools \ aborted, NEW n, capacity' = [capacity EXCEPT ![q] = n] PROVE NoneGrows
        BY <2>0, <2>3 DEF Types
    <2>4. ASSUME NEW p \in Pools, AddRootPool(p) PROVE NoneGrows
        <3>1. p \notin aborted
            BY Zenon, <2>0, <2>4 DEF AddRootPool, Fresh
        <3>2. \E n : capacity' = [capacity EXCEPT ![p] = n]
            BY Zenon, <2>4 DEF AddRootPool
        <3> QED
            BY Zenon, <2>3, <3>1, <3>2
    <2>5. ASSUME NEW p \in Pools, DropPool(p) PROVE NoneGrows
        <3>1. capacity' = [capacity EXCEPT ![p] = @ - Shrunk(p, 0)] /\ Shrunk(p, 0) \in Nat
            BY Zenon, <2>0, <2>5, ShrunkFacts DEF DropPool
        <3> QED
            BY ZenonT(30), <2>2, <3>1
    <2>6. ASSUME NEW t \in Tasks, Stats(t) \/ FreeReclaimed(t) \/ UsedReclaimed(t) PROVE NoneGrows
        <3>1. Local(t) /\ PoolOf[t] \in Pools
            BY Zenon, <1>1, Typed
        <3>2. capacity' # capacity => PoolOf[t] \notin aborted
            BY Zenon, <2>6, <3>1 DEF Local, Grows, Stats, FreeReclaimed, UsedReclaimed
        <3>3. capacity' = capacity \/ \E n : capacity' = [capacity EXCEPT ![PoolOf[t]] = n]
            BY Zenon, <2>6 DEF Stats, FreeReclaimed, UsedReclaimed, Grow
        <3> QED
            BY Zenon, <2>1, <2>3, <3>1, <3>2, <3>3
    <2>7. ASSUME NEW t \in Tasks, ShrinkCandidate(t) PROVE NoneGrows
        <3> DEFINE a == arb[t]
                   target(q) == Lesser(a.goal - a.hand - a.got, stats[t][q].free)
        <3>1. Local(t) /\ a \in ArbRecord /\ pc[t] = "free"
            BY ZenonT(30), <1>1, <2>7, Typed DEF ShrinkCandidate
        <3>2. PICK q \in a.todo : capacity' = [capacity EXCEPT ![q] = @ - Shrunk(q, target(q))]
            BY ZenonT(30), <2>7 DEF ShrinkCandidate
        <3>3. q \in Pools /\ a.goal \in Int /\ a.hand \in Nat /\ a.got \in Nat /\ stats[t][q].free \in Nat
              /\ a.got < a.goal - a.hand
            BY ZenonT(30), <2>7, <3>1 DEF ArbRecord, Local, Grows, ShrinkCandidate
        <3>4. target(q) \in Nat
            BY <3>3 DEF Lesser
        <3>5. Shrunk(q, target(q)) \in Nat
            BY ZenonT(30), <2>0, <3>3, <3>4, ShrunkFacts
        <3> HIDE DEF target
        <3> QED
            BY Zenon, <2>2, <3>2, <3>3, <3>5
    <2>8. ASSUME NEW t \in Tasks, ReclaimShrink(t) \/ SpillShrink(t) \/ ReclaimTask(t) \/ AbortDone(t)
          PROVE  NoneGrows
        <3> DEFINE q == rc[t].pool
        <3>1. pc[t] \in {"shrink", "spilled", "task", "abort"} /\ pc[t] \in Reclaiming
            BY Zenon, <2>8 DEF ReclaimShrink, SpillShrink, ReclaimTask, AbortDone, Reclaiming
        <3>a. q \in Pools /\ rc[t].want \in Int
            BY <1>1, <3>1, VictimFacts, Zenon
        <3>b. Local(t)
            BY <1>1, Typed, Zenon
        <3>c. pc[t] # "abort" => rc[t].want > 0
            BY ZenonT(30), <3>1, <3>b DEF Local, Reclaims
        <3>2. q \in Pools /\ (pc[t] # "abort" => rc[t].want \in Nat) /\ 0 \in Nat
            BY <3>a, <3>c
        <3>3. Shrunk(q, 0) \in Nat /\ FreeBytes(q) \in Nat /\ (pc[t] # "abort" => Shrunk(q, rc[t].want) \in Nat)
            BY ZenonT(30), <2>0, <3>2, ShrunkFacts
        <3>4. \/ capacity' = capacity
              \/ capacity' = [capacity EXCEPT ![q] = @ - Shrunk(q, 0)]
              \/ capacity' = [capacity EXCEPT ![q] = @ - FreeBytes(q)]
              \/ pc[t] # "abort" /\ capacity' = [capacity EXCEPT ![q] = @ - Shrunk(q, rc[t].want)]
            BY ZenonT(30), <2>8 DEF ReclaimShrink, SpillShrink, ReclaimTask, AbortDone, ShrinkTowards
        <3> QED
            BY ZenonT(30), <2>1, <2>2, <3>2, <3>3, <3>4
    <2>9. ASSUME NEW t \in Tasks,
                 \/ Ask(t) \/ Retry(t) \/ Release(t) \/ Close(t) \/ StartArbitration(t)
                 \/ Check(t) \/ ReclaimCandidate(t) \/ HandleOOM(t) \/ PauseTimesOut(t) \/ Spill(t)
                 \/ SpillFails(t) \/ AbortTask(t) \/ Reclaimed(t) \/ FinishArbitration(t)
          PROVE  capacity' = capacity
        BY Zenon, <2>9 DEF Ask, Retry, Release, Close, StartArbitration, Check, ReclaimCandidate, HandleOOM,
                    PauseTimesOut, Spill, SpillFails, AbortTask, Reclaimed, FinishArbitration,
                    ReclaimFails, poolVars
    <2>10. Done => capacity' = capacity
        BY Zenon DEF Done, vars
    <2> HIDE DEF NoneGrows
    <2> QED
        BY ZenonT(30), <1>1, <2>1, <2>4, <2>5, <2>6, <2>7, <2>8, <2>9, <2>10 DEF Next, Arbitrate
<1>2. QueueInv /\ Inv /\ [Next]_vars => [NoneGrows]_vars
    BY Zenon, <1>1
<1> QED
    BY <1>2, InvAlways, PTL DEF Spec, AbortedNeverGrows
-----------------------------------------------------------------------------
(* The balance.                                                            *)

(* Only a thread inside a round has bytes in its hands, and the pool of a  *)
(* query that handleOOM aborts keeps its capacity until the abort is done. *)
Transit(t) ==
    /\ pc[t] \notin {"free", "used"} /\ ~(pc[t] \in Reclaiming /\ rc[t].caller = "used") =>
          arb[t].hand = 0 /\ arb[t].got = 0
    /\ pc[t] \in Reclaiming /\ rc[t].caller = "oom" => capacity[rc[t].pool] = rc[t].old

TransitInv == \A t \in Tasks : Transit(t)

transit == [t \in Tasks |-> InTransit(t)]

(* The folds of CapacityConserved are sums. *)
LEMMA ConservedSum ==
    Types => (CapacityConserved <=>
                freeCapacity + Sum(capacity, Pools) + Sum(transit, Tasks) = Capacity)
<1> SUFFICES ASSUME Types
             PROVE  CapacityConserved <=>
                        freeCapacity + Sum(capacity, Pools) + Sum(transit, Tasks) = Capacity
    BY Zenon
<1>1. DOMAIN capacity = Pools /\ DOMAIN [t \in Tasks |-> InTransit(t)] = Tasks
    BY Zenon DEF Types
<1> QED
    BY <1>1, Zenon DEF CapacityConserved, transit, Sum, FoldFunction

(* What is on its way is a number. *)
LEMMA TransitType == QueueInv /\ Inv => \A t \in Tasks : InTransit(t) \in Int
<1> SUFFICES ASSUME QueueInv, Inv, NEW t \in Tasks PROVE InTransit(t) \in Int
    BY ZenonT(30)
<1>1. arb[t].hand \in Nat /\ arb[t].got \in Nat
    BY ZenonT(30), Typed DEF ArbRecord
<1>2. pc[t] \in Reclaiming => rc[t].old \in Int /\ capacity[rc[t].pool] \in Int
    BY ZenonT(30), VictimFacts
<1> QED
    BY <1>1, <1>2 DEF InTransit

(* The steps that move bytes between the arbitrator, one pool and one      *)
(* thread.                                                                 *)
PoolPays(p, before, after) ==
    /\ \A q \in Pools \ {p} : capacity'[q] = capacity[q]
    /\ freeCapacity' + capacity'[p] + after = freeCapacity + capacity[p] + before

(* They keep the balance. *)
LEMMA Balanced ==
    ASSUME QueueInv, Inv, QueueInv', Inv', CapacityConserved, NEW p \in Pools,
           \/ PoolPays(p, 0, 0) /\ \A u \in Tasks : InTransit(u)' = InTransit(u)
           \/ \E t \in Tasks : /\ PoolPays(p, InTransit(t), InTransit(t)')
                               /\ \A u \in Tasks \ {t} : InTransit(u)' = InTransit(u)
    PROVE  CapacityConserved'
<1>1. IsFiniteSet(Pools) /\ IsFiniteSet(Tasks) /\ Capacity \in Int
    BY FiniteAssumption, ArbitratorAssumption
<1>2. /\ \A q \in Pools : capacity[q] \in Int /\ capacity'[q] \in Int
      /\ freeCapacity \in Int /\ freeCapacity' \in Int
    BY DEF Inv, Types
<1>3. (QueueInv /\ Inv => \A t \in Tasks : InTransit(t) \in Int)'
    BY TransitType, PTL
<1>4. \A u \in Tasks : /\ transit[u] = InTransit(u) /\ transit'[u] = InTransit(u)'
                       /\ transit[u] \in Int /\ transit'[u] \in Int
    BY ZenonT(30), <1>3, TransitType DEF transit
<1>5. /\ Sum(capacity, Pools) \in Int /\ Sum(capacity', Pools) \in Int
      /\ Sum(capacity', Pools) = Sum(capacity, Pools) - capacity[p] + capacity'[p]
  <2>1. \A q \in Pools \ {p} : capacity'[q] = capacity[q]
      BY Zenon DEF PoolPays
  <2> QED
      BY <1>1, <1>2, <2>1, SumChange
<1>6. freeCapacity + Sum(capacity, Pools) + Sum(transit, Tasks) = Capacity
    BY Zenon, ConservedSum DEF Inv
<1>7. freeCapacity' + Sum(capacity', Pools) + Sum(transit', Tasks) = Capacity
  <2>1. CASE PoolPays(p, 0, 0) /\ \A u \in Tasks : InTransit(u)' = InTransit(u)
    <3>1. Sum(transit', Tasks) = Sum(transit, Tasks) /\ Sum(transit, Tasks) \in Int
        BY <1>1, <1>4, <2>1, SumSame, SumType
    <3> QED
        BY <1>1, <1>2, <1>5, <1>6, <2>1, <3>1 DEF PoolPays
  <2>2. ASSUME NEW t \in Tasks, PoolPays(p, InTransit(t), InTransit(t)'),
               \A u \in Tasks \ {t} : InTransit(u)' = InTransit(u)
        PROVE  freeCapacity' + Sum(capacity', Pools) + Sum(transit', Tasks) = Capacity
    <3>1. /\ Sum(transit, Tasks) \in Int /\ Sum(transit', Tasks) \in Int
          /\ Sum(transit', Tasks) = Sum(transit, Tasks) - transit[t] + transit'[t]
        BY <1>1, <1>4, <2>2, SumChange
    <3>2. /\ freeCapacity' + capacity'[p] + transit'[t] = freeCapacity + capacity[p] + transit[t]
          /\ transit[t] \in Int /\ transit'[t] \in Int
        BY Zenon, <1>4, <2>2 DEF PoolPays
    <3> QED
        BY <1>1, <1>2, <1>5, <1>6, <3>1, <3>2
  <2> QED
      BY Zenon, <2>1, <2>2
<1>8. (Types => (CapacityConserved <=>
                    freeCapacity + Sum(capacity, Pools) + Sum(transit, Tasks) = Capacity))'
    BY ConservedSum, PTL
<1> QED
    BY ZenonT(30), <1>7, <1>8 DEF Inv

-----------------------------------------------------------------------------
(* The bytes in the hands of a thread, step by step.                       *)

(* A thread outside a round has nothing in its hands. *)
LEMMA TransitQuiet ==
    ASSUME NEW u \in Tasks, Transit(u),
           pc[u] \notin {"free", "used"} \cup Reclaiming, pc'[u] \notin {"free", "used"} \cup Reclaiming,
           (arb'[u].hand = arb[u].hand /\ arb'[u].got = arb[u].got)
             \/ (arb'[u].hand = 0 /\ arb'[u].got = 0)
    PROVE  Transit(u)' /\ InTransit(u)' = InTransit(u)
    BY ZenonT(30) DEF Transit, InTransit

(* Whoever is not arbitrating has nothing in its hands. *)
LEMMA OthersQuiet ==
    ASSUME QueueInv, TransitInv, NEW t \in Tasks, pc[t] \in Arbitrating, Alone(t)
    PROVE  \A u \in Tasks \ {t} : Transit(u)' /\ InTransit(u)' = InTransit(u)
<1> SUFFICES ASSUME NEW u \in Tasks \ {t} PROVE Transit(u)' /\ InTransit(u)' = InTransit(u)
    BY ZenonT(30)
<1>1. pc[u] \notin Arbitrating
    BY ZenonT(30) DEF QueueInv, Serialized
<1>2. pc[u] \notin {"free", "used"} \cup Reclaiming
    BY ZenonT(30), <1>1 DEF Arbitrating
<1>3. pc'[u] = pc[u] /\ arb'[u] = arb[u]
    BY ZenonT(30) DEF Alone
<1> QED
    BY ZenonT(30), <1>2, <1>3, TransitQuiet DEF TransitInv

(* A step of a reclaim moves bytes from the pool into the thread's hands. *)
LEMMA TransitReclaim ==
    ASSUME QueueInv, Inv, Inv', NEW t \in Tasks, Transit(t),
           pc[t] \in Reclaiming, pc'[t] \in Reclaiming, arb'[t] = arb[t], freeCapacity' = freeCapacity,
           rc'[t].pool = rc[t].pool, rc'[t].old = rc[t].old, rc'[t].caller = rc[t].caller,
           \A q \in Pools \ {rc[t].pool} : capacity'[q] = capacity[q],
           rc[t].caller = "oom" => capacity' = capacity
    PROVE  Transit(t)' /\ PoolPays(rc[t].pool, InTransit(t), InTransit(t)') /\ rc[t].pool \in Pools
<1>1. rc[t].pool \in Pools /\ rc[t].old \in Int
    BY Zenon, VictimFacts
<1>2. /\ capacity[rc[t].pool] \in Int /\ capacity'[rc[t].pool] \in Int /\ freeCapacity \in Int
      /\ arb[t].hand \in Nat /\ arb[t].got \in Nat
    BY <1>1, Typed DEF Inv, Types, ArbRecord
<1>3. Transit(t)'
    BY Zenon DEF Transit, Reclaiming
<1> QED
    BY <1>1, <1>2, <1>3 DEF PoolPays, InTransit

(* What every step does. *)
Moved ==
    \E p \in Pools :
        \/ PoolPays(p, 0, 0) /\ \A u \in Tasks : InTransit(u)' = InTransit(u)
        \/ \E t \in Tasks : /\ PoolPays(p, InTransit(t), InTransit(t)')
                            /\ \A u \in Tasks \ {t} : InTransit(u)' = InTransit(u)

(* A step of the arbitrating thread. *)
LEMMA ArbPays ==
    ASSUME QueueInv, TransitInv, NEW t \in Tasks, pc[t] \in Arbitrating, Alone(t), Transit(t)',
           NEW p \in Pools, PoolPays(p, InTransit(t), InTransit(t)')
    PROVE  TransitInv' /\ Moved
    BY OthersQuiet, Zenon DEF TransitInv, Moved

(* A step in which nobody's bytes change. *)
LEMMA NobodyPays ==
    ASSUME Inv, NEW p \in Pools, \A u \in Tasks : Transit(u)' /\ InTransit(u)' = InTransit(u),
           UNCHANGED <<capacity, freeCapacity>>
    PROVE  TransitInv' /\ Moved
<1>1. PoolPays(p, 0, 0)
    BY ZenonT(30) DEF PoolPays
<1> QED
    BY <1>1, Zenon DEF TransitInv, Moved

(* A request that has just been made has got nothing. *)
LEMMA RequestEmpty ==
    /\ Idle.hand = 0 /\ Idle.got = 0
    /\ \A n, S : Request(n, S).hand = 0 /\ Request(n, S).got = 0
<1>1. Idle.hand = 0 /\ Idle.got = 0
    BY Zenon DEF Idle
<1>2. ASSUME NEW n, NEW S PROVE Request(n, S).hand = 0 /\ Request(n, S).got = 0
  <2>1. ASSUME NEW r, r = [Idle EXCEPT !.size = n, !.pools = S]
        PROVE  r = [size |-> n, pools |-> S, todo |-> {}, hand |-> 0, got |-> 0, goal |-> 0,
                    retried |-> FALSE, granted |-> FALSE]
      BY <2>1, Zenon DEF Idle
  <2>2. Request(n, S) = [size |-> n, pools |-> S, todo |-> {}, hand |-> 0, got |-> 0, goal |-> 0,
                         retried |-> FALSE, granted |-> FALSE]
      BY <2>1, Zenon DEF Request
  <2> QED
      BY <2>2
<1> QED
    BY ZenonT(30), <1>1, <1>2

(* Reservations, and the way into the arbitrator. *)
LEMMA OutsidePays ==
    ASSUME QueueInv, Inv, TransitInv, NEW t \in Tasks,
           Ask(t) \/ Retry(t) \/ Release(t) \/ Close(t) \/ StartArbitration(t)
    PROVE  TransitInv' /\ Moved
<1>1. Types /\ PoolOf[t] \in Pools /\ pc \in [Tasks -> Outside \cup {"wait"} \cup Arbitrating]
    BY ZenonT(30), Typed
<1>2. UNCHANGED <<capacity, freeCapacity, rc>>
    BY ZenonT(30) DEF Ask, Retry, Release, Close, StartArbitration, poolVars
<1>3. /\ \A u \in Tasks \ {t} : pc'[u] = pc[u] /\ arb'[u] = arb[u]
      /\ pc[t] \notin {"free", "used"} \cup Reclaiming
      /\ pc'[t] \notin {"free", "used"} \cup Reclaiming
      /\ arb'[t] = arb[t] \/ (arb'[t].hand = 0 /\ arb'[t].got = 0)
  <2>1. CASE Ask(t) \/ Retry(t)
    <3>1. pc[t] \in {"idle", "grown"} /\ arb[t].size \in Nat /\ Sizes \subseteq Nat
        BY ZenonT(30), <1>1, <2>1, ArbitratorAssumption DEF Ask, Retry, Types, ArbRecord
    <3>2. PICK n \in Nat : Reserve(t, n)
        BY ZenonT(30), <2>1, <3>1 DEF Ask, Retry
    <3>3. PICK l \in Outside : pc' = [pc EXCEPT ![t] = l]
        BY ZenonT(30), <3>2 DEF Reserve, Outside
    <3>4. \/ arb' = [arb EXCEPT ![t] = Idle]
          \/ arb' = [arb EXCEPT ![t] = Request(n, {q \in Pools : pools[q] = "live"})]
        BY <3>2, ZenonT(30) DEF Reserve, Request
    <3>5. /\ Idle.hand = 0 /\ Idle.got = 0
          /\ Request(n, {q \in Pools : pools[q] = "live"}).hand = 0
          /\ Request(n, {q \in Pools : pools[q] = "live"}).got = 0
        BY ZenonT(30), RequestEmpty
    <3> QED
        BY ZenonT(30), <1>1, <3>1, <3>3, <3>4, <3>5 DEF Outside, Reclaiming, Types
  <2>2. CASE Release(t) \/ Close(t)
      BY ZenonT(30), <1>1, <2>2 DEF Release, Close, Reclaiming
  <2>3. CASE StartArbitration(t)
    <3>1. \E b, l : /\ arb' = [arb EXCEPT ![t] = b] /\ (b = arb[t] \/ (b.hand = 0 /\ b.got = 0))
                    /\ pc' = [pc EXCEPT ![t] = l] /\ l \in {"closing", "wait", "check"}
        BY <1>1, <2>3 DEF StartArbitration, Idle, Types
    <3> QED
        BY ZenonT(30), <1>1, <2>3, <3>1 DEF StartArbitration, Reclaiming, Types
  <2> QED
      BY ZenonT(30), <2>1, <2>2, <2>3
<1>4. ASSUME NEW u \in Tasks PROVE Transit(u)' /\ InTransit(u)' = InTransit(u)
  <2>1. CASE u = t
      BY Zenon, <1>3, <2>1, TransitQuiet DEF TransitInv
  <2>2. CASE u # t
      BY ZenonT(30), <1>2, <1>3, <2>2 DEF TransitInv, Transit, InTransit
  <2> QED
      BY Zenon, <2>1, <2>2
<1> QED
    BY ZenonT(30), <1>1, <1>2, <1>4, NobodyPays

(* A query begins with some of the free capacity, and gives back all that  *)
(* is free when it is dropped.                                             *)
LEMMA RootPoolPays ==
    ASSUME QueueInv, Inv, Inv', TransitInv, NEW p \in Pools, AddRootPool(p) \/ DropPool(p)
    PROVE  TransitInv' /\ Moved
<1>1. Types /\ Types' /\ capacity[p] \in Int /\ freeCapacity \in Int
    BY DEF Inv, Types
<1>2. UNCHANGED <<pc, arb, rc>>
    BY Zenon DEF AddRootPool, DropPool
<1>3. PoolPays(p, 0, 0)
  <2>1. CASE AddRootPool(p)
    <3> DEFINE n == IF running THEN 0
                    ELSE Lesser(freeCapacity, Lesser(MaxCapacity[p], InitCapacity))
    <3>1. n \in Int
        BY <1>1, ArbitratorAssumption DEF Lesser
    <3>2. capacity' = [capacity EXCEPT ![p] = @ + n] /\ freeCapacity' = freeCapacity - n
        BY ZenonT(30), <2>1 DEF AddRootPool
    <3> HIDE DEF n
    <3> QED
        BY <1>1, <3>1, <3>2 DEF PoolPays, Types
  <2>2. CASE DropPool(p)
    <3> DEFINE n == Shrunk(p, 0)
    <3>1. n \in Int
        BY <1>1, ShrunkFacts
    <3>2. capacity' = [capacity EXCEPT ![p] = @ - n] /\ freeCapacity' = freeCapacity + n
        BY Zenon, <2>2 DEF DropPool
    <3> HIDE DEF n
    <3> QED
        BY <1>1, <3>1, <3>2 DEF PoolPays, Types
  <2> QED
      BY Zenon, <2>1, <2>2
<1>4. ASSUME NEW u \in Tasks, pc[u] \in Reclaiming PROVE capacity'[rc[u].pool] = capacity[rc[u].pool]
  <2>1. rc[u].pool \in Pools /\ pools[rc[u].pool] # "none" /\ Local(u)
      BY ZenonT(30), <1>4, VictimFacts, Typed
  <2>2. rc[u].pool \in arb[u].pools \cup {PoolOf[u]}
      BY ZenonT(30), <1>4, <2>1 DEF Local, Reclaims
  <2>3. rc[u].pool # p
    <3>1. pc[u] # "closed"
        BY ZenonT(30), <1>4 DEF Reclaiming
    <3> QED
        BY ZenonT(30), <2>1, <2>2, <3>1 DEF AddRootPool, DropPool
  <2> QED
      BY Zenon, <1>3, <2>1, <2>3 DEF PoolPays
<1>5. \A u \in Tasks : Transit(u)' /\ InTransit(u)' = InTransit(u)
    BY ZenonT(30), <1>2, <1>4 DEF TransitInv, Transit, InTransit
<1> QED
    BY <1>3, <1>5, Zenon DEF TransitInv, Moved

(* The steps of a reclaim. *)
LEMMA ReclaimPays ==
    ASSUME QueueInv, Inv, Inv', TransitInv, NEW t \in Tasks,
           \/ ReclaimShrink(t) \/ ReclaimTask(t) \/ PauseTimesOut(t) \/ Spill(t) \/ SpillFails(t)
           \/ SpillShrink(t) \/ (AbortDone(t) /\ rc[t].caller # "oom")
    PROVE  TransitInv' /\ Moved
<1>1. Types /\ Local(t) /\ pc \in [Tasks -> Outside \cup {"wait"} \cup Arbitrating]
      /\ rc[t] \in ReclaimRecord
    BY ZenonT(30), Typed
<1>2. pc[t] \in {"shrink", "task", "spill", "spilled", "abort"} /\ UNCHANGED <<arb, freeCapacity, stats>>
    BY ZenonT(30) DEF ReclaimShrink, ReclaimTask, PauseTimesOut, Spill, SpillFails, SpillShrink, AbortDone,
       ReclaimFails
<1>3. pc[t] \in Reclaiming /\ pc[t] \in Arbitrating /\ rc[t].caller # "oom"
    BY ZenonT(30), <1>1, <1>2 DEF Local, Reclaims, Reclaiming, Arbitrating, ReclaimShrink, ReclaimTask,
       PauseTimesOut, Spill, SpillFails, SpillShrink
<1>4. PICK l \in Reclaiming : pc' = [pc EXCEPT ![t] = l]
  <2>1. CASE ReclaimTask(t)
    <3>1. pc' = pc \/ pc' = [pc EXCEPT ![t] = "spill"] \/ \E b \in BOOLEAN :
              pc' = [pc EXCEPT ![t] = IF b THEN "task" ELSE "reclaimed"]
        BY <2>1, Zenon DEF ReclaimTask, ShrinkTowards
    <3> QED
        BY ZenonT(30), <1>1, <1>3, <3>1 DEF Reclaiming
  <2>2. CASE ~ReclaimTask(t)
      BY ZenonT(30), <2>2 DEF ReclaimShrink, PauseTimesOut, Spill, SpillFails, SpillShrink, AbortDone,
         ReclaimFails, StartAbort, ShrinkTowards, Reclaiming
  <2> QED
      BY ZenonT(30), <2>1, <2>2
<1>5. /\ \A u \in Tasks \ {t} : rc'[u] = rc[u]
      /\ rc'[t].pool = rc[t].pool /\ rc'[t].old = rc[t].old /\ rc'[t].caller = rc[t].caller
  <2>1. ASSUME NEW r, r.pool = rc[t].pool, r.old = rc[t].old, r.caller = rc[t].caller,
               rc' = [rc EXCEPT ![t] = r]
        PROVE  /\ \A u \in Tasks \ {t} : rc'[u] = rc[u]
               /\ rc'[t].pool = rc[t].pool /\ rc'[t].old = rc[t].old /\ rc'[t].caller = rc[t].caller
      BY ZenonT(30), <1>1, <2>1 DEF Types
  <2>2. ASSUME NEW f, ShrinkTowards(t, f)
        PROVE  /\ \A u \in Tasks \ {t} : rc'[u] = rc[u]
               /\ rc'[t].pool = rc[t].pool /\ rc'[t].old = rc[t].old /\ rc'[t].caller = rc[t].caller
    <3> DEFINE w == rc[t].want - Shrunk(rc[t].pool, rc[t].want)
               r == [rc[t] EXCEPT !.want = w, !.left = f, !.task = NoTask]
    <3>1. rc' = [rc EXCEPT ![t] = r]
        BY <2>2, Zenon DEF ShrinkTowards
    <3> HIDE DEF w
    <3>2. r.pool = rc[t].pool /\ r.old = rc[t].old /\ r.caller = rc[t].caller
        BY ZenonT(30), <1>1 DEF ReclaimRecord
    <3> HIDE DEF r
    <3> QED
        BY ZenonT(30), <2>1, <3>1, <3>2
  <2>3. CASE ReclaimShrink(t) \/ SpillShrink(t)
      BY <2>2, <2>3, Zenon DEF ReclaimShrink, SpillShrink
  <2>4. CASE ReclaimTask(t)
    <3>1. PICK u \in rc[t].left :
              \/ rc' = [rc EXCEPT ![t] = [rc[t] EXCEPT !.left = rc[t].left \ {u}]]
              \/ ShrinkTowards(t, rc[t].left \ {u})
              \/ rc' = [rc EXCEPT ![t] = [rc[t] EXCEPT !.want = rc[t].want - FreeBytes(rc[t].pool),
                                                      !.task = u]]
        BY <2>4, ZenonT(30) DEF ReclaimTask
    <3>2. CASE rc' = [rc EXCEPT ![t] = [rc[t] EXCEPT !.left = rc[t].left \ {u}]]
      <4> DEFINE r == [rc[t] EXCEPT !.left = rc[t].left \ {u}]
      <4>1. r.pool = rc[t].pool /\ r.old = rc[t].old /\ r.caller = rc[t].caller
          BY ZenonT(30), <1>1 DEF ReclaimRecord
      <4> HIDE DEF r
      <4> QED
          BY ZenonT(30), <2>1, <3>2, <4>1 DEF r
    <3>3. CASE ShrinkTowards(t, rc[t].left \ {u})
        BY ZenonT(30), <2>2, <3>3
    <3>4. CASE rc' = [rc EXCEPT ![t] = [rc[t] EXCEPT !.want = rc[t].want - FreeBytes(rc[t].pool),
                                                    !.task = u]]
      <4> DEFINE w == rc[t].want - FreeBytes(rc[t].pool)
                 r == [rc[t] EXCEPT !.want = w, !.task = u]
      <4>1. rc' = [rc EXCEPT ![t] = r]
          BY ZenonT(30), <3>4
      <4> HIDE DEF w
      <4>2. r.pool = rc[t].pool /\ r.old = rc[t].old /\ r.caller = rc[t].caller
          BY ZenonT(30), <1>1 DEF ReclaimRecord
      <4> HIDE DEF r
      <4> QED
          BY ZenonT(30), <2>1, <4>1, <4>2
    <3> QED
        BY ZenonT(30), <3>1, <3>2, <3>3, <3>4
  <2>5. CASE PauseTimesOut(t) \/ SpillFails(t)
    <3> DEFINE f == IF rc[t].pool \in aborted THEN {} ELSE Members(rc[t].pool)
               r == [rc[t] EXCEPT !.task = NoTask, !.left = f]
    <3>1. rc' = [rc EXCEPT ![t] = r]
        BY ZenonT(30), <2>5 DEF PauseTimesOut, SpillFails, ReclaimFails
    <3> HIDE DEF f
    <3>2. r.pool = rc[t].pool /\ r.old = rc[t].old /\ r.caller = rc[t].caller
        BY ZenonT(30), <1>1 DEF ReclaimRecord
    <3> HIDE DEF r
    <3> QED
        BY Zenon, <2>1, <3>1, <3>2
  <2>6. CASE Spill(t) \/ (AbortDone(t) /\ rc[t].caller # "oom")
      BY ZenonT(30), <2>6 DEF Spill, AbortDone
  <2> QED
      BY ZenonT(30), <2>3, <2>4, <2>5, <2>6
<1>6. \A q \in Pools \ {rc[t].pool} : capacity'[q] = capacity[q]
  <2>1. capacity' = capacity \/ \E n : capacity' = [capacity EXCEPT ![rc[t].pool] = n]
      BY Zenon DEF ReclaimShrink, ReclaimTask, PauseTimesOut, Spill, SpillFails, SpillShrink,
         AbortDone, ReclaimFails, ShrinkTowards
  <2> QED
      BY ZenonT(30), <1>1, <2>1 DEF Types
<1>7. Alone(t) /\ pc'[t] \in Reclaiming /\ arb'[t] = arb[t]
    BY ZenonT(30), <1>1, <1>2, <1>4, <1>5 DEF Alone, Types
<1>8. /\ Transit(t)' /\ PoolPays(rc[t].pool, InTransit(t), InTransit(t)') /\ rc[t].pool \in Pools
    BY ZenonT(30), <1>2, <1>3, <1>5, <1>6, <1>7, TransitReclaim DEF TransitInv
<1> QED
    BY ZenonT(30), <1>3, <1>7, <1>8, ArbPays

(* The abort of a task moves no capacity. *)
LEMMA AbortTaskPays ==
    ASSUME QueueInv, Inv, TransitInv, NEW t \in Tasks, AbortTask(t)
    PROVE  TransitInv' /\ Moved
<1>1. Types /\ PoolOf[t] \in Pools /\ pc \in [Tasks -> Outside \cup {"wait"} \cup Arbitrating]
      /\ rc[t] \in ReclaimRecord
    BY ZenonT(30), Typed
<1>2. UNCHANGED <<arb, capacity, freeCapacity>>
    BY ZenonT(30) DEF AbortTask
<1>3. /\ \A u \in Tasks \ {t} : rc'[u] = rc[u]
      /\ rc'[t].pool = rc[t].pool /\ rc'[t].old = rc[t].old /\ rc'[t].caller = rc[t].caller
  <2>1. PICK f : rc' = [rc EXCEPT ![t] = [rc[t] EXCEPT !.left = f]]
      BY Zenon DEF AbortTask
  <2>2. LET r == [rc[t] EXCEPT !.left = f]
        IN  r.pool = rc[t].pool /\ r.old = rc[t].old /\ r.caller = rc[t].caller
      BY ZenonT(30), <1>1 DEF ReclaimRecord
  <2> QED
      BY ZenonT(30), <1>1, <2>1, <2>2 DEF Types
<1>4. \A u \in Tasks : pc'[u] = pc[u] \/ (pc[u] = "idle" /\ pc'[u] = "closed")
    BY ZenonT(30), <1>1 DEF AbortTask
<1>5. ASSUME NEW u \in Tasks PROVE Transit(u)' /\ InTransit(u)' = InTransit(u)
  <2>1. CASE pc'[u] = pc[u]
      BY <1>2, <1>3, <2>1 DEF TransitInv, Transit, InTransit
  <2>2. CASE pc[u] = "idle" /\ pc'[u] = "closed"
      BY Zenon, <1>2, <2>2, TransitQuiet DEF TransitInv, Reclaiming
  <2> QED
      BY ZenonT(30), <1>4, <2>1, <2>2
<1> QED
    BY ZenonT(30), <1>1, <1>2, <1>5, NobodyPays

(* A step of a round that calls no reclaim: what the thread holds before and *)
(* after is what it has in hand and what it has got.                         *)
LEMMA RoundPays ==
    ASSUME QueueInv, Inv, TransitInv, NEW t \in Tasks, pc[t] \in Arbitrating \ Reclaiming, Alone(t),
           pc'[t] \notin Reclaiming, NEW hand \in Nat, NEW got \in Nat,
           arb'[t].hand = hand, arb'[t].got = got,
           pc'[t] \in {"free", "used"} \/ (hand = 0 /\ got = 0),
           NEW p \in Pools, \A q \in Pools \ {p} : capacity'[q] = capacity[q],
           freeCapacity' + capacity'[p] + (hand + got)
               = freeCapacity + capacity[p] + (arb[t].hand + arb[t].got)
    PROVE  TransitInv' /\ Moved
<1>1. Transit(t)'
    BY ZenonT(30) DEF Transit
<1>2. arb[t].hand \in Nat /\ arb[t].got \in Nat
    BY ZenonT(30), Typed DEF ArbRecord
<1>3. InTransit(t) = arb[t].hand + arb[t].got /\ InTransit(t)' = hand + got
    BY <1>2 DEF InTransit
<1>4. PoolPays(p, InTransit(t), InTransit(t)')
    BY ZenonT(30), <1>3 DEF PoolPays
<1> QED
    BY ZenonT(30), <1>1, <1>4, ArbPays

(* The start of a reclaim moves nothing. *)
LEMMA ReclaimBegins ==
    ASSUME QueueInv, Inv, TransitInv, NEW t \in Tasks, pc[t] \in {"check", "used", "oom"}, Alone(t),
           pc'[t] \in Reclaiming, UNCHANGED <<capacity, freeCapacity>>,
           arb'[t].hand = arb[t].hand, arb'[t].got = arb[t].got,
           NEW q \in Pools, rc'[t].pool = q, rc'[t].old = capacity[q],
           pc[t] = "used" => rc'[t].caller = "used"
    PROVE  TransitInv' /\ Moved
<1>1. pc[t] \in Arbitrating /\ pc[t] \notin Reclaiming
    BY ZenonT(30) DEF Arbitrating, Reclaiming
<1>2. capacity[q] \in Int /\ freeCapacity \in Int /\ arb[t].hand \in Nat /\ arb[t].got \in Nat
    BY Typed DEF Inv, Types, ArbRecord
<1>3. Transit(t)'
    BY ZenonT(30), <1>1 DEF TransitInv, Transit
<1>3a. arb[t].hand + arb[t].got \in Int /\ \A n \in Int : n + 0 = n /\ capacity[q] - capacity[q] = 0
    BY <1>2
<1>4. InTransit(t) = arb[t].hand + arb[t].got
    BY ZenonT(30), <1>1, <1>3a DEF InTransit
<1>5. InTransit(t)' = arb[t].hand + arb[t].got
    BY ZenonT(30), <1>3a DEF InTransit
<1>6. PoolPays(q, InTransit(t), InTransit(t)')
    BY ZenonT(30), <1>4, <1>5 DEF PoolPays
<1> QED
    BY ZenonT(30), <1>1, <1>3, <1>6, ArbPays

(* growCapacity and ensureCapacity begin. *)
LEMMA CheckPays ==
    ASSUME QueueInv, Inv, TransitInv, NEW t \in Tasks, Check(t)
    PROVE  TransitInv' /\ Moved
<1> DEFINE p == PoolOf[t]
<1>1. Types /\ p \in Pools /\ pc[t] = "check" /\ arb[t] \in ArbRecord
      /\ pc \in [Tasks -> Outside \cup {"wait"} \cup Arbitrating]
    BY ZenonT(30), Typed DEF Check
<1>2. UNCHANGED <<capacity, freeCapacity, arb, stats>>
    BY ZenonT(30) DEF Check, poolVars
<1>3. PICK l \in {"finish", "stats", "shrink"} :
        /\ pc' = [pc EXCEPT ![t] = l]
        /\ \/ l # "shrink" /\ rc' = rc
           \/ l = "shrink" /\ rc' = [rc EXCEPT ![t] = [NoReclaim EXCEPT !.pool = p, !.want = arb[t].size,
                                                           !.old = capacity[p], !.caller = "ensure"]]
    BY ZenonT(30) DEF Check
<1>4. pc'[t] = l /\ Alone(t) /\ arb'[t] = arb[t]
    BY ZenonT(30), <1>1, <1>2, <1>3 DEF Alone, Types
<1>5. CASE l = "shrink"
  <2> DEFINE r == Victim(p, arb[t].size, capacity[p], {}, "ensure")
  <2>1. ASSUME NEW x, x = [NoReclaim EXCEPT !.pool = p, !.want = arb[t].size, !.old = capacity[p],
                                            !.caller = "ensure"]
        PROVE  x = r
      BY <2>1, ZenonT(30) DEF NoReclaim, Victim
  <2>2. rc' = [rc EXCEPT ![t] = r]
      BY <1>3, <1>5, <2>1, Zenon
  <2>3. r.pool = p /\ r.old = capacity[p]
      BY ZenonT(30) DEF Victim
  <2> HIDE DEF r
  <2>4. rc'[t].pool = p /\ rc'[t].old = capacity[p]
      BY ZenonT(30), <1>1, <2>2, <2>3 DEF Types
  <2> QED
      BY ZenonT(30), <1>1, <1>2, <1>4, <1>5, <2>4, ReclaimBegins DEF Reclaiming
<1>6. CASE l # "shrink"
  <2>1. arb[t].hand = 0 /\ arb[t].got = 0 /\ pc[t] \in Arbitrating /\ pc[t] \notin Reclaiming
      BY ZenonT(30), <1>1 DEF TransitInv, Transit, Arbitrating, Reclaiming
  <2> QED
      BY ZenonT(30), <1>1, <1>2, <1>3, <1>4, <1>6, <2>1, RoundPays DEF Reclaiming
<1> QED
    BY ZenonT(30), <1>5, <1>6

(* The requestor's pool grows to the end of the arbitration. *)
LEMMA GrowPays ==
    ASSUME QueueInv, Inv, TransitInv, NEW t \in Tasks, pc[t] \in {"free", "used"},
           Grow(t, arb[t].hand + arb[t].got), UNCHANGED <<rc, stats>>
    PROVE  TransitInv' /\ Moved
<1> DEFINE p == PoolOf[t]
           a == arb[t]
           grown == Lesser(a.goal, a.hand + a.got)
           b == [a EXCEPT !.hand = 0, !.got = 0, !.granted = TRUE]
<1>1. Types /\ p \in Pools /\ a \in ArbRecord /\ pc \in [Tasks -> Outside \cup {"wait"} \cup Arbitrating]
    BY ZenonT(30), Typed
<1>2. a.hand \in Nat /\ a.got \in Nat /\ a.goal \in Int /\ freeCapacity \in Nat /\ capacity[p] \in Int
    BY ZenonT(30), <1>1 DEF ArbRecord, Types
<1>3. grown \in Int
    BY <1>2 DEF Lesser
<1>4. /\ capacity' = [capacity EXCEPT ![p] = @ + grown]
      /\ freeCapacity' = freeCapacity + (a.hand + a.got) - grown
      /\ pc' = [pc EXCEPT ![t] = "finish"] /\ arb' = [arb EXCEPT ![t] = b]
    BY ZenonT(30) DEF Grow
<1>5. b.hand = 0 /\ b.got = 0
    BY ZenonT(30), <1>1 DEF ArbRecord
<1> HIDE DEF b, grown
<1>6. Alone(t) /\ pc'[t] = "finish" /\ arb'[t] = b
    BY ZenonT(30), <1>1, <1>4 DEF Alone, Types
<1>7. /\ \A q \in Pools \ {p} : capacity'[q] = capacity[q]
      /\ capacity'[p] = capacity[p] + grown
    BY ZenonT(30), <1>1, <1>4 DEF Types
<1>8. freeCapacity' + capacity'[p] + (0 + 0) = freeCapacity + capacity[p] + (a.hand + a.got)
    BY <1>2, <1>3, <1>4, <1>7
<1>9. pc[t] \in Arbitrating \ Reclaiming /\ pc'[t] \notin Reclaiming
    BY Zenon, <1>6 DEF Arbitrating, Reclaiming
<1>10. arb'[t].hand = 0 /\ arb'[t].got = 0 /\ 0 \in Nat
    BY Zenon, <1>5, <1>6
<1> QED
    BY ZenonT(30), <1>1, <1>6, <1>7, <1>8, <1>9, <1>10, RoundPays

(* The start of a round takes what is free. *)
LEMMA StatsPays ==
    ASSUME QueueInv, Inv, TransitInv, NEW t \in Tasks, Stats(t)
    PROVE  TransitInv' /\ Moved
<1> DEFINE p == PoolOf[t]
           a == arb[t]
           goal == Lesser(maxGrowBytes(p), Larger(Transfer, a.size))
           taken == Lesser(freeCapacity, goal)
<1>1. Types /\ Local(t) /\ p \in Pools /\ a \in ArbRecord /\ pc[t] = "stats" /\ Transfer \in Nat
      /\ MaxCapacity \in [Pools -> Nat] /\ pc \in [Tasks -> Outside \cup {"wait"} \cup Arbitrating]
    BY ZenonT(30), Typed DEF Stats
<1>2. a.size \in Nat /\ capacity[p] \in Int /\ freeCapacity \in Nat /\ MaxCapacity[p] \in Nat
      /\ capacity[p] + a.size <= MaxCapacity[p]
    BY ZenonT(30), <1>1 DEF Types, ArbRecord, Local, Grows
<1>3. goal \in Nat
    BY <1>1, <1>2 DEF Lesser, Larger, maxGrowBytes
<1>4. taken \in Nat
    BY ZenonT(30), <1>2, <1>3 DEF Lesser
<1>5. freeCapacity' = freeCapacity - taken /\ UNCHANGED rc
    BY ZenonT(30) DEF Stats
<1>6. pc[t] \in Arbitrating \ Reclaiming /\ a.hand = 0 /\ a.got = 0
    BY ZenonT(30), <1>1 DEF TransitInv, Transit, Arbitrating, Reclaiming
<1>7. CASE taken >= a.size
  <2> DEFINE b == [a EXCEPT !.granted = TRUE]
  <2>1. /\ capacity' = [capacity EXCEPT ![p] = @ + taken] /\ arb' = [arb EXCEPT ![t] = b]
        /\ pc' = [pc EXCEPT ![t] = "finish"] /\ stats' = stats
      BY Zenon, <1>7 DEF Stats
  <2>2. b.hand = 0 /\ b.got = 0
      BY <1>1, <1>6, ZenonT(30) DEF ArbRecord
  <2> HIDE DEF b, taken
  <2>3. Alone(t) /\ pc'[t] = "finish" /\ arb'[t] = b /\ pc'[t] \notin Reclaiming
      BY Zenon, <1>1, <1>5, <2>1 DEF Alone, Types, Reclaiming
  <2>4. /\ \A q \in Pools \ {p} : capacity'[q] = capacity[q]
        /\ capacity'[p] = capacity[p] + taken
      BY ZenonT(30), <1>1, <2>1 DEF Types
  <2>5. freeCapacity' + capacity'[p] + (0 + 0) = freeCapacity + capacity[p] + (a.hand + a.got)
      BY <1>2, <1>4, <1>5, <1>6, <2>4
  <2> QED
      BY <1>1, <1>6, <2>2, <2>3, <2>4, <2>5, RoundPays
<1>8. CASE ~(taken >= a.size)
  <2> DEFINE b == Round(a, goal, taken)
             s == [q \in a.pools |-> CandidateStats(q)]
  <2>1. /\ capacity' = capacity /\ arb' = [arb EXCEPT ![t] = b]
        /\ pc' = [pc EXCEPT ![t] = "free"] /\ stats' = [stats EXCEPT ![t] = s]
      BY ZenonT(30), <1>8 DEF Stats, Round
  <2> HIDE DEF goal, taken, s
  <2>2. b.hand = taken /\ b.got = 0
      BY ZenonT(30), <1>1 DEF ArbRecord, Round
  <2> HIDE DEF b
  <2>3. Alone(t) /\ pc'[t] = "free" /\ arb'[t] = b /\ pc'[t] \notin Reclaiming
      BY ZenonT(30), <1>1, <1>5, <2>1 DEF Alone, Types, Reclaiming
  <2>4. freeCapacity' + capacity'[p] + (taken + 0) = freeCapacity + capacity[p] + (a.hand + a.got)
      BY <1>2, <1>4, <1>5, <1>6, <2>1
  <2> QED
      BY <1>1, <1>4, <1>6, <2>1, <2>2, <2>3, <2>4, RoundPays
<1> QED
    BY Zenon, <1>7, <1>8

(* A candidate's unused capacity goes into the thread's hands. *)
LEMMA ShrinkCandidatePays ==
    ASSUME QueueInv, Inv, TransitInv, NEW t \in Tasks, ShrinkCandidate(t)
    PROVE  TransitInv' /\ Moved
<1> DEFINE a == arb[t]
           target(q) == Lesser(a.goal - a.hand - a.got, stats[t][q].free)
           freed(q) == Shrunk(q, target(q))
           b(q) == [a EXCEPT !.got = a.got + freed(q), !.todo = a.todo \ {q}]
<1>1. Types /\ Local(t) /\ a \in ArbRecord /\ pc[t] = "free"
      /\ pc \in [Tasks -> Outside \cup {"wait"} \cup Arbitrating]
    BY ZenonT(30), Typed DEF ShrinkCandidate
<1>2. PICK q \in a.todo : /\ capacity' = [capacity EXCEPT ![q] = @ - freed(q)]
                          /\ arb' = [arb EXCEPT ![t] = b(q)]
    BY Zenon DEF ShrinkCandidate
<1>3. UNCHANGED <<freeCapacity, pc, rc, stats>> /\ a.got < a.goal - a.hand
    BY Zenon DEF ShrinkCandidate
<1>4. q \in Pools /\ a.goal \in Int /\ a.hand \in Nat /\ a.got \in Nat /\ stats[t][q].free \in Nat
      /\ capacity[q] \in Int /\ freeCapacity \in Nat
    BY ZenonT(30), <1>1 DEF ArbRecord, Local, Grows, Types
<1>5. target(q) \in Nat
    BY <1>3, <1>4 DEF Lesser
<1>6. freed(q) \in Nat
    BY ZenonT(30), <1>1, <1>4, <1>5, ShrunkFacts
<1> HIDE DEF freed, target
<1>7. b(q).hand = a.hand /\ b(q).got = a.got + freed(q)
    BY ZenonT(30), <1>1 DEF ArbRecord
<1> HIDE DEF b
<1>8. Alone(t) /\ pc'[t] = "free" /\ arb'[t] = b(q)
    BY ZenonT(30), <1>1, <1>2, <1>3 DEF Alone, Types
<1>9. /\ \A x \in Pools \ {q} : capacity'[x] = capacity[x]
      /\ capacity'[q] = capacity[q] - freed(q)
    BY ZenonT(30), <1>1, <1>2, <1>4 DEF Types
<1>10. /\ freeCapacity' + capacity'[q] + (a.hand + (a.got + freed(q)))
           = freeCapacity + capacity[q] + (a.hand + a.got)
       /\ a.got + freed(q) \in Nat
    BY <1>3, <1>4, <1>6, <1>9
<1>11. pc[t] \in Arbitrating \ Reclaiming /\ pc'[t] \notin Reclaiming
    BY ZenonT(30), <1>1, <1>8 DEF Arbitrating, Reclaiming
<1>12. arb'[t].hand = a.hand /\ arb'[t].got = a.got + freed(q)
    BY Zenon, <1>7, <1>8
<1> QED
    BY ZenonT(30), <1>4, <1>8, <1>9, <1>10, <1>11, <1>12, RoundPays

(* The end of the first half of arbitrateMemory. *)
LEMMA FreeReclaimedPays ==
    ASSUME QueueInv, Inv, TransitInv, NEW t \in Tasks, FreeReclaimed(t)
    PROVE  TransitInv' /\ Moved
<1> DEFINE a == arb[t]
           freed == a.hand + a.got
           b == [a EXCEPT !.hand = freed, !.got = 0, !.todo = a.pools]
<1>1. Types /\ a \in ArbRecord /\ pc[t] = "free" /\ PoolOf[t] \in Pools
      /\ pc \in [Tasks -> Outside \cup {"wait"} \cup Arbitrating]
    BY ZenonT(30), Typed DEF FreeReclaimed
<1>2. UNCHANGED <<rc, stats>> /\ a.hand \in Nat /\ a.got \in Nat
    BY ZenonT(30), <1>1 DEF FreeReclaimed, ArbRecord
<1>3. CASE freed >= a.size
    BY ZenonT(30), <1>1, <1>2, <1>3, GrowPays DEF FreeReclaimed
<1>4. CASE ~(freed >= a.size)
  <2>1. /\ arb' = [arb EXCEPT ![t] = b] /\ pc' = [pc EXCEPT ![t] = "used"]
        /\ UNCHANGED <<capacity, freeCapacity>>
      BY Zenon, <1>4 DEF FreeReclaimed
  <2>2. freed \in Nat /\ freeCapacity \in Nat /\ capacity[PoolOf[t]] \in Int
      BY <1>1, <1>2 DEF Types
  <2>3. freeCapacity' + capacity'[PoolOf[t]] + (freed + 0)
            = freeCapacity + capacity[PoolOf[t]] + (a.hand + a.got)
      BY <1>2, <2>1, <2>2
  <2> HIDE DEF freed
  <2>4. b.hand = freed /\ b.got = 0
      BY Zenon, <1>1 DEF ArbRecord
  <2> HIDE DEF b
  <2>5. Alone(t) /\ pc'[t] = "used" /\ arb'[t] = b /\ pc'[t] \notin Reclaiming
      BY Zenon, <1>1, <1>2, <2>1 DEF Alone, Types, Reclaiming
  <2>6. pc[t] \in Arbitrating \ Reclaiming
      BY ZenonT(30), <1>1 DEF Arbitrating, Reclaiming
  <2> QED
      BY <1>1, <2>1, <2>2, <2>3, <2>4, <2>5, <2>6, RoundPays
<1> QED
    BY ZenonT(30), <1>3, <1>4

(* A candidate is asked to spill. *)
LEMMA ReclaimCandidatePays ==
    ASSUME QueueInv, Inv, TransitInv, NEW t \in Tasks, ReclaimCandidate(t)
    PROVE  TransitInv' /\ Moved
<1> DEFINE a == arb[t]
           want == Larger(a.goal - a.hand - a.got, Transfer)
           b(q) == [a EXCEPT !.todo = @ \ {q}]
           r(q) == Victim(q, want, capacity[q], {}, "used")
<1>1. Types /\ Local(t) /\ a \in ArbRecord /\ pc[t] = "used"
      /\ pc \in [Tasks -> Outside \cup {"wait"} \cup Arbitrating]
    BY ZenonT(30), Typed DEF ReclaimCandidate
<1>2. ASSUME NEW q, NEW w, NEW o, NEW x, x = [NoReclaim EXCEPT !.pool = q, !.want = w, !.old = o]
      PROVE  x = Victim(q, w, o, {}, "used")
    BY <1>2, ZenonT(30) DEF NoReclaim, Victim
<1>3. PICK q \in a.todo :
        /\ rc' = [rc EXCEPT ![t] = [NoReclaim EXCEPT !.pool = q, !.want = want, !.old = capacity[q]]]
        /\ arb' = [arb EXCEPT ![t] = b(q)]
    BY Zenon DEF ReclaimCandidate
<1>4. rc' = [rc EXCEPT ![t] = r(q)] /\ arb' = [arb EXCEPT ![t] = b(q)]
    BY <1>2, <1>3, ZenonT(30)
<1>5. UNCHANGED <<capacity, freeCapacity, stats>> /\ pc' = [pc EXCEPT ![t] = "shrink"]
    BY ZenonT(30) DEF ReclaimCandidate, poolVars
<1> HIDE DEF want
<1>6. q \in Pools /\ r(q).pool = q /\ r(q).old = capacity[q] /\ r(q).caller = "used"
    BY ZenonT(30), <1>1 DEF ArbRecord, Victim
<1>7. b(q).hand = a.hand /\ b(q).got = a.got
    BY ZenonT(30), <1>1 DEF ArbRecord
<1> HIDE DEF b, r
<1>8. Alone(t) /\ pc'[t] = "shrink" /\ arb'[t] = b(q) /\ rc'[t] = r(q)
    BY ZenonT(30), <1>1, <1>4, <1>5 DEF Alone, Types
<1> QED
    BY ZenonT(30), <1>1, <1>5, <1>6, <1>7, <1>8, ReclaimBegins DEF Reclaiming

(* The end of arbitrateMemory: the requestor grows, or all goes back. *)
LEMMA UsedReclaimedPays ==
    ASSUME QueueInv, Inv, TransitInv, NEW t \in Tasks, UsedReclaimed(t)
    PROVE  TransitInv' /\ Moved
<1> DEFINE p == PoolOf[t]
           a == arb[t]
           freed == a.hand + a.got
           b == [a EXCEPT !.hand = 0, !.got = 0]
<1>1. Types /\ a \in ArbRecord /\ pc[t] = "used" /\ p \in Pools
      /\ pc \in [Tasks -> Outside \cup {"wait"} \cup Arbitrating]
    BY ZenonT(30), Typed DEF UsedReclaimed
<1>2. UNCHANGED <<rc, stats>> /\ a.hand \in Nat /\ a.got \in Nat
    BY ZenonT(30), <1>1 DEF UsedReclaimed, ArbRecord
<1>3. CASE p \notin aborted /\ freed >= a.size
    BY ZenonT(30), <1>1, <1>2, <1>3, GrowPays DEF UsedReclaimed
<1>4. CASE ~(p \notin aborted /\ freed >= a.size)
  <2>1. PICK l \in {"finish", "oom"} :
          /\ arb' = [arb EXCEPT ![t] = b] /\ pc' = [pc EXCEPT ![t] = l]
          /\ freeCapacity' = freeCapacity + freed /\ capacity' = capacity
      BY Zenon, <1>4 DEF UsedReclaimed
  <2>2. freeCapacity' + capacity'[p] + (0 + 0) = freeCapacity + capacity[p] + (a.hand + a.got)
      BY <1>1, <1>2, <2>1 DEF Types
  <2>3. b.hand = 0 /\ b.got = 0
      BY ZenonT(30), <1>1 DEF ArbRecord
  <2> HIDE DEF b, freed
  <2>4. Alone(t) /\ pc'[t] = l /\ arb'[t] = b /\ pc'[t] \notin Reclaiming
      BY ZenonT(30), <1>1, <1>2, <2>1 DEF Alone, Types, Reclaiming
  <2>5. pc[t] \in Arbitrating \ Reclaiming
      BY ZenonT(30), <1>1 DEF Arbitrating, Reclaiming
  <2> QED
      BY <1>1, <2>1, <2>2, <2>3, <2>4, <2>5, RoundPays
<1> QED
    BY ZenonT(30), <1>3, <1>4

(* The abort of a victim begins, or the request fails. *)
LEMMA HandleOOMPays ==
    ASSUME QueueInv, Inv, TransitInv, NEW t \in Tasks, HandleOOM(t)
    PROVE  TransitInv' /\ Moved
<1> DEFINE p == PoolOf[t]
           a == arb[t]
<1>1. Types /\ p \in Pools /\ a \in ArbRecord /\ pc[t] = "oom"
      /\ pc \in [Tasks -> Outside \cup {"wait"} \cup Arbitrating]
    BY Typed, ZenonT(30) DEF HandleOOM
<1>2. UNCHANGED <<capacity, freeCapacity, stats>>
    BY Zenon DEF HandleOOM
<1>3. CASE p \in LargestCapacity(t)
  <2>1. pc' = [pc EXCEPT ![t] = "finish"] /\ UNCHANGED <<arb, rc>>
      BY ZenonT(30), <1>3 DEF HandleOOM
  <2>2. arb[t].hand = 0 /\ arb[t].got = 0 /\ pc[t] \in Arbitrating \ Reclaiming
      BY ZenonT(30), <1>1 DEF TransitInv, Transit, Arbitrating, Reclaiming
  <2>3. Alone(t) /\ pc'[t] = "finish" /\ arb'[t] = a /\ pc'[t] \notin Reclaiming
      BY ZenonT(30), <1>1, <1>2, <2>1 DEF Alone, Reclaiming
  <2> QED
      BY ZenonT(30), <1>1, <1>2, <2>2, <2>3, RoundPays
<1>4. CASE p \notin LargestCapacity(t)
  <2> DEFINE left(q) == IF q \in aborted THEN {} ELSE Members(q)
             b == [a EXCEPT !.retried = TRUE]
             none == 0
             r(q) == Victim(q, none, capacity[q], left(q), "oom")
  <2>1. ASSUME NEW q, NEW o, NEW l, NEW x,
               x = [NoReclaim EXCEPT !.pool = q, !.old = o, !.left = l, !.caller = "oom"]
        PROVE  x = Victim(q, none, o, l, "oom")
      BY <2>1, ZenonT(30) DEF NoReclaim, Victim
  <2>2. PICK q \in LargestCapacity(t) :
          /\ StartAbort(t, q, 0) /\ arb' = [arb EXCEPT ![t] = b]
          /\ rc' = [rc EXCEPT ![t] = [NoReclaim EXCEPT !.pool = q, !.old = capacity[q],
                                                       !.left = left(q), !.caller = "oom"]]
      BY <1>4, Zenon DEF HandleOOM
  <2>3. rc' = [rc EXCEPT ![t] = r(q)]
      BY <2>1, <2>2, ZenonT(30)
  <2>4. q \in Pools
      BY ZenonT(30), <1>1 DEF LargestCapacity, ArbRecord
  <2> HIDE DEF left, none
  <2>5. r(q).pool = q /\ r(q).old = capacity[q]
      BY ZenonT(30) DEF Victim
  <2>6. b.hand = a.hand /\ b.got = a.got
      BY <1>1, ZenonT(30) DEF ArbRecord
  <2> HIDE DEF b, r
  <2>7. Alone(t) /\ pc'[t] = "abort" /\ rc'[t] = r(q) /\ arb'[t] = b
      BY ZenonT(30), <1>1, <1>2, <2>2, <2>3 DEF StartAbort, Types, Alone
  <2> QED
      BY ZenonT(30), <1>1, <1>2, <2>4, <2>5, <2>6, <2>7, ReclaimBegins DEF Reclaiming
<1> QED
    BY ZenonT(30), <1>3, <1>4

(* handleOOM returns what the abort has freed. *)
LEMMA VictimPays ==
    ASSUME QueueInv, Inv, TransitInv, NEW t \in Tasks, AbortDone(t), rc[t].caller = "oom"
    PROVE  TransitInv' /\ Moved
<1> DEFINE q == rc[t].pool
           freed == Shrunk(q, 0)
<1>1. Types /\ pc[t] = "abort" /\ pc[t] \in Reclaiming /\ arb[t] \in ArbRecord
      /\ pc \in [Tasks -> Outside \cup {"wait"} \cup Arbitrating]
    BY ZenonT(30), Typed DEF AbortDone, Reclaiming
<1>2. q \in Pools /\ pc[t] \in Arbitrating /\ capacity[q] \in Int /\ rc[t].old \in Int
    BY ZenonT(30), <1>1, VictimFacts
<1>3. freed \in Nat
    BY ZenonT(30), <1>1, <1>2, ShrunkFacts
<1>4. /\ capacity' = [capacity EXCEPT ![q] = @ - freed] /\ freeCapacity' = freeCapacity + freed
      /\ pc' = [pc EXCEPT ![t] = "stats"] /\ rc' = [rc EXCEPT ![t] = NoReclaim]
      /\ UNCHANGED <<arb, stats>>
    BY ZenonT(30) DEF AbortDone
<1> HIDE DEF freed
<1>5. Alone(t) /\ pc'[t] = "stats" /\ arb'[t] = arb[t]
    BY ZenonT(30), <1>1, <1>4 DEF Alone, Types
<1>6. arb[t].hand = 0 /\ arb[t].got = 0 /\ capacity[q] = rc[t].old
    BY ZenonT(30), <1>1 DEF TransitInv, Transit
<1>7. Transit(t)'
    BY ZenonT(30), <1>5, <1>6 DEF Transit, Reclaiming
<1>8. InTransit(t) = 0 /\ InTransit(t)' = 0
    BY <1>1, <1>2, <1>5, <1>6 DEF InTransit, Reclaiming
<1>9. /\ \A x \in Pools \ {q} : capacity'[x] = capacity[x]
      /\ capacity'[q] = capacity[q] - freed /\ freeCapacity \in Nat
    BY ZenonT(30), <1>1, <1>2, <1>4 DEF Types
<1>10. PoolPays(q, InTransit(t), InTransit(t)')
    BY <1>2, <1>3, <1>4, <1>8, <1>9 DEF PoolPays
<1> QED
    BY ZenonT(30), <1>2, <1>5, <1>7, <1>10, ArbPays

(* The end of a reclaim: its bytes go to the arbitrator or to the round. *)
LEMMA ReclaimedPays ==
    ASSUME QueueInv, Inv, TransitInv, NEW t \in Tasks, Reclaimed(t)
    PROVE  TransitInv' /\ Moved
<1> DEFINE a == arb[t]
           q == rc[t].pool
           bytes == rc[t].old - capacity[q]
           b == [a EXCEPT !.got = a.got + bytes]
<1>1. Types /\ Local(t) /\ rc[t] \in ReclaimRecord /\ pc[t] \in {"reclaimed", "task"}
      /\ pc[t] \in Reclaiming /\ a \in ArbRecord
      /\ pc \in [Tasks -> Outside \cup {"wait"} \cup Arbitrating]
    BY Zenon, Typed DEF Reclaimed, Reclaiming
<1>2. q \in Pools /\ pc[t] \in Arbitrating /\ capacity[q] \in Int /\ rc[t].old \in Int
      /\ bytes \in Int /\ freeCapacity \in Nat /\ a.hand \in Nat /\ a.got \in Nat
    BY <1>1, VictimFacts DEF Types, ArbRecord
<1>3. rc[t].caller \in {"ensure", "used"}
    BY ZenonT(30), <1>1 DEF Local, Reclaims, ReclaimRecord
<1>4. UNCHANGED <<capacity, stats>> /\ rc' = [rc EXCEPT ![t] = NoReclaim]
    BY Zenon DEF Reclaimed, poolVars
<1>5. InTransit(t) = a.hand + a.got + bytes
    BY ZenonT(30), <1>1 DEF InTransit
<1>6. CASE rc[t].caller = "ensure"
  <2>1. PICK l \in {"stats", "finish"} :
          pc' = [pc EXCEPT ![t] = l] /\ freeCapacity' = freeCapacity + bytes /\ arb' = arb
      BY ZenonT(30), <1>6 DEF Reclaimed
  <2>2. Alone(t) /\ pc'[t] = l /\ arb'[t] = a
      BY ZenonT(30), <1>1, <1>4, <2>1 DEF Alone, Types
  <2>3. a.hand = 0 /\ a.got = 0
      BY ZenonT(30), <1>1, <1>6 DEF TransitInv, Transit
  <2>4. Transit(t)'
      BY ZenonT(30), <2>1, <2>2, <2>3 DEF Transit, Reclaiming
  <2>5. InTransit(t)' = 0
      BY <2>1, <2>2, <2>3 DEF InTransit, Reclaiming
  <2> HIDE DEF bytes
  <2>6. PoolPays(q, InTransit(t), InTransit(t)')
      BY <1>2, <1>4, <1>5, <2>1, <2>3, <2>5 DEF PoolPays
  <2> QED
      BY ZenonT(30), <1>2, <2>2, <2>4, <2>6, ArbPays
<1>7. CASE rc[t].caller = "used"
  <2>1. /\ pc' = [pc EXCEPT ![t] = "used"] /\ freeCapacity' = freeCapacity
        /\ arb' = [arb EXCEPT ![t] = b]
      BY ZenonT(30), <1>7 DEF Reclaimed
  <2> HIDE DEF bytes
  <2>2. b.hand = a.hand /\ b.got = a.got + bytes
      BY ZenonT(30), <1>1 DEF ArbRecord
  <2> HIDE DEF b
  <2>3. Alone(t) /\ pc'[t] = "used" /\ arb'[t] = b
      BY ZenonT(30), <1>1, <1>4, <2>1 DEF Alone, Types
  <2>4. Transit(t)'
      BY ZenonT(30), <2>3 DEF Transit, Reclaiming
  <2>5. InTransit(t)' = a.hand + (a.got + bytes) + 0
      BY ZenonT(30), <2>2, <2>3 DEF InTransit, Reclaiming
  <2>6. PoolPays(q, InTransit(t), InTransit(t)')
      BY <1>2, <1>4, <1>5, <2>1, <2>5 DEF PoolPays
  <2> QED
      BY ZenonT(30), <1>2, <2>3, <2>4, <2>6, ArbPays
<1> QED
    BY Zenon, <1>3, <1>6, <1>7

(* The arbitration ends with nothing in hand, and so does the next begin. *)
LEMMA FinishPays ==
    ASSUME QueueInv, Inv, TransitInv, NEW t \in Tasks, FinishArbitration(t)
    PROVE  TransitInv' /\ Moved
<1> DEFINE b == [Idle EXCEPT !.size = arb[t].size]
<1>1. Types /\ pc[t] = "finish" /\ PoolOf[t] \in Pools
      /\ pc \in [Tasks -> Outside \cup {"wait"} \cup Arbitrating]
    BY ZenonT(30), Typed DEF FinishArbitration
<1>2. /\ UNCHANGED <<capacity, freeCapacity>> /\ arb' = [arb EXCEPT ![t] = b]
      /\ rc' = [rc EXCEPT ![t] = NoReclaim]
    BY ZenonT(30) DEF FinishArbitration, poolVars
<1>3. b.hand = 0 /\ b.got = 0
  <2>1. ASSUME NEW n, NEW x, x = [Idle EXCEPT !.size = n]
        PROVE  x = [size |-> n, pools |-> {}, todo |-> {}, hand |-> 0, got |-> 0, goal |-> 0,
                    retried |-> FALSE, granted |-> FALSE]
      BY <2>1, Zenon DEF Idle
  <2>2. b = [size |-> arb[t].size, pools |-> {}, todo |-> {}, hand |-> 0, got |-> 0, goal |-> 0,
             retried |-> FALSE, granted |-> FALSE]
      BY <2>1, ZenonT(30)
  <2> HIDE DEF b
  <2> QED
      BY ZenonT(30), <2>2
<1> HIDE DEF b
<1>4. PICK l \in {"grown", "closing"} :
        \/ pc' = [pc EXCEPT ![t] = l]
        \/ /\ waitPromises # <<>> /\ pc' = [pc EXCEPT ![t] = l, ![Latest] = "check"]
    BY ZenonT(30) DEF FinishArbitration
<1>5. waitPromises # <<>> => Latest \in Tasks /\ pc[Latest] = "wait" /\ Latest # t
  <2>1. waitPromises \in Seq(Tasks) /\ IsInjective(waitPromises)
        /\ Range(waitPromises) = {u \in Tasks : pc[u] = "wait"}
      BY ZenonT(30) DEF QueueInv, QueueTypes, Serialized
  <2>2. waitPromises # <<>> => Latest \in Range(waitPromises)
      BY <2>1, FrontFacts, ZenonT(30) DEF Latest, Last
  <2> QED
      BY ZenonT(30), <1>1, <2>1, <2>2
<1>6. /\ \A u \in Tasks \ {t} : pc'[u] = pc[u] \/ (pc[u] = "wait" /\ pc'[u] = "check")
      /\ pc'[t] = l
    BY ZenonT(30), <1>1, <1>4, <1>5
<1>7. /\ arb'[t] = b /\ \A u \in Tasks \ {t} : arb'[u] = arb[u] /\ rc'[u] = rc[u]
    BY ZenonT(30), <1>1, <1>2 DEF Types
<1>8. ASSUME NEW u \in Tasks PROVE Transit(u)' /\ InTransit(u)' = InTransit(u)
  <2>1. CASE u = t
      BY ZenonT(30), <1>1, <1>3, <1>4, <1>6, <1>7, <2>1, TransitQuiet DEF TransitInv, Reclaiming
  <2>2. CASE u # t /\ pc'[u] = pc[u]
      BY <1>2, <1>7, <2>2 DEF TransitInv, Transit, InTransit
  <2>3. CASE u # t /\ pc[u] = "wait" /\ pc'[u] = "check"
      BY ZenonT(30), <1>7, <2>3, TransitQuiet DEF TransitInv, Reclaiming
  <2> QED
      BY ZenonT(30), <1>6, <2>1, <2>2, <2>3
<1> QED
    BY ZenonT(30), <1>1, <1>2, <1>8, NobodyPays

-----------------------------------------------------------------------------
(* The theorem *)

(* At first all capacity is the arbitrator's. *)
LEMMA InitBalance == Init => TransitInv /\ CapacityConserved
<1> SUFFICES ASSUME Init PROVE TransitInv /\ CapacityConserved
    BY ZenonT(30)
<1>1. Idle.hand = 0 /\ Idle.got = 0
    BY ZenonT(30), RequestEmpty
<1>2. \A t \in Tasks : pc[t] = "idle" /\ arb[t] = Idle
    BY ZenonT(30) DEF Init
<1>3. TransitInv
    BY ZenonT(30), <1>1, <1>2 DEF TransitInv, Transit, Reclaiming
<1>4. \A t \in Tasks : transit[t] = 0
    BY <1>1, <1>2 DEF transit, InTransit, Reclaiming
<1>5. \A p \in Pools : capacity[p] = 0
    BY Zenon DEF Init
<1>6. Sum(transit, Tasks) = 0 /\ Sum(capacity, Pools) = 0
    BY ZenonT(30), <1>4, <1>5, FiniteAssumption, SumZero
<1>7. freeCapacity = Capacity /\ Capacity \in Nat
    BY ZenonT(30), ArbitratorAssumption DEF Init
<1>8. Types
    BY ZenonT(30), InitInv DEF Inv
<1> QED
    BY <1>3, <1>6, <1>7, <1>8, ConservedSum

(* Every step moves bytes, or nothing at all. *)
LEMMA NextMoves ==
    ASSUME QueueInv, Inv, Inv', TransitInv, Next
    PROVE  (TransitInv' /\ Moved) \/ UNCHANGED vars
<1>1. ASSUME NEW t \in Tasks, Arbitrate(t) PROVE TransitInv' /\ Moved
  <2>1. CASE AbortDone(t)
      BY ZenonT(30), <2>1, ReclaimPays, VictimPays
  <2>2. CASE \/ Check(t) \/ Stats(t) \/ ShrinkCandidate(t) \/ FreeReclaimed(t)
             \/ ReclaimCandidate(t) \/ UsedReclaimed(t) \/ HandleOOM(t)
      BY <2>2, CheckPays, StatsPays, ShrinkCandidatePays, FreeReclaimedPays, ReclaimCandidatePays,
         UsedReclaimedPays, HandleOOMPays, ZenonT(30)
  <2>3. CASE \/ ReclaimShrink(t) \/ ReclaimTask(t) \/ PauseTimesOut(t) \/ Spill(t) \/ SpillFails(t)
             \/ SpillShrink(t)
      BY <2>3, ReclaimPays, ZenonT(30)
  <2>4. CASE AbortTask(t) \/ Reclaimed(t) \/ FinishArbitration(t)
      BY <2>4, AbortTaskPays, ReclaimedPays, FinishPays, ZenonT(30)
  <2> QED
      BY <1>1, <2>1, <2>2, <2>3, <2>4, ZenonT(30) DEF Arbitrate
<1>2. ASSUME NEW p \in Pools, AddRootPool(p) \/ DropPool(p) PROVE TransitInv' /\ Moved
    BY ZenonT(30), <1>2, RootPoolPays
<1>3. ASSUME NEW t \in Tasks, Ask(t) \/ Retry(t) \/ Release(t) \/ Close(t) \/ StartArbitration(t)
      PROVE  TransitInv' /\ Moved
    BY ZenonT(30), <1>3, OutsidePays
<1> QED
    BY <1>1, <1>2, <1>3, ZenonT(30) DEF Next, Done

(* No step of any number of queries and tasks loses or invents capacity:    *)
(* not a failed spill, an abort, a request that gets too little or a pool   *)
(* that changes between the statistics and the shrink.                      *)
THEOREM CapacityIsConserved == Spec => []CapacityConserved
<1> DEFINE Balance == TransitInv /\ CapacityConserved
<1>1. ASSUME QueueInv, Inv, QueueInv', Inv', Balance, [Next]_vars PROVE Balance'
  <2>1. CASE UNCHANGED vars
    <3>1. UNCHANGED <<pc, arb, rc, capacity, freeCapacity>>
        BY ZenonT(30), <2>1 DEF vars
    <3>2. CapacityConserved'
      <4>1. \A t \in Tasks : InTransit(t)' = InTransit(t)
          BY ZenonT(30), <3>1 DEF InTransit
      <4>2. \A t \in Tasks : transit'[t] = transit[t]
          BY ZenonT(30), <4>1 DEF transit
      <4>3. Sum(transit', Tasks) = Sum(transit, Tasks)
          BY ZenonT(30), <4>2, FiniteAssumption, SumSame
      <4>4. (Types => (CapacityConserved <=>
                freeCapacity + Sum(capacity, Pools) + Sum(transit, Tasks) = Capacity))'
          BY ConservedSum, PTL
      <4> QED
          BY ZenonT(30), <1>1, <3>1, <4>3, <4>4, ConservedSum DEF Inv
    <3>3. TransitInv'
        BY ZenonT(30), <1>1, <3>1 DEF TransitInv, Transit
    <3> QED
        BY ZenonT(30), <3>2, <3>3
  <2>2. CASE Next /\ TransitInv' /\ Moved
      BY <1>1, <2>2, Balanced, Zenon DEF Moved
  <2> QED
      BY ZenonT(30), <1>1, <2>1, <2>2, NextMoves
<1>2. Init => Balance
    BY ZenonT(30), InitBalance
<1>3. QueueInv /\ Inv /\ (QueueInv /\ Inv)' /\ Balance /\ [Next]_vars => Balance'
    BY ZenonT(30), <1>1
<1>4. Balance => CapacityConserved
    BY ZenonT(30)
<1> HIDE DEF Balance
<1> QED
    BY <1>2, <1>3, <1>4, InvAlways, PTL DEF Spec
=============================================================================
