------------------------------- MODULE Induction -------------------------------
(***************************************************************************)
(* Induction, stated with sets where a textbook has predicates: a property *)
(* of numbers is the set of the numbers that have it.  With it, what a     *)
(* recursive function computes can be proved: that its equations have a    *)
(* solution is shown first, and its definition then chooses one.           *)
(*                                                                         *)
(* Nothing here is about one component; the modules with proofs about      *)
(* sums and scans extend this one.                                         *)
(***************************************************************************)
EXTENDS Integers, FiniteSets, FiniteSetTheorems, WellFoundedInduction, TLAPS

\* A set of numbers that is not empty has a least element.
LEMMA LeastElement ==
    ASSUME NEW S \in SUBSET Nat, S # {}
    PROVE  \E x \in S : \A y \in S : x <= y
<1>1. PICK x \in S : \A y \in S : ~(<<y, x>> \in OpToRel(<, Nat))
  BY WFMin, NatLessThanWellFounded
<1>2. \A y \in S : ~(y < x)
  BY <1>1 DEF OpToRel
<1> QED
  BY <1>2

\* What 0 has, and n + 1 has if n has it, every number has.
LEMMA FromZero ==
    ASSUME NEW S \in SUBSET Nat, 0 \in S, \A n \in S : n + 1 \in S
    PROVE  S = Nat
<1> SUFFICES ASSUME S # Nat PROVE FALSE
  OBVIOUS
<1>1. PICK n \in Nat \ S : \A m \in Nat \ S : n <= m
  BY LeastElement
<1>2. n - 1 \in Nat /\ n - 1 \notin Nat \ S
  BY <1>1
<1>3. n - 1 \in S /\ (n - 1) + 1 = n
  BY <1>2
<1> QED
  BY <1>1, <1>3

\* The same up to a bound.
LEMMA FromZeroTo ==
    ASSUME NEW N \in Nat, NEW S, 0 \in S, \A n \in 0..(N - 1) : n \in S => n + 1 \in S
    PROVE  \A n \in 0..N : n \in S
<1> DEFINE T == {n \in Nat : n <= N => n \in S}
<1>1. \A n \in T : n + 1 \in T
  OBVIOUS
<1>2. T = Nat
  <2>1. 0 \in T
    OBVIOUS
  <2> HIDE DEF T
  <2>2. T \in SUBSET Nat
    BY DEF T
  <2> QED
    BY <1>1, <2>1, <2>2, FromZero
<1> QED
  BY <1>2

\* There are n numbers from 1 to n.
LEMMA UpTo ==
    ASSUME NEW n \in Nat
    PROVE  IsFiniteSet(1..n) /\ Cardinality(1..n) = n
<1>1. IsFiniteSet(1..n) /\ Cardinality(1..n) = IF 1 > n THEN 0 ELSE n - 1 + 1
  BY FS_Interval
<1> QED
  BY <1>1

-----------------------------------------------------------------------------
(* Iteration: from v, one step for each number up to N.                    *)

\* f holds the values of the first n steps.
Run(n, v, step, f) == f[0] = v /\ \A i \in 1..n : f[i] = step[i][f[i - 1]]

\* There is such an f.
LEMMA Iterates ==
    ASSUME NEW N \in Nat, NEW V, NEW v \in V, NEW step \in [1..N -> [V -> V]]
    PROVE  \E f \in [0..N -> V] : Run(N, v, step, f)
<1> DEFINE S == {n \in 0..N : \E f \in [0..N -> V] : Run(n, v, step, f)}
<1>1. 0 \in S
  <2> DEFINE f == [i \in 0..N |-> v]
  <2>1. f \in [0..N -> V] /\ Run(0, v, step, f) /\ 0 \in 0..N
    BY DEF Run
  <2> HIDE DEF f
  <2> QED
    BY <2>1
<1>2. ASSUME NEW n \in 0..(N - 1), n \in S PROVE n + 1 \in S
  <2>1. PICK f \in [0..N -> V] : Run(n, v, step, f)
    BY <1>2
  <2> DEFINE g == [f EXCEPT ![n + 1] = step[n + 1][f[n]]]
  <2>2. g \in [0..N -> V]
    OBVIOUS
  <2>3. g[0] = v /\ \A i \in 1..n : g[i] = step[i][g[i - 1]]
    BY <2>1 DEF Run
  <2>4. g[n + 1] = step[n + 1][g[n]]
    OBVIOUS
  <2>5. Run(n + 1, v, step, g)
    <3> HIDE DEF g
    <3>1. \A i \in 1..(n + 1) : i = n + 1 \/ i \in 1..n
      OBVIOUS
    <3> QED
      BY <2>3, <2>4, <3>1 DEF Run
  <2>6. n + 1 \in 0..N
    OBVIOUS
  <2> HIDE DEF g
  <2> QED
    BY <2>2, <2>5, <2>6
<1>3. N \in S
  <2> HIDE DEF S
  <2>1. \A n \in 0..N : n \in S
    BY <1>1, <1>2, FromZeroTo, Zenon
  <2> QED
    BY <2>1
<1> QED
  BY <1>3

-----------------------------------------------------------------------------
(* Sums over a finite set, as the folds of the community modules compute    *)
(* them: an element at a time, in the order CHOOSE gives.                   *)

AnyOf(T) == CHOOSE x \in T : TRUE

\* g[T] is the sum of f over T, for each T in S.
SumTable(f, S, g) ==
    g = [T \in SUBSET S |-> IF T = {} THEN 0 ELSE f[AnyOf(T)] + g[T \ {AnyOf(T)}]]

\* Taking the chosen element out leaves one element less.
LEMMA OneLess ==
    ASSUME NEW T, IsFiniteSet(T), NEW x \in T
    PROVE  /\ IsFiniteSet(T \ {x})
           /\ Cardinality(T) \in Nat \ {0}
           /\ Cardinality(T \ {x}) = Cardinality(T) - 1
<1>1. IsFiniteSet(T \ {x}) /\ Cardinality(T \ {x}) = Cardinality(T) - 1
  BY FS_RemoveElement
<1>2. Cardinality(T) \in Nat /\ Cardinality(T \ {x}) \in Nat
  BY <1>1, FS_CardinalityType
<1> QED
  BY <1>1, <1>2

\* There is such a table.
LEMMA SumTableExists ==
    ASSUME NEW f, NEW S, IsFiniteSet(S)
    PROVE  \E g : SumTable(f, S, g)
<1> DEFINE Entry(g, T) == IF T = {} THEN 0 ELSE f[AnyOf(T)] + g[T \ {AnyOf(T)}]
           Upto(k, g) == \A T \in SUBSET S : Cardinality(T) <= k => g[T] = Entry(g, T)
           N == Cardinality(S)
           Good == {k \in 0..N : \E g : Upto(k, g)}
<1>1. \A T \in SUBSET S :
         /\ IsFiniteSet(T) /\ Cardinality(T) \in 0..N
         /\ T # {} => /\ AnyOf(T) \in T /\ T \ {AnyOf(T)} \in SUBSET S
                      /\ Cardinality(T) # 0
                      /\ Cardinality(T \ {AnyOf(T)}) = Cardinality(T) - 1
  <2> SUFFICES ASSUME NEW T \in SUBSET S
               PROVE  /\ IsFiniteSet(T) /\ Cardinality(T) \in 0..N
                      /\ T # {} => /\ AnyOf(T) \in T /\ T \ {AnyOf(T)} \in SUBSET S
                                   /\ Cardinality(T) # 0
                                   /\ Cardinality(T \ {AnyOf(T)}) = Cardinality(T) - 1
    OBVIOUS
  <2>1. IsFiniteSet(T) /\ Cardinality(T) <= N
    BY FS_Subset
  <2>2. Cardinality(T) \in 0..N
    BY <2>1, FS_CardinalityType
  <2>3. T # {} => AnyOf(T) \in T
    BY DEF AnyOf
  <2> QED
    BY <2>1, <2>2, <2>3, OneLess
<1>2. N \in Nat
  BY FS_CardinalityType
<1>3. 0 \in Good
  <2> DEFINE g == [T \in SUBSET S |-> 0]
  <2>1. ASSUME NEW T \in SUBSET S, Cardinality(T) <= 0 PROVE T = {}
    <3>1. Cardinality(T) \in Nat
      BY <1>1, FS_CardinalityType
    <3>2. Cardinality(T) = 0
      BY <2>1, <3>1
    <3> QED
      BY <1>1, <3>2
  <2>2. Upto(0, g)
    BY <2>1
  <2>3. 0 \in 0..N
    BY <1>2
  <2> HIDE DEF g, Upto, N
  <2> QED
    BY <2>2, <2>3
<1>4. ASSUME NEW k \in 0..(N - 1), k \in Good PROVE k + 1 \in Good
  <2>1. PICK g : Upto(k, g)
    BY <1>4
  <2> DEFINE h == [T \in SUBSET S |-> IF Cardinality(T) <= k THEN g[T] ELSE Entry(g, T)]
  <2>2. ASSUME NEW T \in SUBSET S, Cardinality(T) <= k + 1 PROVE h[T] = Entry(h, T)
    <3>1. h[T] = Entry(g, T)
      BY <2>1
    <3>2. CASE T = {}
      BY <3>1, <3>2
    <3>3. CASE T # {}
      <4>1. Cardinality(T \ {AnyOf(T)}) <= k /\ T \ {AnyOf(T)} \in SUBSET S
        BY <1>1, <1>2, <2>2, <3>3
      <4>2. h[T \ {AnyOf(T)}] = g[T \ {AnyOf(T)}]
        BY <4>1
      <4> HIDE DEF h
      <4> QED
        BY <3>1, <3>3, <4>2
    <3> QED
      BY <3>2, <3>3
  <2>3. Upto(k + 1, h)
    <3> HIDE DEF h
    <3> QED
      BY <2>2
  <2>4. k + 1 \in 0..N
    BY <1>2
  <2> HIDE DEF h, Upto, N
  <2> QED
    BY <2>3, <2>4
<1>5. N \in Good
  <2> HIDE DEF Good, N
  <2>1. \A n \in 0..N : n \in Good
    BY <1>2, <1>3, <1>4, FromZeroTo, Zenon
  <2> QED
    BY <1>2, <2>1
<1>6. PICK g : Upto(N, g)
  BY <1>5
<1> DEFINE h == [T \in SUBSET S |-> g[T]]
<1>7. \A T \in SUBSET S : h[T] = Entry(h, T)
  BY <1>1, <1>6
<1>8. h = [T \in SUBSET S |-> Entry(h, T)]
  <2>1. h = [T \in SUBSET S |-> h[T]]
    OBVIOUS
  <2> HIDE DEF h
  <2> QED
    BY <1>7, <2>1
<1> HIDE DEF h
<1> QED
  BY <1>8 DEF SumTable

\* A sum of numbers is a number, and any element can be taken out of it.
LEMMA SumTableFacts ==
    ASSUME NEW S, IsFiniteSet(S), NEW f, \A x \in S : f[x] \in Nat,
           NEW g, SumTable(f, S, g)
    PROVE  /\ g[{}] = 0
           /\ \A T \in SUBSET S : g[T] \in Nat
           /\ \A T \in SUBSET S : \A x \in T : g[T] = f[x] + g[T \ {x}]
<1> DEFINE N == Cardinality(S)
           Fine(T) == g[T] \in Nat /\ \A x \in T : g[T] = f[x] + g[T \ {x}]
           Good == {k \in 0..N : \A T \in SUBSET S : Cardinality(T) <= k => Fine(T)}
<1>1. \A T \in SUBSET S : g[T] = IF T = {} THEN 0 ELSE f[AnyOf(T)] + g[T \ {AnyOf(T)}]
  BY Zenon DEF SumTable
<1>2. g[{}] = 0
  BY <1>1
<1>3. N \in Nat
  BY FS_CardinalityType
<1>4. \A T \in SUBSET S : IsFiniteSet(T) /\ Cardinality(T) \in 0..N
  <2> SUFFICES ASSUME NEW T \in SUBSET S PROVE IsFiniteSet(T) /\ Cardinality(T) \in 0..N
    OBVIOUS
  <2>1. IsFiniteSet(T) /\ Cardinality(T) <= N
    BY FS_Subset
  <2> QED
    BY <2>1, FS_CardinalityType
<1>5. 0 \in Good
  <2>1. \A T \in SUBSET S : Cardinality(T) <= 0 => T = {}
    BY <1>4, FS_EmptySet
  <2> QED
    BY <1>2, <1>3, <2>1
<1>6. ASSUME NEW k \in 0..(N - 1), k \in Good PROVE k + 1 \in Good
  <2> SUFFICES ASSUME NEW T \in SUBSET S, Cardinality(T) <= k + 1, T # {} PROVE Fine(T)
    <3>1. Fine({})
      BY <1>2
    <3>2. k + 1 \in 0..N
      BY <1>3
    <3> QED
      BY <3>1, <3>2
  <2> DEFINE c == AnyOf(T)
  <2>1. c \in T
    BY DEF AnyOf
  <2> HIDE DEF c
  <2>2. \A x \in T : Fine(T \ {x})
    <3> SUFFICES ASSUME NEW x \in T PROVE Fine(T \ {x})
      OBVIOUS
    <3>1. Cardinality(T \ {x}) <= k /\ T \ {x} \in SUBSET S
      BY <1>3, <1>4, OneLess
    <3> QED
      BY <1>6, <3>1
  <2>3. g[T] = f[c] + g[T \ {c}]
    BY <1>1 DEF c
  <2>4. g[T] \in Nat
    <3>1. g[T \ {c}] \in Nat /\ f[c] \in Nat
      BY <2>1, <2>2
    <3> QED
      BY <2>3, <3>1
  <2>5. ASSUME NEW x \in T PROVE g[T] = f[x] + g[T \ {x}]
    <3>1. CASE x = c
      BY <2>3, <3>1
    <3>2. CASE x # c
      <4>1. g[T \ {c}] = f[x] + g[(T \ {c}) \ {x}]
        BY <2>1, <2>2, <3>2
      <4>2. g[T \ {x}] = f[c] + g[(T \ {x}) \ {c}]
        BY <2>1, <2>2, <3>2
      <4>3. (T \ {c}) \ {x} = (T \ {x}) \ {c}
        OBVIOUS
      <4>4. Cardinality(T \ {x}) <= k /\ T \ {x} \in SUBSET S /\ c \in T \ {x}
        BY <1>3, <1>4, <2>1, <3>2, OneLess
      <4>5. (T \ {x}) \ {c} \in SUBSET S /\ Cardinality((T \ {x}) \ {c}) <= k
        <5> DEFINE U == T \ {x}
        <5>1. IsFiniteSet(U) /\ c \in U /\ Cardinality(U) <= k
          BY <1>4, <4>4
        <5> HIDE DEF U
        <5>2. Cardinality(U \ {c}) = Cardinality(U) - 1 /\ Cardinality(U) \in Nat \ {0}
          BY <5>1, OneLess
        <5>3. Cardinality(U \ {c}) <= k
          BY <5>1, <5>2
        <5> QED
          BY <4>4, <5>3 DEF U
      <4>6. g[(T \ {x}) \ {c}] \in Nat /\ f[x] \in Nat /\ f[c] \in Nat
        BY <1>6, <2>1, <4>5
      <4> DEFINE rest == g[(T \ {x}) \ {c}]
      <4>7. g[T] = f[c] + (f[x] + rest) /\ g[T \ {x}] = f[c] + rest /\ rest \in Nat
        BY <2>3, <4>1, <4>2, <4>3, <4>6
      <4> HIDE DEF rest
      <4> QED
        BY <4>6, <4>7
    <3> QED
      BY <3>1, <3>2
  <2> QED
    BY <2>4, <2>5
<1>7. N \in Good
  <2> HIDE DEF Good, N
  <2>1. \A n \in 0..N : n \in Good
    BY <1>3, <1>5, <1>6, FromZeroTo, Zenon
  <2> QED
    BY <1>3, <2>1
<1> QED
  BY <1>2, <1>4, <1>7
===============================================================================
