--------------------------- MODULE ResultsText_proofs ---------------------------
(***************************************************************************)
(* Proofs about the texts of CrackResults and HtmlEscape, for texts of any *)
(* length: that the handler finds in a text the hashes a reader of it would *)
(* find (LinesAreAnswered), and that the cell of a word shows the word      *)
(* (WordsAreDisplayed).                                                    *)
(***************************************************************************)
EXTENDS CrackResults_proofs

-----------------------------------------------------------------------------
(* The elements of a set of numbers in order                               *)

Below(S, x) == {j \in S : j < x}

\* A larger element has more elements below it.
LEMMA BelowGrows ==
    ASSUME NEW S \in SUBSET Nat, IsFiniteSet(S), NEW x \in S, NEW y \in S, x < y
    PROVE  /\ Cardinality(Below(S, x)) \in Nat /\ Cardinality(Below(S, y)) \in Nat
           /\ Cardinality(Below(S, x)) < Cardinality(Below(S, y))
<1>1. IsFiniteSet(Below(S, x)) /\ IsFiniteSet(Below(S, y))
  BY FS_Subset DEF Below
<1>2. Below(S, x) \cup {x} \subseteq Below(S, y) /\ x \notin Below(S, x)
  <2>1. x \in Nat /\ y \in Nat /\ \A j \in S : j \in Nat
    OBVIOUS
  <2>2. \A j \in S : j < x => j < y
    BY <2>1
  <2>3. x \notin Below(S, x)
    BY <2>1 DEF Below
  <2>4. ASSUME NEW j \in Below(S, x) \cup {x} PROVE j \in Below(S, y)
    BY <2>2, <2>4 DEF Below
  <2> QED
    BY <2>3, <2>4
<1>3. /\ IsFiniteSet(Below(S, x) \cup {x})
      /\ Cardinality(Below(S, x) \cup {x}) = Cardinality(Below(S, x)) + 1
  BY <1>1, <1>2, FS_AddElement
<1>4. Cardinality(Below(S, x) \cup {x}) <= Cardinality(Below(S, y))
  BY <1>1, <1>2, FS_Subset
<1> QED
  BY <1>1, <1>3, <1>4, FS_CardinalityType

\* An element is the one its rank says.
LEMMA KthIs ==
    ASSUME NEW S \in SUBSET Nat, IsFiniteSet(S), NEW x \in S
    PROVE  LET k == Cardinality(Below(S, x)) + 1
           IN  k \in 1..Cardinality(S) /\ Kth(S, k) = x
<1> DEFINE k == Cardinality(Below(S, x)) + 1
<1>1. IsFiniteSet(Below(S, x)) /\ Cardinality(Below(S, x)) \in Nat /\ Cardinality(S) \in Nat
  BY FS_Subset, FS_CardinalityType DEF Below
<1>2. k <= Cardinality(S)
  <2>1. Below(S, x) \cup {x} \subseteq S /\ x \notin Below(S, x)
    BY DEF Below
  <2>2. Cardinality(Below(S, x) \cup {x}) = k
    BY <1>1, <2>1, FS_AddElement
  <2>3. Cardinality(Below(S, x) \cup {x}) <= Cardinality(S)
    BY <2>1, FS_Subset
  <2> QED
    BY <2>2, <2>3
<1>3. k \in 1..Cardinality(S)
  BY <1>1, <1>2
<1> HIDE DEF k
<1>4. Kth(S, k) \in S /\ Cardinality(Below(S, Kth(S, k))) = k - 1
  BY <1>3, KthElement DEF Below
<1>5. Cardinality(Below(S, Kth(S, k))) = Cardinality(Below(S, x))
  BY <1>1, <1>4 DEF k
<1>6. ~(Kth(S, k) < x) /\ ~(x < Kth(S, k))
  <2> DEFINE y == Kth(S, k)
  <2>1. y \in S /\ Cardinality(Below(S, y)) = Cardinality(Below(S, x))
    BY <1>4, <1>5
  <2> HIDE DEF y
  <2>2. y < x => Cardinality(Below(S, y)) < Cardinality(Below(S, x))
    BY <2>1, BelowGrows
  <2>3. x < y => Cardinality(Below(S, x)) < Cardinality(Below(S, y))
    BY <2>1, BelowGrows
  <2> QED
    BY <1>1, <2>1, <2>2, <2>3 DEF y
<1>7. Kth(S, k) = x
  <2>1. x \in Nat /\ Kth(S, k) \in Nat
    BY <1>4
  <2> QED
    BY <1>6, <2>1
<1> QED
  BY <1>3, <1>7 DEF k

\* The enumeration is increasing.
LEMMA KthGrows ==
    ASSUME NEW S \in SUBSET Nat, IsFiniteSet(S),
           NEW k \in 1..Cardinality(S), NEW l \in 1..Cardinality(S), k < l
    PROVE  Kth(S, k) < Kth(S, l)
<1>1. Kth(S, k) \in S /\ Cardinality(Below(S, Kth(S, k))) = k - 1
  BY KthElement DEF Below
<1>2. Kth(S, l) \in S /\ Cardinality(Below(S, Kth(S, l))) = l - 1
  BY KthElement DEF Below
<1>3. k \in Nat /\ l \in Nat
  <2>1. Cardinality(S) \in Nat
    BY FS_CardinalityType
  <2> QED
    BY <2>1
<1> DEFINE x == Kth(S, k)
           y == Kth(S, l)
<1> HIDE DEF x, y
<1>4. /\ x \in S /\ Cardinality(Below(S, x)) = k - 1 /\ x \in Nat
      /\ y \in S /\ Cardinality(Below(S, y)) = l - 1 /\ y \in Nat
  BY <1>1, <1>2 DEF x, y
<1>5. y < x => Cardinality(Below(S, y)) < Cardinality(Below(S, x))
  BY <1>4, BelowGrows
<1>6. ~(y < x) /\ x # y
  BY <1>3, <1>4, <1>5
<1>7. x < y
  BY <1>4, <1>6
<1> QED
  BY <1>7 DEF x, y

\* If the number after an element is one as well, it is the next.
LEMMA KthNext ==
    ASSUME NEW S \in SUBSET Nat, IsFiniteSet(S), NEW k \in 1..Cardinality(S), Kth(S, k) + 1 \in S
    PROVE  k + 1 \in 1..Cardinality(S) /\ Kth(S, k + 1) = Kth(S, k) + 1
<1> DEFINE x == Kth(S, k)
<1>1. x \in S /\ Cardinality(Below(S, x)) = k - 1
  BY KthElement DEF Below
<1> HIDE DEF x
<1>2. Below(S, x + 1) = Below(S, x) \cup {x} /\ x \notin Below(S, x)
  <2>1. x \in Nat /\ \A j \in S : j \in Nat
    BY <1>1
  <2>2. \A j \in S : j < x + 1 <=> j < x \/ j = x
    BY <2>1
  <2>3. x \notin Below(S, x)
    BY <2>1 DEF Below
  <2>4. \A j : j \in Below(S, x + 1) <=> j \in Below(S, x) \cup {x}
    BY <1>1, <2>2 DEF Below
  <2> QED
    BY <2>3, <2>4
<1>3. IsFiniteSet(Below(S, x))
  BY FS_Subset DEF Below
<1>4. Cardinality(S) \in Nat
  BY FS_CardinalityType
<1>5. Cardinality(Below(S, x + 1)) = k
  BY <1>1, <1>2, <1>3, <1>4, FS_AddElement
<1>6. x + 1 \in S
  BY DEF x
<1> QED
  BY <1>5, <1>6, KthIs DEF x

\* An increasing map takes a set to one of the same size.
LEMMA SameSize ==
    ASSUME NEW A \in SUBSET Nat, IsFiniteSet(A), NEW B, NEW psi,
           \A x \in A : psi[x] \in B /\ psi[x] \in Nat,
           \A x, y \in A : x < y => psi[x] < psi[y],
           \A z \in B : \E x \in A : psi[x] = z
    PROVE  IsFiniteSet(B) /\ Cardinality(A) = Cardinality(B)
<1> DEFINE g == [x \in A |-> psi[x]]
<1>1. g \in [A -> B] /\ \A z \in B : \E x \in A : g[x] = z
  OBVIOUS
<1>2. \A x, y \in A : x # y => g[x] # g[y]
  <2> SUFFICES ASSUME NEW x \in A, NEW y \in A, x # y PROVE psi[x] # psi[y]
    OBVIOUS
  <2>1. x < y \/ y < x
    OBVIOUS
  <2>2. psi[x] < psi[y] \/ psi[y] < psi[x]
    BY <2>1
  <2> QED
    BY <2>2
<1> HIDE DEF g
<1>3. g \in Bijection(A, B)
  BY <1>1, <1>2 DEF Bijection, Injection, Surjection, IsInjective
<1> QED
  BY <1>3, FS_Bijection DEF ExistsBijection

\* Two sets of numbers with an increasing map from one onto the other are
\* enumerated alike.
LEMMA Reindexed ==
    ASSUME NEW S \in SUBSET Nat, IsFiniteSet(S), NEW T \in SUBSET Nat, NEW psi,
           \A x \in S : psi[x] \in T,
           \A x, y \in S : x < y => psi[x] < psi[y],
           \A z \in T : \E x \in S : psi[x] = z
    PROVE  /\ IsFiniteSet(T) /\ Cardinality(S) = Cardinality(T)
           /\ \A k \in 1..Cardinality(S) : Kth(T, k) = psi[Kth(S, k)]
<1>1. IsFiniteSet(T) /\ Cardinality(S) = Cardinality(T)
  BY SameSize
<1>2. ASSUME NEW k \in 1..Cardinality(S) PROVE Kth(T, k) = psi[Kth(S, k)]
  <2> DEFINE x == Kth(S, k)
  <2>1. x \in S /\ Cardinality(Below(S, x)) = k - 1
    BY KthElement DEF Below
  <2> HIDE DEF x
  <2>2. IsFiniteSet(Below(S, x)) /\ Below(S, x) \in SUBSET Nat
    BY FS_Subset DEF Below
  <2>3. \A y \in Below(S, x) : psi[y] \in Below(T, psi[x]) /\ psi[y] \in Nat
    BY <2>1 DEF Below
  <2>4. \A y, z \in Below(S, x) : y < z => psi[y] < psi[z]
    BY DEF Below
  <2>5. ASSUME NEW z \in Below(T, psi[x]) PROVE \E y \in Below(S, x) : psi[y] = z
    <3>1. z \in T /\ z < psi[x]
      BY <2>5 DEF Below
    <3>2. PICK y \in S : psi[y] = z
      BY <3>1
    <3>3. x \in Nat /\ y \in Nat /\ psi[x] \in Nat /\ psi[y] \in Nat
      BY <2>1, <3>2
    <3>5. x < y => psi[x] < psi[y]
      BY <2>1, <3>2
    <3>4. y < x
      BY <3>1, <3>2, <3>3, <3>5
    <3> QED
      BY <3>2, <3>4 DEF Below
  <2>6. Cardinality(Below(T, psi[x])) = k - 1
    <3> DEFINE A == Below(S, x)
               B == Below(T, psi[x])
    <3>1. IsFiniteSet(A) /\ A \in SUBSET Nat
      BY <2>2
    <3>2. \A z \in B : \E y \in A : psi[y] = z
      BY <2>5
    <3>3. (\A y \in A : psi[y] \in B /\ psi[y] \in Nat) /\ (\A y, z \in A : y < z => psi[y] < psi[z])
      BY <2>3, <2>4
    <3> HIDE DEF A, B
    <3>4. Cardinality(A) = Cardinality(B)
      BY <3>1, <3>2, <3>3, SameSize
    <3> QED
      BY <2>1, <3>4 DEF A, B
  <2>7. Cardinality(S) \in Nat
    BY FS_CardinalityType
  <2>8. k \in Nat /\ psi[x] \in T
    BY <2>1, <2>7
  <2>9. Kth(T, k - 1 + 1) = psi[x]
    BY <1>1, <2>6, <2>8, KthIs
  <2> QED
    BY <2>8, <2>9 DEF x
<1> QED
  BY <1>1, <1>2

-----------------------------------------------------------------------------
(* Line ends                                                               *)

\* The positions of a text that its normal form keeps, and the k-th of them.
Stay(raw) == {i \in DOMAIN raw : ~(raw[i] = "CR" /\ i < Len(raw) /\ raw[i + 1] = "LF")}
Pos(raw, k) == Kth(Stay(raw), k)

\* The text after the line ends are made the same: the elements that stay, in
\* their order, each line end as LF.
LEMMA NormalForm ==
    ASSUME NEW raw \in Seq(Chars)
    PROVE  LET m == Len(normalized(raw))
           IN  /\ normalized(raw) \in Seq(Chars) /\ m \in Nat /\ m = Cardinality(Stay(raw))
               /\ Stay(raw) \in SUBSET Nat /\ IsFiniteSet(Stay(raw))
               /\ \A k \in 1..m :
                     /\ Pos(raw, k) \in 1..Len(raw)
                     /\ normalized(raw)[k] = IF raw[Pos(raw, k)] = "CR" THEN "LF" ELSE raw[Pos(raw, k)]
<1> DEFINE S == Stay(raw)
           merged == At(raw, S)
           t == normalized(raw)
<1>0. Len(raw) \in Nat /\ DOMAIN raw = 1..Len(raw) /\ \A i \in 1..Len(raw) : raw[i] \in Chars
  OBVIOUS
<1>1. IsFiniteSet(S) /\ S \in SUBSET Nat /\ S \in SUBSET (1..Len(raw))
  <2>1. IsFiniteSet(1..Len(raw)) /\ S \in SUBSET (1..Len(raw))
    BY <1>0, UpTo DEF Stay
  <2> QED
    BY <2>1, FS_Subset
<1>2. merged \in Seq(Chars) /\ Len(merged) = Cardinality(S)
  <2>1. \A i \in S : raw[i] \in Chars
    BY <1>0, <1>1
  <2> HIDE DEF S
  <2> QED
    BY <1>1, <2>1, AtElements
<1>3. \A k \in 1..Cardinality(S) : merged[k] = raw[Pos(raw, k)]
  BY DEF At, Pos
<1>4. \A k \in 1..Cardinality(S) : Pos(raw, k) \in 1..Len(raw)
  <2> HIDE DEF S
  <2>1. \A k \in 1..Cardinality(S) : Kth(S, k) \in S
    BY <1>1, KthElement
  <2> QED
    BY <1>1, <2>1 DEF Pos, S
<1>5. t = [i \in DOMAIN merged |-> IF merged[i] = "CR" THEN "LF" ELSE merged[i]]
  BY DEF normalized, Stay
<1> HIDE DEF S, merged, t
<1>6. /\ DOMAIN merged = 1..Len(merged) /\ Len(merged) \in Nat
      /\ \A i \in 1..Len(merged) : merged[i] \in Chars
  BY <1>2
<1>7. "LF" \in Chars
  BY DEF Chars
<1>8. \A i \in 1..Len(merged) : (IF merged[i] = "CR" THEN "LF" ELSE merged[i]) \in Chars
  BY <1>6, <1>7, Zenon
<1>9. t \in [1..Len(merged) -> Chars]
  BY <1>5, <1>6, <1>8
<1>10. t \in Seq(Chars) /\ Len(t) = Cardinality(S)
  BY <1>2, <1>6, <1>9
<1>11. \A k \in 1..Len(t) : t[k] = IF raw[Pos(raw, k)] = "CR" THEN "LF" ELSE raw[Pos(raw, k)]
  BY <1>2, <1>3, <1>5, <1>6, <1>10
<1> QED
  BY <1>1, <1>2, <1>4, <1>6, <1>10, <1>11 DEF t, S

\* Positions keep their order, and only a carriage return loses its own.
LEMMA PosFacts ==
    ASSUME NEW raw \in Seq(Chars)
    PROVE  LET m == Len(normalized(raw))
           IN  /\ \A k, l \in 1..m : k < l => Pos(raw, k) < Pos(raw, l)
               /\ \A k, l \in 1..m : Pos(raw, k) <= Pos(raw, l) => k <= l
               /\ \A i \in 1..Len(raw) :
                     raw[i] # "CR" \/ i \in Stay(raw) => \E k \in 1..m : Pos(raw, k) = i
<1> DEFINE S == Stay(raw)
           m == Len(normalized(raw))
<1>1. m \in Nat /\ m = Cardinality(S) /\ S \in SUBSET Nat /\ IsFiniteSet(S)
  BY NormalForm
<1>2. \A i \in 1..Len(raw) : raw[i] # "CR" => i \in S
  BY DEF Stay
<1>5. \A k \in 1..m : Pos(raw, k) \in Nat
  BY NormalForm
<1> HIDE DEF S, m
<1>3. \A k, l \in 1..m : k < l => Pos(raw, k) < Pos(raw, l)
  BY <1>1, KthGrows DEF Pos, S
<1>4. \A i \in S : \E k \in 1..m : Pos(raw, k) = i
  BY <1>1, KthIs DEF Pos, S
<1>6. \A k, l \in 1..m : Pos(raw, k) <= Pos(raw, l) => k <= l
  <2> SUFFICES ASSUME NEW k \in 1..m, NEW l \in 1..m, Pos(raw, k) <= Pos(raw, l), l < k PROVE FALSE
    BY <1>1
  <2>1. Pos(raw, l) < Pos(raw, k)
    BY <1>3
  <2> QED
    BY <1>5, <2>1
<1> QED
  BY <1>2, <1>3, <1>4, <1>6 DEF S, m

\* Two characters stand on one line of a text iff they do so in its normal form.
LEMMA SameLine ==
    ASSUME NEW raw \in Seq(Chars), NEW p \in 1..Len(normalized(raw)),
           NEW q \in 1..Len(normalized(raw)), p <= q
    PROVE  (\A i \in Pos(raw, p)..Pos(raw, q) : raw[i] \notin LineEnds)
               <=> (\A k \in p..q : normalized(raw)[k] # "LF")
<1> DEFINE t == normalized(raw)
           m == Len(t)
<1>0. /\ m \in Nat /\ Len(raw) \in Nat /\ m = Cardinality(Stay(raw)) /\ Stay(raw) \in SUBSET Nat
      /\ IsFiniteSet(Stay(raw))
      /\ \A k \in 1..m : /\ Pos(raw, k) \in 1..Len(raw)
                         /\ t[k] = IF raw[Pos(raw, k)] = "CR" THEN "LF" ELSE raw[Pos(raw, k)]
  BY NormalForm
<1>1. /\ \A k, l \in 1..m : k < l => Pos(raw, k) < Pos(raw, l)
      /\ \A k, l \in 1..m : Pos(raw, k) <= Pos(raw, l) => k <= l
      /\ \A i \in 1..Len(raw) : raw[i] # "CR" \/ i \in Stay(raw) => \E k \in 1..m : Pos(raw, k) = i
  BY PosFacts
<1> HIDE DEF t, m
<1>2. p \in 1..m /\ q \in 1..m
  BY DEF m, t
<1>3. ASSUME NEW k \in p..q, t[k] = "LF"
      PROVE  \E i \in Pos(raw, p)..Pos(raw, q) : raw[i] \in LineEnds
  <2>1. k \in 1..m /\ p <= k /\ k <= q
    BY <1>0, <1>2
  <2>2. Pos(raw, p) <= Pos(raw, k) /\ Pos(raw, k) <= Pos(raw, q)
    BY <1>0, <1>1, <1>2, <2>1
  <2>3. Pos(raw, k) \in Pos(raw, p)..Pos(raw, q)
    BY <1>0, <1>2, <2>1, <2>2
  <2>4. raw[Pos(raw, k)] \in LineEnds
    BY <1>0, <1>3, <2>1 DEF LineEnds
  <2> QED
    BY <2>3, <2>4
<1>4. ASSUME NEW i \in Pos(raw, p)..Pos(raw, q), raw[i] \in LineEnds
      PROVE  \E k \in p..q : t[k] = "LF"
  <2>0. i \in 1..Len(raw) /\ Pos(raw, p) <= i /\ i <= Pos(raw, q)
    BY <1>0, <1>2
  <2>1. PICK j \in 1..Len(raw) : /\ j \in Stay(raw) /\ i <= j /\ j <= Pos(raw, q)
                                 /\ raw[j] \in LineEnds
    <3>1. CASE i \in Stay(raw)
      BY <1>4, <2>0, <3>1
    <3>2. CASE i \notin Stay(raw)
      <4>1. raw[i] = "CR" /\ i < Len(raw) /\ raw[i + 1] = "LF"
        BY <2>0, <3>2 DEF Stay
      <4>2. i + 1 \in 1..Len(raw) /\ i + 1 \in Stay(raw)
        BY <1>0, <2>0, <4>1 DEF Stay
      <4>3. i # Pos(raw, q)
        <5>1. Pos(raw, q) \in Stay(raw)
          BY <1>0, <1>2, KthElement DEF Pos
        <5> QED
          BY <3>2, <5>1
      <4>4. i + 1 <= Pos(raw, q)
        BY <1>0, <1>2, <2>0, <4>3
      <4> QED
        BY <2>0, <4>1, <4>2, <4>4 DEF LineEnds
    <3> QED
      BY <3>1, <3>2
  <2>2. PICK k \in 1..m : Pos(raw, k) = j
    BY <1>1, <2>1
  <2>3. p <= k /\ k <= q
    <3>1. Pos(raw, p) <= Pos(raw, k) /\ Pos(raw, k) <= Pos(raw, q)
      BY <1>0, <1>2, <2>0, <2>1, <2>2
    <3> QED
      BY <1>1, <1>2, <3>1
  <2>4. t[k] = "LF"
    BY <1>0, <2>1, <2>2 DEF LineEnds
  <2>5. k \in p..q
    BY <1>0, <1>2, <2>3
  <2> QED
    BY <2>4, <2>5
<1> QED
  BY <1>3, <1>4 DEF t

\* On one line nothing is dropped: the text and its normal form are the same.
LEMMA SameText ==
    ASSUME NEW raw \in Seq(Chars), NEW p \in 1..Len(normalized(raw)),
           NEW q \in 1..Len(normalized(raw)), p <= q,
           \A i \in Pos(raw, p)..Pos(raw, q) : raw[i] \notin LineEnds
    PROVE  SubSeq(raw, Pos(raw, p), Pos(raw, q)) = SubSeq(normalized(raw), p, q)
<1> DEFINE t == normalized(raw)
           m == Len(t)
           a == Pos(raw, p)
           n == Pos(raw, q) - a
           Shifted == {d \in 0..n : p + d \in 1..m /\ Pos(raw, p + d) = a + d}
<1>0. /\ m \in Nat /\ Len(raw) \in Nat /\ m = Cardinality(Stay(raw)) /\ Stay(raw) \in SUBSET Nat
      /\ IsFiniteSet(Stay(raw)) /\ t \in Seq(Chars)
      /\ \A k \in 1..m : /\ Pos(raw, k) \in 1..Len(raw)
                         /\ t[k] = IF raw[Pos(raw, k)] = "CR" THEN "LF" ELSE raw[Pos(raw, k)]
  BY NormalForm
<1>1. /\ \A k, l \in 1..m : k < l => Pos(raw, k) < Pos(raw, l)
      /\ \A k, l \in 1..m : Pos(raw, k) <= Pos(raw, l) => k <= l
  BY PosFacts
<1>2. p \in 1..m /\ q \in 1..m
  OBVIOUS
<1> HIDE DEF t, m
<1>3. a \in 1..Len(raw) /\ Pos(raw, q) \in 1..Len(raw) /\ a <= Pos(raw, q) /\ n \in Nat
  <2>1. Pos(raw, p) \in 1..Len(raw) /\ Pos(raw, q) \in 1..Len(raw)
    BY <1>0, <1>2
  <2>2. p = q \/ p < q
    BY <1>0, <1>2
  <2>3. Pos(raw, p) <= Pos(raw, q)
    BY <1>1, <1>2, <2>1, <2>2
  <2> QED
    BY <2>1, <2>3
<1>4. 0 \in Shifted
  BY <1>0, <1>2, <1>3
<1>5. ASSUME NEW d \in 0..(n - 1), d \in Shifted PROVE d + 1 \in Shifted
  <2>1. p + d \in 1..m /\ Pos(raw, p + d) = a + d
    BY <1>5
  <2>2. a + d + 1 \in a..Pos(raw, q) /\ a + d + 1 \in 1..Len(raw)
    BY <1>3
  <2>3. raw[a + d + 1] # "CR"
    BY <2>2 DEF LineEnds
  <2>4. a + d + 1 \in Stay(raw)
    BY <2>2, <2>3 DEF Stay
  <2>5. p + d + 1 \in 1..m /\ Pos(raw, p + d + 1) = a + d + 1
    BY <1>0, <2>1, <2>4, KthNext DEF Pos
  <2>6. p + (d + 1) = p + d + 1 /\ a + (d + 1) = a + d + 1 /\ d + 1 \in 0..n
    BY <1>0, <1>2, <1>3
  <2> QED
    BY <2>5, <2>6
<1>6. \A d \in 0..n : d \in Shifted
  <2> HIDE DEF Shifted, n
  <2> QED
    BY <1>3, <1>4, <1>5, FromZeroTo, Zenon
<1>7. q = p + n
  <2>1. n \in Shifted
    BY <1>3, <1>6
  <2>2. p + n \in 1..m /\ Pos(raw, p + n) = Pos(raw, q)
    BY <1>3, <2>1
  <2>3. p + n <= q /\ q <= p + n
    BY <1>1, <1>2, <1>3, <2>2
  <2>4. p \in Int /\ q \in Int /\ n \in Int
    BY <1>0, <1>2, <1>3
  <2> HIDE DEF n
  <2> QED
    BY <2>3, <2>4
<1>8. \A d \in 0..n : t[p + d] = raw[a + d]
  <2> SUFFICES ASSUME NEW d \in 0..n PROVE t[p + d] = raw[a + d]
    OBVIOUS
  <2>1. p + d \in 1..m /\ Pos(raw, p + d) = a + d
    BY <1>6
  <2>2. a + d \in a..Pos(raw, q)
    BY <1>3
  <2>3. raw[a + d] # "CR"
    BY <2>2 DEF LineEnds
  <2> QED
    BY <1>0, <2>1, <2>3
<1> DEFINE u == SubSeq(raw, a, Pos(raw, q))
           v == SubSeq(t, p, q)
<1>9. u \in Seq(Chars) /\ Len(u) = n + 1 /\ \A i \in 1..(n + 1) : u[i] = raw[a + i - 1]
  <2>1. \A i \in a..Pos(raw, q) : raw[i] \in Chars
    BY <1>3
  <2>2. /\ u \in Seq(Chars) /\ Len(u) = IF a <= Pos(raw, q) THEN Pos(raw, q) - a + 1 ELSE 0
        /\ \A i \in 1..(Pos(raw, q) - a + 1) : u[i] = raw[a + i - 1]
    BY <1>3, <2>1, SubSeqProperties
  <2> HIDE DEF u
  <2> QED
    BY <1>3, <2>2
<1>10. v \in Seq(Chars) /\ Len(v) = n + 1 /\ \A i \in 1..(n + 1) : v[i] = t[p + i - 1]
  <2>0. p \in Int /\ q \in Int /\ p <= q /\ q - p + 1 = n + 1
    <3>1. p \in Int /\ q \in Int /\ n \in Nat
      BY <1>0, <1>2, <1>3
    <3> HIDE DEF n
    <3> QED
      BY <1>7, <3>1
  <2>1. \A i \in p..q : t[i] \in Chars
    BY <1>0, <1>2 DEF m
  <2>2. /\ v \in Seq(Chars) /\ Len(v) = IF p <= q THEN q - p + 1 ELSE 0
        /\ \A i \in 1..(q - p + 1) : v[i] = t[p + i - 1]
    BY <2>0, <2>1, SubSeqProperties
  <2> HIDE DEF v, n
  <2> QED
    BY <2>0, <2>2
<1>11. \A i \in 1..(n + 1) : u[i] = v[i]
  <2> SUFFICES ASSUME NEW i \in 1..(n + 1) PROVE raw[a + i - 1] = t[p + i - 1]
    BY <1>9, <1>10
  <2>1. i - 1 \in 0..n /\ a + (i - 1) = a + i - 1 /\ p + (i - 1) = p + i - 1
    BY <1>0, <1>2, <1>3
  <2> QED
    BY <1>8, <2>1
<1>12. u = v
  <2> HIDE DEF u, v, n
  <2> QED
    BY <1>3, <1>9, <1>10, <1>11
<1> QED
  BY <1>12 DEF t

-----------------------------------------------------------------------------
(* Lines                                                                   *)

\* What is in a set of numbers and below all of it is its Min.
LEMMA MinIs ==
    ASSUME NEW S \in SUBSET Nat, NEW x \in S, \A y \in S : x <= y
    PROVE  Min(S) = x
<1>1. Min(S) \in S /\ \A y \in S : Min(S) <= y
  BY MinElement
<1>2. Min(S) \in Nat /\ x \in Nat /\ Min(S) <= x /\ x <= Min(S)
  BY <1>1
<1> QED
  BY <1>2

\* What is in a finite set of numbers and above all of it is its Max.
LEMMA MaxIs ==
    ASSUME NEW n \in Nat, NEW S \in SUBSET (0..n), NEW x \in S, \A y \in S : y <= x
    PROVE  Max(S) = x
<1>1. Max(S) \in S /\ \A y \in S : y <= Max(S)
  BY MaxElement
<1>2. Max(S) \in 0..n /\ x \in 0..n /\ Max(S) <= x /\ x <= Max(S)
  BY <1>1
<1> QED
  BY <1>2

\* The lines of a text: what stands between a break and the next.
LEMMA LineFacts ==
    ASSUME NEW t \in Seq(Chars)
    PROVE  LET B == Breaks(t)
               n == Cardinality(B) - 1
           IN  /\ n \in Nat /\ DOMAIN lines(t) = 1..n
               /\ \A k \in 1..n :
                     /\ lines(t)[k] = SubSeq(t, Kth(B, k) + 1, Kth(B, k + 1) - 1)
                     /\ Kth(B, k) \in 0..Len(t) /\ Kth(B, k + 1) \in 1..(Len(t) + 1)
                     /\ Kth(B, k) < Kth(B, k + 1)
                     /\ Kth(B, k) > 0 => t[Kth(B, k)] = "LF"
                     /\ Kth(B, k + 1) < Len(t) + 1 => t[Kth(B, k + 1)] = "LF"
                     /\ \A p \in (Kth(B, k) + 1)..(Kth(B, k + 1) - 1) : t[p] # "LF"
               /\ \A k, l \in 1..n : k < l => Kth(B, k + 1) <= Kth(B, l)
               /\ \A p \in 1..Len(t) : t[p] # "LF" =>
                     \E k \in 1..n : Kth(B, k) < p /\ p < Kth(B, k + 1)
<1> DEFINE B == Breaks(t)
           c == Cardinality(B)
           n == c - 1
           m == Len(t)
<1>1. /\ m \in Nat /\ DOMAIN t = 1..m /\ B \in SUBSET (0..(m + 1)) /\ B \in SUBSET Nat
      /\ 0 \in B /\ m + 1 \in B
      /\ \A i \in 1..m : i \in B <=> t[i] = "LF"
  BY DEF Breaks
<1>2. lines(t) = [k \in 1..n |-> SubSeq(t, Kth(B, k) + 1, Kth(B, k + 1) - 1)]
  BY DEF lines
<1> HIDE DEF B, m
<1>3. IsFiniteSet(B) /\ c \in Nat /\ c # 0
  <2>1. IsFiniteSet(0..(m + 1))
    BY <1>1, FS_Interval
  <2>2. IsFiniteSet(B)
    BY <1>1, <2>1, FS_Subset
  <2> QED
    BY <1>1, <2>2, FS_EmptySet, FS_CardinalityType
<1>4. n \in Nat
  BY <1>3
<1>5. \A k \in 1..c : Kth(B, k) \in B /\ Cardinality(Below(B, Kth(B, k))) = k - 1
  BY <1>1, <1>3, KthElement DEF Below
<1>6. \A k, l \in 1..c : k < l => Kth(B, k) < Kth(B, l)
  BY <1>1, <1>3, KthGrows
<1>7. \A b \in B : \E k \in 1..c : Kth(B, k) = b /\ k = Cardinality(Below(B, b)) + 1
  BY <1>1, <1>3, KthIs
<1> HIDE DEF c
<1>8. ASSUME NEW k \in 1..n
      PROVE  /\ Kth(B, k) \in 0..m /\ Kth(B, k + 1) \in 1..(m + 1)
             /\ Kth(B, k) < Kth(B, k + 1)
             /\ Kth(B, k) > 0 => t[Kth(B, k)] = "LF"
             /\ Kth(B, k + 1) < m + 1 => t[Kth(B, k + 1)] = "LF"
             /\ \A p \in (Kth(B, k) + 1)..(Kth(B, k + 1) - 1) : t[p] # "LF"
  <2>1. k \in 1..c /\ k + 1 \in 1..c /\ k < k + 1
    BY <1>3
  <2>2. Kth(B, k) \in B /\ Kth(B, k + 1) \in B /\ Kth(B, k) < Kth(B, k + 1)
    BY <1>5, <1>6, <2>1
  <2>3. Kth(B, k) \in 0..m /\ Kth(B, k + 1) \in 1..(m + 1)
    <3>1. Kth(B, k) \in 0..(m + 1) /\ Kth(B, k + 1) \in 0..(m + 1)
      BY <1>1, <2>2
    <3> QED
      BY <1>1, <2>2, <3>1
  <2>4. /\ Kth(B, k) > 0 => t[Kth(B, k)] = "LF"
        /\ Kth(B, k + 1) < m + 1 => t[Kth(B, k + 1)] = "LF"
    BY <1>1, <2>2, <2>3
  <2>5. ASSUME NEW p \in (Kth(B, k) + 1)..(Kth(B, k + 1) - 1), t[p] = "LF" PROVE FALSE
    <3>1. p \in 1..m /\ Kth(B, k) < p /\ p < Kth(B, k + 1)
      BY <1>1, <2>3
    <3>2. PICK l \in 1..c : Kth(B, l) = p
      BY <1>1, <1>7, <2>5, <3>1
    <3>3. ~(l < k) /\ l # k /\ ~(k + 1 < l) /\ l # k + 1
      <4>1. l < k => Kth(B, l) < Kth(B, k)
        BY <1>6, <2>1
      <4>2. k + 1 < l => Kth(B, k + 1) < Kth(B, l)
        BY <1>6, <2>1
      <4> QED
        BY <1>1, <2>3, <3>1, <3>2, <4>1, <4>2
    <3> QED
      BY <1>3, <2>1, <3>3
  <2> QED
    BY <2>2, <2>3, <2>4, <2>5
<1>9. ASSUME NEW k \in 1..n, NEW l \in 1..n, k < l PROVE Kth(B, k + 1) <= Kth(B, l)
  <2>1. k + 1 \in 1..c /\ l \in 1..c /\ (k + 1 = l \/ k + 1 < l)
    BY <1>3, <1>9
  <2>2. Kth(B, k + 1) \in Nat /\ Kth(B, l) \in Nat
    BY <1>1, <1>5, <2>1
  <2> QED
    BY <1>6, <2>1, <2>2
<1>10. ASSUME NEW p \in 1..m, t[p] # "LF"
       PROVE  \E k \in 1..n : Kth(B, k) < p /\ p < Kth(B, k + 1)
  <2> DEFINE L == Below(B, p)
             R == {j \in B : p < j}
  <2>0. 0 < p /\ p < m + 1 /\ p \notin B
    BY <1>1, <1>10
  <2>1. L \in SUBSET (0..(m + 1)) /\ 0 \in L /\ R \in SUBSET Nat /\ m + 1 \in R /\ p \notin B
    BY <1>1, <2>0 DEF Below
  <2>2. PICK x \in L : \A j \in L : j <= x
    <3> HIDE DEF L
    <3>1. Max(L) \in L /\ \A j \in L : j <= Max(L)
      BY <1>1, <2>1, MaxElement
    <3> QED
      BY <3>1
  <2>3. PICK y \in R : \A j \in R : y <= j
    <3> HIDE DEF R
    <3> QED
      BY <2>1, LeastElement
  <2>4. x \in B /\ x < p /\ y \in B /\ p < y /\ x \in Nat /\ y \in Nat
    BY <1>1, <2>2, <2>3 DEF Below
  <2>5. \A j \in B : j < y <=> (j < x \/ j = x)
    <3> SUFFICES ASSUME NEW j \in B PROVE j < y <=> (j < x \/ j = x)
      OBVIOUS
    <3>1. j \in Nat /\ j # p
      BY <1>1, <2>1
    <3>2. j < p => j <= x
      BY <2>2 DEF Below
    <3>3. p < j => y <= j
      BY <2>3
    <3> QED
      BY <2>4, <3>1, <3>2, <3>3
  <2>6. Below(B, y) = Below(B, x) \cup {x} /\ x \notin Below(B, x)
    <3>1. x \notin Below(B, x)
      BY <2>4 DEF Below
    <3>2. \A j : j \in Below(B, y) <=> j \in Below(B, x) \cup {x}
      BY <2>4, <2>5 DEF Below
    <3> QED
      BY <3>1, <3>2
  <2>7. IsFiniteSet(Below(B, x)) /\ Cardinality(Below(B, x)) \in Nat
    BY <1>3, FS_Subset, FS_CardinalityType DEF Below
  <2>8. Cardinality(Below(B, y)) = Cardinality(Below(B, x)) + 1
    BY <2>6, <2>7, FS_AddElement
  <2>9. PICK k \in 1..c : Kth(B, k) = x /\ k = Cardinality(Below(B, x)) + 1
    BY <1>7, <2>4
  <2>10. PICK l \in 1..c : Kth(B, l) = y /\ l = Cardinality(Below(B, y)) + 1
    BY <1>7, <2>4
  <2>11. l = k + 1 /\ k \in 1..n
    BY <1>3, <2>7, <2>8, <2>9, <2>10
  <2> QED
    BY <2>4, <2>9, <2>10, <2>11
<1> QED
  BY <1>2, <1>4, <1>8, <1>9, <1>10 DEF B, m, c

-----------------------------------------------------------------------------
(* Trimming                                                                *)

\* The positions of a piece of a text whose characters are not dropped.
Solid(t, a, b, dropped) == {p \in a..b : t[p] \notin dropped}

\* A piece of a piece of a text is a piece of the text.
LEMMA PieceOfPiece ==
    ASSUME NEW t \in Seq(Chars), NEW a \in 1..Len(t), NEW b \in 1..Len(t),
           NEW m \in 1..(b - a + 1), NEW n \in 1..(b - a + 1)
    PROVE  SubSeq(SubSeq(t, a, b), m, n) = SubSeq(t, a + m - 1, a + n - 1)
BY SubSeqOfSubSeq

\* Trimming a piece of a text leaves the piece from its first to its last
\* character that is not dropped.
LEMMA TrimPiece ==
    ASSUME NEW t \in Seq(Chars), NEW a \in 1..(Len(t) + 1), NEW b \in 0..Len(t), NEW dropped
    PROVE  LET P == Solid(t, a, b, dropped)
           IN  /\ trim_matches(SubSeq(t, a, b), dropped) =
                      IF P = {} THEN <<>> ELSE SubSeq(t, Min(P), Max(P))
               /\ P # {} => /\ Min(P) \in P /\ Max(P) \in P
                            /\ \A p \in P : Min(P) <= p /\ p <= Max(P)
<1> USE DEF Solid
<1> DEFINE P == Solid(t, a, b, dropped)
           l == SubSeq(t, a, b)
           K == {i \in DOMAIN l : l[i] \notin dropped}
<1>1. Len(t) \in Nat /\ a \in Nat /\ b \in Nat /\ P \in SUBSET (0..Len(t)) /\ P \in SUBSET Nat
  OBVIOUS
<1>2. /\ l \in Seq(Chars) /\ DOMAIN l = 1..Len(l) /\ Len(l) \in Nat
      /\ Len(l) = IF a <= b THEN b - a + 1 ELSE 0
      /\ \A i \in 1..(b - a + 1) : l[i] = t[a + i - 1]
  <2>1. \A i \in a..b : t[i] \in Chars
    OBVIOUS
  <2>2. /\ l \in Seq(Chars) /\ Len(l) = IF a <= b THEN b - a + 1 ELSE 0
        /\ \A i \in 1..(b - a + 1) : l[i] = t[a + i - 1]
    BY <1>1, <2>1, SubSeqProperties
  <2> HIDE DEF l
  <2> QED
    BY <2>2
<1>3. P # {} => /\ Min(P) \in P /\ Max(P) \in P
                /\ \A p \in P : Min(P) <= p /\ p <= Max(P)
  <2> HIDE DEF P
  <2> QED
    BY <1>1, MinElement, MaxElement
<1> HIDE DEF l
<1>4. ASSUME NEW i \in K PROVE a + i - 1 \in P
  <2>1. i \in 1..Len(l) /\ l[i] \notin dropped
    BY <1>2
  <2>2. i \in 1..(b - a + 1) /\ a + i - 1 \in a..b
    BY <1>1, <1>2, <2>1
  <2> QED
    BY <1>2, <2>1, <2>2
<1>5. \A p \in P : p - a + 1 \in K /\ p - a + 1 \in 1..(b - a + 1)
  <2> SUFFICES ASSUME NEW p \in P PROVE p - a + 1 \in K /\ p - a + 1 \in 1..(b - a + 1)
    OBVIOUS
  <2>1. p \in a..b /\ t[p] \notin dropped
    OBVIOUS
  <2>2. p - a + 1 \in 1..(b - a + 1) /\ a <= b /\ a + (p - a + 1) - 1 = p
    BY <1>1, <2>1
  <2>3. l[p - a + 1] = t[p]
    BY <1>2, <2>2
  <2> QED
    BY <1>2, <2>1, <2>2, <2>3
<1>6. trim_matches(l, dropped) = IF K = {} THEN <<>> ELSE SubSeq(l, Min(K), Max(K))
  BY DEF trim_matches
<1>7. CASE P = {}
  <2>1. K = {}
    BY <1>4, <1>7
  <2> QED
    BY <1>3, <1>6, <1>7, <2>1 DEF l
<1>8. CASE P # {}
  <2> DEFINE x == Min(P)
             y == Max(P)
  <2>1. x \in a..b /\ y \in a..b /\ x \in P /\ y \in P /\ x <= y /\ \A p \in P : x <= p /\ p <= y
    BY <1>3, <1>8
  <2>5. K \in SUBSET (0..Len(l)) /\ K \in SUBSET Nat
    BY <1>2
  <2> HIDE DEF x, y
  <2>2. x - a + 1 \in K /\ y - a + 1 \in K
    BY <1>5, <2>1
  <2>3. ASSUME NEW i \in K PROVE x - a + 1 <= i /\ i <= y - a + 1
    <3>1. x <= a + i - 1 /\ a + i - 1 <= y
      BY <1>4, <2>1
    <3>2. i \in Nat /\ x \in Nat /\ y \in Nat
      BY <1>1, <2>1, <2>5
    <3> QED
      BY <1>1, <3>1, <3>2
  <2>4. Min(K) = x - a + 1 /\ Max(K) = y - a + 1
    <3> HIDE DEF K
    <3> QED
      BY <1>2, <2>2, <2>3, <2>5, MinIs, MaxIs
  <2>6. SubSeq(l, x - a + 1, y - a + 1) = SubSeq(t, x, y)
    <3>1. a \in 1..Len(t) /\ b \in 1..Len(t)
      BY <1>1, <2>1
    <3>2. x - a + 1 \in 1..(b - a + 1) /\ y - a + 1 \in 1..(b - a + 1)
      BY <1>1, <2>1
    <3>3. SubSeq(SubSeq(t, a, b), x - a + 1, y - a + 1) = SubSeq(t, a + (x - a + 1) - 1, a + (y - a + 1) - 1)
      BY <3>1, <3>2, PieceOfPiece
    <3>4. a + (x - a + 1) - 1 = x /\ a + (y - a + 1) - 1 = y
      BY <1>1, <2>1
    <3> QED
      BY <3>3, <3>4 DEF l
  <2>7. K # {}
    BY <2>2
  <2> QED
    BY <1>3, <1>6, <1>8, <2>4, <2>6, <2>7 DEF l, x, y
<1> QED
  BY <1>7, <1>8

\* What a second trimming drops need not be dropped by the first.
LEMMA TrimAgain ==
    ASSUME NEW t \in Seq(Chars), NEW dropped, NEW first \in SUBSET dropped
    PROVE  trim_matches(trim_matches(t, first), dropped) = trim_matches(t, dropped)
<1> DEFINE P == Solid(t, 1, Len(t), first)
           Q == Solid(t, 1, Len(t), dropped)
<1>0. Len(t) \in Nat /\ SubSeq(t, 1, Len(t)) = t /\ 1 \in 1..(Len(t) + 1) /\ Len(t) \in 0..Len(t)
  BY SubSeqFull
<1>1. /\ trim_matches(t, first) = IF P = {} THEN <<>> ELSE SubSeq(t, Min(P), Max(P))
      /\ P # {} => Min(P) \in P /\ Max(P) \in P /\ \A p \in P : Min(P) <= p /\ p <= Max(P)
  BY <1>0, TrimPiece
<1>2. trim_matches(t, dropped) = IF Q = {} THEN <<>> ELSE SubSeq(t, Min(Q), Max(Q))
  BY <1>0, TrimPiece
<1>3. Q \subseteq P
  BY DEF Solid
<1>4. CASE P = {}
  <2>1. trim_matches(<<>>, dropped) = <<>>
    BY DEF trim_matches
  <2> QED
    BY <1>1, <1>2, <1>3, <1>4, <2>1
<1>5. CASE P # {}
  <2> DEFINE a == Min(P)
             b == Max(P)
  <2>1. a \in P /\ b \in P /\ \A p \in P : a <= p /\ p <= b
    BY <1>1, <1>5
  <2> HIDE DEF a, b
  <2>2. a \in 1..(Len(t) + 1) /\ b \in 0..Len(t) /\ a \in Nat /\ b \in Nat
    BY <1>0, <2>1 DEF Solid
  <2>3. Solid(t, a, b, dropped) = Q
    <3>1. \A p \in Q : p \in a..b
      BY <1>0, <1>3, <2>1, <2>2 DEF Solid
    <3>2. \A p \in a..b : p \in 1..Len(t)
      BY <1>0, <2>1, <2>2 DEF Solid
    <3> QED
      BY <3>1, <3>2 DEF Solid
  <2>4. trim_matches(SubSeq(t, a, b), dropped) = IF Q = {} THEN <<>> ELSE SubSeq(t, Min(Q), Max(Q))
    <3> HIDE DEF Q
    <3> QED
      BY <2>2, <2>3, TrimPiece
  <2> QED
    BY <1>1, <1>2, <1>5, <2>4 DEF a, b
<1> QED
  BY <1>4, <1>5

-----------------------------------------------------------------------------
(* Every line is answered                                                  *)

\* Written, part by part.
Filler == Blanks \cup {"*"}
SolidIn(raw) == {i \in DOMAIN raw : raw[i] \notin Filler}
OneLine(raw, i, j) == \A n \in i..j : raw[n] \notin LineEnds
Firsts(raw) == {i \in SolidIn(raw) : ~\E j \in SolidIn(raw) : j < i /\ OneLine(raw, j, i)}
LastOn(raw, i) == Max({j \in SolidIn(raw) : j >= i /\ OneLine(raw, i, j)})

\* Written, in the names of this module.
LEMMA WrittenIs ==
    ASSUME NEW raw
    PROVE  Written(raw) = [k \in 1..Cardinality(Firsts(raw)) |->
                              SubSeq(raw, Kth(Firsts(raw), k), LastOn(raw, Kth(Firsts(raw), k)))]
BY DEF Written, Filler, SolidIn, OneLine, Firsts, LastOn

\* The positions on line k that are neither blank nor star.
OnLine(t, k) == Solid(t, Kth(Breaks(t), k) + 1, Kth(Breaks(t), k + 1) - 1, Filler)

\* What the handler keeps of line k, without the rest of its blanks and stars.
LEMMA StrippedLine ==
    ASSUME NEW t \in Seq(Chars), NEW k \in DOMAIN lines(t)
    PROVE  LET P == OnLine(t, k)
           IN  /\ trim_matches(Trimmed(t)[k], Filler) =
                      IF P = {} THEN <<>> ELSE SubSeq(t, Min(P), Max(P))
               /\ P # {} => /\ Min(P) \in P /\ Max(P) \in P
                            /\ \A p \in P : Min(P) <= p /\ p <= Max(P)
                            /\ SubSeq(t, Min(P), Max(P)) # <<>>
                            /\ Trimmed(t)[k] # <<>>
<1> DEFINE P == OnLine(t, k)
           a == Kth(Breaks(t), k)
           b == Kth(Breaks(t), k + 1)
           line == SubSeq(t, a + 1, b - 1)
<1>1. /\ lines(t)[k] = line /\ a \in 0..Len(t) /\ b \in 1..(Len(t) + 1) /\ Len(t) \in Nat
  BY LineFacts
<1> HIDE DEF a, b
<1>2. a + 1 \in 1..(Len(t) + 1) /\ b - 1 \in 0..Len(t)
  BY <1>1
<1>3. P = Solid(t, a + 1, b - 1, Filler)
  BY DEF OnLine, a, b
<1> HIDE DEF P
<1>4. /\ trim_matches(line, Filler) = IF P = {} THEN <<>> ELSE SubSeq(t, Min(P), Max(P))
      /\ P # {} => /\ Min(P) \in P /\ Max(P) \in P
                   /\ \A p \in P : Min(P) <= p /\ p <= Max(P)
  BY <1>2, <1>3, TrimPiece
<1>5. Trimmed(t)[k] = trim_matches(trim_matches(line, Blanks), {"*"})
  BY <1>1 DEF Trimmed
<1>6. line \in Seq(Chars)
  <2>1. \A i \in (a + 1)..(b - 1) : t[i] \in Chars
    BY <1>1
  <2> QED
    BY <1>2, <2>1, SubSeqProperties
<1> HIDE DEF line
<1>7. trim_matches(line, Blanks) \in Seq(Chars)
  BY <1>6, TrimmedIsText
<1>8. trim_matches(Trimmed(t)[k], Filler) = trim_matches(line, Filler)
  <2>1. Blanks \in SUBSET Filler /\ {"*"} \in SUBSET Filler
    BY DEF Filler
  <2>2. trim_matches(trim_matches(line, Blanks), Filler) = trim_matches(line, Filler)
    BY <1>6, <2>1, TrimAgain
  <2>3. trim_matches(Trimmed(t)[k], Filler) = trim_matches(trim_matches(line, Blanks), Filler)
    BY <1>5, <1>7, <2>1, TrimAgain
  <2> QED
    BY <2>2, <2>3
<1>9. P # {} => SubSeq(t, Min(P), Max(P)) # <<>> /\ Trimmed(t)[k] # <<>>
  <2> SUFFICES ASSUME P # {} PROVE SubSeq(t, Min(P), Max(P)) # <<>> /\ Trimmed(t)[k] # <<>>
    OBVIOUS
  <2>1. Min(P) \in 1..Len(t) /\ Max(P) \in 1..Len(t) /\ Min(P) <= Max(P)
    BY <1>1, <1>3, <1>4 DEF Solid
  <2>2. \A i \in Min(P)..Max(P) : t[i] \in Chars
    BY <1>1, <2>1
  <2>3. Len(SubSeq(t, Min(P), Max(P))) = Max(P) - Min(P) + 1
    BY <2>1, <2>2, SubSeqProperties
  <2>4. SubSeq(t, Min(P), Max(P)) # <<>>
    <3>1. Max(P) - Min(P) + 1 # 0
      BY <1>1, <2>1
    <3> QED
      BY <2>3, <3>1
  <2>5. trim_matches(<<>>, Filler) = <<>>
    BY DEF trim_matches
  <2> QED
    BY <1>4, <1>8, <2>4, <2>5
<1> QED
  BY <1>4, <1>8, <1>9 DEF P

\* A solid character is the same one in the normal form.
LEMMA SolidStays ==
    ASSUME NEW raw \in Seq(Chars)
    PROVE  LET t == normalized(raw)
           IN  /\ \A p \in 1..Len(t) : t[p] \notin Filler => Pos(raw, p) \in SolidIn(raw)
               /\ \A i \in SolidIn(raw) :
                     \E p \in 1..Len(t) : Pos(raw, p) = i /\ t[p] \notin Filler
<1> DEFINE t == normalized(raw)
           m == Len(t)
<1>1. \A k \in 1..m : /\ Pos(raw, k) \in 1..Len(raw)
                      /\ t[k] = IF raw[Pos(raw, k)] = "CR" THEN "LF" ELSE raw[Pos(raw, k)]
  BY NormalForm
<1>2. \A i \in 1..Len(raw) : raw[i] # "CR" => \E k \in 1..m : Pos(raw, k) = i
  BY PosFacts
<1>3. "CR" \in Filler /\ "LF" \in Filler /\ DOMAIN raw = 1..Len(raw)
  BY DEF Filler, Blanks, LineEnds
<1> HIDE DEF t, m
<1>4. \A p \in 1..m : t[p] \notin Filler => Pos(raw, p) \in SolidIn(raw)
  BY <1>1, <1>3 DEF SolidIn
<1>5. \A i \in SolidIn(raw) : \E p \in 1..m : Pos(raw, p) = i /\ t[p] \notin Filler
  BY <1>1, <1>2, <1>3 DEF SolidIn
<1> QED
  BY <1>4, <1>5 DEF t, m

\* A line of the normal form with something solid on it is a run of the text.
LEMMA LineIsRun ==
    ASSUME NEW raw \in Seq(Chars), NEW k \in DOMAIN lines(normalized(raw)),
           OnLine(normalized(raw), k) # {}
    PROVE  LET t == normalized(raw)
               x == Min(OnLine(t, k))
               y == Max(OnLine(t, k))
           IN  /\ Pos(raw, x) \in Firsts(raw)
               /\ SubSeq(raw, Pos(raw, x), LastOn(raw, Pos(raw, x))) = SubSeq(t, x, y)
<1> DEFINE t == normalized(raw)
           m == Len(t)
           a == Kth(Breaks(t), k)
           b == Kth(Breaks(t), k + 1)
           P == OnLine(t, k)
           x == Min(P)
           y == Max(P)
<1>1. t \in Seq(Chars) /\ m \in Nat /\ \A p \in 1..m : Pos(raw, p) \in 1..Len(raw)
  BY NormalForm
<1>2. /\ a \in 0..m /\ b \in 1..(m + 1)
      /\ a > 0 => t[a] = "LF"
      /\ b < m + 1 => t[b] = "LF"
      /\ \A p \in (a + 1)..(b - 1) : t[p] # "LF"
  BY <1>1, LineFacts
<1>3. x \in P /\ y \in P /\ \A p \in P : x <= p /\ p <= y
  BY <1>1, StrippedLine
<1>4. \A p : p \in P <=> p \in (a + 1)..(b - 1) /\ t[p] \notin Filler
  BY DEF OnLine, Solid
<1>5. /\ \A p \in 1..m : t[p] \notin Filler => Pos(raw, p) \in SolidIn(raw)
      /\ \A i \in SolidIn(raw) : \E p \in 1..m : Pos(raw, p) = i /\ t[p] \notin Filler
  BY SolidStays
<1>6. \A p, q \in 1..m : p <= q => (OneLine(raw, Pos(raw, p), Pos(raw, q)) <=> \A l \in p..q : t[l] # "LF")
  BY SameLine DEF OneLine
<1>7. /\ \A p, q \in 1..m : p < q => Pos(raw, p) < Pos(raw, q)
      /\ \A p, q \in 1..m : Pos(raw, p) <= Pos(raw, q) => p <= q
  BY PosFacts
<1>8. \A p, q \in 1..m : p <= q /\ OneLine(raw, Pos(raw, p), Pos(raw, q)) =>
          SubSeq(raw, Pos(raw, p), Pos(raw, q)) = SubSeq(t, p, q)
  BY SameText DEF OneLine
<1> HIDE DEF t, m, a, b, P, x, y
<1>9. /\ \A p \in P : p \in 1..m /\ t[p] \notin Filler /\ a < p /\ p < b /\ p \in Nat
      /\ a \in Nat /\ b \in Nat
  BY <1>1, <1>2, <1>4
<1>10. \A p, q \in P : p <= q => OneLine(raw, Pos(raw, p), Pos(raw, q))
  <2> SUFFICES ASSUME NEW p \in P, NEW q \in P, p <= q, NEW l \in p..q PROVE t[l] # "LF"
    BY <1>6, <1>9
  <2>1. l \in (a + 1)..(b - 1)
    BY <1>9
  <2> QED
    BY <1>2, <2>1
<1>11. ASSUME NEW p \in 1..m, NEW q \in 1..m, p <= q, t[p] \notin Filler, t[q] \notin Filler,
              OneLine(raw, Pos(raw, p), Pos(raw, q))
       PROVE  p \in P <=> q \in P
  <2>1. \A l \in p..q : t[l] # "LF"
    BY <1>6, <1>11
  <2>2. ASSUME p \in P PROVE q \in P
    <3>1. a < p /\ p < b
      BY <1>9, <2>2
    <3>2. q < b
      <4> SUFFICES ASSUME b <= q PROVE FALSE
        BY <1>1, <1>9
      <4>1. b \in p..q /\ b < m + 1
        BY <1>1, <1>9, <3>1
      <4> QED
        BY <1>2, <2>1, <4>1
    <3>3. q \in (a + 1)..(b - 1)
      BY <1>1, <1>9, <1>11, <3>1, <3>2
    <3> QED
      BY <1>4, <1>11, <3>3
  <2>3. ASSUME q \in P PROVE p \in P
    <3>1. a < q /\ q < b
      BY <1>9, <2>3
    <3>2. a < p
      <4> SUFFICES ASSUME p <= a PROVE FALSE
        BY <1>1, <1>9
      <4>1. a \in p..q /\ a > 0
        BY <1>1, <1>9, <3>1
      <4> QED
        BY <1>2, <2>1, <4>1
    <3>3. p \in (a + 1)..(b - 1)
      BY <1>1, <1>9, <1>11, <3>1, <3>2
    <3> QED
      BY <1>4, <1>11, <3>3
  <2> QED
    BY <2>2, <2>3
<1>12. /\ x \in 1..m /\ y \in 1..m /\ x <= y /\ t[x] \notin Filler /\ t[y] \notin Filler
       /\ Pos(raw, x) \in SolidIn(raw) /\ Pos(raw, y) \in SolidIn(raw)
       /\ OneLine(raw, Pos(raw, x), Pos(raw, y))
       /\ Pos(raw, x) \in Nat /\ Pos(raw, y) \in Nat /\ Pos(raw, x) <= Pos(raw, y)
  <2>1. x \in 1..m /\ y \in 1..m /\ x <= y /\ t[x] \notin Filler /\ t[y] \notin Filler
    BY <1>3, <1>9
  <2>2. Pos(raw, x) \in Nat /\ Pos(raw, y) \in Nat
    BY <1>1, <2>1
  <2>3. Pos(raw, x) <= Pos(raw, y)
    <3>1. x = y \/ x < y
      BY <1>1, <2>1
    <3> QED
      BY <1>7, <2>1, <2>2, <3>1
  <2> QED
    BY <1>3, <1>5, <1>10, <2>1, <2>2, <2>3
<1>13. Pos(raw, x) \in Firsts(raw)
  <2> SUFFICES ASSUME NEW j \in SolidIn(raw), j < Pos(raw, x), OneLine(raw, j, Pos(raw, x))
               PROVE  FALSE
    BY <1>12 DEF Firsts
  <2>1. PICK p \in 1..m : Pos(raw, p) = j /\ t[p] \notin Filler
    BY <1>5
  <2>2. Pos(raw, p) \in Nat /\ Pos(raw, p) <= Pos(raw, x)
    BY <1>1, <1>12, <2>1
  <2>3. p <= x /\ p # x
    BY <1>7, <1>12, <2>1, <2>2
  <2>4. p \in P
    BY <1>3, <1>11, <1>12, <2>1, <2>3
  <2> QED
    BY <1>3, <1>9, <2>3, <2>4
<1>14. LastOn(raw, Pos(raw, x)) = Pos(raw, y)
  <2> DEFINE J == {j \in SolidIn(raw) : j >= Pos(raw, x) /\ OneLine(raw, Pos(raw, x), j)}
  <2>1. Pos(raw, y) \in J
    BY <1>12
  <2>2. ASSUME NEW j \in J PROVE j <= Pos(raw, y)
    <3>1. PICK p \in 1..m : Pos(raw, p) = j /\ t[p] \notin Filler
      BY <1>5
    <3>2. x <= p
      BY <1>1, <1>7, <1>12, <3>1
    <3>3. p \in P
      BY <1>3, <1>11, <1>12, <3>1, <3>2
    <3>4. p = y \/ p < y
      BY <1>1, <1>3, <1>12, <3>1, <3>3
    <3>5. p = y => j <= Pos(raw, y)
      BY <1>12, <3>1
    <3>6. p < y => j < Pos(raw, y)
      BY <1>7, <1>12, <3>1
    <3>7. j \in Nat
      BY DEF SolidIn
    <3> QED
      BY <1>12, <3>4, <3>5, <3>6, <3>7
  <2>3. J \in SUBSET (0..Len(raw)) /\ Len(raw) \in Nat
    BY DEF SolidIn
  <2> HIDE DEF J
  <2>4. Max(J) = Pos(raw, y)
    BY <2>1, <2>2, <2>3, MaxIs
  <2> QED
    BY <2>4 DEF LastOn, J
<1>15. SubSeq(raw, Pos(raw, x), LastOn(raw, Pos(raw, x))) = SubSeq(t, x, y)
  BY <1>8, <1>12, <1>14
<1> QED
  BY <1>13, <1>15 DEF t, P, x, y

\* The hashes without the rest of their blanks and stars, and the line of the
\* normal form that the j-th one stands on.
Stripped(hs) == [k \in DOMAIN hs |-> trim_matches(hs[k], Filler)]
LineOf(raw, j) == Kth(NonEmpty(Trimmed(normalized(raw))), j)

\* The j-th hash is what is left of the j-th line on which anything is left.
LEMMA HashFacts ==
    ASSUME NEW raw \in Seq(Chars)
    PROVE  LET t == normalized(raw)
               E == NonEmpty(Trimmed(t))
           IN  /\ IsFiniteSet(E) /\ E \in SUBSET Nat /\ E \in SUBSET DOMAIN lines(t)
               /\ Cardinality(E) \in Nat
               /\ \A k \in DOMAIN lines(t) : Trimmed(t)[k] # <<>> => k \in E
               /\ DOMAIN Hashes(raw) = 1..Cardinality(E)
               /\ \A j \in 1..Cardinality(E) :
                     /\ LineOf(raw, j) \in E
                     /\ Stripped(Hashes(raw))[j] =
                            IF OnLine(t, LineOf(raw, j)) = {} THEN <<>>
                            ELSE SubSeq(t, Min(OnLine(t, LineOf(raw, j))), Max(OnLine(t, LineOf(raw, j))))
<1> DEFINE t == normalized(raw)
           E == NonEmpty(Trimmed(t))
           n == Cardinality(Breaks(t)) - 1
<1>1. t \in Seq(Chars)
  BY NormalForm
<1>2. n \in Nat /\ DOMAIN lines(t) = 1..n
  BY <1>1, LineFacts
<1>3. DOMAIN Trimmed(t) = 1..n
  BY <1>2 DEF Trimmed
<1>4. E \in SUBSET (1..n) /\ \A k \in 1..n : k \in E <=> Trimmed(t)[k] # <<>>
  BY <1>3 DEF NonEmpty
<1>5. DOMAIN Hashes(raw) = 1..Cardinality(E) /\ \A j \in 1..Cardinality(E) : Hashes(raw)[j] = Trimmed(t)[LineOf(raw, j)]
  BY DEF Hashes, At, LineOf
<1>6. \A k \in 1..n : trim_matches(Trimmed(t)[k], Filler) =
                          IF OnLine(t, k) = {} THEN <<>> ELSE SubSeq(t, Min(OnLine(t, k)), Max(OnLine(t, k)))
  BY <1>1, <1>2, StrippedLine
<1>7. \A j : LineOf(raw, j) = Kth(E, j)
  BY DEF LineOf
<1> HIDE DEF t, E, n
<1>8. IsFiniteSet(E) /\ E \in SUBSET Nat /\ Cardinality(E) \in Nat
  <2>1. IsFiniteSet(1..n)
    BY <1>2, FS_Interval
  <2>2. E \in SUBSET Nat
    BY <1>2, <1>4
  <2> QED
    BY <1>4, <2>1, <2>2, FS_Subset, FS_CardinalityType
<1>9. \A j \in 1..Cardinality(E) : LineOf(raw, j) \in E
  BY <1>7, <1>8, KthElement
<1>10. \A j \in 1..Cardinality(E) : Stripped(Hashes(raw))[j] = trim_matches(Trimmed(t)[LineOf(raw, j)], Filler)
  BY <1>5 DEF Stripped
<1>11. \A j \in 1..Cardinality(E) :
          Stripped(Hashes(raw))[j] =
              IF OnLine(t, LineOf(raw, j)) = {} THEN <<>>
              ELSE SubSeq(t, Min(OnLine(t, LineOf(raw, j))), Max(OnLine(t, LineOf(raw, j))))
  BY <1>4, <1>6, <1>9, <1>10
<1> QED
  BY <1>2, <1>4, <1>5, <1>8, <1>9, <1>11 DEF t, E

\* Line for line, the hashes are what is written in the text.
LEMMA HashesAreWritten ==
    ASSUME NEW raw \in Seq(Chars)
    PROVE  Written(raw) = At(Stripped(Hashes(raw)), NonEmpty(Stripped(Hashes(raw))))
<1> DEFINE t == normalized(raw)
           m == Len(t)
           E == NonEmpty(Trimmed(t))
           B == Breaks(t)
           kept == Stripped(Hashes(raw))
           F == NonEmpty(kept)
           P(j) == OnLine(t, LineOf(raw, j))
           First(j) == Min(P(j))
           psi == [j \in F |-> Pos(raw, First(j))]
<1>1. t \in Seq(Chars) /\ m \in Nat /\ \A p \in 1..m : Pos(raw, p) \in 1..Len(raw)
  BY NormalForm
<1>2. /\ IsFiniteSet(E) /\ E \in SUBSET Nat /\ E \in SUBSET DOMAIN lines(t) /\ Cardinality(E) \in Nat
      /\ \A k \in DOMAIN lines(t) : Trimmed(t)[k] # <<>> => k \in E
      /\ DOMAIN Hashes(raw) = 1..Cardinality(E)
      /\ \A j \in 1..Cardinality(E) :
            /\ LineOf(raw, j) \in E
            /\ kept[j] = IF P(j) = {} THEN <<>> ELSE SubSeq(t, Min(P(j)), Max(P(j)))
  BY HashFacts
<1>3. DOMAIN kept = 1..Cardinality(E)
  BY <1>2 DEF Stripped
<1>4. \A k \in DOMAIN lines(t) :
          OnLine(t, k) # {} =>
              /\ Min(OnLine(t, k)) \in OnLine(t, k)
              /\ \A p \in OnLine(t, k) : Min(OnLine(t, k)) <= p
              /\ SubSeq(t, Min(OnLine(t, k)), Max(OnLine(t, k))) # <<>>
              /\ Trimmed(t)[k] # <<>>
  BY <1>1, StrippedLine
<1>5. \A k \in DOMAIN lines(t) :
          OnLine(t, k) # {} =>
              LET x == Min(OnLine(t, k))
                  y == Max(OnLine(t, k))
              IN  /\ Pos(raw, x) \in Firsts(raw)
                  /\ SubSeq(raw, Pos(raw, x), LastOn(raw, Pos(raw, x))) = SubSeq(t, x, y)
  BY LineIsRun
<1>6. /\ \A k \in DOMAIN lines(t) :
            /\ Kth(B, k) \in 0..m /\ Kth(B, k + 1) \in 1..(m + 1)
            /\ \A p \in (Kth(B, k) + 1)..(Kth(B, k + 1) - 1) : t[p] # "LF"
      /\ \A k, l \in DOMAIN lines(t) : k < l => Kth(B, k + 1) <= Kth(B, l)
      /\ \A p \in 1..m : t[p] # "LF" =>
            \E k \in DOMAIN lines(t) : Kth(B, k) < p /\ p < Kth(B, k + 1)
  BY <1>1, LineFacts
<1>7. \A k, p : p \in OnLine(t, k) <=> p \in (Kth(B, k) + 1)..(Kth(B, k + 1) - 1) /\ t[p] \notin Filler
  BY DEF OnLine, Solid
<1>8. \A p, q \in 1..m : p < q => Pos(raw, p) < Pos(raw, q)
  BY PosFacts
<1>9. /\ \A p \in 1..m : t[p] \notin Filler => Pos(raw, p) \in SolidIn(raw)
      /\ \A i \in SolidIn(raw) : \E p \in 1..m : Pos(raw, p) = i /\ t[p] \notin Filler
  BY SolidStays
<1>10. \A p, q \in 1..m : p <= q /\ (\A l \in p..q : t[l] # "LF") => OneLine(raw, Pos(raw, p), Pos(raw, q))
  BY SameLine DEF OneLine
<1>11. \A j : LineOf(raw, j) = Kth(E, j)
  BY DEF LineOf
<1> HIDE DEF t, m, E, B, kept, P
<1>12. \A j : j \in F <=> j \in 1..Cardinality(E) /\ P(j) # {}
  <2>1. \A j \in 1..Cardinality(E) : P(j) # {} => kept[j] # <<>>
    BY <1>2, <1>4 DEF P
  <2>2. \A j \in 1..Cardinality(E) : P(j) = {} => kept[j] = <<>>
    BY <1>2
  <2> QED
    BY <1>3, <2>1, <2>2 DEF NonEmpty
<1>13. F \in SUBSET Nat /\ IsFiniteSet(F)
  <2>1. F \in SUBSET (1..Cardinality(E)) /\ IsFiniteSet(1..Cardinality(E))
    BY <1>2, <1>12, FS_Interval
  <2> QED
    BY <1>2, <2>1, FS_Subset
<1>14. \A j \in F : /\ LineOf(raw, j) \in DOMAIN lines(t) /\ LineOf(raw, j) \in Nat
                    /\ First(j) \in P(j)
                    /\ P(j) = OnLine(t, LineOf(raw, j)) /\ P(j) # {}
  BY <1>2, <1>4, <1>12 DEF P
<1>15. \A k \in DOMAIN lines(t) : \A p \in OnLine(t, k) :
           p \in 1..m /\ Kth(B, k) < p /\ p < Kth(B, k + 1) /\ t[p] \notin Filler /\ p \in Nat
  BY <1>1, <1>6, <1>7
<1>16. \A j \in F : psi[j] \in Firsts(raw) /\ psi[j] = Pos(raw, First(j))
  BY <1>5, <1>14
<1>17. ASSUME NEW j \in F, NEW l \in F, j < l PROVE psi[j] < psi[l]
  <2>1. LineOf(raw, j) < LineOf(raw, l)
    <3>1. j \in 1..Cardinality(E) /\ l \in 1..Cardinality(E)
      BY <1>12
    <3> QED
      BY <1>2, <1>11, <1>17, <3>1, KthGrows
  <2> DEFINE k == LineOf(raw, j)
             i == LineOf(raw, l)
             x == First(j)
             y == First(l)
  <2>2. /\ k < i /\ k \in DOMAIN lines(t) /\ i \in DOMAIN lines(t)
        /\ x \in OnLine(t, k) /\ y \in OnLine(t, i)
    BY <1>14, <2>1
  <2>3. psi[j] = Pos(raw, x) /\ psi[l] = Pos(raw, y)
    OBVIOUS
  <2> HIDE DEF k, i, x, y, First, psi
  <2>4. x \in 1..m /\ y \in 1..m /\ x < Kth(B, k + 1) /\ Kth(B, i) < y
    BY <1>15, <2>2
  <2>5. Kth(B, k + 1) <= Kth(B, i) /\ Kth(B, k + 1) \in 1..(m + 1) /\ Kth(B, i) \in 0..m
    BY <1>6, <2>2
  <2>6. x < y
    BY <1>1, <2>4, <2>5
  <2> QED
    BY <1>8, <2>3, <2>4, <2>6
<1>18. ASSUME NEW i \in Firsts(raw) PROVE \E j \in F : psi[j] = i
  <2>1. i \in SolidIn(raw) /\ ~\E q \in SolidIn(raw) : q < i /\ OneLine(raw, q, i)
    BY DEF Firsts
  <2>2. PICK p \in 1..m : Pos(raw, p) = i /\ t[p] \notin Filler
    BY <1>9, <2>1
  <2>3. t[p] # "LF"
    BY <2>2 DEF Filler, Blanks, LineEnds
  <2>4. PICK k \in DOMAIN lines(t) : Kth(B, k) < p /\ p < Kth(B, k + 1)
    BY <1>6, <2>3
  <2>5. p \in OnLine(t, k)
    <3>1. Kth(B, k) \in 0..m /\ Kth(B, k + 1) \in 1..(m + 1)
      BY <1>6
    <3>2. p \in (Kth(B, k) + 1)..(Kth(B, k + 1) - 1)
      BY <1>1, <2>4, <3>1
    <3> QED
      BY <1>7, <2>2, <3>2
  <2>6. k \in E
    BY <1>2, <1>4, <2>5
  <2>7. PICK j \in 1..Cardinality(E) : Kth(E, j) = k
    BY <1>2, <2>6, KthIs
  <2>8. j \in F /\ P(j) = OnLine(t, k)
    <3>1. P(j) = OnLine(t, k)
      BY <1>11, <2>7 DEF P
    <3> QED
      BY <1>12, <2>5, <2>7, <3>1
  <2>9. First(j) = p
    <3> DEFINE x == Min(OnLine(t, k))
    <3>1. x \in OnLine(t, k) /\ x <= p
      BY <1>4, <2>5
    <3>2. x = First(j)
      BY <2>8
    <3> HIDE DEF x, First, psi
    <3>3. x \in 1..m /\ Kth(B, k) < x /\ x \in Nat /\ t[x] \notin Filler /\ p \in Nat
      BY <1>1, <1>15, <3>1
    <3>4. \A l \in x..p : t[l] # "LF"
      <4> SUFFICES ASSUME NEW l \in x..p PROVE t[l] # "LF"
        OBVIOUS
      <4>1. Kth(B, k) \in 0..m /\ Kth(B, k + 1) \in 1..(m + 1)
        BY <1>6
      <4>2. l \in (Kth(B, k) + 1)..(Kth(B, k + 1) - 1)
        BY <1>1, <2>4, <3>3, <4>1
      <4> QED
        BY <1>6, <4>2
    <3>5. OneLine(raw, Pos(raw, x), Pos(raw, p)) /\ Pos(raw, x) \in SolidIn(raw)
      BY <1>9, <1>10, <3>1, <3>3, <3>4
    <3>6. ~(x < p)
      BY <1>8, <2>1, <2>2, <3>3, <3>5
    <3> QED
      BY <3>1, <3>2, <3>3, <3>6
  <2> QED
    BY <1>16, <2>2, <2>8, <2>9
<1>19. Firsts(raw) \in SUBSET Nat
  BY DEF Firsts, SolidIn
<1>20. \A j \in F : SubSeq(raw, psi[j], LastOn(raw, psi[j])) = kept[j]
  <2> SUFFICES ASSUME NEW j \in F PROVE SubSeq(raw, psi[j], LastOn(raw, psi[j])) = kept[j]
    OBVIOUS
  <2>1. kept[j] = SubSeq(t, Min(P(j)), Max(P(j)))
    BY <1>2, <1>12
  <2>2. SubSeq(raw, Pos(raw, First(j)), LastOn(raw, Pos(raw, First(j)))) = SubSeq(t, Min(P(j)), Max(P(j)))
    BY <1>5, <1>14
  <2> QED
    BY <1>16, <2>1, <2>2
<1> HIDE DEF First, psi, F
<1>21. /\ Cardinality(F) = Cardinality(Firsts(raw))
       /\ \A k \in 1..Cardinality(F) : Kth(Firsts(raw), k) = psi[Kth(F, k)] /\ Kth(F, k) \in F
  <2>1. \A j, l \in F : j < l => psi[j] < psi[l]
    BY <1>17
  <2>2. (\A j \in F : psi[j] \in Firsts(raw)) /\ \A i \in Firsts(raw) : \E j \in F : psi[j] = i
    BY <1>16, <1>18
  <2>3. /\ Cardinality(F) = Cardinality(Firsts(raw))
        /\ \A k \in 1..Cardinality(F) : Kth(Firsts(raw), k) = psi[Kth(F, k)]
    BY <1>13, <1>19, <2>1, <2>2, Reindexed
  <2>4. \A k \in 1..Cardinality(F) : Kth(F, k) \in F
    BY <1>13, KthElement
  <2> QED
    BY <2>3, <2>4
<1>22. \A k \in 1..Cardinality(F) :
          SubSeq(raw, Kth(Firsts(raw), k), LastOn(raw, Kth(Firsts(raw), k))) = kept[Kth(F, k)]
  BY <1>20, <1>21
<1>23. At(kept, F) = [k \in 1..Cardinality(F) |-> kept[Kth(F, k)]]
  BY DEF At
<1>24. Written(raw) = At(kept, F)
  BY <1>21, <1>22, <1>23, WrittenIs
<1> QED
  BY <1>24 DEF kept, F

-----------------------------------------------------------------------------
(* The handler keeps the text it parsed                                    *)

Parsed ==
    page \in {"parsed", "counting", "results", "blank"} =>
        /\ text \in Seq(Chars)
        /\ hashes = Hashes(text)
        /\ page = "blank" => hashes = <<>>

\* The hashes stay those of the text until both are given up.
LEMMA ParsedStep == Parsed /\ [Next]_vars => Parsed'
<1> SUFFICES ASSUME Parsed, [Next]_vars PROVE Parsed'
  OBVIOUS
<1>1. CASE Submit
  <2>1. text' \in Seq(Chars)
    BY <1>1, ResultsAssumption, StringsAreChars DEF Submit
  <2>2. hashes' = Hashes(text') /\ page' = "parsed"
    BY <1>1 DEF Submit
  <2> QED
    BY <2>1, <2>2 DEF Parsed
<1>2. CASE RefuseMany \/ LookupFails \/ Return
  BY <1>2 DEF RefuseMany, LookupFails, Return, Parsed
<1>3. CASE ShowForm \/ Crack \/ StartTable \/ Count \/ ShowTable
  <2>1. UNCHANGED <<text, hashes>> /\ page \in {"parsed", "counting"}
    BY <1>3 DEF ShowForm, Crack, StartTable, Count, ShowTable
  <2>2. page' = "blank" => hashes = <<>>
    BY <1>3 DEF ShowForm, Crack, StartTable, Count, ShowTable
  <2>3. text \in Seq(Chars) /\ hashes = Hashes(text)
    BY <2>1 DEF Parsed
  <2> QED
    BY <2>1, <2>2, <2>3 DEF Parsed
<1>4. CASE UNCHANGED vars
  BY <1>4 DEF Parsed, vars
<1> QED
  BY <1>1, <1>2, <1>3, <1>4 DEF Next

\* home.rs: whatever ends the lines of a text, each of them with anything on
\* it but blanks and stars has its result, in the order of the lines, and a
\* text with such a line is never taken for an empty one.
THEOREM LinesAreAnswered == Spec => []EveryLineAnswered
<1>1. Init => Parsed
  BY DEF Init, Parsed
<1>2. Spec => []Parsed
  BY <1>1, ParsedStep, PTL DEF Spec
<1>3. IInv /\ Parsed => EveryLineAnswered
  <2> SUFFICES ASSUME IInv, Parsed PROVE EveryLineAnswered
    OBVIOUS
  <2> DEFINE stripped == [k \in DOMAIN results |-> trim_matches(results[k].hash, Filler)]
  <2>1. ASSUME page = "results" PROVE Written(text) = At(stripped, NonEmpty(stripped))
    <3>1. text \in Seq(Chars) /\ hashes = Hashes(text)
      BY <2>1 DEF Parsed
    <3>2. DOMAIN results = 1..Len(results) /\ DOMAIN hashes = 1..Len(hashes) /\ Len(results) = Len(hashes)
      BY <2>1 DEF IInv, InOrder, Control
    <3>3. \A k \in 1..Len(results) : results[k].hash = hashes[k]
      BY AnswerFacts DEF IInv, AllAnswered
    <3>4. stripped = Stripped(hashes)
      BY <3>2, <3>3 DEF Stripped
    <3> QED
      BY <3>1, <3>4, HashesAreWritten
  <2>2. ASSUME page = "blank" PROVE Written(text) = <<>>
    <3>1. text \in Seq(Chars) /\ Hashes(text) = <<>>
      BY <2>2 DEF Parsed
    <3>2. Written(text) = At(Stripped(<<>>), NonEmpty(Stripped(<<>>)))
      BY <3>1, HashesAreWritten
    <3>3. NonEmpty(Stripped(<<>>)) = {}
      BY DEF NonEmpty, Stripped
    <3>4. Cardinality({}) = 0
      BY FS_EmptySet
    <3>5. Written(text) = [k \in 1..0 |-> Stripped(<<>>)[Kth({}, k)]]
      BY <3>2, <3>3, <3>4 DEF At
    <3>6. [k \in 1..0 |-> Stripped(<<>>)[Kth({}, k)]] = <<>>
      OBVIOUS
    <3> QED
      BY <3>5, <3>6
  <2> QED
    BY <2>1, <2>2 DEF EveryLineAnswered, Filler
<1> QED
  BY <1>2, <1>3, Invariance, PTL

-----------------------------------------------------------------------------
(* Columns: the cursor of escape_text and the editor's                     *)

\* The equations of Cursor, and those of the editor's columns.
CursorTable(t, g) ==
    g = [i \in 0..Len(t) |->
            IF i = 0 \/ t[i] \in LineEnds THEN 0
            ELSE IF t[i] = "TAB" THEN NextTabStop(g[i - 1])
            ELSE g[i - 1] + Width(t[i])]

EditorTable(w, g) ==
    g = [i \in 0..Len(w) |->
            IF i = 0 THEN 0
            ELSE IF w[i] = "TAB" THEN Min({n \in (g[i - 1] + 1)..(g[i - 1] + TabWidth) : n % TabWidth = 0})
            ELSE g[i - 1] + 1]

\* Every element takes some room.
LEMMA WidthIsNumber == \A element : Width(element) \in Nat \ {0}
<1> TAKE element
<1>1. CASE element = "Binary data:"
  <2>1. Width(element) = 12
    BY <1>1 DEF Width
  <2> QED
    BY <2>1
<1>2. CASE element # "Binary data:"
  <2>1. Width(element) = IF element \in {"09", "0a", "0d", "20", "22", "26", "27", "3c", "3e", "78", "ff"}
                         THEN 2 ELSE 1
    BY <1>2 DEF Width
  <2> QED
    BY <2>1
<1> QED
  BY <1>1, <1>2

\* The next tab stop is one to eight columns away, and the least multiple of
\* the tab width among them.
LEMMA TabStop ==
    ASSUME NEW n \in Nat
    PROVE  /\ NextTabStop(n) \in (n + 1)..(n + TabWidth)
           /\ Min({k \in (n + 1)..(n + TabWidth) : k % TabWidth = 0}) = NextTabStop(n)
<1> DEFINE S == {k \in (n + 1)..(n + 8) : k % 8 = 0}
           x == n + 8 - (n % 8)
<1>1. x \in (n + 1)..(n + 8) /\ x % 8 = 0
  OBVIOUS
<1>2. \A k \in S : x <= k
  OBVIOUS
<1>3. x \in S /\ S \in SUBSET Nat
  BY <1>1
<1>4. Min(S) = x
  <2> HIDE DEF S, x
  <2> QED
    BY <1>2, <1>3, MinIs
<1> QED
  BY <1>1, <1>4 DEF NextTabStop, TabWidth

\* The cursor satisfies the equations it is defined by.
LEMMA CursorFacts ==
    ASSUME NEW t, Len(t) \in Nat
    PROVE  /\ Cursor(t) \in [0..Len(t) -> Nat] /\ Cursor(t)[0] = 0
           /\ \A i \in 1..Len(t) :
                 Cursor(t)[i] = IF t[i] \in LineEnds THEN 0
                                ELSE IF t[i] = "TAB" THEN NextTabStop(Cursor(t)[i - 1])
                                ELSE Cursor(t)[i - 1] + Width(t[i])
<1> DEFINE N == Len(t)
           Next1(i, n) == IF t[i] \in LineEnds THEN 0
                          ELSE IF t[i] = "TAB" THEN NextTabStop(n) ELSE n + Width(t[i])
           step == [i \in 1..N |-> [n \in Nat |-> Next1(i, n)]]
<1>0. N \in Nat /\ 0 \in 0..N /\ \A i \in 1..N : i \in 0..N /\ i - 1 \in 0..N
  OBVIOUS
<1>1. \A i, n : n \in Nat => Next1(i, n) \in Nat
  <2> SUFFICES ASSUME NEW i, NEW n \in Nat PROVE Next1(i, n) \in Nat
    OBVIOUS
  <2>1. NextTabStop(n) \in Nat /\ Width(t[i]) \in Nat
    <3>1. NextTabStop(n) \in (n + 1)..(n + 8)
      BY TabStop DEF TabWidth
    <3>2. Width(t[i]) \in Nat
      BY WidthIsNumber
    <3> QED
      BY <3>1, <3>2
  <2> QED
    BY <2>1
<1>2. PICK f \in [0..N -> Nat] : f[0] = 0 /\ \A i \in 1..N : f[i] = step[i][f[i - 1]]
  <2>1. step \in [1..N -> [Nat -> Nat]]
    BY <1>1
  <2> HIDE DEF step, N
  <2>2. \E f \in [0..N -> Nat] : Run(N, 0, step, f)
    BY <1>0, <2>1, Iterates
  <2> QED
    BY <2>2 DEF Run
<1>3. \A i \in 1..N : f[i] = Next1(i, f[i - 1])
  <2> SUFFICES ASSUME NEW i \in 1..N PROVE f[i] = Next1(i, f[i - 1])
    OBVIOUS
  <2>1. f[i - 1] \in Nat
    BY <1>0, <1>2
  <2>2. f[i] = step[i][f[i - 1]]
    BY <1>2
  <2> HIDE DEF Next1
  <2> QED
    BY <2>1, <2>2
<1>4. CursorTable(t, f)
  <2>1. \A i \in 0..N : f[i] = IF i = 0 \/ t[i] \in LineEnds THEN 0
                               ELSE IF t[i] = "TAB" THEN NextTabStop(f[i - 1])
                               ELSE f[i - 1] + Width(t[i])
    BY <1>2, <1>3
  <2> QED
    BY <1>2, <2>1 DEF CursorTable
<1>5. PICK c : CursorTable(t, c) /\ Cursor(t) = c
  <2> DEFINE c == CHOOSE g : CursorTable(t, g)
  <2>1. CursorTable(t, c)
    BY <1>4, Zenon
  <2>2. Cursor(t) = c
    BY DEF Cursor, CursorTable
  <2> QED
    BY <2>1, <2>2
<1>6. /\ DOMAIN c = 0..N /\ c[0] = 0
      /\ \A i \in 1..N : c[i] = Next1(i, c[i - 1])
      /\ c = [i \in 0..N |-> c[i]]
  <2>1. c = [i \in 0..N |->
                IF i = 0 \/ t[i] \in LineEnds THEN 0
                ELSE IF t[i] = "TAB" THEN NextTabStop(c[i - 1])
                ELSE c[i - 1] + Width(t[i])]
    BY <1>5, Zenon DEF CursorTable
  <2>2. DOMAIN c = 0..N /\ \A i \in 0..N : c[i] =
                IF i = 0 \/ t[i] \in LineEnds THEN 0
                ELSE IF t[i] = "TAB" THEN NextTabStop(c[i - 1])
                ELSE c[i - 1] + Width(t[i])
    BY <2>1
  <2>3. c[0] = 0
    BY <2>2
  <2>4. \A i \in 1..N : c[i] = Next1(i, c[i - 1])
    BY <2>2
  <2>5. c = [i \in 0..N |-> c[i]]
    BY <2>1, <2>2
  <2> QED
    BY <2>2, <2>3, <2>4, <2>5
<1>7. \A i \in 0..N : c[i] \in Nat
  <2> DEFINE S == {i \in 0..N : c[i] \in Nat}
  <2>1. 0 \in S
    BY <1>6
  <2>2. ASSUME NEW n \in 0..(N - 1), n \in S PROVE n + 1 \in S
    <3>1. c[n + 1] = Next1(n + 1, c[n]) /\ n + 1 \in 0..N
      <4>1. n + 1 \in 1..N /\ n + 1 \in 0..N /\ (n + 1) - 1 = n
        BY <1>0
      <4> HIDE DEF Next1, N
      <4> QED
        BY <1>6, <4>1
    <3> QED
      BY <1>1, <2>2, <3>1
  <2> HIDE DEF S
  <2>3. \A n \in 0..N : n \in S
    BY <2>1, <2>2, FromZeroTo, Zenon
  <2> QED
    BY <2>3 DEF S
<1> QED
  BY <1>5, <1>6, <1>7

\* A word without line ends stands in the editor where escape_text thinks.
LEMMA EditorIs ==
    ASSUME NEW w, Len(w) \in Nat, \A i \in 1..Len(w) : w[i] \notin LineEnds /\ Width(w[i]) = 1
    PROVE  Editor(w) =
               [visible |-> {<<Cursor(w)[i - 1], w[i]>> : i \in {j \in DOMAIN w : w[j] \notin Blanks}},
                width   |-> Cursor(w)[Len(w)]]
<1> DEFINE N == Len(w)
           c == Cursor(w)
<1>0. N \in Nat /\ 0 \in 0..N /\ \A i \in 1..N : i \in 0..N /\ i - 1 \in 0..N
  OBVIOUS
<1>1. /\ c \in [0..N -> Nat] /\ c[0] = 0
      /\ \A i \in 1..N : c[i] = IF w[i] = "TAB" THEN NextTabStop(c[i - 1]) ELSE c[i - 1] + 1
  BY CursorFacts
<1> HIDE DEF c
<1>2. EditorTable(w, c)
  <2>1. \A i \in 0..N : c[i] =
            IF i = 0 THEN 0
            ELSE IF w[i] = "TAB" THEN Min({n \in (c[i - 1] + 1)..(c[i - 1] + TabWidth) : n % TabWidth = 0})
            ELSE c[i - 1] + 1
    <3> SUFFICES ASSUME NEW i \in 1..N
                 PROVE  c[i] = IF w[i] = "TAB"
                               THEN Min({n \in (c[i - 1] + 1)..(c[i - 1] + TabWidth) : n % TabWidth = 0})
                               ELSE c[i - 1] + 1
      BY <1>1
    <3>1. c[i - 1] \in Nat
      <4> HIDE DEF N
      <4> QED
        BY <1>0, <1>1
    <3>2. Min({n \in (c[i - 1] + 1)..(c[i - 1] + TabWidth) : n % TabWidth = 0}) = NextTabStop(c[i - 1])
      BY <3>1, TabStop
    <3> QED
      BY <1>1, <3>2
  <2>2. c = [i \in 0..N |-> c[i]]
    BY <1>1
  <2> QED
    BY <2>1, <2>2, Zenon DEF EditorTable
<1>3. PICK g : /\ EditorTable(w, g)
               /\ Editor(w) = [visible |-> {<<g[i - 1], w[i]>> : i \in {j \in DOMAIN w : w[j] \notin Blanks}},
                               width   |-> g[Len(w)]]
  <2> DEFINE g == CHOOSE h : EditorTable(w, h)
  <2>1. EditorTable(w, g)
    BY <1>2, Zenon
  <2>2. Editor(w) = [visible |-> {<<g[i - 1], w[i]>> : i \in {j \in DOMAIN w : w[j] \notin Blanks}},
                     width   |-> g[Len(w)]]
    BY DEF Editor, EditorTable
  <2> QED
    BY <2>1, <2>2
<1>4. \A i \in 0..N : g[i] =
          IF i = 0 THEN 0
          ELSE IF w[i] = "TAB" THEN Min({n \in (g[i - 1] + 1)..(g[i - 1] + TabWidth) : n % TabWidth = 0})
          ELSE g[i - 1] + 1
  <2>1. g = [i \in 0..N |->
          IF i = 0 THEN 0
          ELSE IF w[i] = "TAB" THEN Min({n \in (g[i - 1] + 1)..(g[i - 1] + TabWidth) : n % TabWidth = 0})
          ELSE g[i - 1] + 1]
    BY <1>3, Zenon DEF EditorTable
  <2> QED
    BY <2>1
<1>5. \A i \in 0..N : g[i] = c[i]
  <2> DEFINE S == {i \in 0..N : g[i] = c[i]}
  <2>1. 0 \in S
    <3>1. g[0] = 0 /\ c[0] = 0
      BY <1>0, <1>1, <1>4
    <3> QED
      BY <1>0, <3>1
  <2>2. ASSUME NEW n \in 0..(N - 1), n \in S PROVE n + 1 \in S
    <3>1. g[n] = c[n] /\ c[n] \in Nat /\ n + 1 \in 1..N /\ n + 1 \in 0..N /\ (n + 1) - 1 = n
      BY <1>1, <2>2
    <3>2. Min({k \in (c[n] + 1)..(c[n] + TabWidth) : k % TabWidth = 0}) = NextTabStop(c[n])
      BY <3>1, TabStop
    <3>3. g[n + 1] = IF w[n + 1] = "TAB" THEN NextTabStop(c[n]) ELSE c[n] + 1
      BY <1>4, <3>1, <3>2
    <3>4. c[n + 1] = IF w[n + 1] = "TAB" THEN NextTabStop(c[n]) ELSE c[n] + 1
      BY <1>1, <3>1
    <3> QED
      BY <3>1, <3>3, <3>4
  <2> HIDE DEF S
  <2>3. \A n \in 0..N : n \in S
    BY <2>1, <2>2, FromZeroTo, Zenon
  <2> QED
    BY <2>3 DEF S
<1>6. {<<g[i - 1], w[i]>> : i \in {j \in DOMAIN w : w[j] \notin Blanks}} =
      {<<c[i - 1], w[i]>> : i \in {j \in DOMAIN w : w[j] \notin Blanks}}
  <2>1. \A i \in DOMAIN w : g[i - 1] = c[i - 1]
    BY <1>5
  <2> QED
    BY <2>1
<1>7. g[Len(w)] = c[Len(w)]
  BY <1>5
<1> QED
  BY <1>3, <1>6, <1>7, Zenon DEF c

-----------------------------------------------------------------------------
(* Tabs to spaces                                                          *)

\* The equations of FlattenSeq.
FlattenTable(ss, g) == g = [i \in 1..Len(ss) |-> IF i = 1 THEN ss[i] ELSE g[i - 1] \o ss[i]]

\* What FlattenSeq has joined after n pieces that end at the places c.
Joined(ss, c, n, s) ==
    /\ Len(s) = c[n]
    /\ \A i \in 1..n : \A d \in 1..Len(ss[i]) :
          c[i - 1] + d \in 1..c[n] /\ s[c[i - 1] + d] = ss[i][d]
    /\ \A j \in 1..c[n] : \E i \in 1..n : c[i - 1] < j /\ j <= c[i]

\* One piece more.
LEMMA JoinedStep ==
    ASSUME NEW V, NEW ss \in Seq(Seq(V)), NEW c \in [0..Len(ss) -> Nat],
           \A i \in 1..Len(ss) : c[i] = c[i - 1] + Len(ss[i]),
           NEW n \in 0..(Len(ss) - 1), NEW s \in Seq(V), Joined(ss, c, n, s)
    PROVE  s \o ss[n + 1] \in Seq(V) /\ Joined(ss, c, n + 1, s \o ss[n + 1])
<1> DEFINE x == ss[n + 1]
           m == n + 1
<1>1. Len(ss) \in Nat /\ n \in Nat /\ m \in 1..Len(ss) /\ n \in 0..Len(ss) /\ m \in 0..Len(ss) /\ m - 1 = n
  OBVIOUS
<1>2. x \in Seq(V)
  <2>1. \A i \in 1..Len(ss) : ss[i] \in Seq(V)
    OBVIOUS
  <2> QED
    BY <1>1, <2>1
<1>3. c[n] \in Nat /\ c[m] \in Nat /\ c[m] = c[n] + Len(x) /\ Len(x) \in Nat
  <2>1. c[m] = c[m - 1] + Len(ss[m])
    BY <1>1
  <2>2. c[m] = c[n] + Len(x)
    BY <1>1, <2>1
  <2>3. c[n] \in Nat /\ c[m] \in Nat
    BY <1>1
  <2>4. Len(x) \in Nat
    BY <1>2
  <2> HIDE DEF m, x
  <2> QED
    BY <2>2, <2>3, <2>4
<1>4. /\ Len(s) = c[n]
      /\ \A i \in 1..n : \A d \in 1..Len(ss[i]) :
            c[i - 1] + d \in 1..c[n] /\ s[c[i - 1] + d] = ss[i][d]
      /\ \A j \in 1..c[n] : \E i \in 1..n : c[i - 1] < j /\ j <= c[i]
  BY DEF Joined
<1> HIDE DEF x
<1>5. /\ s \o x \in Seq(V) /\ Len(s \o x) = c[m]
      /\ \A j \in 1..c[n] : (s \o x)[j] = s[j]
      /\ \A d \in 1..Len(x) : (s \o x)[c[n] + d] = x[d]
  <2>1. /\ s \o x \in Seq(V) /\ Len(s \o x) = Len(s) + Len(x)
        /\ \A j \in 1..(Len(s) + Len(x)) : (s \o x)[j] = IF j <= Len(s) THEN s[j] ELSE x[j - Len(s)]
    BY <1>2, ConcatProperties
  <2>2. \A j \in 1..c[n] : (s \o x)[j] = s[j]
    BY <1>3, <1>4, <2>1
  <2>3. ASSUME NEW d \in 1..Len(x) PROVE (s \o x)[c[n] + d] = x[d]
    <3>1. c[n] + d \in 1..(Len(s) + Len(x)) /\ ~(c[n] + d <= Len(s)) /\ (c[n] + d) - Len(s) = d
      <4>1. Len(s) = c[n] /\ c[n] \in Nat /\ Len(x) \in Nat /\ d \in 1..Len(x)
        BY <1>3, <1>4
      <4> QED
        BY <4>1
    <3> QED
      BY <2>1, <3>1
  <2> QED
    BY <1>3, <1>4, <2>1, <2>2, <2>3
<1> DEFINE t == s \o x
<1> HIDE DEF t, m
<1>6. \A i \in 1..m : i = m \/ i \in 1..n
  BY <1>1
<1>7. ASSUME NEW i \in 1..m, NEW d \in 1..Len(ss[i])
      PROVE  c[i - 1] + d \in 1..c[m] /\ t[c[i - 1] + d] = ss[i][d]
  <2>1. CASE i = m
    <3>1. ss[i] = x
      BY <2>1 DEF x, m
    <3>2. d \in 1..Len(x) /\ i - 1 = n
      BY <1>1, <2>1, <3>1
    <3>3. c[n] + d \in 1..c[m]
      BY <1>3, <3>2
    <3> QED
      BY <1>5, <3>1, <3>2, <3>3 DEF t
  <2>2. CASE i \in 1..n
    <3>1. c[i - 1] + d \in 1..c[n] /\ s[c[i - 1] + d] = ss[i][d]
      BY <1>4, <2>2
    <3>2. c[i - 1] + d \in 1..c[m]
      BY <1>3, <3>1
    <3> QED
      BY <1>5, <3>1, <3>2 DEF t
  <2> QED
    BY <1>6, <2>1, <2>2
<1>8. ASSUME NEW j \in 1..c[m] PROVE \E i \in 1..m : c[i - 1] < j /\ j <= c[i]
  <2>1. CASE j <= c[n]
    <3>1. j \in 1..c[n]
      BY <1>3, <2>1
    <3>2. PICK i \in 1..n : c[i - 1] < j /\ j <= c[i]
      BY <1>4, <3>1
    <3>3. i \in 1..m
      BY <1>1
    <3> QED
      BY <3>2, <3>3
  <2>2. CASE ~(j <= c[n])
    <3>1. c[m - 1] < j /\ j <= c[m] /\ m \in 1..m
      BY <1>1, <1>3, <2>2
    <3> QED
      BY <3>1
  <2> QED
    BY <2>1, <2>2
<1> QED
  BY <1>5, <1>7, <1>8 DEF Joined, t, m, x

\* FlattenSeq puts each piece where the lengths of those before it say.
LEMMA FlattenFacts ==
    ASSUME NEW V, NEW ss \in Seq(Seq(V)), NEW c \in [0..Len(ss) -> Nat], c[0] = 0,
           \A i \in 1..Len(ss) : c[i] = c[i - 1] + Len(ss[i])
    PROVE  FlattenSeq(ss) \in Seq(V) /\ Joined(ss, c, Len(ss), FlattenSeq(ss))
<1> DEFINE N == Len(ss)
           step == [i \in 1..N |-> [s \in Seq(V) |-> s \o ss[i]]]
<1>1. N \in Nat /\ 0 \in 0..N /\ \A i \in 1..N : i \in 0..N /\ i - 1 \in 0..N /\ ss[i] \in Seq(V)
  OBVIOUS
<1>2. <<>> \in Seq(V) /\ Len(<<>>) = 0 /\ \A x \in Seq(V) : <<>> \o x = x
  BY EmptySeq, ConcatEmptySeq
<1>3. PICK f \in [0..N -> Seq(V)] : f[0] = <<>> /\ \A i \in 1..N : f[i] = f[i - 1] \o ss[i]
  <2>1. step \in [1..N -> [Seq(V) -> Seq(V)]]
    <3>1. \A i \in 1..N : \A s \in Seq(V) : s \o ss[i] \in Seq(V)
      BY <1>1, ConcatProperties
    <3> QED
      BY <3>1
  <2> HIDE DEF step, N
  <2>2. \E f \in [0..N -> Seq(V)] : Run(N, <<>>, step, f)
    BY <1>1, <1>2, <2>1, Iterates
  <2>3. PICK f \in [0..N -> Seq(V)] : Run(N, <<>>, step, f)
    BY <2>2
  <2>4. ASSUME NEW i \in 1..N PROVE f[i] = f[i - 1] \o ss[i]
    <3>1. f[i] = step[i][f[i - 1]]
      BY <2>3 DEF Run
    <3>2. f[i - 1] \in Seq(V)
      BY <1>1
    <3> QED
      BY <3>1, <3>2 DEF step
  <2> QED
    BY <2>3, <2>4 DEF Run
<1> DEFINE h == [i \in 1..N |-> f[i]]
<1>4. FlattenTable(ss, h)
  <2>1. \A i \in 1..N : f[i] = IF i = 1 THEN ss[i] ELSE f[i - 1] \o ss[i]
    <3> SUFFICES ASSUME NEW i \in 1..N PROVE f[i] = IF i = 1 THEN ss[i] ELSE f[i - 1] \o ss[i]
      OBVIOUS
    <3>1. f[i] = f[i - 1] \o ss[i] /\ ss[i] \in Seq(V)
      BY <1>1, <1>3
    <3>2. i = 1 => f[i - 1] = <<>>
      BY <1>3
    <3> QED
      BY <1>2, <3>1, <3>2
  <2>2. \A i \in 1..N : h[i] = IF i = 1 THEN ss[i] ELSE h[i - 1] \o ss[i]
    <3>1. \A i \in 1..N : i # 1 => i - 1 \in 1..N
      BY <1>1
    <3> HIDE DEF N
    <3> QED
      BY <2>1, <3>1
  <2>3. h = [i \in 1..N |-> h[i]]
    OBVIOUS
  <2> HIDE DEF h
  <2> QED
    BY <2>2, <2>3, Zenon DEF FlattenTable
<1>5. PICK g : FlattenTable(ss, g) /\ (N # 0 => FlattenSeq(ss) = g[N])
  <2> DEFINE g == CHOOSE k : FlattenTable(ss, k)
  <2>1. FlattenTable(ss, g)
    BY <1>4, Zenon
  <2>2. N # 0 => FlattenSeq(ss) = g[N]
    BY DEF FlattenSeq, FlattenTable
  <2> QED
    BY <2>1, <2>2
<1> DEFINE s(i) == IF i = 0 THEN <<>> ELSE g[i]
<1>6. FlattenSeq(ss) = s(N)
  <2>1. N = 0 => FlattenSeq(ss) = <<>>
    BY DEF FlattenSeq
  <2> QED
    BY <1>5, <2>1
<1>7. \A n \in 0..(N - 1) : s(n + 1) = s(n) \o ss[n + 1]
  <2>1. \A i \in 1..N : g[i] = IF i = 1 THEN ss[i] ELSE g[i - 1] \o ss[i]
    <3>1. g = [i \in 1..N |-> IF i = 1 THEN ss[i] ELSE g[i - 1] \o ss[i]]
      BY <1>5, Zenon DEF FlattenTable
    <3> QED
      BY <3>1
  <2> SUFFICES ASSUME NEW n \in 0..(N - 1) PROVE s(n + 1) = s(n) \o ss[n + 1]
    OBVIOUS
  <2>2. n + 1 \in 1..N /\ n + 1 # 0 /\ (n + 1) - 1 = n /\ (n + 1 = 1 <=> n = 0)
    BY <1>1
  <2>3. g[n + 1] = IF n = 0 THEN ss[n + 1] ELSE g[n] \o ss[n + 1]
    BY <2>1, <2>2
  <2> QED
    BY <1>1, <1>2, <2>2, <2>3
<1> DEFINE S == {n \in 0..N : s(n) \in Seq(V) /\ Joined(ss, c, n, s(n))}
<1>8. 0 \in S
  BY <1>1, <1>2 DEF Joined
<1>9. ASSUME NEW n \in 0..(N - 1), n \in S PROVE n + 1 \in S
  <2>1. s(n) \in Seq(V) /\ Joined(ss, c, n, s(n)) /\ n + 1 \in 0..N
    BY <1>1, <1>9
  <2>2. s(n + 1) = s(n) \o ss[n + 1]
    BY <1>7
  <2> DEFINE a == s(n)
  <2> HIDE DEF a
  <2>3. a \in Seq(V) /\ Joined(ss, c, n, a)
    BY <2>1 DEF a
  <2>4. a \o ss[n + 1] \in Seq(V) /\ Joined(ss, c, n + 1, a \o ss[n + 1])
    BY <2>3, JoinedStep
  <2>5. s(n + 1) = a \o ss[n + 1]
    BY <2>2 DEF a
  <2> HIDE DEF s
  <2>6. s(n + 1) \in Seq(V) /\ Joined(ss, c, n + 1, s(n + 1))
    BY <2>4, <2>5
  <2> QED
    BY <2>1, <2>6
<1>10. N \in S
  <2> HIDE DEF S, N
  <2>1. \A n \in 0..N : n \in S
    BY <1>1, <1>8, <1>9, FromZeroTo, Zenon
  <2> QED
    BY <1>1, <2>1
<1> HIDE DEF s
<1> QED
  BY <1>6, <1>10

Space == " "

\* Where the pieces of a text end that tabs_to_spaces joins.
Ends(t, o) ==
    /\ o \in [0..Len(t) -> Nat]
    /\ o[0] = 0
    /\ \A i \in 1..Len(t) :
          o[i] = o[i - 1] + (IF t[i] = "TAB" THEN Cursor(t)[i] - Cursor(t)[i - 1] ELSE 1)

\* A tab becomes one to eight spaces.
LEMMA TabIsWide ==
    ASSUME NEW t, Len(t) \in Nat, NEW i \in 1..Len(t), t[i] = "TAB"
    PROVE  Cursor(t)[i] - Cursor(t)[i - 1] \in 1..8
<1>1. /\ Cursor(t)[i - 1] \in Nat
      /\ Cursor(t)[i] = NextTabStop(Cursor(t)[i - 1])
  <2>1. i - 1 \in 0..Len(t) /\ t[i] \notin LineEnds
    BY DEF LineEnds
  <2> QED
    BY <2>1, CursorFacts
<1>2. NextTabStop(Cursor(t)[i - 1]) \in (Cursor(t)[i - 1] + 1)..(Cursor(t)[i - 1] + 8)
  BY <1>1, TabStop DEF TabWidth
<1> DEFINE x == Cursor(t)[i - 1]
           y == Cursor(t)[i]
<1>3. x \in Nat /\ y \in (x + 1)..(x + 8)
  BY <1>1, <1>2
<1> HIDE DEF x, y
<1>4. y - x \in 1..8
  BY <1>3
<1> QED
  BY <1>4 DEF x, y

\* There are such ends: the lengths of the pieces can be added up.
LEMMA EndsExist ==
    ASSUME NEW t, Len(t) \in Nat
    PROVE  \E o : Ends(t, o)
<1> DEFINE N == Len(t)
           size(i) == IF t[i] = "TAB" THEN Cursor(t)[i] - Cursor(t)[i - 1] ELSE 1
           step == [i \in 1..N |-> [n \in Nat |-> n + size(i)]]
<1>1. \A i \in 1..N : size(i) \in Nat
  BY TabIsWide
<1>2. N \in Nat /\ 0 \in Nat /\ \A i \in 1..N : i - 1 \in 0..N
  OBVIOUS
<1> HIDE DEF size, N
<1>3. step \in [1..N -> [Nat -> Nat]]
  BY <1>1
<1>4. \E o \in [0..N -> Nat] : Run(N, 0, step, o)
  <2> HIDE DEF step
  <2> QED
    BY <1>2, <1>3, Iterates
<1>5. PICK o \in [0..N -> Nat] : Run(N, 0, step, o)
  BY <1>4
<1>6. ASSUME NEW i \in 1..N PROVE o[i] = o[i - 1] + size(i)
  <2>1. o[i] = step[i][o[i - 1]] /\ o[i - 1] \in Nat
    BY <1>2, <1>5 DEF Run
  <2> QED
    BY <2>1
<1> QED
  BY <1>5, <1>6 DEF Ends, Run, N, size

\* In the s of n elements that is made of t, the tabs are spaces and every
\* other element is where its piece is.
Placed(t, o, s, n) ==
    /\ \A i \in 1..Len(t) : t[i] # "TAB" => o[i - 1] + 1 \in 1..n /\ s[o[i - 1] + 1] = t[i]
    /\ \A j \in 1..n : \E i \in 1..Len(t) :
          IF t[i] = "TAB" THEN s[j] = " " ELSE j = o[i - 1] + 1 /\ s[j] = t[i]

\* tabs_to_spaces moves what is no tab to the end of the pieces before it, and
\* puts spaces between.
LEMMA TabsFacts ==
    ASSUME NEW V, Space \in V, NEW t \in Seq(V), NEW o, Ends(t, o)
    PROVE  LET s == tabs_to_spaces(t)
           IN  /\ s \in Seq(V) /\ Len(s) = o[Len(t)]
               /\ Placed(t, o, s, Len(s))
<1> DEFINE N == Len(t)
           piece(i) == IF t[i] = "TAB" THEN Spaces(Cursor(t)[i] - Cursor(t)[i - 1]) ELSE <<t[i]>>
           ss == [i \in 1..N |-> piece(i)]
           s == tabs_to_spaces(t)
<1>1. N \in Nat /\ DOMAIN t = 1..N /\ \A i \in 1..N : t[i] \in V
  OBVIOUS
<1>2. s = FlattenSeq(ss)
  BY <1>1 DEF tabs_to_spaces
<1>3. ASSUME NEW i \in 1..N, t[i] = "TAB"
      PROVE  /\ piece(i) \in Seq(V)
             /\ Len(piece(i)) = o[i] - o[i - 1]
             /\ \A d \in 1..Len(piece(i)) : piece(i)[d] = " "
  <2> DEFINE n == Cursor(t)[i] - Cursor(t)[i - 1]
  <2>1. n \in Nat
    BY <1>1, <1>3, TabIsWide
  <2>2. o[i] = o[i - 1] + n /\ o[i - 1] \in Nat
    BY <1>1, <1>3 DEF Ends
  <2>3. piece(i) = [d \in 1..n |-> " "]
    BY <1>3 DEF Spaces
  <2> HIDE DEF n, piece
  <2>4. piece(i) \in [1..n -> V]
    BY <2>3 DEF Space
  <2> DEFINE x == piece(i)
  <2>5. x \in [1..n -> V]
    BY <2>4
  <2>6. \A d \in 1..n : x[d] = " "
    BY <2>3
  <2> HIDE DEF x
  <2>7. x \in Seq(V) /\ Len(x) = n
    BY <2>1, <2>5
  <2>8. o[i] - o[i - 1] = n
    <3> DEFINE a == o[i - 1]
               b == o[i]
    <3>1. b = a + n /\ a \in Nat
      BY <2>2
    <3> HIDE DEF a, b
    <3>2. b - a = n
      BY <2>1, <3>1
    <3> QED
      BY <3>2 DEF a, b
  <2> QED
    BY <2>6, <2>7, <2>8 DEF x
<1>4. ASSUME NEW i \in 1..N, t[i] # "TAB"
      PROVE  /\ piece(i) \in Seq(V) /\ Len(piece(i)) = 1 /\ piece(i)[1] = t[i]
             /\ o[i] = o[i - 1] + 1 /\ o[i - 1] \in Nat
  <2>1. piece(i) = <<t[i]>> /\ t[i] \in V
    BY <1>1, <1>4
  <2>2. o[i] = o[i - 1] + 1 /\ o[i - 1] \in Nat
    BY <1>1, <1>4 DEF Ends
  <2> HIDE DEF piece
  <2> QED
    BY <2>1, <2>2
<1>5. /\ o \in [0..N -> Nat] /\ o[0] = 0
      /\ \A i \in 1..N : o[i] \in Nat /\ o[i - 1] \in Nat
  <2>1. \A i \in 1..N : i \in 0..N /\ i - 1 \in 0..N
    BY <1>1
  <2>2. o \in [0..N -> Nat] /\ o[0] = 0
    BY DEF Ends
  <2> HIDE DEF N
  <2> QED
    BY <2>1, <2>2
<1> HIDE DEF piece, N, s
<1>6. ss \in Seq(Seq(V)) /\ Len(ss) = N /\ \A i \in 1..N : ss[i] = piece(i)
  <2>1. \A i \in 1..N : piece(i) \in Seq(V)
    BY <1>3, <1>4
  <2>2. ss \in [1..N -> Seq(V)]
    BY <2>1
  <2> QED
    BY <1>1, <2>2
<1> HIDE DEF ss
<1>7. \A i \in 1..N : o[i] = o[i - 1] + Len(ss[i])
  <2> SUFFICES ASSUME NEW i \in 1..N PROVE o[i] = o[i - 1] + Len(ss[i])
    OBVIOUS
  <2>1. CASE t[i] = "TAB"
    <3>1. Len(ss[i]) = o[i] - o[i - 1]
      BY <1>3, <1>6, <2>1
    <3> QED
      BY <1>5, <3>1
  <2>2. CASE t[i] # "TAB"
    BY <1>4, <1>6, <2>2
  <2> QED
    BY <2>1, <2>2
<1>8. s \in Seq(V) /\ Joined(ss, o, N, s)
  <2>1. o \in [0..Len(ss) -> Nat] /\ \A i \in 1..Len(ss) : o[i] = o[i - 1] + Len(ss[i])
    BY <1>5, <1>6, <1>7
  <2>2. FlattenSeq(ss) \in Seq(V) /\ Joined(ss, o, Len(ss), FlattenSeq(ss))
    BY <1>5, <1>6, <2>1, FlattenFacts
  <2> QED
    BY <1>2, <1>6, <2>2
<1>9. /\ Len(s) = o[N]
      /\ \A i \in 1..N : \A d \in 1..Len(ss[i]) : o[i - 1] + d \in 1..o[N] /\ s[o[i - 1] + d] = ss[i][d]
      /\ \A j \in 1..o[N] : \E i \in 1..N : o[i - 1] < j /\ j <= o[i]
  BY <1>8 DEF Joined
<1>10. ASSUME NEW i \in 1..N, t[i] # "TAB"
       PROVE  o[i - 1] + 1 \in 1..Len(s) /\ s[o[i - 1] + 1] = t[i]
  <2>1. 1 \in 1..Len(ss[i]) /\ ss[i][1] = t[i]
    BY <1>4, <1>6, <1>10
  <2> QED
    BY <1>9, <2>1
<1>11. ASSUME NEW j \in 1..Len(s)
       PROVE  \E i \in 1..N : IF t[i] = "TAB" THEN s[j] = " " ELSE j = o[i - 1] + 1 /\ s[j] = t[i]
  <2>0. j \in 1..o[N]
    BY <1>9
  <2>1. PICK i \in 1..N : o[i - 1] < j /\ j <= o[i]
    BY <1>9, <2>0
  <2>2. j \in Nat /\ o[i] \in Nat /\ o[i - 1] \in Nat
    BY <1>5
  <2>3. CASE t[i] = "TAB"
    <3> DEFINE d == j - o[i - 1]
    <3>1. Len(ss[i]) = o[i] - o[i - 1] /\ \A k \in 1..Len(ss[i]) : ss[i][k] = " "
      BY <1>3, <1>6, <2>3
    <3>2. d \in 1..Len(ss[i]) /\ o[i - 1] + d = j
      <4> DEFINE a == o[i - 1]
                 b == o[i]
                 n == Len(ss[i])
      <4>1. a \in Nat /\ b \in Nat /\ j \in Nat /\ n = b - a /\ a < j /\ j <= b
        BY <2>1, <2>2, <3>1
      <4> HIDE DEF a, b, n
      <4>2. j - a \in 1..n /\ a + (j - a) = j
        BY <4>1
      <4> QED
        BY <4>2 DEF a, b, n
    <3> HIDE DEF d
    <3>3. s[j] = " "
      BY <1>9, <3>1, <3>2
    <3> QED
      BY <2>3, <3>3
  <2>4. CASE t[i] # "TAB"
    <3>1. o[i] = o[i - 1] + 1
      BY <1>4, <2>4
    <3>2. j = o[i - 1] + 1
      BY <2>1, <2>2, <3>1
    <3> QED
      BY <1>10, <2>4, <3>2
  <2> QED
    BY <2>3, <2>4
<1> QED
  <2>1. Placed(t, o, s, Len(s))
    BY <1>10, <1>11, Zenon DEF Placed, N
  <2> QED
    BY <1>8, <1>9, <2>1 DEF N, s

-----------------------------------------------------------------------------
(* Spaces to fixed spaces                                                  *)

\* v is u with some of its spaces fixed.
Fixed(u, v, n) ==
    /\ DOMAIN v = 1..n /\ Len(v) = n
    /\ \A i \in 1..n : /\ u[i] # " " => v[i] = u[i]
                       /\ u[i] = " " => v[i] \in {" ", "&nbsp;"}

\* Every space of v is one of u.
NoneNew(u, v, n) == \A i \in 1..n : v[i] = " " => u[i] = " "

\* To fix spaces in two steps is to fix spaces.
LEMMA FixedTwice ==
    ASSUME NEW u, NEW v, NEW w, NEW n, Fixed(u, v, n), Fixed(v, w, n)
    PROVE  Fixed(u, w, n) /\ NoneNew(v, w, n)
<1>1. "&nbsp;" # " "
  OBVIOUS
<1>2. ASSUME NEW i \in 1..n
      PROVE  /\ u[i] # " " => w[i] = u[i]
             /\ u[i] = " " => w[i] \in {" ", "&nbsp;"}
             /\ w[i] = " " => v[i] = " "
  <2>1. /\ u[i] # " " => v[i] = u[i]
        /\ u[i] = " " => v[i] \in {" ", "&nbsp;"}
        /\ v[i] # " " => w[i] = v[i]
        /\ v[i] = " " => w[i] \in {" ", "&nbsp;"}
    BY DEF Fixed
  <2> QED
    BY <1>1, <2>1
<1> QED
  BY <1>2 DEF Fixed, NoneNew

\* Fix touches nothing but the spaces it is told to, and of those leaves none.
LEMMA FixFacts ==
    ASSUME NEW u, NEW n \in Nat, DOMAIN u = 1..n, NEW at, \A i \in at : u[i] = " "
    PROVE  /\ Fixed(u, Fix(u, at), n)
           /\ \A i \in 1..n : Fix(u, at)[i] = " " => i \notin at
<1> DEFINE v == Fix(u, at)
<1>1. v = [i \in 1..n |-> IF i \in at THEN "&nbsp;" ELSE u[i]]
  BY DEF Fix
<1>2. v = [i \in 1..n |-> v[i]]
  BY <1>1
<1>3. \A i \in 1..n : v[i] = IF i \in at THEN "&nbsp;" ELSE u[i]
  BY <1>1
<1> HIDE DEF v
<1>4. DOMAIN v = 1..n /\ Len(v) = n
  BY <1>2, FunctionIsSequence
<1>5. "&nbsp;" # " "
  OBVIOUS
<1> QED
  BY <1>3, <1>4, <1>5 DEF Fixed, v

\* After a space there is one more of them before.
LEMMA OneSpaceMore ==
    ASSUME NEW u, NEW i \in Nat, i > 1
    PROVE  u[i - 1] = " " =>
               SpacesBefore(u, i - 1) \in Int /\ SpacesBefore(u, i) = SpacesBefore(u, i - 1) + 1
<1> DEFINE S(k) == {0} \cup {j \in 1..(k - 1) : u[j] # " "}
           m == Max(S(i - 1))
<1>1. /\ \A j \in 1..(i - 1) : j \in 1..((i - 1) - 1) \/ j = i - 1
      /\ \A j \in 1..((i - 1) - 1) : j \in 1..(i - 1)
  OBVIOUS
<1>2. u[i - 1] = " " => S(i) = S(i - 1)
  BY <1>1
<1>3. m \in Nat
  <2> DEFINE T == S(i - 1)
  <2>1. 0 \in 0..i /\ \A j \in 1..((i - 1) - 1) : j \in 0..i
    OBVIOUS
  <2>2. T \in SUBSET (0..i) /\ T # {}
    BY <2>1, Zenon
  <2> HIDE DEF T
  <2>3. Max(T) \in T
    BY <2>2, MaxElement
  <2>4. \A k \in 0..i : k \in Nat
    OBVIOUS
  <2>5. Max(T) \in Nat
    BY <2>2, <2>3, <2>4, Zenon
  <2> QED
    BY <2>5 DEF T
<1>4. SpacesBefore(u, i - 1) = (i - 1) - 1 - m
  BY DEF SpacesBefore
<1>5. u[i - 1] = " " => SpacesBefore(u, i) = i - 1 - m
  BY <1>2 DEF SpacesBefore
<1> HIDE DEF m
<1>6. (i - 1) - 1 - m \in Int /\ i - 1 - m = (i - 1) - 1 - m + 1
  BY <1>3
<1> QED
  BY <1>4, <1>5, <1>6

\* What html_special_chars makes of one element.
Entity(element) ==
    CASE element = "&"  -> "&amp;"
      [] element = "<"  -> "&lt;"
      [] element = ">"  -> "&gt;"
      [] element = "\"" -> "&quot;"
      [] element = "'"  -> "&#039;"
      [] OTHER          -> element

\* The steps of a cell after its tabs are spaces.
Cell(s) ==
    LET e == FixTrailing(replace_leading_spaces(FixDoubles(html_special_chars(s))))
    IN  Fix(e, LastSpace(e))

\* In a cell a space that a browser could drop is fixed: those that remain
\* stand alone, within the cell.
LEMMA CellFacts ==
    ASSUME NEW s, NEW n \in Nat, DOMAIN s = 1..n
    PROVE  /\ DOMAIN Cell(s) = 1..n /\ Len(Cell(s)) = n
           /\ \A i \in 1..n : IF s[i] = " " THEN Cell(s)[i] \in {" ", "&nbsp;"}
                              ELSE Cell(s)[i] = Entity(s[i])
           /\ \A i \in 1..n : Cell(s)[i] = " " =>
                 1 < i /\ i < n /\ Cell(s)[i - 1] # " " /\ Cell(s)[i + 1] # " "
<1> DEFINE h == html_special_chars(s)
           d == FixDoubles(h)
           l == replace_leading_spaces(d)
           e == FixTrailing(l)
           cell == Fix(e, LastSpace(e))
<1>1. Cell(s) = cell
  BY DEF Cell
<1>2. DOMAIN h = 1..n /\ \A i \in 1..n : h[i] = Entity(s[i])
  BY DEF html_special_chars, Entity
<1>3. d = Fix(h, SecondSpaces(h)) /\ \A i \in SecondSpaces(h) : h[i] = " "
  BY DEF FixDoubles, SecondSpaces
<1>4. l = Fix(d, LeadingSpaces(d)) /\ \A i \in LeadingSpaces(d) : d[i] = " "
  BY DEF replace_leading_spaces, LeadingSpaces
<1>5. e = Fix(l, TrailingSpaces(l)) /\ \A i \in TrailingSpaces(l) : l[i] = " "
  BY DEF FixTrailing, TrailingSpaces
<1>6. cell = Fix(e, LastSpace(e)) /\ \A i \in LastSpace(e) : e[i] = " "
  BY DEF LastSpace
<1> HIDE DEF h, d, l, e, cell
<1>7. Fixed(h, d, n) /\ \A i \in 1..n : d[i] = " " => i \notin SecondSpaces(h)
  BY <1>2, <1>3, FixFacts
<1>8. Fixed(d, l, n) /\ \A i \in 1..n : l[i] = " " => i \notin LeadingSpaces(d)
  <2>1. DOMAIN d = 1..n
    BY <1>7 DEF Fixed
  <2> QED
    BY <1>4, <2>1, FixFacts
<1>9. Fixed(l, e, n)
  <2>1. DOMAIN l = 1..n
    BY <1>8 DEF Fixed
  <2> QED
    BY <1>5, <2>1, FixFacts
<1>10. Fixed(e, cell, n) /\ \A i \in 1..n : cell[i] = " " => i \notin LastSpace(e)
  <2>1. DOMAIN e = 1..n
    BY <1>9 DEF Fixed
  <2> QED
    BY <1>6, <2>1, FixFacts
<1>11. Fixed(h, l, n) /\ NoneNew(d, l, n)
  BY <1>7, <1>8, FixedTwice
<1>12. Fixed(h, e, n) /\ NoneNew(l, e, n)
  BY <1>9, <1>11, FixedTwice
<1>13. Fixed(h, cell, n) /\ NoneNew(e, cell, n)
  BY <1>10, <1>12, FixedTwice
<1>14. \A x : (x = " " <=> Entity(x) = " ")
  BY DEF Entity
<1>15. \A i \in 1..n : IF s[i] = " " THEN cell[i] \in {" ", "&nbsp;"} ELSE cell[i] = Entity(s[i])
  <2> SUFFICES ASSUME NEW i \in 1..n
               PROVE  IF s[i] = " " THEN cell[i] \in {" ", "&nbsp;"} ELSE cell[i] = Entity(s[i])
    OBVIOUS
  <2>1. h[i] = Entity(s[i]) /\ (h[i] = " " <=> s[i] = " ")
    BY <1>2, <1>14
  <2>2. /\ h[i] # " " => cell[i] = h[i]
        /\ h[i] = " " => cell[i] \in {" ", "&nbsp;"}
    BY <1>13 DEF Fixed
  <2> QED
    BY <2>1, <2>2
<1>16. \A i \in 1..n : cell[i] = " " => h[i] = " " /\ d[i] = " " /\ SpacesBefore(h, i) % 2 # 1
  <2> SUFFICES ASSUME NEW i \in 1..n, cell[i] = " "
               PROVE  h[i] = " " /\ d[i] = " " /\ SpacesBefore(h, i) % 2 # 1
    OBVIOUS
  <2>1. d[i] = " "
    BY <1>11, <1>12, <1>13 DEF NoneNew
  <2>2. i \notin SecondSpaces(h)
    BY <1>7, <2>1
  <2>3. h[i] = " "
    BY <1>7, <2>1 DEF Fixed
  <2> QED
    BY <1>2, <2>1, <2>2, <2>3 DEF SecondSpaces
<1>17. \A i \in 1..n : cell[i] = " " => i # 1 /\ i # n
  <2> SUFFICES ASSUME NEW i \in 1..n, cell[i] = " " PROVE i # 1 /\ i # n
    OBVIOUS
  <2>1. d[i] = " " /\ l[i] = " " /\ e[i] = " " /\ DOMAIN d = 1..n /\ DOMAIN e = 1..n /\ Len(e) = n
    BY <1>7, <1>11, <1>12, <1>13 DEF Fixed, NoneNew
  <2>2. i # 1
    BY <1>8, <2>1 DEF LeadingSpaces
  <2>3. i # n
    BY <1>10, <2>1 DEF LastSpace
  <2> QED
    BY <2>2, <2>3
<1>18. \A i \in 2..n : i \in 1..n /\ i - 1 \in 1..n /\ i \in Nat /\ i > 1
  OBVIOUS
<1>19. \A x \in Int : x % 2 # 1 => (x + 1) % 2 = 1
  OBVIOUS
<1>20. \A i \in 2..n : ~(cell[i] = " " /\ cell[i - 1] = " ")
  <2> SUFFICES ASSUME NEW i \in 2..n, cell[i] = " ", cell[i - 1] = " " PROVE FALSE
    OBVIOUS
  <2>1. h[i - 1] = " " /\ SpacesBefore(h, i - 1) % 2 # 1 /\ SpacesBefore(h, i) % 2 # 1
    BY <1>16, <1>18
  <2>2. SpacesBefore(h, i - 1) \in Int /\ SpacesBefore(h, i) = SpacesBefore(h, i - 1) + 1
    BY <1>18, <2>1, OneSpaceMore
  <2> QED
    BY <1>19, <2>1, <2>2
<1>21. \A i \in 1..n : i # 1 /\ i # n => 1 < i /\ i < n /\ i \in 2..n /\ i + 1 \in 2..n /\ (i + 1) - 1 = i
  OBVIOUS
<1>22. \A i \in 1..n : cell[i] = " " => 1 < i /\ i < n /\ cell[i - 1] # " " /\ cell[i + 1] # " "
  BY <1>17, <1>20, <1>21
<1> QED
  BY <1>1, <1>13, <1>15, <1>22 DEF Fixed

-----------------------------------------------------------------------------
(* What the browser shows                                                  *)

\* How wide the elements at the positions in T are together.
WidthOf(cell, T) == MapThenSumSet(LAMBDA j : Width(cell[j]), T)

\* The equations of that sum.
WidthTable(cell, S, g) ==
    g = [T \in SUBSET S |-> IF T = {} THEN 0 ELSE Width(cell[AnyOf(T)]) + g[T \ {AnyOf(T)}]]

\* Where the elements of a cell end.
Reaches(cell, n, p) ==
    /\ p \in [0..n -> Nat]
    /\ p[0] = 0
    /\ \A i \in 1..n : p[i] = p[i - 1] + Width(cell[i])

\* The elements up to m are together as wide as adding them up in order says.
LEMMA WidthSum ==
    ASSUME NEW cell, NEW n \in Nat, NEW p, Reaches(cell, n, p), NEW m \in 0..n
    PROVE  WidthOf(cell, 1..m) = p[m]
<1> DEFINE S == 1..m
           f == [x \in S |-> Width(cell[x])]
<1>1. IsFiniteSet(S) /\ m \in Nat
  BY UpTo
<1>2. \A x \in S : f[x] = Width(cell[x]) /\ f[x] \in Nat
  BY WidthIsNumber
<1>3. \A T \in SUBSET S : T # {} => AnyOf(T) \in S /\ f[AnyOf(T)] = Width(cell[AnyOf(T)])
  <2> SUFFICES ASSUME NEW T \in SUBSET S, T # {} PROVE AnyOf(T) \in S
    BY <1>2
  <2>1. AnyOf(T) \in T
    BY DEF AnyOf
  <2> QED
    BY <2>1
<1> HIDE DEF f, S
<1>4. \A g : SumTable(f, S, g) <=> WidthTable(cell, S, g)
  <2> TAKE g
  <2> DEFINE A == [T \in SUBSET S |-> IF T = {} THEN 0 ELSE f[AnyOf(T)] + g[T \ {AnyOf(T)}]]
             B == [T \in SUBSET S |-> IF T = {} THEN 0 ELSE Width(cell[AnyOf(T)]) + g[T \ {AnyOf(T)}]]
  <2>1. A = B
    <3>1. \A T \in SUBSET S : (IF T = {} THEN 0 ELSE f[AnyOf(T)] + g[T \ {AnyOf(T)}]) =
                              (IF T = {} THEN 0 ELSE Width(cell[AnyOf(T)]) + g[T \ {AnyOf(T)}])
      BY <1>3
    <3> QED
      BY <3>1
  <2> QED
    BY <2>1, Zenon DEF SumTable, WidthTable
<1>5. PICK h : WidthTable(cell, S, h) /\ WidthOf(cell, S) = h[S]
  <2> DEFINE h == CHOOSE g : WidthTable(cell, S, g)
  <2>1. \E g : WidthTable(cell, S, g)
    BY <1>1, <1>4, SumTableExists
  <2>2. WidthTable(cell, S, h)
    BY <2>1, Zenon
  <2>3. WidthOf(cell, S) = h[S]
    BY DEF WidthOf, MapThenSumSet, MapThenFoldSet, WidthTable, AnyOf
  <2> QED
    BY <2>2, <2>3
<1>6. h[{}] = 0 /\ \A T \in SUBSET S : \A x \in T : h[T] = f[x] + h[T \ {x}]
  <2>1. SumTable(f, S, h)
    BY <1>4, <1>5
  <2>2. \A x \in S : f[x] \in Nat
    BY <1>2
  <2>3. /\ h[{}] = 0
        /\ \A T \in SUBSET S : h[T] \in Nat
        /\ \A T \in SUBSET S : \A x \in T : h[T] = f[x] + h[T \ {x}]
    BY <1>1, <2>1, <2>2, SumTableFacts
  <2> QED
    BY <2>3
<1> DEFINE K == {k \in 0..m : h[1..k] = p[k]}
<1>7. 0 \in K
  <2>1. 1..0 = {} /\ 0 \in 0..m
    BY <1>1
  <2>2. p[0] = 0
    BY DEF Reaches
  <2> QED
    BY <1>6, <2>1, <2>2
<1>8. ASSUME NEW k \in 0..(m - 1), k \in K PROVE k + 1 \in K
  <2>1. /\ k + 1 \in 1..n /\ k + 1 \in 0..m /\ k + 1 \in S /\ 1..(k + 1) \in SUBSET S
        /\ k + 1 \in 1..(k + 1) /\ (k + 1) - 1 = k /\ k \in 0..n
    BY <1>1 DEF S
  <2>2. h[1..(k + 1)] = f[k + 1] + h[1..k]
    <3> DEFINE T == 1..(k + 1)
    <3>1. T \ {k + 1} = 1..k
      BY <2>1
    <3>2. T \in SUBSET S /\ k + 1 \in T
      BY <2>1
    <3> HIDE DEF T
    <3>3. h[T] = f[k + 1] + h[T \ {k + 1}]
      BY <1>6, <3>2
    <3> QED
      BY <3>1, <3>3 DEF T
  <2>3. h[1..k] = p[k] /\ p[k] \in Nat /\ f[k + 1] = Width(cell[k + 1]) /\ f[k + 1] \in Nat
    BY <1>2, <1>8, <2>1 DEF Reaches
  <2>4. p[k + 1] = p[k] + Width(cell[k + 1])
    BY <2>1 DEF Reaches
  <2>5. h[1..(k + 1)] = p[k + 1]
    BY <2>2, <2>3, <2>4
  <2> QED
    BY <2>1, <2>5
<1>9. m \in K
  <2> HIDE DEF K
  <2>1. \A k \in 0..m : k \in K
    BY <1>1, <1>7, <1>8, FromZeroTo, Zenon
  <2> QED
    BY <1>1, <2>1
<1> QED
  BY <1>5, <1>9 DEF S

\* No blank but spaces, and each of those alone within the cell.
Isolated(cell, n) ==
    \A i \in 1..n :
        /\ cell[i] \in Blanks => cell[i] = " "
        /\ cell[i] = " " => /\ i - 1 \in 1..n /\ i + 1 \in 1..n
                            /\ cell[i - 1] \notin Blanks /\ cell[i + 1] \notin Blanks

\* The positions in a cell at which there is something to be seen.
Shown(cell, n) == {j \in 1..n : cell[j] \notin Blanks /\ cell[j] # "&nbsp;"}

\* Of such a cell the browser drops nothing.
LEMMA BrowserIs ==
    ASSUME NEW cell, NEW n \in Nat, DOMAIN cell = 1..n, Len(cell) = n, Isolated(cell, n),
           NEW p, Reaches(cell, n, p)
    PROVE  Browser(cell) = [visible |-> {<<p[j - 1], Decoded(cell[j])>> : j \in Shown(cell, n)},
                            width   |-> p[n]]
<1> DEFINE solid == {i \in DOMAIN cell : cell[i] \notin Blanks}
           drawn == solid \cup {i \in DOMAIN cell \ solid : i - 1 \in solid /\ \E j \in solid : i < j}
           shown == {j \in solid : cell[j] # "&nbsp;"}
<1>1. Browser(cell) = [visible |-> {<<WidthOf(cell, {j \in drawn : j < i}), Decoded(cell[i])>> : i \in shown},
                       width   |-> WidthOf(cell, {j \in drawn : j < Len(cell) + 1})]
  BY DEF Browser, WidthOf
<1>2. solid = {i \in 1..n : cell[i] \notin Blanks} /\ solid \in SUBSET (1..n)
  OBVIOUS
<1>3. drawn = 1..n
  <2>1. ASSUME NEW i \in 1..n, i \notin solid PROVE i \in drawn
    <3>1. i - 1 \in solid /\ i + 1 \in solid
      BY <1>2, <2>1 DEF Isolated
    <3>2. i < i + 1
      BY <2>1
    <3> HIDE DEF solid
    <3> QED
      BY <2>1, <3>1, <3>2
  <2> HIDE DEF solid
  <2> QED
    BY <1>2, <2>1
<1> HIDE DEF drawn
<1>4. \A i \in 1..(n + 1) : i - 1 \in 0..n /\ {j \in drawn : j < i} = 1..(i - 1)
  BY <1>3
<1>5. \A i \in 1..(n + 1) : WidthOf(cell, {j \in drawn : j < i}) = p[i - 1]
  <2> SUFFICES ASSUME NEW i \in 1..(n + 1) PROVE WidthOf(cell, 1..(i - 1)) = p[i - 1]
    BY <1>4
  <2>1. i - 1 \in 0..n
    BY <1>4
  <2> DEFINE m == i - 1
  <2> HIDE DEF m
  <2>2. m \in 0..n
    BY <2>1 DEF m
  <2>3. WidthOf(cell, 1..m) = p[m]
    BY <2>2, WidthSum
  <2> QED
    BY <2>3 DEF m
<1>6. WidthOf(cell, {j \in drawn : j < Len(cell) + 1}) = p[n]
  <2>1. n + 1 \in 1..(n + 1) /\ (n + 1) - 1 = n
    OBVIOUS
  <2>2. WidthOf(cell, {j \in drawn : j < n + 1}) = p[(n + 1) - 1]
    BY <1>5, <2>1
  <2> QED
    BY <2>1, <2>2
<1>7. \A i \in shown : WidthOf(cell, {j \in drawn : j < i}) = p[i - 1]
  <2>1. \A i \in 1..n : i \in 1..(n + 1)
    OBVIOUS
  <2> QED
    BY <1>2, <1>5, <2>1
<1>8. shown = Shown(cell, n)
  BY <1>2 DEF Shown
<1> HIDE DEF shown
<1>9. {<<WidthOf(cell, {j \in drawn : j < i}), Decoded(cell[i])>> : i \in shown} =
      {<<p[i - 1], Decoded(cell[i])>> : i \in shown}
  BY <1>7
<1> QED
  BY <1>1, <1>6, <1>8, <1>9, Zenon

\* What a word's text is made of before it is escaped.
Plain == {"x", "bad", "09", "0a", "0d", "20", "22", "26", "27", "3c", "3e", "78", "ff",
          "Binary data:", "(", ")", "U+FFFD"}
Glyphs == Plain \cup Markup \cup Blanks

\* An element that can be seen is shown as what it was, and takes the room it
\* took.
LEMMA EntityFacts ==
    ASSUME NEW e \in Glyphs, e \notin Blanks
    PROVE  /\ Entity(e) \notin Blanks /\ Entity(e) # "&nbsp;"
           /\ Decoded(Entity(e)) = e
           /\ Width(Entity(e)) = Width(e)
<1>1. CASE e \in Markup
  <2>1. e \in {"&", "<", ">", "\"", "'"}
    BY <1>1 DEF Markup
  <2> QED
    BY <2>1 DEF Entity, Decoded, Width, Blanks, LineEnds
<1>2. CASE e \in Plain
  <2>1. Entity(e) = e
    BY <1>2 DEF Plain, Entity
  <2>2. Decoded(e) = e
    BY <1>2 DEF Plain, Decoded
  <2>3. e # "&nbsp;"
    BY <1>2 DEF Plain
  <2> QED
    BY <2>1, <2>2, <2>3
<1> QED
  BY <1>1, <1>2 DEF Glyphs

\* A space is one column wide, whichever it is.
LEMMA SpaceWidth == Width(" ") = 1 /\ Width("&nbsp;") = 1
BY DEF Width

\* A word's cell: every element of its text that can be seen is where
\* tabs_to_spaces has put it, nothing else is to be seen, and there is no
\* space that a browser drops.
LEMMA CellOfText ==
    ASSUME NEW t \in Seq(Glyphs), \A i \in 1..Len(t) : t[i] \notin LineEnds, NEW o, Ends(t, o)
    PROVE  LET cell == plaintext_html(t)
               n    == o[Len(t)]
           IN  /\ n \in Nat /\ DOMAIN cell = 1..n /\ Len(cell) = n /\ Isolated(cell, n)
               /\ \A i \in 1..Len(t) : t[i] # "TAB" =>
                     /\ o[i - 1] + 1 \in 1..n
                     /\ Width(cell[o[i - 1] + 1]) = Width(t[i])
                     /\ t[i] # " " => cell[o[i - 1] + 1] = Entity(t[i])
               /\ \A j \in 1..n :
                     \/ cell[j] \in {" ", "&nbsp;"}
                     \/ \E i \in 1..Len(t) : t[i] \notin Blanks /\ j = o[i - 1] + 1 /\ cell[j] = Entity(t[i])
<1> DEFINE s == tabs_to_spaces(t)
           cell == plaintext_html(t)
           n == o[Len(t)]
<1>1. Space \in Glyphs
  BY DEF Space, Glyphs, Blanks
<1>2. s \in Seq(Glyphs) /\ Len(s) = n /\ Placed(t, o, s, n)
  <2>1. s \in Seq(Glyphs) /\ Len(s) = o[Len(t)] /\ Placed(t, o, s, Len(s))
    BY <1>1, TabsFacts
  <2> QED
    BY <2>1, Zenon
<1>3. n \in Nat /\ DOMAIN s = 1..n
  <2>1. s \in Seq(Glyphs) /\ Len(s) = n
    BY <1>2
  <2> HIDE DEF s, n
  <2> QED
    BY <2>1
<1>4. cell = Cell(s)
  BY DEF plaintext_html, escape_text, Cell
<1> HIDE DEF s, cell, n
<1>5. /\ DOMAIN cell = 1..n /\ Len(cell) = n
      /\ \A i \in 1..n : IF s[i] = " " THEN cell[i] \in {" ", "&nbsp;"} ELSE cell[i] = Entity(s[i])
      /\ \A i \in 1..n : cell[i] = " " => 1 < i /\ i < n /\ cell[i - 1] # " " /\ cell[i + 1] # " "
  BY <1>3, <1>4, CellFacts
<1>6. \A i \in 1..Len(t) : t[i] \in Glyphs
  OBVIOUS
<1>7. \A i \in 1..Len(t) : t[i] = "TAB" \/ t[i] = " " \/ t[i] \notin Blanks
  BY DEF Blanks, LineEnds
<1>8. \A j \in 1..n :
         \/ cell[j] \in {" ", "&nbsp;"}
         \/ \E i \in 1..Len(t) : t[i] \notin Blanks /\ j = o[i - 1] + 1 /\ cell[j] = Entity(t[i])
  <2> SUFFICES ASSUME NEW j \in 1..n, s[j] # " "
               PROVE  \E i \in 1..Len(t) : t[i] \notin Blanks /\ j = o[i - 1] + 1 /\ cell[j] = Entity(t[i])
    BY <1>5
  <2>1. PICK i \in 1..Len(t) : IF t[i] = "TAB" THEN s[j] = " " ELSE j = o[i - 1] + 1 /\ s[j] = t[i]
    BY <1>2, Zenon DEF Placed
  <2>2. t[i] \notin Blanks /\ s[j] = t[i] /\ j = o[i - 1] + 1
    BY <1>7, <2>1
  <2>3. cell[j] = Entity(s[j])
    BY <1>5
  <2> QED
    BY <2>2, <2>3
<1>9. \A j \in 1..n : cell[j] \notin Blanks \/ cell[j] = " "
  <2> SUFFICES ASSUME NEW j \in 1..n PROVE cell[j] \notin Blanks \/ cell[j] = " "
    OBVIOUS
  <2>1. CASE cell[j] \in {" ", "&nbsp;"}
    BY <2>1 DEF Blanks, LineEnds
  <2>2. CASE \E i \in 1..Len(t) : t[i] \notin Blanks /\ j = o[i - 1] + 1 /\ cell[j] = Entity(t[i])
    BY <1>6, <2>2, EntityFacts
  <2> QED
    BY <1>8, <2>1, <2>2
<1>10. Isolated(cell, n)
  <2>1. \A i \in 1..n : 1 < i /\ i < n => i - 1 \in 1..n /\ i + 1 \in 1..n
    BY <1>3
  <2>2. \A i \in 1..n : cell[i] = " " => i - 1 \in 1..n /\ i + 1 \in 1..n /\ cell[i - 1] # " " /\ cell[i + 1] # " "
    BY <1>5, <2>1
  <2> QED
    BY <1>9, <2>2 DEF Isolated
<1>11. ASSUME NEW i \in 1..Len(t), t[i] # "TAB"
       PROVE  /\ o[i - 1] + 1 \in 1..n
              /\ Width(cell[o[i - 1] + 1]) = Width(t[i])
              /\ t[i] # " " => cell[o[i - 1] + 1] = Entity(t[i])
  <2> DEFINE j == o[i - 1] + 1
  <2>1. j \in 1..n /\ s[j] = t[i]
    BY <1>2, <1>11, Zenon DEF Placed
  <2> HIDE DEF j
  <2>2. IF t[i] = " " THEN cell[j] \in {" ", "&nbsp;"} ELSE cell[j] = Entity(t[i])
    BY <1>5, <2>1
  <2>3. Width(cell[j]) = Width(t[i])
    <3>1. CASE t[i] = " "
      BY <2>2, <3>1, SpaceWidth
    <3>2. CASE t[i] # " "
      BY <1>6, <1>7, <1>11, <2>2, <3>2, EntityFacts
    <3> QED
      BY <3>1, <3>2
  <2> QED
    BY <2>1, <2>2, <2>3 DEF j
<1> QED
  BY <1>3, <1>5, <1>8, <1>10, <1>11 DEF cell, n

\* The characters of a word are one column wide.
LEMMA CharactersAreNarrow ==
    ASSUME NEW w \in Seq(Characters)
    PROVE  /\ w \in Seq(Glyphs)
           /\ \A i \in 1..Len(w) : w[i] \in Glyphs /\ Width(w[i]) = 1
<1>1. Characters \subseteq Glyphs
  BY DEF Characters, Glyphs, Plain, Markup, Blanks, LineEnds
<1>2. \A c \in Characters : Width(c) = 1
  BY DEF Characters, Width
<1>3. \A i \in 1..Len(w) : w[i] \in Characters
  OBVIOUS
<1>4. w \in Seq(Glyphs)
  BY <1>1, SeqMonotonic
<1> QED
  BY <1>1, <1>2, <1>3, <1>4

\* A word that is text and has no line ends looks in its cell as an editor
\* would show it.
THEOREM TextIsShown ==
    ASSUME NEW w \in Seq(Characters), \A i \in 1..Len(w) : w[i] \notin LineEnds
    PROVE  Browser(plaintext_html(w)) = Editor(w)
<1> DEFINE N == Len(w)
           o == Cursor(w)
           n == o[N]
           cell == plaintext_html(w)
<1>1. w \in Seq(Glyphs) /\ \A i \in 1..N : w[i] \in Glyphs /\ Width(w[i]) = 1
  BY CharactersAreNarrow
<1>2. N \in Nat /\ DOMAIN w = 1..N /\ \A i \in 1..N : i \in 0..N /\ i - 1 \in 0..N
  OBVIOUS
<1>3. /\ o \in [0..N -> Nat] /\ o[0] = 0
      /\ \A i \in 1..N : w[i] # "TAB" => o[i] = o[i - 1] + 1
  BY <1>1, <1>2, CursorFacts
<1>4. Ends(w, o)
  <2>1. \A i \in 1..N : o[i] \in Nat /\ o[i - 1] \in Nat
    BY <1>2, <1>3
  <2>2. \A i \in 1..N : o[i] = o[i - 1] + (o[i] - o[i - 1])
    <3> HIDE DEF N, o
    <3> QED
      BY <2>1
  <2> QED
    BY <1>3, <2>2 DEF Ends
<1>5. /\ n \in Nat /\ DOMAIN cell = 1..n /\ Len(cell) = n /\ Isolated(cell, n)
      /\ \A i \in 1..N : w[i] # "TAB" =>
            /\ o[i - 1] + 1 \in 1..n
            /\ w[i] # " " => cell[o[i - 1] + 1] = Entity(w[i])
      /\ \A j \in 1..n :
            \/ cell[j] \in {" ", "&nbsp;"}
            \/ \E i \in 1..N : w[i] \notin Blanks /\ j = o[i - 1] + 1 /\ cell[j] = Entity(w[i])
  BY <1>1, <1>4, CellOfText
<1>6. \A i \in 1..N : o[i - 1] \in Nat
  BY <1>2, <1>3
<1>7. Editor(w) = [visible |-> {<<o[i - 1], w[i]>> : i \in {j \in 1..N : w[j] \notin Blanks}}, width |-> n]
  BY <1>1, <1>2, EditorIs
<1> HIDE DEF o, n, cell, N
<1>8. ASSUME NEW j \in 1..n PROVE Width(cell[j]) = 1
  <2>1. CASE cell[j] \in {" ", "&nbsp;"}
    BY <2>1, SpaceWidth
  <2>2. CASE \E i \in 1..N : w[i] \notin Blanks /\ j = o[i - 1] + 1 /\ cell[j] = Entity(w[i])
    <3>1. PICK i \in 1..N : w[i] \notin Blanks /\ cell[j] = Entity(w[i])
      BY <2>2
    <3>2. Width(Entity(w[i])) = Width(w[i]) /\ Width(w[i]) = 1
      BY <1>1, <3>1, EntityFacts
    <3> QED
      BY <3>1, <3>2
  <2> QED
    BY <1>5, <2>1, <2>2
<1>9. PICK p : p = [i \in 0..n |-> i]
  OBVIOUS
<1>10. Reaches(cell, n, p) /\ p[n] = n /\ \A j \in 1..n : p[j - 1] = j - 1
  <2>1. n \in Nat /\ n \in 0..n /\ \A j \in 1..n : j \in 0..n /\ j - 1 \in 0..n /\ j = (j - 1) + 1
    <3>1. n \in Nat
      BY <1>5
    <3> QED
      BY <3>1
  <2>2. p \in [0..n -> Nat] /\ p[0] = 0 /\ p[n] = n /\ \A j \in 1..n : p[j] = j /\ p[j - 1] = j - 1
    BY <1>9, <2>1
  <2>3. \A j \in 1..n : p[j] = p[j - 1] + Width(cell[j])
    BY <1>8, <2>1, <2>2
  <2> QED
    BY <2>2, <2>3 DEF Reaches
<1> DEFINE shown == Shown(cell, n)
           seen  == {j \in 1..N : w[j] \notin Blanks}
<1>11. Browser(cell) = [visible |-> {<<p[j - 1], Decoded(cell[j])>> : j \in shown}, width |-> p[n]]
  <2>1. n \in Nat /\ DOMAIN cell = 1..n /\ Len(cell) = n /\ Isolated(cell, n)
    BY <1>5
  <2> HIDE DEF shown
  <2> QED
    BY <1>10, <2>1, BrowserIs DEF shown
<1>12. ASSUME NEW j \in shown PROVE \E i \in seen : <<p[j - 1], Decoded(cell[j])>> = <<o[i - 1], w[i]>>
  <2>1. j \in 1..n /\ cell[j] \notin {" ", "&nbsp;"}
    BY DEF Shown, Blanks
  <2>2. PICK i \in 1..N : w[i] \notin Blanks /\ j = o[i - 1] + 1 /\ cell[j] = Entity(w[i])
    BY <1>5, <2>1
  <2>3. p[j - 1] = o[i - 1]
    <3>1. j \in 1..n /\ j = o[i - 1] + 1
      BY <2>1, <2>2
    <3>2. o[i - 1] \in Nat
      BY <1>6
    <3>3. j - 1 = o[i - 1]
      BY <3>1, <3>2
    <3> QED
      BY <1>10, <3>1, <3>3
  <2>4. Decoded(cell[j]) = w[i]
    BY <1>1, <2>2, EntityFacts
  <2> QED
    BY <2>2, <2>3, <2>4
<1>13. ASSUME NEW i \in seen PROVE \E j \in shown : <<p[j - 1], Decoded(cell[j])>> = <<o[i - 1], w[i]>>
  <2>1. i \in 1..N /\ w[i] # "TAB" /\ w[i] # " "
    BY DEF Blanks
  <2> DEFINE j == o[i - 1] + 1
  <2>2. j \in 1..n /\ cell[j] = Entity(w[i])
    BY <1>5, <2>1
  <2>3. Entity(w[i]) \notin Blanks /\ Entity(w[i]) # "&nbsp;" /\ Decoded(Entity(w[i])) = w[i]
    BY <1>1, <2>1, EntityFacts
  <2>4. j - 1 = o[i - 1]
    <3>1. i \in 1..N
      BY <2>1
    <3> QED
      BY <1>6, <3>1
  <2> HIDE DEF j
  <2>5. j \in shown
    BY <2>2, <2>3 DEF Shown
  <2>6. p[j - 1] = o[i - 1]
    BY <1>10, <2>2, <2>4
  <2> QED
    BY <2>2, <2>3, <2>5, <2>6
<1>14. {<<p[j - 1], Decoded(cell[j])>> : j \in shown} = {<<o[i - 1], w[i]>> : i \in seen}
  <2> HIDE DEF shown, seen
  <2> QED
    BY <1>12, <1>13
<1> HIDE DEF shown
<1>15. Browser(cell) = Editor(w)
  BY <1>7, <1>10, <1>11, <1>14
<1> QED
  BY <1>15 DEF cell

\* A sequence stays where it is when another one is appended to it.
LEMMA Prefix ==
    ASSUME NEW V, NEW a \in Seq(V), NEW b \in Seq(V)
    PROVE  /\ a \o b \in Seq(V)
           /\ \A i \in 1..Len(a) : i \in 1..Len(a \o b) /\ (a \o b)[i] = a[i]
OBVIOUS

\* And that one comes behind it.
LEMMA Behind ==
    ASSUME NEW V, NEW a \in Seq(V), NEW b \in Seq(V), NEW m, Len(a) = m
    PROVE  \A i \in 1..Len(b) : i + m \in 1..Len(a \o b) /\ (a \o b)[i + m] = b[i]
<1>1. m \in Nat /\ Len(b) \in Nat /\ Len(a \o b) = m + Len(b)
  OBVIOUS
<1>2. \A i \in 1..Len(b) : i + m \in 1..(m + Len(b)) /\ ~(i + m <= m) /\ (i + m) - m = i
  BY <1>1
<1>3. \A j \in 1..(m + Len(b)) : (a \o b)[j] = IF j <= m THEN a[j] ELSE b[j - m]
  BY ConcatProperties
<1> QED
  BY <1>1, <1>2, <1>3

\* Sequences of one and of two.
LEMMA ShortSequences ==
    ASSUME NEW V, NEW a \in V, NEW b \in V
    PROVE  <<a>> \in Seq(V) /\ <<a, b>> \in Seq(V)
OBVIOUS

\* The digits of a byte can be seen, as they are, in two columns.
LEMMA HexIsPlain ==
    ASSUME NEW c \in Characters, c \notin LineEnds
    PROVE  /\ hex(c) \in Glyphs \ Blanks /\ Width(hex(c)) = 2
           /\ Entity(hex(c)) = hex(c)
<1>1. hex(c) \in {"09", "20", "22", "26", "27", "3c", "3e", "78", "ff"}
  BY DEF Characters, LineEnds, hex
<1>2. hex(c) \in Plain /\ hex(c) \notin Blanks
  BY <1>1 DEF Plain, Blanks, LineEnds
<1>3. Entity(hex(c)) = hex(c)
  BY <1>1 DEF Entity
<1>4. Width(hex(c)) = 2
  BY <1>1 DEF Width
<1> QED
  BY <1>2, <1>3, <1>4 DEF Glyphs

\* The text of a word that is none: the label, a space, the digits of its
\* bytes, and more.
LEMMA BinaryText ==
    ASSUME NEW w \in Seq(Characters), \A i \in 1..Len(w) : w[i] \notin LineEnds,
           NEW k \in 1..Len(w), w[k] = "bad"
    PROVE  LET t == display_plaintext(w)
           IN  /\ t \in Seq(Glyphs) /\ \A i \in 1..Len(t) : t[i] \notin LineEnds
               /\ 1 \in 1..Len(t) /\ t[1] = "Binary data:"
               /\ 2 \in 1..Len(t) /\ t[2] = " "
               /\ \A i \in 1..Len(w) : i + 2 \in 1..Len(t) /\ t[i + 2] = hex(w[i])
<1> DEFINE V == Glyphs \ LineEnds
           hexes == [i \in DOMAIN w |-> hex(w[i])]
           chars == [i \in DOMAIN w |-> IF w[i] = "bad" THEN "U+FFFD" ELSE w[i]]
           label == <<"Binary data:", " ">>
           head == label \o hexes
           middle == <<" ", "(">>
           last == <<")">>
           t == display_plaintext(w)
<1>1. t = head \o middle \o chars \o last
  <2>1. ~\A i \in DOMAIN w : w[i] # "bad"
    OBVIOUS
  <2> QED
    BY <2>1, Zenon DEF display_plaintext
<1>2. \A i \in 1..Len(w) : w[i] \in Characters
  OBVIOUS
<1>3. \A i \in 1..Len(w) : hex(w[i]) \in V
  BY <1>2, HexIsPlain DEF Blanks
<1>4. \A i \in 1..Len(w) : (IF w[i] = "bad" THEN "U+FFFD" ELSE w[i]) \in V
  <2>1. "U+FFFD" \in V
    BY DEF Glyphs, Plain, LineEnds
  <2>2. \A c \in Characters : c \in Glyphs
    BY DEF Characters, Glyphs, Plain, Markup, Blanks, LineEnds
  <2> QED
    BY <1>2, <2>1, <2>2
<1>5. label \in Seq(V) /\ middle \in Seq(V) /\ last \in Seq(V)
  <2>1. "Binary data:" \in V /\ " " \in V /\ "(" \in V /\ ")" \in V
    BY DEF Glyphs, Plain, Blanks, LineEnds
  <2> HIDE DEF V
  <2> QED
    BY <2>1, ShortSequences
<1>6. Len(w) \in Nat /\ DOMAIN w = 1..Len(w)
  OBVIOUS
<1>7. hexes \in Seq(V) /\ Len(hexes) = Len(w) /\ \A i \in 1..Len(w) : hexes[i] = hex(w[i])
  <2> HIDE DEF V
  <2> QED
    BY <1>3, <1>6
<1>8. chars \in Seq(V)
  <2> HIDE DEF V
  <2> QED
    BY <1>4, <1>6
<1>9. Len(label) = 2 /\ label[1] = "Binary data:" /\ label[2] = " "
  OBVIOUS
<1> HIDE DEF V, hexes, chars, middle, last, label
<1>10. /\ head \in Seq(V)
       /\ \A i \in 1..Len(w) : i + 2 \in 1..Len(head) /\ head[i + 2] = hexes[i]
       /\ \A i \in 1..2 : i \in 1..Len(head) /\ head[i] = label[i]
  <2>1. Len(label) = 2 /\ label \in Seq(V) /\ hexes \in Seq(V) /\ Len(hexes) = Len(w)
    BY <1>5, <1>7, <1>9
  <2>2. head \in Seq(V) /\ \A i \in 1..Len(label) : i \in 1..Len(head) /\ head[i] = label[i]
    BY <2>1, Prefix
  <2>3. \A i \in 1..Len(hexes) : i + 2 \in 1..Len(head) /\ head[i + 2] = hexes[i]
    <3>1. \A m : Len(label) = m =>
             \A i \in 1..Len(hexes) : i + m \in 1..Len(head) /\ head[i + m] = hexes[i]
      BY <2>1, Behind
    <3> QED
      BY <2>1, <3>1
  <2> QED
    BY <2>1, <2>2, <2>3
<1> HIDE DEF head
<1>11. t \in Seq(V) /\ \A i \in 1..Len(head) : i \in 1..Len(t) /\ t[i] = head[i]
  <2> DEFINE t1 == head \o middle
             t2 == t1 \o chars
  <2>1. t1 \in Seq(V) /\ \A i \in 1..Len(head) : i \in 1..Len(t1) /\ t1[i] = head[i]
    BY <1>5, <1>10, Prefix
  <2> HIDE DEF t1
  <2>2. t2 \in Seq(V) /\ \A i \in 1..Len(t1) : i \in 1..Len(t2) /\ t2[i] = t1[i]
    BY <1>8, <2>1, Prefix
  <2>3. t = t2 \o last
    BY <1>1 DEF t1
  <2> HIDE DEF t2, t
  <2>4. t \in Seq(V) /\ \A i \in 1..Len(t2) : i \in 1..Len(t) /\ t[i] = t2[i]
    BY <1>5, <2>2, <2>3, Prefix
  <2> QED
    BY <2>1, <2>2, <2>4
<1> HIDE DEF t
<1>12. t \in Seq(Glyphs) /\ \A i \in 1..Len(t) : t[i] \notin LineEnds
  <2>1. V \subseteq Glyphs
    BY DEF V
  <2>2. \A i \in 1..Len(t) : t[i] \in V
    BY <1>11
  <2>3. t \in Seq(Glyphs)
    BY <1>11, <2>1, SeqMonotonic
  <2> QED
    BY <2>2, <2>3 DEF V
<1>13. 1 \in 1..Len(t) /\ t[1] = label[1] /\ 2 \in 1..Len(t) /\ t[2] = label[2]
  <2>1. 1 \in 1..2 /\ 2 \in 1..2
    OBVIOUS
  <2> QED
    BY <1>10, <1>11, <2>1
<1>14. \A i \in 1..Len(w) : i + 2 \in 1..Len(t) /\ t[i + 2] = hex(w[i])
  BY <1>7, <1>10, <1>11
<1> QED
  BY <1>9, <1>12, <1>13, <1>14 DEF t

\* The columns of a cell can be added up.
LEMMA ReachesExists ==
    ASSUME NEW cell, NEW n \in Nat
    PROVE  \E q : Reaches(cell, n, q)
<1> DEFINE step == [i \in 1..n |-> [m \in Nat |-> m + Width(cell[i])]]
<1>1. \A i \in 1..n : Width(cell[i]) \in Nat /\ i - 1 \in 0..n
  BY WidthIsNumber
<1>2. step \in [1..n -> [Nat -> Nat]] /\ 0 \in Nat
  BY <1>1
<1>3. \E q \in [0..n -> Nat] : Run(n, 0, step, q)
  <2> HIDE DEF step
  <2> QED
    BY <1>2, Iterates
<1>4. PICK q \in [0..n -> Nat] : Run(n, 0, step, q)
  BY <1>3
<1>5. \A i \in 1..n : q[i] = step[i][q[i - 1]]
  BY <1>4 DEF Run
<1>6. \A i \in 1..n : q[i] = q[i - 1] + Width(cell[i])
  BY <1>1, <1>5
<1> HIDE DEF step
<1> QED
  BY <1>4, <1>6 DEF Reaches, Run

\* In the cell of a word that is no text the digits of its bytes stand side
\* by side behind the label.
THEOREM BytesAreShown ==
    ASSUME NEW w \in Seq(Characters), \A i \in 1..Len(w) : w[i] \notin LineEnds,
           NEW k \in 1..Len(w), w[k] = "bad", NEW i \in 1..Len(w)
    PROVE  <<13 + 2 * (i - 1), hex(w[i])>> \in Browser(plaintext_html(display_plaintext(w))).visible
<1> DEFINE t == display_plaintext(w)
           cell == plaintext_html(t)
           N == Len(w)
<1>1. /\ t \in Seq(Glyphs) /\ \A j \in 1..Len(t) : t[j] \notin LineEnds
      /\ 1 \in 1..Len(t) /\ t[1] = "Binary data:"
      /\ 2 \in 1..Len(t) /\ t[2] = " "
      /\ \A j \in 1..N : j + 2 \in 1..Len(t) /\ t[j + 2] = hex(w[j])
  BY BinaryText
<1> HIDE DEF t
<1>2. Len(t) \in Nat
  <2>1. t \in Seq(Glyphs)
    BY <1>1
  <2> QED
    BY <2>1
<1>3. PICK o : Ends(t, o)
  BY <1>2, EndsExist
<1> DEFINE n == o[Len(t)]
<1>4. /\ n \in Nat /\ DOMAIN cell = 1..n /\ Len(cell) = n /\ Isolated(cell, n)
      /\ \A j \in 1..Len(t) : t[j] # "TAB" =>
            /\ o[j - 1] + 1 \in 1..n
            /\ Width(cell[o[j - 1] + 1]) = Width(t[j])
            /\ t[j] # " " => cell[o[j - 1] + 1] = Entity(t[j])
  BY <1>1, <1>3, CellOfText
<1>5. \A j \in 1..N : hex(w[j]) \notin Blanks /\ Width(hex(w[j])) = 2 /\ Entity(hex(w[j])) = hex(w[j])
  <2>1. \A j \in 1..N : w[j] \in Characters
    OBVIOUS
  <2> QED
    BY <2>1, HexIsPlain
<1> HIDE DEF n, cell
<1> DEFINE M == N + 2
<1>6. N \in Nat /\ M \in Nat /\ \A j \in 1..M : j = 1 \/ j = 2 \/ (j - 2 \in 1..N /\ (j - 2) + 2 = j)
  OBVIOUS
<1>0. 1 \in 1..M /\ 2 \in 1..M
  BY <1>6
<1> HIDE DEF M, N
<1>7. \A j \in 1..M : j \in 1..Len(t) /\ t[j] # "TAB"
  <2>1. \A j \in 1..N : hex(w[j]) # "TAB"
    BY <1>5 DEF Blanks
  <2>2. t[1] # "TAB" /\ t[2] # "TAB"
    BY <1>1
  <2> QED
    BY <1>1, <1>6, <2>1, <2>2
<1>8. o[0] = 0 /\ \A j \in 1..M : o[j] = o[j - 1] + 1
  BY <1>3, <1>7 DEF Ends
<1>9. \A j \in 0..M : o[j] = j
  <2> DEFINE S == {j \in 0..M : o[j] = j}
  <2>1. 0 \in S
    BY <1>6, <1>8
  <2>2. ASSUME NEW j \in 0..(M - 1), j \in S PROVE j + 1 \in S
    <3>1. j + 1 \in 1..M /\ j + 1 \in 0..M /\ (j + 1) - 1 = j
      BY <1>6
    <3> QED
      BY <1>8, <2>2, <3>1
  <2> HIDE DEF S
  <2>3. \A j \in 0..M : j \in S
    BY <1>6, <2>1, <2>2, FromZeroTo, Zenon
  <2> QED
    BY <2>3 DEF S
<1>10. \A j \in 1..M : o[j - 1] + 1 = j
  <2>1. \A j \in 1..M : j - 1 \in 0..M /\ (j - 1) + 1 = j
    BY <1>6
  <2> QED
    BY <1>9, <2>1
<1>11. \A j \in 1..M : j \in 1..n /\ Width(cell[j]) = Width(t[j]) /\ (t[j] # " " => cell[j] = Entity(t[j]))
  BY <1>4, <1>7, <1>10
<1>12. Width(cell[1]) = 12 /\ Width(cell[2]) = 1
  <2>1. Width("Binary data:") = 12 /\ Width(" ") = 1
    BY DEF Width
  <2> QED
    BY <1>0, <1>1, <1>11, <2>1
<1>13. \A j \in 1..N : j + 2 \in 1..n /\ cell[j + 2] = hex(w[j]) /\ Width(cell[j + 2]) = 2
  <2>1. \A j \in 1..N : j + 2 \in 1..M
    BY <1>6 DEF M
  <2>2. \A j \in 1..N : hex(w[j]) # " "
    BY <1>5 DEF Blanks
  <2> QED
    BY <1>1, <1>5, <1>11, <2>1, <2>2
<1>14. PICK q : Reaches(cell, n, q)
  BY <1>4, ReachesExists
<1>15. q[2] = 13
  <2>1. 1 \in 1..n /\ 2 \in 1..n
    BY <1>0, <1>11
  <2>2. q[0] = 0 /\ q[1] = q[0] + Width(cell[1]) /\ q[2] = q[1] + Width(cell[2])
    BY <1>14, <2>1 DEF Reaches
  <2> QED
    BY <1>12, <2>2
<1>16. \A j \in 0..N : q[j + 2] = 13 + 2 * j
  <2> DEFINE S == {j \in 0..N : q[j + 2] = 13 + 2 * j}
  <2>1. 0 \in S
    BY <1>6, <1>15
  <2>2. ASSUME NEW j \in 0..(N - 1), j \in S PROVE j + 1 \in S
    <3>1. j + 1 \in 1..N /\ j + 1 \in 0..N /\ j \in Nat /\ (j + 1) + 2 \in Nat /\ ((j + 1) + 2) - 1 = j + 2
      BY <1>6
    <3>2. (j + 1) + 2 \in 1..n /\ Width(cell[(j + 1) + 2]) = 2
      BY <1>13, <3>1
    <3>3. q[(j + 1) + 2] = q[j + 2] + 2
      BY <1>14, <3>1, <3>2 DEF Reaches
    <3>4. q[(j + 1) + 2] = 13 + 2 * (j + 1)
      BY <2>2, <3>1, <3>3
    <3> QED
      BY <3>1, <3>4
  <2> HIDE DEF S
  <2>3. \A j \in 0..N : j \in S
    BY <1>6, <2>1, <2>2, FromZeroTo, Zenon
  <2> QED
    BY <2>3 DEF S
<1>17. i \in 1..N
  BY DEF N
<1>18. q[(i + 2) - 1] = 13 + 2 * (i - 1)
  <2>1. i - 1 \in 0..N /\ (i - 1) + 2 = (i + 2) - 1
    BY <1>6, <1>17
  <2> QED
    BY <1>16, <2>1
<1>19. i + 2 \in Shown(cell, n) /\ Decoded(cell[i + 2]) = hex(w[i])
  <2>1. w[i] \in Characters /\ w[i] \notin LineEnds
    OBVIOUS
  <2>2. hex(w[i]) \in Glyphs \ Blanks /\ Entity(hex(w[i])) = hex(w[i])
    BY <2>1, HexIsPlain
  <2>3. hex(w[i]) # "&nbsp;" /\ Decoded(hex(w[i])) = hex(w[i])
    BY <2>2, EntityFacts
  <2> QED
    BY <1>13, <1>17, <2>2, <2>3 DEF Shown
<1>20. Browser(cell) = [visible |-> {<<q[j - 1], Decoded(cell[j])>> : j \in Shown(cell, n)}, width |-> q[n]]
  <2>1. n \in Nat /\ DOMAIN cell = 1..n /\ Len(cell) = n /\ Isolated(cell, n)
    BY <1>4
  <2>2. \A p : Reaches(cell, n, p) =>
            Browser(cell) = [visible |-> {<<p[j - 1], Decoded(cell[j])>> : j \in Shown(cell, n)}, width |-> p[n]]
    BY <2>1, BrowserIs
  <2> QED
    BY <1>14, <2>2, Zenon
<1>21. <<13 + 2 * (i - 1), hex(w[i])>> \in Browser(cell).visible
  <2>1. <<q[(i + 2) - 1], Decoded(cell[i + 2])>> \in Browser(cell).visible
    <3> DEFINE pair(j) == <<q[j - 1], Decoded(cell[j])>>
               visible == {pair(j) : j \in Shown(cell, n)}
    <3>1. Browser(cell).visible = visible
      BY <1>20
    <3>2. pair(i + 2) \in visible
      BY <1>19
    <3> QED
      BY <3>1, <3>2
  <2> QED
    BY <1>18, <1>19, <2>1
<1> QED
  BY <1>21 DEF cell, t

\* The cell of a word without line ends shows it, be it text or not.
LEMMA WordIsShown ==
    ASSUME NEW w \in Seq(Characters), \A i \in 1..Len(w) : w[i] \notin LineEnds
    PROVE  Shows(plaintext_html(display_plaintext(w)), w)
<1>1. CASE \E i \in DOMAIN w : w[i] = "bad"
  <2>1. DOMAIN w = 1..Len(w)
    OBVIOUS
  <2>2. PICK k \in 1..Len(w) : w[k] = "bad"
    BY <1>1, <2>1
  <2>3. \A i \in 1..Len(w) :
           <<13 + 2 * (i - 1), hex(w[i])>> \in Browser(plaintext_html(display_plaintext(w))).visible
    BY <2>2, BytesAreShown
  <2> QED
    BY <1>1, <2>1, <2>3, Zenon DEF Shows
<1>2. CASE ~\E i \in DOMAIN w : w[i] = "bad"
  <2>1. display_plaintext(w) = w
    BY <1>2, Zenon DEF display_plaintext
  <2>2. Browser(plaintext_html(w)) = Editor(w)
    BY TextIsShown
  <2> QED
    BY <1>2, <2>1, <2>2, Zenon DEF Shows
<1> QED
  BY <1>1, <1>2

\* The words of the tables are of known characters, their digests lowercase.
LEMMA EntryFacts ==
    ASSUME Loaded, NEW t \in DOMAIN tables, NEW e \in tables[t]
    PROVE  /\ e.word \in Seq(Characters)
           /\ e.digest \in Seq(Chars) /\ Lower(e.digest) = e.digest
<1>1. PICK s \in Services : tables = s.tables
  BY DEF Loaded
<1>2. tables \in Seq(SUBSET [word : Seq(Characters), digest : Seq(Digits)])
  BY <1>1, ResultsAssumption
<1>3. tables[t] \in SUBSET [word : Seq(Characters), digest : Seq(Digits)]
  BY <1>2
<1>4. e.word \in Seq(Characters) /\ e.digest \in Seq(Digits)
  BY <1>3
<1>5. \A d \in Digits : to_ascii_lowercase(d) = d
  BY DEF Digits, to_ascii_lowercase
<1>6. Lower(e.digest) = e.digest
  <2>1. \A i \in DOMAIN e.digest : to_ascii_lowercase(e.digest[i]) = e.digest[i]
    BY <1>4, <1>5
  <2>2. e.digest = [i \in DOMAIN e.digest |-> e.digest[i]]
    BY <1>4
  <2> QED
    BY <2>1, <2>2 DEF Lower
<1> QED
  BY <1>4, <1>6, DigitsAreChars

\* The row shows the word of an entry that has the row's digest.
Displays(row) ==
    \E t \in DOMAIN tables : \E e \in tables[t] :
        /\ e.digest = Lower(row.hash)
        /\ \/ \E j \in DOMAIN e.word : e.word[j] \in LineEnds
           \/ Shows(row.cell, e.word)

\* A row with the cell of an entry's word and its digest displays the word.
LEMMA CellDisplays ==
    ASSUME Loaded, NEW t \in DOMAIN tables, NEW e \in tables[t], NEW row,
           e.digest = Lower(row.hash), row.cell = plaintext_html(display_plaintext(e.word))
    PROVE  Displays(row)
<1>1. e.word \in Seq(Characters)
  BY EntryFacts
<1>2. DOMAIN e.word = 1..Len(e.word)
  BY <1>1
<1>3. (\E j \in DOMAIN e.word : e.word[j] \in LineEnds) \/ Shows(row.cell, e.word)
  <2> SUFFICES ASSUME ~\E j \in DOMAIN e.word : e.word[j] \in LineEnds
               PROVE  Shows(row.cell, e.word)
    OBVIOUS
  <2>1. \A j \in 1..Len(e.word) : e.word[j] \notin LineEnds
    BY <1>2
  <2> QED
    BY <1>1, <2>1, WordIsShown
<1> QED
  BY <1>3, Zenon DEF Displays

\* The row of a kept match does, if it is an exact one by the hash submitted,
\* else by the digest of the near miss.
LEMMA MatchDisplays ==
    ASSUME Loaded, NEW hash \in Seq(Chars), IsHash(hash), NEW kept \in Kept(hash),
           NEW i \in DOMAIN kept, NEW result, result.hash = hash
    PROVE  Displays(MatchRow(result, CrackMatch(hash, kept[i])))
<1> DEFINE match == CrackMatch(hash, kept[i])
           row == MatchRow(result, match)
<1>1. CASE ~is_full_match(match)
  <2>1. Missed(row, Lower(hash))
    BY <1>1, NearMissIsRight
  <2> HIDE DEF row
  <2>2. PICK t \in DOMAIN tables : \E e \in tables[t] :
            e.digest = row.hash /\ row.cell = plaintext_html(display_plaintext(e.word))
    BY <2>1, Zenon DEF Missed
  <2>3. PICK e \in tables[t] :
            e.digest = row.hash /\ row.cell = plaintext_html(display_plaintext(e.word))
    BY <2>2
  <2>4. e.digest = Lower(row.hash)
    BY <2>3, EntryFacts
  <2>5. Displays(row)
    BY <2>3, <2>4, CellDisplays
  <2> QED
    BY <2>5 DEF row
<1>2. CASE is_full_match(match)
  <2>1. kept[i] \in Candidates(hash)
    BY KeptFacts
  <2>2. PICK t \in Consulted(hash) :
            kept[i] \in {[table |-> t, entry |-> e] : e \in Block(hash, tables[t])}
    BY <2>1 DEF Candidates
  <2>3. PICK e \in Block(hash, tables[t]) : kept[i] = [table |-> t, entry |-> e]
    BY <2>2
  <2>4. t \in DOMAIN tables /\ e \in tables[t] /\ kept[i].entry = e
    BY <2>3 DEF Consulted, Block
  <2>5. match = [plaintext |-> display_plaintext(e.word),
                 near_miss |-> IF IsExact(hash, kept[i]) THEN {} ELSE {NearMiss(hash, e.digest)}]
    BY <2>4, Zenon DEF CrackMatch
  <2>6. match.plaintext = display_plaintext(e.word) /\ IsExact(hash, kept[i])
    BY <1>2, <2>5 DEF is_full_match
  <2>7. e.digest = Lower(hash)
    BY <2>4, <2>6 DEF IsExact
  <2>8. row = Row("suc", hash, 0, plaintext_html(display_plaintext(e.word)), 0)
    BY <1>2, <2>6, Zenon DEF MatchRow
  <2>9. row.hash = hash /\ row.cell = plaintext_html(display_plaintext(e.word))
    BY <2>8 DEF Row
  <2> HIDE DEF row
  <2>10. Displays(row)
    BY <2>4, <2>7, <2>9, CellDisplays
  <2> QED
    BY <2>10 DEF row
<1> QED
  BY <1>1, <1>2

\* The cell of a match shows its word as an editor would, every character in
\* its column, or the digits of its bytes if it is no text: what the visitor
\* reads is the word that was found, and not what html_escape.rs or a browser
\* has left of it.
THEOREM WordsAreDisplayed == Spec => []CellDisplaysTheWord
<1>1. ASSUME IInv, NEW k \in DOMAIN results, NEW i \in DOMAIN Rows(results[k]),
             Rows(results[k])[i].class \in {"suc", "part"}
      PROVE  Displays(Rows(results[k])[i])
  <2> DEFINE r == results[k]
  <2>1. /\ Loaded /\ r.hash \in Seq(Chars) /\ IsHash(r.hash)
        /\ \E kept \in Kept(r.hash) :
              i \in DOMAIN kept /\ Rows(r)[i] = MatchRow(r, CrackMatch(r.hash, kept[i]))
    BY <1>1, RowOfAMatch
  <2>2. PICK kept \in Kept(r.hash) :
            i \in DOMAIN kept /\ Rows(r)[i] = MatchRow(r, CrackMatch(r.hash, kept[i]))
    BY <2>1
  <2>3. Displays(MatchRow(r, CrackMatch(r.hash, kept[i])))
    BY <2>1, <2>2, MatchDisplays
  <2> QED
    BY <2>2, <2>3
<1>2. IInv => CellDisplaysTheWord
  <2> SUFFICES ASSUME IInv
               PROVE  \A k \in DOMAIN results : \A i \in DOMAIN Rows(results[k]) :
                         Rows(results[k])[i].class \in {"suc", "part"} => Displays(Rows(results[k])[i])
    BY Zenon DEF CellDisplaysTheWord, Displays
  <2> QED
    BY <1>1
<1> QED
  BY <1>2, Invariance, PTL
===============================================================================
