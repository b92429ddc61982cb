-------------------------- MODULE CrackResults_proofs --------------------------
(***************************************************************************)
(* Proofs about HtmlEscape and CrackResults: what reaches a cell, and what *)
(* the table and the line above it say of the hashes submitted.            *)
(***************************************************************************)
EXTENDS CrackResults, SequenceTheorems, Induction

-----------------------------------------------------------------------------
(* HtmlEscape                                                              *)

\* html_special_chars leaves no element that is markup, whatever it is given.
LEMMA EscapedIsInert ==
    ASSUME NEW t, NEW i \in DOMAIN html_special_chars(t)
    PROVE  html_special_chars(t)[i] \notin Markup
<1>1. i \in DOMAIN t
  BY DEF html_special_chars
<1>2. CASE t[i] \in Markup
  BY <1>1, <1>2 DEF html_special_chars, Markup
<1>3. CASE t[i] \notin Markup
  BY <1>1, <1>3 DEF html_special_chars, Markup
<1> QED
  BY <1>2, <1>3

\* The steps after it write nothing but fixed spaces.
LEMMA FixKeepsInert ==
    ASSUME NEW t, NEW at, \A i \in DOMAIN t : t[i] \notin Markup
    PROVE  \A i \in DOMAIN Fix(t, at) : Fix(t, at)[i] \notin Markup
BY DEF Fix, Markup

\* CrackMatch::plaintext_html writes no markup, for any text at all.
THEOREM CellIsInert ==
    ASSUME NEW t
    PROVE  \A i \in DOMAIN plaintext_html(t) : plaintext_html(t)[i] \notin Markup
<1> DEFINE Inert(u) == \A i \in DOMAIN u : u[i] \notin Markup
           escaped == html_special_chars(tabs_to_spaces(t))
<1>1. Inert(escaped)
  BY EscapedIsInert
<1>2. \A u, at : Inert(u) => Inert(Fix(u, at))
  BY FixKeepsInert
<1> HIDE DEF Inert
<1>3. Inert(FixDoubles(escaped))
  BY <1>1, <1>2 DEF FixDoubles
<1>4. Inert(replace_leading_spaces(FixDoubles(escaped)))
  BY <1>2, <1>3 DEF replace_leading_spaces
<1>5. Inert(escape_text(t))
  BY <1>2, <1>4 DEF FixTrailing, escape_text
<1>6. Inert(plaintext_html(t))
  BY <1>2, <1>5 DEF plaintext_html
<1> QED
  BY <1>6 DEF Inert

-----------------------------------------------------------------------------
(* Numbers and sequences                                                   *)

\* A bounded set of numbers has a greatest element, which is what Max chooses.
LEMMA MaxElement ==
    ASSUME NEW n \in Nat, NEW S \in SUBSET (0..n), S # {}
    PROVE  Max(S) \in S /\ \A y \in S : y <= Max(S)
<1> DEFINE D == {m \in Nat : \A y \in S : y <= m}
<1>1. n \in D
  OBVIOUS
<1>2. PICK m \in D : \A k \in D : m <= k
  BY <1>1, LeastElement
<1>3. m \in S
  <2> SUFFICES ASSUME m \notin S PROVE FALSE
    OBVIOUS
  <2>1. \A y \in S : y <= m - 1
    BY <1>2
  <2>2. m - 1 \in Nat
    <3>1. PICK y \in S : y \in 0..n
      OBVIOUS
    <3>2. y <= m - 1 /\ m \in Nat
      BY <2>1, <3>1, <1>2
    <3> QED
      BY <3>1, <3>2
  <2>3. m - 1 \in D
    BY <2>1, <2>2
  <2> QED
    BY <2>3, <1>2
<1>4. \E x \in S : \A y \in S : x >= y
  BY <1>2, <1>3
<1> QED
  BY <1>4 DEF Max

\* What Min chooses.
LEMMA MinElement ==
    ASSUME NEW S \in SUBSET Nat, S # {}
    PROVE  Min(S) \in S /\ \A y \in S : Min(S) <= y
BY LeastElement DEF Min

\* The smaller of two numbers.
LEMMA MinOfTwo ==
    ASSUME NEW a \in Nat, NEW b \in Nat
    PROVE  Min({a, b}) = IF a <= b THEN a ELSE b
<1>1. \E x \in {a, b} : \A y \in {a, b} : x =< y
  OBVIOUS
<1> QED
  BY <1>1 DEF Min

\* A function on 1..n is a sequence of its values.
LEMMA FunctionIsSequence ==
    ASSUME NEW n \in Nat, NEW f, f = [k \in 1..n |-> f[k]]
    PROVE  f \in Seq(Range(f)) /\ Len(f) = n
<1>1. f \in [1..n -> Range(f)]
  BY DEF Range
<1> QED
  BY <1>1

\* A sequence of whatever it holds, with one more element.
LEMMA AppendAny ==
    ASSUME NEW s, s \in Seq(Range(s)), NEW e
    PROVE  /\ Append(s, e) \in Seq(Range(Append(s, e)))
           /\ Len(Append(s, e)) = Len(s) + 1
           /\ Append(s, e)[Len(s) + 1] = e
           /\ \A k \in 1..Len(s) : Append(s, e)[k] = s[k]
<1> DEFINE S == Range(s) \cup {e}
           f == Append(s, e)
<1>1. s \in Seq(S) /\ e \in S
  OBVIOUS
<1>2. f \in Seq(S) /\ Len(f) = Len(s) + 1
  BY <1>1
<1>3. f[Len(s) + 1] = e /\ \A k \in 1..Len(s) : f[k] = s[k]
  BY <1>1
<1> HIDE DEF f
<1>4. Len(f) \in Nat /\ f = [k \in 1..Len(f) |-> f[k]]
  BY <1>2, LenProperties
<1>5. f \in Seq(Range(f))
  BY <1>4, FunctionIsSequence
<1> QED
  BY <1>2, <1>3, <1>5 DEF f

\* The values of a function on a finite set are finitely many.
LEMMA ImageIsFinite ==
    ASSUME NEW S, IsFiniteSet(S), NEW f
    PROVE  IsFiniteSet({f[x] : x \in S})
<1> DEFINE T == {f[x] : x \in S}
           g == [x \in S |-> f[x]]
<1>1. g \in Surjection(S, T)
  BY DEF Surjection
<1> QED
  BY <1>1, FS_Surjection

-----------------------------------------------------------------------------
(* The lookup                                                              *)

\* The elements of a text; those that the operators write are spelt out, as
\* the provers do not derive that a literal is in STRING.
Chars == STRING \cup {"LF", "a", "b"}

LEMMA StringsAreChars == Seq(STRING) \subseteq Seq(Chars)
BY SeqMonotonic DEF Chars

\* The tables are those of one of the services.
Loaded == \E s \in Services : tables = s.tables

LEMMA DigitsAreChars == Seq(Digits) \subseteq Seq(Chars)
BY SeqMonotonic DEF Chars, Digits

LEMMA TablesAreFinite ==
    ASSUME Loaded
    PROVE  /\ Len(tables) \in Nat /\ DOMAIN tables = 1..Len(tables)
           /\ \A t \in DOMAIN tables :
                /\ IsFiniteSet(tables[t])
                /\ \A e \in tables[t] : e.digest \in Seq(Chars) /\ Len(e.digest) >= PrefixLen
<1>1. PICK s \in Services : tables = s.tables
  BY DEF Loaded
<1>2. tables \in Seq(SUBSET [word : Seq(Characters), digest : Seq(Digits)])
  BY <1>1, ResultsAssumption
<1>3. ASSUME NEW t \in DOMAIN tables
      PROVE  /\ IsFiniteSet(tables[t])
             /\ \A e \in tables[t] : e.digest \in Seq(Chars) /\ Len(e.digest) >= PrefixLen
  <2>1. IsFiniteSet(tables[t]) /\ \A e \in tables[t] : Len(e.digest) >= PrefixLen
    BY <1>1, ResultsAssumption
  <2>2. tables[t] \in SUBSET [word : Seq(Characters), digest : Seq(Digits)]
    BY <1>2
  <2>3. \A e \in tables[t] : e.digest \in Seq(Digits)
    BY <2>2
  <2> QED
    BY <2>1, <2>3, DigitsAreChars
<1> QED
  BY <1>2, <1>3

LEMMA CandidatesAreFinite ==
    ASSUME Loaded, NEW hash
    PROVE  IsFiniteSet(Candidates(hash)) /\ Cardinality(Candidates(hash)) \in Nat
<1> DEFINE blocks == {{[table |-> t, entry |-> e] : e \in Block(hash, tables[t])} :
                          t \in Consulted(hash)}
<1>1. IsFiniteSet(Consulted(hash))
  <2>1. IsFiniteSet(1..Len(tables))
    BY TablesAreFinite, UpTo
  <2> QED
    BY <2>1, TablesAreFinite, FS_Subset DEF Consulted
<1>2. IsFiniteSet(blocks)
  <2> DEFINE f == [t \in Consulted(hash) |->
                      {[table |-> t, entry |-> e] : e \in Block(hash, tables[t])}]
  <2>1. IsFiniteSet({f[t] : t \in Consulted(hash)})
    BY <1>1, ImageIsFinite
  <2> QED
    BY <2>1
<1>3. ASSUME NEW t \in Consulted(hash)
      PROVE  IsFiniteSet({[table |-> t, entry |-> e] : e \in Block(hash, tables[t])})
  <2>1. IsFiniteSet(tables[t])
    BY TablesAreFinite DEF Consulted
  <2>2. IsFiniteSet(Block(hash, tables[t]))
    BY <2>1, FS_Subset DEF Block
  <2> DEFINE f == [e \in Block(hash, tables[t]) |-> [table |-> t, entry |-> e]]
  <2>3. IsFiniteSet({f[e] : e \in Block(hash, tables[t])})
    BY <2>2, ImageIsFinite
  <2> QED
    BY <2>3
<1>4. IsFiniteSet(UNION blocks)
  BY <1>2, <1>3, FS_UNION
<1> QED
  BY <1>4, FS_CardinalityType DEF Candidates

\* What the limit leaves of the candidates.
LEMMA KeptFacts ==
    ASSUME Loaded, NEW hash, NEW kept \in Kept(hash)
    PROVE  LET all == Cardinality(Candidates(hash)) IN
           /\ kept \in Seq(Candidates(hash))
           /\ Len(kept) = IF all <= MaxMatches THEN all ELSE MaxMatches
<1> DEFINE n == Min({Cardinality(Candidates(hash)), MaxMatches})
<1>1. Cardinality(Candidates(hash)) \in Nat /\ MaxMatches \in Nat
  BY CandidatesAreFinite, ResultsAssumption
<1>2. n = IF Cardinality(Candidates(hash)) <= MaxMatches
          THEN Cardinality(Candidates(hash)) ELSE MaxMatches
  BY <1>1, MinOfTwo
<1>3. kept \in [1..n -> Candidates(hash)]
  BY DEF Kept
<1> HIDE DEF n
<1> QED
  BY <1>1, <1>2, <1>3

\* A hash that stands in a table is among the candidates: in the first table
\* that holds it, which early_exit lets the lookup reach.
LEMMA ExactIsCandidate ==
    ASSUME Loaded, NEW hash, NEW t \in DOMAIN tables, HasExact(hash, tables[t])
    PROVE  \E c \in Candidates(hash) : IsExact(hash, c)
<1> DEFINE T == {s \in 1..Len(tables) : HasExact(hash, tables[s])}
<1>1. T \in SUBSET Nat /\ T # {}
  BY TablesAreFinite
<1>2. PICK first \in T : \A s \in T : first <= s
  BY <1>1, LeastElement
<1>3. first \in Consulted(hash)
  BY <1>2, TablesAreFinite DEF Consulted
<1>4. PICK e \in tables[first] : e.digest = Lower(hash)
  BY <1>2 DEF HasExact
<1>5. e \in Block(hash, tables[first])
  BY <1>4 DEF Block
<1> DEFINE c == [table |-> first, entry |-> e]
<1>6. c \in {[table |-> first, entry |-> d] : d \in Block(hash, tables[first])}
  BY <1>5
<1>7. c \in Candidates(hash)
  BY <1>3, <1>6 DEF Candidates
<1>8. IsExact(hash, c)
  BY <1>4 DEF IsExact
<1> QED
  BY <1>7, <1>8
-----------------------------------------------------------------------------
(* The text taken apart                                                    *)

\* There is a k-th element for every k up to the cardinality: the least k
\* without one would have the next larger element of the one before.
LEMMA KthElement ==
    ASSUME NEW S \in SUBSET Nat, IsFiniteSet(S), NEW k \in 1..Cardinality(S)
    PROVE  Kth(S, k) \in S /\ Cardinality({j \in S : j < Kth(S, k)}) = k - 1
<1> DEFINE Below(i) == {j \in S : j < i}
           Is(n, i) == Cardinality(Below(i)) = n - 1
           Missing == {n \in 1..Cardinality(S) : \A i \in S : ~Is(n, i)}
<1>0. Cardinality(S) \in Nat /\ \A i : IsFiniteSet(Below(i)) /\ Cardinality(Below(i)) \in Nat
  BY FS_CardinalityType, FS_Subset
<1>1. Missing = {}
  <2> SUFFICES ASSUME Missing # {} PROVE FALSE
    OBVIOUS
  <2>0. Missing \in SUBSET Nat
    BY <1>0
  <2>1. PICK n \in Missing : \A m \in Missing : n <= m
    <3> HIDE DEF Missing
    <3> QED
      BY <2>0, LeastElement
  <2>2. n \in 1..Cardinality(S) /\ \A i \in S : ~Is(n, i)
    BY <2>1
  <2>3. CASE n = 1
    <3>1. S # {}
      BY <1>0, <2>2, FS_EmptySet
    <3>2. PICK x \in S : \A y \in S : x <= y
      BY <3>1, LeastElement
    <3>3. Below(x) = {}
      <4>1. \A y \in S : ~(y < x)
        BY <3>2
      <4> QED
        BY <4>1
    <3>4. Is(1, x)
      BY <3>3, FS_EmptySet
    <3> QED
      BY <2>2, <2>3, <3>2, <3>4
  <2>4. CASE n > 1
    <3>1. n - 1 \in 1..Cardinality(S) /\ n - 1 \notin Missing
      BY <1>0, <2>1, <2>2, <2>4
    <3>2. PICK i \in S : Is(n - 1, i)
      BY <3>1
    <3>3. Cardinality(Below(i)) = n - 2
      BY <2>2, <3>2
    <3>4. i \notin Below(i) /\ IsFiniteSet(Below(i) \cup {i}) /\ Cardinality(Below(i) \cup {i}) = n - 1
      <4>1. i \notin Below(i) /\ n \in Nat
        BY <1>0, <2>2, <3>2
      <4>2. IsFiniteSet(Below(i)) /\ Cardinality(Below(i)) = n - 2
        BY <1>0, <3>3
      <4> HIDE DEF Below, Missing
      <4>3. IsFiniteSet(Below(i) \cup {i}) /\ Cardinality(Below(i) \cup {i}) = Cardinality(Below(i)) + 1
        BY <4>1, <4>2, FS_AddElement
      <4> QED
        BY <4>1, <4>2, <4>3
    <3>5. Below(i) \cup {i} \in SUBSET S /\ Below(i) \cup {i} # S
      <4>1. Below(i) \cup {i} \in SUBSET S
        BY <3>2
      <4>2. n \in Nat /\ n <= Cardinality(S) /\ Cardinality(S) \in Nat
        BY <1>0, <2>2
      <4>3. Cardinality(Below(i) \cup {i}) # Cardinality(S)
        BY <3>4, <4>2
      <4> HIDE DEF Below, Missing
      <4> QED
        BY <4>1, <4>3
    <3>6. \E j \in S : j > i
      <4>1. PICK j \in S : j \notin Below(i) \cup {i}
        BY <3>5
      <4>2. ~(j < i) /\ j # i /\ j \in Nat /\ i \in Nat
        BY <3>2, <4>1
      <4> QED
        BY <4>1, <4>2
    <3>7. {j \in S : j > i} \in SUBSET Nat /\ {j \in S : j > i} # {}
      BY <3>6
    <3>8. PICK x \in {j \in S : j > i} : \A y \in {j \in S : j > i} : x <= y
      BY <3>7, LeastElement
    <3>9. Below(x) = Below(i) \cup {i}
      <4>1. x \in Nat /\ i \in Nat /\ i < x /\ i \in S
        BY <3>2, <3>8
      <4>2. ASSUME NEW j \in S PROVE (j < x) <=> (j < i \/ j = i)
        <5>1. j \in Nat
          OBVIOUS
        <5>2. j > i => x <= j
          BY <3>8
        <5> QED
          BY <4>1, <5>1, <5>2
      <4> QED
        BY <4>1, <4>2
    <3>10. Is(n, x)
      BY <3>4, <3>9
    <3> QED
      BY <2>2, <3>8, <3>10
  <2> QED
    BY <2>2, <2>3, <2>4, <1>0
<1>2. \E i \in S : Cardinality({j \in S : j < i}) = k - 1
  BY <1>1
<1> QED
  BY <1>2 DEF Kth

\* At picks elements of the sequence.
LEMMA AtElements ==
    ASSUME NEW T, NEW seq, NEW S \in SUBSET Nat, IsFiniteSet(S), \A i \in S : seq[i] \in T
    PROVE  At(seq, S) \in Seq(T) /\ Len(At(seq, S)) = Cardinality(S)
<1>1. Cardinality(S) \in Nat
  BY FS_CardinalityType
<1>2. \A k \in 1..Cardinality(S) : seq[Kth(S, k)] \in T
  BY KthElement
<1>3. At(seq, S) \in [1..Cardinality(S) -> T]
  BY <1>2 DEF At
<1> QED
  BY <1>1, <1>3

\* split: the lines of a text, and there is at least one.
LEMMA LinesAreTexts ==
    ASSUME NEW t \in Seq(Chars)
    PROVE  \E n \in Nat : DOMAIN lines(t) = 1..n /\ \A k \in 1..n : lines(t)[k] \in Seq(Chars)
<1> DEFINE B == Breaks(t)
           n == Cardinality(B) - 1
<1>1. Len(t) \in Nat /\ DOMAIN t = 1..Len(t) /\ \A i \in 1..Len(t) : t[i] \in Chars
  OBVIOUS
<1>2. B \in SUBSET (0..(Len(t) + 1)) /\ 0 \in B /\ B \in SUBSET Nat
  BY <1>1 DEF Breaks
<1>3. IsFiniteSet(B)
  <2>1. IsFiniteSet(0..(Len(t) + 1))
    BY <1>1, FS_Interval
  <2> HIDE DEF B
  <2> QED
    BY <1>2, <2>1, FS_Subset
<1>4. n \in Nat
  BY <1>2, <1>3, FS_EmptySet, FS_CardinalityType
<1>5. ASSUME NEW k \in 1..n PROVE lines(t)[k] \in Seq(Chars)
  <2>1. k \in 1..Cardinality(B) /\ k + 1 \in 1..Cardinality(B)
    <3>1. Cardinality(B) \in Nat
      BY <1>3, FS_CardinalityType
    <3> HIDE DEF B
    <3> QED
      BY <3>1
  <2> HIDE DEF B
  <2>2. Kth(B, k) \in B /\ Kth(B, k + 1) \in B
    BY <1>2, <1>3, <2>1, KthElement
  <2>3. Kth(B, k) \in 0..(Len(t) + 1) /\ Kth(B, k + 1) \in 0..(Len(t) + 1)
    BY <1>2, <2>2
  <2>4. SubSeq(t, Kth(B, k) + 1, Kth(B, k + 1) - 1) \in Seq(Chars)
    <3>1. \A i \in (Kth(B, k) + 1)..(Kth(B, k + 1) - 1) : t[i] \in Chars
      BY <1>1, <2>3
    <3> QED
      BY <1>1, <2>3, <3>1, SubSeqProperties
  <2> QED
    BY <2>4 DEF lines, B
<1> QED
  BY <1>4, <1>5 DEF lines

LEMMA TrimmedIsText ==
    ASSUME NEW t \in Seq(Chars), NEW dropped
    PROVE  trim_matches(t, dropped) \in Seq(Chars)
<1> DEFINE kept == {i \in DOMAIN t : t[i] \notin dropped}
<1>1. CASE kept = {}
  BY <1>1, EmptySeq DEF trim_matches
<1>2. CASE kept # {}
  <2>1. kept \in SUBSET (0..Len(t)) /\ kept \in SUBSET Nat /\ Len(t) \in Nat
    OBVIOUS
  <2>2. trim_matches(t, dropped) = SubSeq(t, Min(kept), Max(kept))
    BY <1>2 DEF trim_matches
  <2>3. kept \in SUBSET (1..Len(t))
    OBVIOUS
  <2> HIDE DEF kept
  <2>4. Min(kept) \in 1..Len(t) /\ Max(kept) \in 1..Len(t)
    BY <1>2, <2>1, <2>3, MinElement, MaxElement
  <2>5. \A i \in Min(kept)..Max(kept) : t[i] \in Chars
    BY <2>1, <2>4
  <2> QED
    BY <2>1, <2>2, <2>4, <2>5, SubSeqProperties
<1> QED
  BY <1>1, <1>2

\* Handler::post takes any text apart into a finite list of texts.
LEMMA HashesAreTexts ==
    ASSUME NEW raw \in Seq(Chars)
    PROVE  Hashes(raw) \in Seq(Seq(Chars))
<1> DEFINE S == {i \in DOMAIN raw : ~(raw[i] = "CR" /\ i < Len(raw) /\ raw[i + 1] = "LF")}
           merged == At(raw, S)
           t == normalized(raw)
           all == Trimmed(t)
<1>1. IsFiniteSet(S) /\ S \in SUBSET Nat /\ \A i \in S : raw[i] \in Chars
  <2>1. IsFiniteSet(1..Len(raw)) /\ S \in SUBSET (1..Len(raw))
    BY UpTo
  <2> QED
    BY <2>1, FS_Subset
<1>2. merged \in Seq(Chars)
  <2> HIDE DEF S
  <2> QED
    BY <1>1, AtElements
<1>3. t \in Seq(Chars)
  <2>1. t = [i \in DOMAIN merged |-> IF merged[i] = "CR" THEN "LF" ELSE merged[i]]
    BY DEF normalized
  <2> HIDE DEF merged, t
  <2>2. DOMAIN merged = 1..Len(merged) /\ Len(merged) \in Nat /\ \A i \in 1..Len(merged) : merged[i] \in Chars
    BY <1>2
  <2>5. "LF" \in Chars
    BY DEF Chars
  <2>3. \A i \in 1..Len(merged) : (IF merged[i] = "CR" THEN "LF" ELSE merged[i]) \in Chars
    BY <2>2, <2>5, Zenon
  <2>4. t \in [1..Len(merged) -> Chars]
    BY <2>1, <2>2, <2>3
  <2> QED
    BY <2>2, <2>4
<1> HIDE DEF t
<1>4. PICK n \in Nat : DOMAIN lines(t) = 1..n /\ \A k \in 1..n : lines(t)[k] \in Seq(Chars)
  BY <1>3, LinesAreTexts
<1>5. DOMAIN all = 1..n /\ \A k \in 1..n : all[k] \in Seq(Chars)
  BY <1>4, TrimmedIsText DEF Trimmed
<1>6. NonEmpty(all) \in SUBSET (1..n)
  <2> HIDE DEF all
  <2> QED
    BY <1>5 DEF NonEmpty
<1>7. IsFiniteSet(NonEmpty(all)) /\ NonEmpty(all) \in SUBSET Nat
  <2>1. IsFiniteSet(1..n)
    BY UpTo
  <2> HIDE DEF all
  <2> QED
    BY <1>6, <2>1, FS_Subset
<1>8. At(all, NonEmpty(all)) \in Seq(Seq(Chars))
  <2> HIDE DEF all
  <2> QED
    BY <1>5, <1>6, <1>7, AtElements
<1> QED
  BY <1>8 DEF Hashes, t

-----------------------------------------------------------------------------
(* The inductive invariant                                                 *)

InOrder ==
    /\ hashes \in Seq(Seq(Chars))
    /\ results \in Seq(Range(results))
    /\ Len(results) <= Len(hashes)

\* A result answers its hash: it says the hash is none, or holds what the
\* limit leaves of the candidates, and their number.
Answers(result, hash) ==
    \/ ~IsHash(hash) /\ result = InvalidFormat(hash)
    \/ IsHash(hash) /\ \E kept \in Kept(hash) : result = Lookup(hash, kept)

AllAnswered == \A k \in 1..Len(results) : Answers(results[k], hashes[k])

Buckets == {"cracked", "partial", "not_found", "invalid"}

\* What the summary says in each step of the page.
Summarised ==
    /\ counted \in 0..Len(results)
    /\ summary = [hashes |-> summary.hashes, cracked |-> summary.cracked,
                  partial |-> summary.partial, not_found |-> summary.not_found,
                  invalid |-> summary.invalid]
    /\ \A b \in Buckets : summary[b] \in Nat
    /\ Counted(summary) = counted
    /\ \A b \in Buckets :
          summary[b] = Cardinality({k \in 1..counted : Bucket(results[k]) = b})

Control ==
    /\ page \in {"form", "parsed", "counting", "results", "blank", "refused", "failed"}
    /\ page = "form" => Len(hashes) = 0
    /\ Len(results) > 0 => Len(hashes) <= MaxHashes
    /\ page \in {"counting", "results"} =>
          Len(results) = Len(hashes) /\ summary.hashes = Len(results)
    /\ page \notin {"counting", "results"} => counted = 0 /\ summary.hashes = 0
    /\ page = "results" => counted = Len(results)

IInv == Loaded /\ InOrder /\ AllAnswered /\ Summarised /\ Control

\* It holds before the first submission, and every step keeps it.
LEMMA InitIInv == Init => IInv
<1> SUFFICES ASSUME Init PROVE IInv
  OBVIOUS
<1> USE DEF Init
<1>1. Loaded
  BY DEF Loaded
<1>2. InOrder
  BY EmptySeq DEF InOrder
<1>3. AllAnswered
  BY DEF AllAnswered
<1>4. Summarised
  <2>1. \A b \in Buckets : {k \in 1..0 : Bucket(results[k]) = b} = {}
    OBVIOUS
  <2> QED
    BY <2>1, FS_EmptySet DEF Summarised, NoSummary, Counted, Buckets
<1>5. Control
  BY ResultsAssumption DEF Control, NoSummary
<1> QED
  BY <1>1, <1>2, <1>3, <1>4, <1>5 DEF IInv

\* What answers a hash does so as long as the tables are the same.
LEMMA AnswersStay ==
    ASSUME tables' = tables, NEW r, NEW h
    PROVE  (Answers(r, h))' <=> Answers(r, h)
BY DEF Answers, Kept, Candidates, Consulted, Lookup

\* A step that leaves the results and the summary as they are.
LEMMA StillSummarised ==
    ASSUME Summarised, UNCHANGED <<results, summary, counted>>
    PROVE  Summarised'
BY DEF Summarised, Counted, Bucket, HasFull, is_full_match

LEMMA StillAnswered ==
    ASSUME AllAnswered, UNCHANGED <<tables, hashes, results>>
    PROVE  AllAnswered'
BY AnswersStay DEF AllAnswered

LEMMA SubmitStep == IInv /\ Submit => IInv'
<1> SUFFICES ASSUME IInv, Submit PROVE IInv'
  OBVIOUS
<1> USE DEF IInv, Submit
<1>1. Loaded'
  BY DEF Loaded
<1>2. text' \in Seq(Chars)
  BY ResultsAssumption, StringsAreChars
<1>3. hashes' \in Seq(Seq(Chars))
  BY <1>2, HashesAreTexts
<1>4. Len(results) = 0
  BY DEF InOrder, Control
<1>5. InOrder'
  BY <1>3, <1>4 DEF InOrder
<1>6. AllAnswered'
  BY <1>4 DEF AllAnswered
<1>7. Summarised'
  BY StillSummarised
<1>8. Control'
  BY <1>4 DEF Control
<1> QED
  BY <1>1, <1>5, <1>6, <1>7, <1>8

\* The steps that only turn the page.
LEMMA PageStep ==
    IInv /\ (RefuseMany \/ ShowForm \/ LookupFails \/ ShowTable) => IInv'
<1> SUFFICES ASSUME IInv, RefuseMany \/ ShowForm \/ LookupFails \/ ShowTable PROVE IInv'
  OBVIOUS
<1> USE DEF IInv
<1>0. UNCHANGED <<tables, hashes, results, summary, counted>>
  BY DEF RefuseMany, ShowForm, LookupFails, ShowTable
<1>1. Loaded' /\ InOrder'
  BY <1>0 DEF Loaded, InOrder
<1>2. AllAnswered'
  BY <1>0, StillAnswered
<1>3. Summarised'
  BY <1>0, StillSummarised
<1>4. Control'
  BY <1>0 DEF Control, RefuseMany, ShowForm, LookupFails, ShowTable
<1> QED
  BY <1>1, <1>2, <1>3, <1>4

LEMMA CrackStep == IInv /\ Crack => IInv'
<1> SUFFICES ASSUME IInv, Crack PROVE IInv'
  OBVIOUS
<1> USE DEF IInv
<1> DEFINE n == Len(results) + 1
<1>1. PICK r : /\ results' = Append(results, r)
               /\ Answers(r, hashes[n])
  BY DEF Crack, Answers
<1>2. UNCHANGED <<tables, page, hashes, summary, counted>>
  BY DEF Crack
<1>3. /\ results' \in Seq(Range(results')) /\ Len(results') = n /\ results'[n] = r
      /\ \A k \in 1..Len(results) : results'[k] = results[k]
  BY <1>1, AppendAny DEF InOrder
<1>4. Len(results) \in Nat /\ Len(hashes) \in Nat /\ n <= Len(hashes) /\ Len(hashes) <= MaxHashes
  BY ResultsAssumption DEF Crack, InOrder, TooMany
<1>5. counted = 0 /\ page = "parsed"
  BY DEF Crack, Control
<1>6. Loaded' /\ InOrder'
  BY <1>2, <1>3, <1>4 DEF Loaded, InOrder
<1>7. AllAnswered'
  <2> SUFFICES ASSUME NEW k \in 1..n PROVE (Answers(results[k], hashes[k]))'
    BY <1>3 DEF AllAnswered
  <2>1. Answers(results'[k], hashes[k])
    BY <1>1, <1>3, <1>4 DEF AllAnswered
  <2> QED
    BY <1>2, <2>1, AnswersStay
<1>8. Summarised'
  <2>1. {k \in 1..0 : TRUE} = {} /\ 1..0 = {}
    OBVIOUS
  <2>2. \A b \in Buckets : {k \in 1..0 : Bucket(results[k]) = b} = {k \in 1..0 : Bucket(results'[k]) = b}
    BY <2>1
  <2>3. \A b \in Buckets : summary[b] = Cardinality({k \in 1..counted : Bucket(results'[k]) = b})
    BY <1>5, <2>2 DEF Summarised
  <2>4. counted \in 0..n
    BY <1>4, <1>5
  <2>5. \A b \in Buckets : (summary[b] = Cardinality({k \in 1..counted : Bucket(results[k]) = b}))'
    BY <1>2, <2>3 DEF Bucket, HasFull, is_full_match
  <2> QED
    BY <1>2, <1>3, <2>4, <2>5 DEF Summarised, Counted
<1>9. Control'
  BY <1>2, <1>3, <1>4, <1>5 DEF Control
<1> QED
  BY <1>6, <1>7, <1>8, <1>9

LEMMA StartTableStep == IInv /\ StartTable => IInv'
<1> SUFFICES ASSUME IInv, StartTable PROVE IInv'
  OBVIOUS
<1> USE DEF IInv
<1>1. UNCHANGED <<tables, hashes, results, counted>>
  BY DEF StartTable
<1>2. Loaded' /\ InOrder'
  BY <1>1 DEF Loaded, InOrder
<1>3. AllAnswered'
  BY <1>1, StillAnswered
<1>4. counted = 0 /\ Len(results) \in Nat
  BY DEF Control, StartTable, InOrder
<1>5. summary' = [hashes |-> Len(results), cracked |-> 0, partial |-> 0, not_found |-> 0, invalid |-> 0]
  BY DEF StartTable, NoSummary
<1>6. Summarised'
  <2>1. \A b \in Buckets : {k \in 1..0 : Bucket(results[k]) = b} = {}
    OBVIOUS
  <2>2. \A b \in Buckets : summary'[b] = 0
    BY <1>5 DEF Buckets
  <2>3. \A b \in Buckets : summary'[b] = Cardinality({k \in 1..0 : Bucket(results[k]) = b})
    BY <2>1, <2>2, FS_EmptySet
  <2>4. \A b \in Buckets : (summary[b] = Cardinality({k \in 1..counted : Bucket(results[k]) = b}))'
    BY <1>1, <1>4, <2>3 DEF Bucket, HasFull, is_full_match
  <2> QED
    BY <1>1, <1>4, <1>5, <2>2, <2>4 DEF Summarised, Counted
<1>7. Control'
  BY <1>1, <1>4, <1>5 DEF Control, StartTable
<1> QED
  BY <1>2, <1>3, <1>6, <1>7

LEMMA ReturnStep == IInv /\ Return => IInv'
<1> SUFFICES ASSUME IInv, Return PROVE IInv'
  OBVIOUS
<1>0. /\ page' = "form" /\ hashes' = <<>> /\ results' = <<>>
      /\ summary' = NoSummary /\ counted' = 0 /\ tables' = tables
  BY DEF Return
<1>1. Loaded'
  BY <1>0 DEF Loaded, IInv
<1>2. Len(results') = 0 /\ Len(hashes') = 0
  BY <1>0
<1>3. InOrder'
  BY <1>0, <1>2, EmptySeq DEF InOrder
<1>4. AllAnswered'
  BY <1>2 DEF AllAnswered
<1>5. Summarised'
  <2>1. \A b \in Buckets : {k \in 1..0 : Bucket(results[k])' = b} = {}
    OBVIOUS
  <2>2. \A b \in Buckets : summary'[b] = 0
    BY <1>0 DEF Buckets, NoSummary
  <2>3. \A b \in Buckets : summary'[b] = Cardinality({k \in 1..0 : Bucket(results[k])' = b})
    BY <2>1, <2>2, FS_EmptySet
  <2> QED
    BY <1>0, <1>2, <2>2, <2>3 DEF Summarised, NoSummary, Counted
<1>6. Control'
  BY <1>0, <1>2 DEF Control, NoSummary
<1> QED
  BY <1>1, <1>3, <1>4, <1>5, <1>6 DEF IInv

\* ResultSummary::of: one more result lands in exactly one bucket.
LEMMA CountStep == IInv /\ Count => IInv'
<1> SUFFICES ASSUME IInv, Count PROVE IInv'
  OBVIOUS
<1> DEFINE n == counted + 1
           b0 == Bucket(results[n])
           In(m, b) == {k \in 1..m : Bucket(results[k]) = b}
<1>1. /\ UNCHANGED <<tables, page, hashes, results>>
      /\ counted' = n /\ n \in 1..Len(results) /\ counted \in Nat /\ Len(results) \in Nat
      /\ page = "counting"
  BY DEF Count, IInv, Summarised, InOrder
<1>2. summary' = [summary EXCEPT ![b0] = @ + 1]
  BY <1>1 DEF Count
<1>3. Loaded' /\ InOrder'
  BY <1>1 DEF Loaded, InOrder, IInv
<1>4. AllAnswered'
  BY <1>1, StillAnswered DEF IInv
<1>5. b0 \in Buckets
  BY DEF Bucket, Buckets
<1>6. Summarised
  BY DEF IInv
<1> HIDE DEF b0, n
<1>7. /\ \A b \in Buckets : summary'[b] = IF b = b0 THEN summary[b] + 1 ELSE summary[b]
      /\ summary' = [hashes |-> summary'.hashes, cracked |-> summary'.cracked,
                     partial |-> summary'.partial, not_found |-> summary'.not_found,
                     invalid |-> summary'.invalid]
      /\ summary'.hashes = summary.hashes
  BY <1>2, <1>5, <1>6 DEF Buckets, Summarised
<1>8. \A b \in Buckets : summary'[b] \in Nat
  BY <1>6, <1>7 DEF Summarised
<1>9. Counted(summary') = n
  BY <1>1, <1>5, <1>6, <1>7 DEF Counted, Buckets, Summarised, n
<1>10. ASSUME NEW b \in Buckets PROVE summary'[b] = Cardinality(In(n, b))
  <2>1. IsFiniteSet(In(counted, b)) /\ n \notin In(counted, b)
    <3>1. IsFiniteSet(1..counted)
      BY <1>1, UpTo
    <3> QED
      BY <1>1, <3>1, FS_Subset DEF n
  <2>2. In(n, b) = IF b = b0 THEN In(counted, b) \cup {n} ELSE In(counted, b)
    BY <1>1 DEF n, b0
  <2>3. summary[b] = Cardinality(In(counted, b))
    BY <1>6 DEF Summarised
  <2> HIDE DEF In
  <2> QED
    BY <1>7, <2>1, <2>2, <2>3, FS_AddElement
<1>11. Summarised'
  <2>1. \A b \in Buckets : (summary[b] = Cardinality({k \in 1..counted : Bucket(results[k]) = b}))'
    BY <1>1, <1>10 DEF Bucket, HasFull, is_full_match
  <2>2. (counted \in 0..Len(results))'
    BY <1>1
  <2>3. (Counted(summary) = counted)'
    BY <1>1, <1>9 DEF Counted
  <2> QED
    BY <1>1, <1>7, <1>8, <2>1, <2>2, <2>3 DEF Summarised
<1>12. Control'
  BY <1>1, <1>7 DEF Control, IInv
<1> QED
  BY <1>3, <1>4, <1>11, <1>12 DEF IInv

\* The inductive invariant holds in every reachable state.
THEOREM Invariance == Spec => []IInv
<1>1. ASSUME IInv, [Next]_vars PROVE IInv'
  <2>1. CASE UNCHANGED vars
    <3>1. Loaded' /\ InOrder' /\ Control'
      BY <1>1, <2>1 DEF IInv, vars, Loaded, InOrder, Control
    <3>2. AllAnswered'
      BY <1>1, <2>1, StillAnswered DEF IInv, vars
    <3>3. Summarised'
      BY <1>1, <2>1, StillSummarised DEF IInv, vars
    <3> QED
      BY <3>1, <3>2, <3>3 DEF IInv
  <2>2. CASE Next
    BY <1>1, <2>2, SubmitStep, PageStep, CrackStep, StartTableStep, CountStep, ReturnStep DEF Next
  <2> QED
    BY <1>1, <2>1, <2>2
<1> QED
  BY <1>1, InitIInv, PTL DEF Spec

-----------------------------------------------------------------------------
(* The properties                                                          *)

\* What a result says of the hash it answers.
LEMMA AnswerFacts ==
    ASSUME Loaded, NEW result, NEW hash, Answers(result, hash)
    PROVE  LET n == Len(result.matches)
               all == Cardinality(Candidates(hash)) IN
           /\ result.hash = hash
           /\ n \in 0..MaxMatches /\ result.total_matches \in Nat /\ n <= result.total_matches
           /\ DOMAIN result.matches = 1..n
           /\ result.format_error <=> ~IsHash(hash)
           /\ result.format_error => result.matches = <<>>
           /\ IsHash(hash) =>
                /\ result.total_matches = all
                /\ all \in Nat
                /\ n = IF all <= MaxMatches THEN all ELSE MaxMatches
<1>1. CASE ~IsHash(hash)
  BY <1>1, ResultsAssumption DEF Answers, InvalidFormat
<1>2. CASE IsHash(hash)
  <2>1. PICK kept \in Kept(hash) : result = Lookup(hash, kept)
    BY <1>2 DEF Answers
  <2> DEFINE all == Cardinality(Candidates(hash))
  <2>2. all \in Nat /\ MaxMatches \in Nat
    BY CandidatesAreFinite, ResultsAssumption
  <2>3. /\ Len(kept) \in Nat /\ DOMAIN kept = 1..Len(kept)
        /\ Len(kept) = IF all <= MaxMatches THEN all ELSE MaxMatches
    BY KeptFacts
  <2>4. result.matches = [i \in 1..Len(kept) |-> CrackMatch(hash, kept[i])]
    BY <2>1, <2>3 DEF Lookup
  <2>5. Len(result.matches) = Len(kept)
    BY <2>3, <2>4
  <2>6. result.hash = hash /\ result.total_matches = all /\ result.format_error = FALSE
    BY <2>1 DEF Lookup
  <2> HIDE DEF all
  <2> QED
    BY <1>2, <2>2, <2>3, <2>4, <2>5, <2>6 DEF all
<1> QED
  BY <1>1, <1>2

\* One submission never yields more than MaxHashes results of MaxMatches
\* matches, nor a count beyond the number of hashes.
THEOREM TypesCorrect == Spec => []TypeOK
<1>1. IInv => TypeOK
  <2> SUFFICES ASSUME IInv PROVE TypeOK
    OBVIOUS
  <2>0. InOrder /\ AllAnswered /\ Summarised /\ Control /\ Loaded
    BY DEF IInv
  <2>1. /\ Len(results) \in Nat /\ Len(hashes) \in Nat /\ DOMAIN results = 1..Len(results)
        /\ Len(results) <= Len(hashes) /\ MaxHashes \in Nat
    BY <2>0, LenProperties, ResultsAssumption DEF InOrder
  <2>6. Len(results) <= MaxHashes
    <3>1. CASE Len(results) = 0
      BY <2>1, <3>1
    <3>2. Len(results) > 0 => Len(hashes) <= MaxHashes
      BY <2>0, Zenon DEF Control
    <3> QED
      BY <2>1, <3>1, <3>2
  <2>2. \A k \in DOMAIN results :
           Len(results[k].matches) <= MaxMatches /\ results[k].total_matches \in Nat
    BY <2>0, <2>1, AnswerFacts DEF AllAnswered
  <2>3. summary.hashes \in 0..MaxHashes
    <3>1. summary.hashes = Len(results) \/ summary.hashes = 0
      BY <2>0, Zenon DEF Control
    <3> QED
      BY <2>1, <2>6, <3>1
  <2>4. \A b \in Buckets : summary[b] \in 0..MaxHashes
    BY <2>0, <2>1, <2>6 DEF Summarised, Counted, Buckets
  <2>5. summary \in [{"hashes", "cracked", "partial", "not_found", "invalid"} -> 0..MaxHashes]
    BY <2>0, <2>3, <2>4 DEF Summarised, Buckets
  <2> QED
    BY <2>0, <2>1, <2>2, <2>5, <2>6 DEF TypeOK, Control, Summarised
<1> QED
  BY <1>1, Invariance, PTL

\* The rows of a hash with matches: one for each, and one more if any are
\* hidden.
LEMMA RowsOfMatches ==
    ASSUME Loaded, NEW result, NEW hash, Answers(result, hash), result.matches # <<>>
    PROVE  LET n == Len(result.matches)
               hidden == hidden_matches(result) IN
           /\ hidden \in Nat /\ n + hidden = result.total_matches /\ n \in Nat \ {0}
           /\ DOMAIN Rows(result) = 1..Len(Rows(result))
           /\ Len(Rows(result)) = IF hidden > 0 THEN n + 1 ELSE n
           /\ \A i \in 1..n : Rows(result)[i] = MatchRow(result, result.matches[i])
           /\ hidden > 0 => Rows(result)[n + 1] = Row("more", result.hash, 0, <<>>, hidden)
<1> DEFINE n == Len(result.matches)
           hidden == hidden_matches(result)
           f == [i \in DOMAIN result.matches |-> MatchRow(result, result.matches[i])]
           more == Row("more", result.hash, 0, <<>>, hidden)
           S == Range(f) \cup {more}
<1>1. /\ n \in Nat /\ DOMAIN result.matches = 1..n /\ ~result.format_error
      /\ result.total_matches \in Nat /\ n <= result.total_matches
  BY AnswerFacts, ResultsAssumption
<1>2. n # 0
  <2>1. CASE ~IsHash(hash)
    BY <2>1 DEF Answers, InvalidFormat
  <2>2. CASE IsHash(hash)
    <3>1. PICK kept \in Kept(hash) : result = Lookup(hash, kept)
      BY <2>2 DEF Answers
    <3>2. kept \in Seq(Candidates(hash))
      BY KeptFacts
    <3>3. result.matches = [i \in 1..Len(kept) |-> CrackMatch(hash, kept[i])] /\ Len(kept) \in Nat
      BY <3>1, <3>2 DEF Lookup
    <3> QED
      BY <3>3
  <2> QED
    BY <2>1, <2>2
<1>3. hidden \in Nat /\ n + hidden = result.total_matches
  BY <1>1 DEF hidden_matches
<1>4. f \in Seq(Range(f)) /\ Len(f) = n
  <2>1. f = [i \in 1..n |-> f[i]]
    BY <1>1
  <2> HIDE DEF f, n
  <2> QED
    BY <1>1, <2>1, FunctionIsSequence
<1>5. f \in Seq(S) /\ <<more>> \in Seq(S) /\ <<>> \in Seq(S)
  <2> HIDE DEF f, more
  <2> QED
    BY <1>4, SeqMonotonic
<1>6. Rows(result) = f \o MoreRows(result)
  BY <1>1 DEF Rows
<1>7. MoreRows(result) = IF hidden > 0 THEN <<more>> ELSE <<>>
  BY DEF MoreRows
<1>8. \A i \in 1..n : f[i] = MatchRow(result, result.matches[i])
  BY <1>1
<1> HIDE DEF f, more, hidden, n, S
<1>9. CASE hidden > 0
  <2>1. /\ f \o <<more>> \in Seq(S) /\ Len(f \o <<more>>) = n + 1
        /\ (f \o <<more>>)[n + 1] = more
        /\ \A i \in 1..n : (f \o <<more>>)[i] = f[i]
    BY <1>1, <1>4, <1>5, ConcatProperties
  <2>2. DOMAIN (f \o <<more>>) = 1..(n + 1)
    BY <2>1, LenProperties
  <2> QED
    BY <1>1, <1>2, <1>3, <1>6, <1>7, <1>8, <1>9, <2>1, <2>2 DEF n, hidden, more
<1>10. CASE ~(hidden > 0)
  <2>1. f \o <<>> = f /\ DOMAIN f = 1..n
    BY <1>4, ConcatEmptySeq, LenProperties
  <2> QED
    BY <1>1, <1>2, <1>3, <1>4, <1>6, <1>7, <1>8, <1>10, <2>1 DEF n, hidden
<1> QED
  BY <1>9, <1>10

\* What the row of a match says.
LEMMA MatchRowFacts ==
    ASSUME NEW result, NEW match
    PROVE  /\ MatchRow(result, match).class = IF is_full_match(match) THEN "suc" ELSE "part"
           /\ MatchRow(result, match).cell = plaintext_html(match.plaintext)
           /\ MatchRow(result, match).hidden = 0
BY DEF MatchRow, Row

\* The single row of a hash without matches.
LEMMA OneRow ==
    ASSUME NEW hash, NEW words, NEW rows, rows = <<Row("fail", hash, 0, <<words>>, 0)>>
    PROVE  /\ DOMAIN rows = {1} /\ Len(rows) = 1
           /\ rows[1].class = "fail" /\ rows[1].cell = <<words>> /\ rows[1].hidden = 0
BY DEF Row

\* No cell of the table holds markup of a word.
THEOREM CellsInert == Spec => []CellsAreInert
<1>1. ASSUME IInv, NEW k \in DOMAIN results
      PROVE  \A i \in DOMAIN Rows(results[k]) : \A j \in DOMAIN Rows(results[k])[i].cell :
                Rows(results[k])[i].cell[j] \notin Markup
  <2> DEFINE r == results[k]
             Inert(row) == \A j \in DOMAIN row.cell : row.cell[j] \notin Markup
  <2>1. Loaded /\ Answers(r, hashes[k])
    BY <1>1, LenProperties DEF IInv, InOrder, AllAnswered
  <2> HIDE DEF r
  <2>2. CASE r.format_error
    <3>1. Rows(r) = <<Row("fail", r.hash, 0, <<"Unrecognized">>, 0)>>
      BY <2>2 DEF Rows
    <3>2. DOMAIN Rows(r) = {1} /\ Rows(r)[1].cell = <<"Unrecognized">>
      BY <3>1, OneRow
    <3>3. "Unrecognized" \notin Markup
      BY Zenon DEF Markup
    <3> QED
      BY <3>2, <3>3 DEF r
  <2>3. CASE ~r.format_error /\ r.matches = <<>>
    <3>1. Rows(r) = <<Row("fail", r.hash, 0, <<"NotFound">>, 0)>>
      BY <2>3 DEF Rows
    <3>2. DOMAIN Rows(r) = {1} /\ Rows(r)[1].cell = <<"NotFound">>
      BY <3>1, OneRow
    <3>3. "NotFound" \notin Markup
      BY Zenon DEF Markup
    <3> QED
      BY <3>2, <3>3 DEF r
  <2>4. CASE r.matches # <<>>
    <3>1. ASSUME NEW i \in DOMAIN Rows(r) PROVE Inert(Rows(r)[i])
      <4> DEFINE n == Len(r.matches)
      <4>1. \/ i \in 1..n /\ Rows(r)[i] = MatchRow(r, r.matches[i])
            \/ Rows(r)[i].cell = <<>>
        <5> DEFINE hidden == hidden_matches(r)
        <5>1. /\ hidden \in Nat /\ n \in Nat
              /\ i \in 1..(IF hidden > 0 THEN n + 1 ELSE n)
              /\ \A m \in 1..n : Rows(r)[m] = MatchRow(r, r.matches[m])
              /\ hidden > 0 => Rows(r)[n + 1] = Row("more", r.hash, 0, <<>>, hidden)
          BY <2>1, <2>4, RowsOfMatches
        <5> HIDE DEF hidden, n
        <5>2. CASE i \in 1..n
          BY <5>1, <5>2
        <5>3. CASE i = n + 1 /\ hidden > 0
          BY <5>1, <5>3 DEF Row
        <5> QED
          BY <5>1, <5>2, <5>3
      <4>2. CASE Rows(r)[i].cell = <<>>
        BY <4>2
      <4>3. CASE Rows(r)[i] = MatchRow(r, r.matches[i])
        <5>1. Rows(r)[i].cell = plaintext_html(r.matches[i].plaintext)
          BY <4>3, MatchRowFacts
        <5> QED
          BY <5>1, CellIsInert
      <4> QED
        BY <4>1, <4>2, <4>3
    <3> QED
      BY <3>1 DEF r
  <2> QED
    BY <2>2, <2>3, <2>4
<1>2. IInv => CellsAreInert
  BY <1>1 DEF CellsAreInert
<1> QED
  BY <1>2, Invariance, PTL

\* A result has a row of a colour; its only row says so.
HasRow(result, class) == \E i \in DOMAIN Rows(result) : Rows(result)[i].class = class
OnlySays(result, words) == Rows(result)[1].class = "fail" /\ Rows(result)[1].cell = <<words>>

\* The bucket of a result is the kind of its rows.
LEMMA BucketIsRows ==
    ASSUME Loaded, NEW result, NEW hash, Answers(result, hash)
    PROVE  /\ HasRow(result, "suc") <=> Bucket(result) = "cracked"
           /\ HasRow(result, "part") /\ ~HasRow(result, "suc") <=> Bucket(result) = "partial"
           /\ OnlySays(result, "NotFound") <=> Bucket(result) = "not_found"
           /\ OnlySays(result, "Unrecognized") <=> Bucket(result) = "invalid"
<1>1. CASE result.format_error
  <2>1. Rows(result) = <<Row("fail", result.hash, 0, <<"Unrecognized">>, 0)>>
    BY <1>1 DEF Rows
  <2>2. DOMAIN Rows(result) = {1} /\ Rows(result)[1].class = "fail" /\ Rows(result)[1].cell = <<"Unrecognized">>
    BY <2>1, OneRow
  <2>3. Bucket(result) = "invalid"
    BY <1>1 DEF Bucket
  <2>4. <<"Unrecognized">> # <<"NotFound">>
    <3>1. <<"Unrecognized">>[1] # <<"NotFound">>[1]
      OBVIOUS
    <3> QED
      BY <3>1
  <2> QED
    BY <2>2, <2>3, <2>4 DEF HasRow, OnlySays
<1>2. CASE ~result.format_error /\ result.matches = <<>>
  <2>1. Rows(result) = <<Row("fail", result.hash, 0, <<"NotFound">>, 0)>>
    BY <1>2 DEF Rows
  <2>2. DOMAIN Rows(result) = {1} /\ Rows(result)[1].class = "fail" /\ Rows(result)[1].cell = <<"NotFound">>
    BY <2>1, OneRow
  <2>3. Bucket(result) = "not_found"
    BY <1>2 DEF Bucket
  <2>4. <<"Unrecognized">> # <<"NotFound">>
    <3>1. <<"Unrecognized">>[1] # <<"NotFound">>[1]
      OBVIOUS
    <3> QED
      BY <3>1
  <2> QED
    BY <2>2, <2>3, <2>4 DEF HasRow, OnlySays
<1>3. CASE ~result.format_error /\ result.matches # <<>>
  <2> DEFINE n == Len(result.matches)
             hidden == hidden_matches(result)
             full(i) == is_full_match(result.matches[i])
  <2>1. /\ hidden \in Nat /\ n \in Nat \ {0}
        /\ DOMAIN Rows(result) = 1..(IF hidden > 0 THEN n + 1 ELSE n)
        /\ \A i \in 1..n : Rows(result)[i] = MatchRow(result, result.matches[i])
        /\ hidden > 0 => Rows(result)[n + 1] = Row("more", result.hash, 0, <<>>, hidden)
    BY <1>3, RowsOfMatches
  <2>2. DOMAIN result.matches = 1..n
    BY AnswerFacts
  <2>3. \A i \in 1..n : Rows(result)[i].class = IF full(i) THEN "suc" ELSE "part"
    BY <2>1, MatchRowFacts
  <2>4. hidden > 0 => Rows(result)[n + 1].class = "more"
    BY <2>1 DEF Row
  <2>5. HasFull(result) <=> \E i \in 1..n : full(i)
    BY <2>2 DEF HasFull
  <2>6. Bucket(result) = IF HasFull(result) THEN "cracked" ELSE "partial"
    BY <1>3 DEF Bucket
  <2> HIDE DEF n, hidden, full
  <2>7. 1 \in 1..n /\ 1..n \subseteq DOMAIN Rows(result)
        /\ \A i \in DOMAIN Rows(result) : i \in 1..n \/ (hidden > 0 /\ i = n + 1)
    BY <2>1
  <2>8. HasRow(result, "suc") <=> HasFull(result)
    BY <2>3, <2>4, <2>5, <2>7 DEF HasRow
  <2>9. ~HasFull(result) => HasRow(result, "part")
    BY <2>3, <2>5, <2>7 DEF HasRow
  <2>10. Rows(result)[1].class # "fail"
    BY <2>3, <2>7
  <2> QED
    BY <2>6, <2>8, <2>9, <2>10 DEF OnlySays
<1> QED
  BY <1>1, <1>2, <1>3

\* The line above the table agrees with the rows, and accounts for every hash.
THEOREM SummaryIsRight == Spec => []SummaryAgreesWithTable
<1>1. ASSUME IInv, page = "results" PROVE SummaryAgreesWithTable
  <2> DEFINE all == DOMAIN results
  <2>1. Loaded /\ InOrder /\ AllAnswered /\ Summarised /\ Control
    BY <1>1 DEF IInv
  <2>2. all = 1..Len(results) /\ Len(results) \in Nat
    BY <2>1, LenProperties DEF InOrder
  <2>3. counted = Len(results) /\ summary.hashes = Len(results)
    BY <1>1, <2>1 DEF Control
  <2>4. \A k \in all :
           /\ HasRow(results[k], "suc") <=> Bucket(results[k]) = "cracked"
           /\ HasRow(results[k], "part") /\ ~HasRow(results[k], "suc") <=> Bucket(results[k]) = "partial"
           /\ OnlySays(results[k], "NotFound") <=> Bucket(results[k]) = "not_found"
           /\ OnlySays(results[k], "Unrecognized") <=> Bucket(results[k]) = "invalid"
    BY <2>1, <2>2, BucketIsRows DEF AllAnswered
  <2>5. \A b \in Buckets : summary[b] = Cardinality({k \in all : Bucket(results[k]) = b})
    BY <2>1, <2>2, <2>3 DEF Summarised
  <2>6. summary.hashes = Cardinality(all)
    <3>1. Cardinality(1..Len(results)) = Len(results)
      BY <2>2, UpTo
    <3> QED
      BY <2>2, <2>3, <3>1
  <2>7. summary.cracked = Cardinality({k \in all : HasRow(results[k], "suc")})
    <3>1. {k \in all : HasRow(results[k], "suc")} = {k \in all : Bucket(results[k]) = "cracked"}
      BY <2>4
    <3> QED
      BY <2>5, <3>1 DEF Buckets
  <2>8. summary.partial = Cardinality({k \in all : HasRow(results[k], "part") /\ ~HasRow(results[k], "suc")})
    <3>1. {k \in all : HasRow(results[k], "part") /\ ~HasRow(results[k], "suc")}
             = {k \in all : Bucket(results[k]) = "partial"}
      BY <2>4
    <3> QED
      BY <2>5, <3>1 DEF Buckets
  <2>9. summary.not_found = Cardinality({k \in all : OnlySays(results[k], "NotFound")})
    <3>1. {k \in all : OnlySays(results[k], "NotFound")} = {k \in all : Bucket(results[k]) = "not_found"}
      BY <2>4
    <3> QED
      BY <2>5, <3>1 DEF Buckets
  <2>10. summary.invalid = Cardinality({k \in all : OnlySays(results[k], "Unrecognized")})
    <3>1. {k \in all : OnlySays(results[k], "Unrecognized")} = {k \in all : Bucket(results[k]) = "invalid"}
      BY <2>4
    <3> QED
      BY <2>5, <3>1 DEF Buckets
  <2>11. is_exhaustive(summary)
    BY <2>1, <2>3 DEF Summarised, is_exhaustive
  <2> HIDE DEF all
  <2> QED
    BY <2>6, <2>7, <2>8, <2>9, <2>10, <2>11, Zenon
    DEF SummaryAgreesWithTable, HasRow, OnlySays, all
<1>2. IInv => SummaryAgreesWithTable
  <2>1. CASE page = "results"
    BY <1>1, <2>1
  <2>2. CASE page # "results"
    BY <2>2 DEF SummaryAgreesWithTable
  <2> QED
    BY <2>1, <2>2
<1> QED
  BY <1>2, Invariance, PTL

\* A hash that stands in a table is found: a match with a word of that digest
\* is among those kept.
LEMMA ExactIsKept ==
    ASSUME Loaded, NEW result, NEW hash, Answers(result, hash), IsHash(hash),
           NEW t \in DOMAIN tables, HasExact(hash, tables[t])
    PROVE  \E i \in DOMAIN result.matches : \E s \in DOMAIN tables : \E e \in tables[s] :
              /\ e.digest = Lower(hash)
              /\ result.matches[i].near_miss = {}
              /\ result.matches[i].plaintext = display_plaintext(e.word)
<1>1. PICK kept \in Kept(hash) : result = Lookup(hash, kept)
  BY DEF Answers
<1>2. \E c \in Candidates(hash) : IsExact(hash, c)
  BY ExactIsCandidate
<1>3. PICK i \in DOMAIN kept : kept[i] \in Candidates(hash) /\ IsExact(hash, kept[i])
  BY <1>2 DEF Kept
<1>8. PICK s \in Consulted(hash) :
          kept[i] \in {[table |-> s, entry |-> e] : e \in Block(hash, tables[s])}
  BY <1>3 DEF Candidates
<1>4. PICK e \in Block(hash, tables[s]) : kept[i] = [table |-> s, entry |-> e]
  BY <1>8
<1>5. s \in DOMAIN tables /\ e \in tables[s] /\ e.digest = Lower(hash)
  BY <1>3, <1>4 DEF Consulted, Block, IsExact
<1>6. i \in DOMAIN result.matches /\ result.matches[i] = CrackMatch(hash, kept[i])
  BY <1>1 DEF Lookup
<1>7. result.matches[i].near_miss = {} /\ result.matches[i].plaintext = display_plaintext(e.word)
  BY <1>3, <1>4, <1>6 DEF CrackMatch
<1> QED
  BY <1>5, <1>6, <1>7

\* What a table owes to one hash.
Told(result, hash) ==
    LET rows == Rows(result)
        hits == {i \in DOMAIN rows : rows[i].class \in {"suc", "part"}}
        last == rows[Len(rows)]
    IN  /\ Cardinality(hits) + last.hidden = Cardinality(Candidates(hash))
        /\ \A t \in DOMAIN tables :
              HasExact(hash, tables[t]) =>
                  \E i \in hits : \E s \in DOMAIN tables : \E e \in tables[s] :
                      /\ rows[i].class = "suc"
                      /\ e.digest = Lower(hash)
                      /\ rows[i].cell = plaintext_html(display_plaintext(e.word))

LEMMA NothingHidden ==
    ASSUME Loaded, NEW result, NEW hash, Answers(result, hash), IsHash(hash)
    PROVE  Told(result, hash)
<1> DEFINE rows == Rows(result)
           hits == {i \in DOMAIN rows : rows[i].class \in {"suc", "part"}}
           n == Len(result.matches)
           all == Cardinality(Candidates(hash))
           hidden == hidden_matches(result)
<1>1. /\ ~result.format_error /\ result.total_matches = all /\ all \in Nat
      /\ n = IF all <= MaxMatches THEN all ELSE MaxMatches
      /\ MaxMatches \in Nat \ {0} /\ DOMAIN result.matches = 1..n
  BY AnswerFacts, ResultsAssumption
<1>2. CASE result.matches = <<>>
  <2>1. rows = <<Row("fail", result.hash, 0, <<"NotFound">>, 0)>>
    BY <1>1, <1>2 DEF Rows
  <2>2. DOMAIN rows = {1} /\ Len(rows) = 1 /\ rows[1].class = "fail" /\ rows[1].hidden = 0
    BY <2>1, OneRow
  <2>3. hits = {} /\ rows[Len(rows)].hidden = 0
    BY <2>2
  <2>4. all = 0
    BY <1>1, <1>2
  <2>5. \A t \in DOMAIN tables : ~HasExact(hash, tables[t])
    BY <1>2, ExactIsKept
  <2> QED
    BY <2>3, <2>4, <2>5, FS_EmptySet DEF Told
<1>3. CASE result.matches # <<>>
  <2>1. /\ hidden \in Nat /\ n + hidden = all /\ n \in Nat \ {0}
        /\ DOMAIN rows = 1..Len(rows)
        /\ Len(rows) = IF hidden > 0 THEN n + 1 ELSE n
        /\ \A i \in 1..n : rows[i] = MatchRow(result, result.matches[i])
        /\ hidden > 0 => rows[n + 1] = Row("more", result.hash, 0, <<>>, hidden)
    BY <1>1, <1>3, RowsOfMatches
  <2>2. \A i \in 1..n :
           /\ rows[i].class = IF is_full_match(result.matches[i]) THEN "suc" ELSE "part"
           /\ rows[i].cell = plaintext_html(result.matches[i].plaintext)
           /\ rows[i].hidden = 0
    BY <2>1, MatchRowFacts
  <2>3. hidden > 0 => rows[n + 1].class = "more" /\ rows[n + 1].hidden = hidden
    BY <2>1 DEF Row
  <2> HIDE DEF rows, n, hidden, all
  <2>4. hits = 1..n
    <3>1. \A i \in 1..n : i \in hits
      BY <2>1, <2>2
    <3>2. \A i \in hits : i \in 1..n
      BY <2>1, <2>3
    <3> QED
      BY <3>1, <3>2
  <2>5. Cardinality(hits) = n
    <3>1. n \in Nat
      BY <2>1
    <3>2. Cardinality(1..n) = n
      BY ONLY <3>1, UpTo
    <3> HIDE DEF hits
    <3> QED
      BY <2>4, <3>2
  <2>6. rows[Len(rows)].hidden = hidden
    BY <2>1, <2>2, <2>3
  <2>7. ASSUME NEW t \in DOMAIN tables, HasExact(hash, tables[t])
        PROVE  \E i \in hits : \E s \in DOMAIN tables : \E e \in tables[s] :
                   /\ rows[i].class = "suc"
                   /\ e.digest = Lower(hash)
                   /\ rows[i].cell = plaintext_html(display_plaintext(e.word))
    <3>1. PICK i \in DOMAIN result.matches : \E s \in DOMAIN tables : \E e \in tables[s] :
              /\ e.digest = Lower(hash)
              /\ result.matches[i].near_miss = {}
              /\ result.matches[i].plaintext = display_plaintext(e.word)
      BY <2>7, ExactIsKept
    <3>2. i \in hits /\ i \in 1..n
      BY <1>1, <2>4, <3>1 DEF n
    <3>3. rows[i].class = "suc"
      BY <2>2, <3>1, <3>2 DEF is_full_match
    <3> QED
      BY <2>2, <3>1, <3>2, <3>3
  <2> QED
    BY <2>1, <2>5, <2>6, <2>7 DEF rows, all, Told
<1> QED
  BY <1>2, <1>3

\* Every word of the consulted tables that shares the prefix is shown or
\* counted, and a hash that stands in any table is answered with its word.
THEOREM NothingIsHidden == Spec => []NothingHiddenSilently
<1>1. ASSUME IInv, NEW k \in DOMAIN results
      PROVE  Loaded /\ Answers(results[k], results[k].hash)
  <2>1. Loaded /\ k \in 1..Len(results) /\ Answers(results[k], hashes[k])
    BY <1>1, LenProperties DEF IInv, InOrder, AllAnswered
  <2>2. results[k].hash = hashes[k]
    BY <2>1, AnswerFacts
  <2> QED
    BY <2>1, <2>2
<1>2. IInv => NothingHiddenSilently
  <2> SUFFICES ASSUME IInv
               PROVE  \A k \in DOMAIN results :
                         IsHash(results[k].hash) => Told(results[k], results[k].hash)
    BY Zenon DEF NothingHiddenSilently, Told
  <2> QED
    BY <1>1, NothingHidden
<1> QED
  BY <1>2, Invariance, PTL
-----------------------------------------------------------------------------
(* Near misses                                                             *)

\* The two parts of a near miss make up the digest, and they part where the
\* longest agreement ends.
LEMMA NearMissFacts ==
    ASSUME NEW submitted \in Seq(Chars), NEW actual \in Seq(Chars)
    PROVE  LET near == NearMiss(submitted, actual)
               m    == Len(near.matched)
           IN  /\ near.matched \o near.rest = actual
               /\ m \in Agreement(submitted, actual)
               /\ \A n \in Agreement(submitted, actual) : n <= m
<1> DEFINE A == Agreement(submitted, actual)
           b == Min({Len(submitted), Len(actual)})
           m == Max(A)
<1>1. b = IF Len(submitted) <= Len(actual) THEN Len(submitted) ELSE Len(actual)
  BY MinOfTwo
<1>2. b \in Nat /\ b <= Len(actual) /\ Len(actual) \in Nat
  BY <1>1
<1>3. A \in SUBSET (0..b) /\ 0 \in A
  BY <1>2 DEF Agreement
<1>4. m \in A /\ \A n \in A : n <= m
  <2> HIDE DEF A, b
  <2> QED
    BY <1>2, <1>3, MaxElement
<1>5. m \in 0..Len(actual)
  <2> HIDE DEF A, b, m
  <2> QED
    BY <1>2, <1>3, <1>4
<1>6. /\ NearMiss(submitted, actual).matched = SubSeq(actual, 1, m)
      /\ NearMiss(submitted, actual).rest = SubSeq(actual, m + 1, Len(actual))
  BY DEF NearMiss
<1> HIDE DEF m
<1>7. Len(SubSeq(actual, 1, m)) = m
  <2>1. \A i \in 1..m : actual[i] \in Chars
    BY <1>5
  <2>2. Len(SubSeq(actual, 1, m)) = IF 1 <= m THEN m - 1 + 1 ELSE 0
    BY <1>5, <2>1, SubSeqProperties
  <2> QED
    BY <1>5, <2>2
<1>8. SubSeq(actual, 1, m) \o SubSeq(actual, m + 1, Len(actual)) = actual
  <2>1. 1 \in 1..(Len(actual) + 1) /\ m \in (1 - 1)..Len(actual) /\ Len(actual) \in m..Len(actual)
    BY <1>2, <1>5
  <2>2. SubSeq(actual, 1, m) \o SubSeq(actual, m + 1, Len(actual)) = SubSeq(actual, 1, Len(actual))
    BY <2>1, ConcatAdjacentSubSeq
  <2> QED
    BY <2>2, SubSeqFull
<1> QED
  BY <1>4, <1>6, <1>7, <1>8 DEF A

\* A hash in lower case is as long as it was, digit by digit.
LEMMA LowerIsText ==
    ASSUME NEW hash \in Seq(Chars)
    PROVE  /\ Lower(hash) \in Seq(Chars) /\ Len(Lower(hash)) = Len(hash)
           /\ \A i \in 1..Len(hash) : Lower(hash)[i] = to_ascii_lowercase(hash[i])
<1>0. "a" \in Chars /\ "b" \in Chars
  BY DEF Chars
<1>1. \A c \in Chars : to_ascii_lowercase(c) \in Chars
  BY <1>0, Zenon DEF to_ascii_lowercase
<1>2. /\ DOMAIN hash = 1..Len(hash) /\ Len(hash) \in Nat
      /\ \A i \in 1..Len(hash) : hash[i] \in Chars
  OBVIOUS
<1>3. Lower(hash) = [i \in 1..Len(hash) |-> to_ascii_lowercase(hash[i])]
  BY <1>2 DEF Lower
<1>4. \A i \in 1..Len(hash) : to_ascii_lowercase(hash[i]) \in Chars
  BY <1>1, <1>2
<1>5. Lower(hash) \in [1..Len(hash) -> Chars]
  BY <1>3, <1>4
<1> QED
  BY <1>2, <1>3, <1>5

\* Sequences that begin alike agree on every place of the beginning, and the
\* other way round.
LEMMA SameBeginning ==
    ASSUME NEW s \in Seq(Chars), NEW t \in Seq(Chars),
           NEW n \in Nat, n <= Len(s), n <= Len(t)
    PROVE  SubSeq(s, 1, n) = SubSeq(t, 1, n) <=> \A i \in 1..n : s[i] = t[i]
<1>1. (\A i \in 1..n : s[i] \in Chars) /\ (\A i \in 1..n : t[i] \in Chars)
  OBVIOUS
<1>2. /\ SubSeq(s, 1, n) \in Seq(Chars)
      /\ Len(SubSeq(s, 1, n)) = IF 1 <= n THEN n - 1 + 1 ELSE 0
      /\ \A i \in 1..n - 1 + 1 : SubSeq(s, 1, n)[i] = s[1 + i - 1]
  BY <1>1, SubSeqProperties
<1>3. /\ SubSeq(t, 1, n) \in Seq(Chars)
      /\ Len(SubSeq(t, 1, n)) = IF 1 <= n THEN n - 1 + 1 ELSE 0
      /\ \A i \in 1..n - 1 + 1 : SubSeq(t, 1, n)[i] = t[1 + i - 1]
  BY <1>1, SubSeqProperties
<1> DEFINE u == SubSeq(s, 1, n)
           v == SubSeq(t, 1, n)
<1> HIDE DEF u, v
<1>4. /\ u \in Seq(Chars) /\ Len(u) = n /\ \A i \in 1..n : u[i] = s[i]
      /\ v \in Seq(Chars) /\ Len(v) = n /\ \A i \in 1..n : v[i] = t[i]
  BY <1>2, <1>3 DEF u, v
<1>5. u = v => \A i \in 1..n : s[i] = t[i]
  BY <1>4
<1>6. (\A i \in 1..n : s[i] = t[i]) => u = v
  <2> SUFFICES ASSUME \A i \in 1..n : s[i] = t[i] PROVE u = v
    OBVIOUS
  <2>1. \A i \in 1..n : u[i] = v[i]
    BY <1>4
  <2> QED
    BY <1>4, <2>1
<1> QED
  BY <1>5, <1>6 DEF u, v

\* What a yellow row owes to its hash.
Missed(row, hash) ==
    /\ \E t \in DOMAIN tables : \E e \in tables[t] :
          e.digest = row.hash /\ row.cell = plaintext_html(display_plaintext(e.word))
    /\ row.hash # hash
    /\ row.matched >= PrefixLen
    /\ SubSeq(row.hash, 1, row.matched) = SubSeq(hash, 1, row.matched)
    /\ row.matched < Len(row.hash) /\ row.matched < Len(hash) =>
          row.hash[row.matched + 1] # hash[row.matched + 1]

\* The row of a match that is not exact is a near miss, told as it should be.
LEMMA NearMissIsRight ==
    ASSUME Loaded, NEW hash \in Seq(Chars), IsHash(hash), NEW kept \in Kept(hash),
           NEW i \in DOMAIN kept, NEW result,
           NEW match, match = CrackMatch(hash, kept[i]), ~is_full_match(match)
    PROVE  Missed(MatchRow(result, match), Lower(hash))
<1>1. kept[i] \in Candidates(hash) /\ ~IsExact(hash, kept[i])
  BY KeptFacts DEF CrackMatch, is_full_match
<1>2. PICK t \in Consulted(hash) :
          kept[i] \in {[table |-> t, entry |-> e] : e \in Block(hash, tables[t])}
  BY <1>1 DEF Candidates
<1>3. PICK e \in Block(hash, tables[t]) : kept[i] = [table |-> t, entry |-> e]
  BY <1>2
<1> DEFINE near == NearMiss(hash, e.digest)
           m == Len(near.matched)
           row == MatchRow(result, match)
<1> HIDE DEF near, m, row
<1>4. /\ t \in DOMAIN tables /\ e \in tables[t] /\ e.digest # Lower(hash)
      /\ SubSeq(e.digest, 1, PrefixLen) = SubSeq(Lower(hash), 1, PrefixLen)
  <2>1. t \in DOMAIN tables
    BY DEF Consulted
  <2>2. e \in tables[t] /\ SubSeq(e.digest, 1, PrefixLen) = SubSeq(Lower(hash), 1, PrefixLen)
    BY Zenon DEF Block
  <2>3. kept[i].entry = e
    BY <1>3
  <2>4. e.digest # Lower(hash)
    BY <1>1, <2>3, Zenon DEF IsExact
  <2> QED
    BY <2>1, <2>2, <2>4
<1>5. e.digest \in Seq(Chars) /\ Len(e.digest) >= PrefixLen /\ PrefixLen \in Nat
  BY <1>4, TablesAreFinite, ResultsAssumption
<1>6. match = [plaintext |-> display_plaintext(e.word), near_miss |-> {near}]
  <2>1. kept[i].entry = e
    BY <1>3
  <2> QED
    BY <1>1, <2>1, Zenon DEF CrackMatch, near
<1>7. /\ row.hash = near.matched \o near.rest /\ row.matched = m
      /\ row.cell = plaintext_html(display_plaintext(e.word))
  <2>1. (CHOOSE n \in {near} : TRUE) = near
    OBVIOUS
  <2>2. match.near_miss = {near} /\ match.plaintext = display_plaintext(e.word)
    BY <1>6
  <2>3. row = Row("part", near.matched \o near.rest, Len(near.matched),
                  plaintext_html(match.plaintext), 0)
    BY <2>1, <2>2, Zenon DEF MatchRow, is_full_match, row
  <2> QED
    BY <2>2, <2>3 DEF Row, m
<1>8. /\ near.matched \o near.rest = e.digest
      /\ m \in Agreement(hash, e.digest)
      /\ \A n \in Agreement(hash, e.digest) : n <= m
  BY <1>5, NearMissFacts DEF near, m
<1>9. /\ Lower(hash) \in Seq(Chars) /\ Len(Lower(hash)) = Len(hash) /\ Len(hash) \in Nat
      /\ \A n \in 1..Len(hash) : Lower(hash)[n] = to_ascii_lowercase(hash[n])
      /\ Len(hash) >= PrefixLen /\ Len(e.digest) \in Nat
  BY <1>5, LowerIsText DEF IsHash
<1> DEFINE b == Min({Len(hash), Len(e.digest)})
<1>10. b = IF Len(hash) <= Len(e.digest) THEN Len(hash) ELSE Len(e.digest)
  BY <1>9, MinOfTwo
<1>11. Agreement(hash, e.digest) =
           {n \in 0..b : \A j \in 1..n : to_ascii_lowercase(hash[j]) = e.digest[j]}
  BY DEF Agreement
<1> HIDE DEF b
<1>12. Agreement(hash, e.digest) = {n \in 0..b : \A j \in 1..n : Lower(hash)[j] = e.digest[j]}
  BY <1>9, <1>10, <1>11
<1>13. PrefixLen \in Agreement(hash, e.digest)
  <2>1. PrefixLen \in 0..b
    BY <1>5, <1>9, <1>10
  <2>2. \A j \in 1..PrefixLen : e.digest[j] = Lower(hash)[j]
    BY <1>4, <1>5, <1>9, SameBeginning
  <2> QED
    BY <1>12, <2>1, <2>2
<1>14. m \in 0..b /\ \A j \in 1..m : e.digest[j] = Lower(hash)[j]
  BY <1>8, <1>12
<1>15. SubSeq(e.digest, 1, m) = SubSeq(Lower(hash), 1, m)
  <2>1. m \in Nat /\ m <= Len(e.digest) /\ m <= Len(Lower(hash))
    BY <1>9, <1>10, <1>14
  <2> QED
    BY <1>5, <1>9, <1>14, <2>1, SameBeginning
<1>16. m < Len(e.digest) /\ m < Len(Lower(hash)) => e.digest[m + 1] # Lower(hash)[m + 1]
  <2> SUFFICES ASSUME m < Len(e.digest), m < Len(Lower(hash)), e.digest[m + 1] = Lower(hash)[m + 1]
               PROVE  FALSE
    OBVIOUS
  <2>1. m + 1 \in 0..b
    BY <1>9, <1>10, <1>14
  <2>2. \A j \in 1..(m + 1) : Lower(hash)[j] = e.digest[j]
    BY <1>9, <1>10, <1>14
  <2>3. m + 1 \in Agreement(hash, e.digest)
    BY <1>12, <2>1, <2>2
  <2> QED
    BY <1>8, <1>14, <2>3
<1>17. m >= PrefixLen
  BY <1>8, <1>13
<1> QED
  BY <1>4, <1>7, <1>8, <1>15, <1>16, <1>17 DEF Missed, row

\* A green or a yellow row is the row of one of the matches of its hash.
LEMMA RowOfAMatch ==
    ASSUME IInv, NEW k \in DOMAIN results, NEW i \in DOMAIN Rows(results[k]),
           Rows(results[k])[i].class \in {"suc", "part"}
    PROVE  LET r == results[k] IN
           /\ Loaded /\ r.hash \in Seq(Chars) /\ IsHash(r.hash)
           /\ \E kept \in Kept(r.hash) :
                 i \in DOMAIN kept /\ Rows(r)[i] = MatchRow(r, CrackMatch(r.hash, kept[i]))
<1> DEFINE r == results[k]
           n == Len(r.matches)
           hidden == hidden_matches(r)
<1>1. /\ Loaded /\ k \in 1..Len(results) /\ Answers(r, hashes[k])
      /\ hashes[k] \in Seq(Chars)
  BY LenProperties DEF IInv, InOrder, AllAnswered
<1>2. r.hash = hashes[k] /\ (r.format_error <=> ~IsHash(hashes[k]))
  BY <1>1, AnswerFacts
<1>3. ~r.format_error /\ r.matches # <<>>
  <2>1. CASE r.format_error
    <3>1. Rows(r) = <<Row("fail", r.hash, 0, <<"Unrecognized">>, 0)>>
      BY <2>1 DEF Rows
    <3>2. DOMAIN Rows(r) = {1} /\ Rows(r)[1].class = "fail"
      BY <3>1, OneRow
    <3> QED
      BY <3>2
  <2>2. CASE ~r.format_error /\ r.matches = <<>>
    <3>1. Rows(r) = <<Row("fail", r.hash, 0, <<"NotFound">>, 0)>>
      BY <2>2 DEF Rows
    <3>2. DOMAIN Rows(r) = {1} /\ Rows(r)[1].class = "fail"
      BY <3>1, OneRow
    <3> QED
      BY <3>2
  <2> QED
    BY <2>1, <2>2
<1>4. PICK kept \in Kept(hashes[k]) : r = Lookup(hashes[k], kept)
  BY <1>1, <1>2, <1>3 DEF Answers
<1>5. /\ hidden \in Nat /\ n \in Nat \ {0}
      /\ DOMAIN Rows(r) = 1..Len(Rows(r))
      /\ Len(Rows(r)) = IF hidden > 0 THEN n + 1 ELSE n
      /\ \A j \in 1..n : Rows(r)[j] = MatchRow(r, r.matches[j])
      /\ hidden > 0 => Rows(r)[n + 1] = Row("more", r.hash, 0, <<>>, hidden)
  BY <1>1, <1>3, RowsOfMatches
<1>6. DOMAIN r.matches = 1..n
  BY <1>1, AnswerFacts
<1>7. i \in 1..n
  <2>1. hidden > 0 => Rows(r)[n + 1].class = "more"
    BY <1>5 DEF Row
  <2> HIDE DEF n, hidden
  <2> QED
    BY <1>5, <2>1
<1>8. i \in DOMAIN kept /\ r.matches[i] = CrackMatch(hashes[k], kept[i])
  BY <1>4, <1>6, <1>7 DEF Lookup
<1>9. Rows(r)[i] = MatchRow(r, CrackMatch(hashes[k], kept[i]))
  BY <1>5, <1>7, <1>8
<1> QED
  BY <1>1, <1>2, <1>3, <1>8, <1>9

\* A yellow row shows the digest of its own word and highlights exactly what
\* of it the submitted hash got right, in whatever case it was typed.
THEOREM NearMissesAreRight == Spec => []NearMissShowsDigest
<1>1. ASSUME IInv, NEW k \in DOMAIN results, NEW i \in DOMAIN Rows(results[k]),
             Rows(results[k])[i].class = "part"
      PROVE  Missed(Rows(results[k])[i], Lower(results[k].hash))
  <2> DEFINE r == results[k]
  <2>1. /\ Loaded /\ r.hash \in Seq(Chars) /\ IsHash(r.hash)
        /\ \E kept \in Kept(r.hash) :
              i \in DOMAIN kept /\ Rows(r)[i] = MatchRow(r, CrackMatch(r.hash, kept[i]))
    BY <1>1, RowOfAMatch
  <2>2. PICK kept \in Kept(r.hash) :
            i \in DOMAIN kept /\ Rows(r)[i] = MatchRow(r, CrackMatch(r.hash, kept[i]))
    BY <2>1
  <2> DEFINE match == CrackMatch(r.hash, kept[i])
  <2>3. ~is_full_match(match)
    BY <1>1, <2>2, MatchRowFacts
  <2> QED
    BY <2>1, <2>2, <2>3, NearMissIsRight
<1>2. IInv => NearMissShowsDigest
  <2> SUFFICES ASSUME IInv
               PROVE  \A k \in DOMAIN results : \A i \in DOMAIN Rows(results[k]) :
                         Rows(results[k])[i].class = "part" =>
                             Missed(Rows(results[k])[i], Lower(results[k].hash))
    BY Zenon DEF NearMissShowsDigest, Missed
  <2> QED
    BY <1>1
<1> QED
  BY <1>2, Invariance, PTL
===============================================================================
