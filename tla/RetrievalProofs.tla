-------------------------- MODULE RetrievalProofs --------------------------
(***************************************************************************)
(* Retrieval, for every number of texts, queries and rounds and every k:   *)
(* what each stage of a search keeps, and from that the four guarantees    *)
(* the runs check on a small instance.  Then the document mode, for all    *)
(* documents: what a comparison of two versions says of their lines, and   *)
(* how it accounts for its passages.                                       *)
(*                                                                         *)
(* Lists are sorted by rank in an order on a finite set (InOrder), so that *)
(* facts about a sorted list follow from facts about the order.  Where the *)
(* code recurses (the sum of rrf_merge, the picks of mmr_select, the       *)
(* greedy pairing and filling of documents.py) there is no induction: a    *)
(* least counterexample is shown not to exist.                             *)
(*                                                                         *)
(* RequestInv is inductive because it speaks of the searches still to      *)
(* come: everything the LLM was shown is in every search for as many       *)
(* chunks or more (ShownStays), which holds of a search when it ends by    *)
(* SearchGrows and is what makes the next one grow.                        *)
(*                                                                         *)
(* CompareInv is inductive because a context is built in one step of what  *)
(* was read; its work is in the operators.  A line is in one passage since *)
(* the members of the passages and the places that are reported are as     *)
(* many as each other (RunFacts), and of the places of one line only the   *)
(* first is reported (ReportedFacts).                                      *)
(***************************************************************************)
EXTENDS Retrieval, Comparison, FiniteSetTheorems, SequenceTheorems, TLAPS

-----------------------------------------------------------------------------
(* Orders.                                                                 *)

\* The first n numbers are n.
LEMMA Upto ==
  ASSUME NEW n \in Nat PROVE IsFiniteSet(1..n) /\ Cardinality(1..n) = n
<1>1. Cardinality(1..n) = IF 1 > n THEN 0 ELSE n - 1 + 1
  BY FS_Interval
<1> QED  BY <1>1, FS_Interval

\* A set of numbers that are not negative has a least one.
LEMMA LeastNumber ==
  ASSUME NEW T \in SUBSET Nat, T # {} PROVE \E x \in T : \A y \in T : x <= y
<1>1. \A x, y : <<x, y>> \in OpToRel(<, Nat) <=> x \in Nat /\ y \in Nat /\ x < y
  BY DEF OpToRel
<1>2. PICK x \in T : \A y \in T : ~(<<y, x>> \in OpToRel(<, Nat))
  BY WFMin, NatLessThanWellFounded
<1>3. \A y \in T : ~(y < x)
  BY <1>1, <1>2
<1> QED  BY <1>3

\* R puts the members of S one after the other.
Sorts(S, R) ==
    /\ \A x \in S : <<x, x>> \notin R
    /\ \A x, y, z \in S : <<x, y>> \in R /\ <<y, z>> \in R => <<x, z>> \in R
    /\ \A x, y \in S : x = y \/ <<x, y>> \in R \/ <<y, x>> \in R

Above(S, R, x) == {y \in S : <<y, x>> \in R}

Rank(S, R, x) == Cardinality(Above(S, R, x)) + 1

\* The ranks of the members of S in the order R are 1..Cardinality(S), one each.
LEMMA RankFacts ==
  ASSUME NEW S, IsFiniteSet(S), NEW R, Sorts(S, R)
  PROVE  /\ Cardinality(S) \in Nat
         /\ \A x \in S : IsFiniteSet(Above(S, R, x)) /\ Rank(S, R, x) \in 1..Cardinality(S)
         /\ \A x, y \in S : <<x, y>> \in R => Rank(S, R, x) < Rank(S, R, y)
         /\ \A n \in 1..Cardinality(S) : \E x \in S : Rank(S, R, x) = n
<1>1. Cardinality(S) \in Nat
  BY FS_CardinalityType
<1>2. ASSUME NEW x \in S
      PROVE  IsFiniteSet(Above(S, R, x)) /\ Rank(S, R, x) \in 1..Cardinality(S)
  <2>1. Above(S, R, x) \subseteq S \ {x}
    BY DEF Above, Sorts
  <2>2. IsFiniteSet(S \ {x}) /\ Cardinality(S \ {x}) = Cardinality(S) - 1
    BY FS_RemoveElement
  <2>3. IsFiniteSet(Above(S, R, x)) /\ Cardinality(Above(S, R, x)) <= Cardinality(S \ {x})
    BY <2>1, <2>2, FS_Subset
  <2>4. Cardinality(Above(S, R, x)) \in Nat
    BY <2>3, FS_CardinalityType
  <2> QED  BY <1>1, <2>2, <2>3, <2>4 DEF Rank
<1>3. ASSUME NEW x \in S, NEW y \in S, <<x, y>> \in R
      PROVE  Rank(S, R, x) < Rank(S, R, y)
  <2>1. Above(S, R, x) \subseteq Above(S, R, y) /\ x \in Above(S, R, y) /\ x \notin Above(S, R, x)
    BY <1>3 DEF Above, Sorts
  <2>2. IsFiniteSet(Above(S, R, x)) /\ IsFiniteSet(Above(S, R, y))
    BY <1>2
  <2>3. Cardinality(Above(S, R, x)) \in Nat /\ Cardinality(Above(S, R, y)) \in Nat
    BY <2>2, FS_CardinalityType
  <2>4. Cardinality(Above(S, R, x)) <= Cardinality(Above(S, R, y))
        /\ Cardinality(Above(S, R, x)) # Cardinality(Above(S, R, y))
    BY <2>1, <2>2, FS_Subset
  <2> QED  BY <2>3, <2>4 DEF Rank
<1>4. \A n \in 1..Cardinality(S) : \E x \in S : Rank(S, R, x) = n
  <2> DEFINE f == [x \in S |-> Rank(S, R, x)]
             T == 1..Cardinality(S)
  <2>1. f \in [S -> T]
    BY <1>2
  <2>2. \A x, y \in S : f[x] = f[y] => x = y
    <3> SUFFICES ASSUME NEW x \in S, NEW y \in S, x # y PROVE f[x] # f[y]
      OBVIOUS
    <3>1. <<x, y>> \in R \/ <<y, x>> \in R
      BY DEF Sorts
    <3>2. f[x] < f[y] \/ f[y] < f[x]
      BY <1>3, <3>1
    <3>3. f[x] \in Nat /\ f[y] \in Nat
      BY <2>1
    <3> QED  BY <3>2, <3>3
  <2>3. IsFiniteSet(T) /\ Cardinality(T) = Cardinality(S)
    BY <1>1, FS_Interval
  <2>4. f \in Injection(S, T)
    BY <2>1, <2>2 DEF Injection, IsInjective
  <2>5. f \in Surjection(S, T)
    BY <2>3, <2>4, FS_Injection
  <2> QED  BY <2>5 DEF Surjection
<1> QED  BY <1>1, <1>2, <1>3, <1>4

\* InOrder puts every member of S at its rank.
LEMMA InOrderFacts ==
  ASSUME NEW S, IsFiniteSet(S), NEW R, Sorts(S, R)
  PROVE  /\ Cardinality(S) \in Nat
         /\ InOrder(S, R) \in [1..Cardinality(S) -> S]
         /\ \A x \in S : Rank(S, R, x) \in 1..Cardinality(S) /\ InOrder(S, R)[Rank(S, R, x)] = x
         /\ \A n \in 1..Cardinality(S) : Rank(S, R, InOrder(S, R)[n]) = n
<1>1. /\ Cardinality(S) \in Nat
      /\ \A x \in S : Rank(S, R, x) \in 1..Cardinality(S)
      /\ \A x \in S : Cardinality(Above(S, R, x)) \in Nat
      /\ \A x, y \in S : Rank(S, R, x) = Rank(S, R, y) => x = y
      /\ \A n \in 1..Cardinality(S) : \E x \in S : Rank(S, R, x) = n
  <2>1. ASSUME NEW x \in S, NEW y \in S, Rank(S, R, x) = Rank(S, R, y) PROVE x = y
    <3>1. Rank(S, R, x) \in Nat /\ ~(Rank(S, R, x) < Rank(S, R, y)) /\ ~(Rank(S, R, y) < Rank(S, R, x))
      BY <2>1, RankFacts
    <3> QED  BY <3>1, RankFacts DEF Sorts
  <2>2. \A x \in S : Cardinality(Above(S, R, x)) \in Nat
    BY RankFacts, FS_CardinalityType
  <2> QED  BY <2>1, <2>2, RankFacts
<1>2. ASSUME NEW n \in 1..Cardinality(S)
      PROVE  /\ InOrder(S, R)[n] \in S /\ Rank(S, R, InOrder(S, R)[n]) = n
  <2>1. InOrder(S, R)[n] = CHOOSE x \in S : Cardinality(Above(S, R, x)) = n - 1
    BY DEF InOrder, Above
  <2>2. PICK x \in S : Rank(S, R, x) = n
    BY <1>1
  <2>3. Cardinality(Above(S, R, x)) = n - 1
    BY <1>1, <2>2 DEF Rank
  <2>4. InOrder(S, R)[n] \in S /\ Cardinality(Above(S, R, InOrder(S, R)[n])) = n - 1
    BY <2>1, <2>3
  <2> QED  BY <1>1, <2>4 DEF Rank
<1>3. InOrder(S, R) \in [1..Cardinality(S) -> S]
  BY <1>2 DEF InOrder
<1> QED  BY <1>1, <1>2, <1>3

-----------------------------------------------------------------------------
(* Sequences of hits.                                                      *)

HitType == [text : Texts, score : Int]

\* What a cut leaves.
LEMMA CutFacts ==
  ASSUME NEW X, NEW s \in Seq(X), NEW n \in Nat
  PROVE  /\ Cut(s, n) \in Seq(X)
         /\ Len(Cut(s, n)) = (IF n < Len(s) THEN n ELSE Len(s))
         /\ \A i \in 1..Len(s) : i <= n => Cut(s, n)[i] = s[i]
<1>1. Min({n, Len(s)}) = IF n < Len(s) THEN n ELSE Len(s)
  BY DEF Min
<1> DEFINE m == IF n < Len(s) THEN n ELSE Len(s)
<1>2. m \in 0..Len(s) /\ Len(s) \in Nat
  OBVIOUS
<1>3. Cut(s, n) = SubSeq(s, 1, m)
  BY <1>1 DEF Cut
<1> HIDE DEF m
<1>4. /\ SubSeq(s, 1, m) \in Seq(X)
      /\ Len(SubSeq(s, 1, m)) = m
      /\ \A i \in 1..m : SubSeq(s, 1, m)[i] = s[i]
  BY <1>2, SubSeqProperties
<1> QED  BY <1>2, <1>3, <1>4 DEF m

\* The texts a cut leaves.
LEMMA CutTexts ==
  ASSUME NEW X, NEW s \in Seq(X), NEW n \in Nat
  PROVE  /\ \A t : t \in TextsOf(Cut(s, n)) <=> \E i \in 1..Len(s) : i <= n /\ s[i].text = t
         /\ Len(s) <= n => Cut(s, n) = s
<1>1. DOMAIN Cut(s, n) = 1..Len(Cut(s, n))
  BY CutFacts
<1>2. \A i : i \in DOMAIN Cut(s, n) <=> i \in 1..Len(s) /\ i <= n
  BY <1>1, CutFacts
<1>3. Len(s) <= n => Cut(s, n) = s
  BY <1>1, CutFacts
<1> QED  BY <1>2, <1>3, CutFacts DEF TextsOf

\* No text twice.
Distinct(s) == \A i, j \in DOMAIN s : s[i].text = s[j].text => i = j

\* A sequence that has all texts of one that has no text twice is as long.
LEMMA AsLong ==
  ASSUME NEW X, NEW s \in Seq(X), NEW Y, NEW u \in Seq(Y), Distinct(s), TextsOf(s) \subseteq TextsOf(u)
  PROVE  Len(s) <= Len(u)
<1> DEFINE f == [i \in 1..Len(s) |-> CHOOSE j \in 1..Len(u) : u[j].text = s[i].text]
<1>0. DOMAIN s = 1..Len(s) /\ DOMAIN u = 1..Len(u) /\ Len(s) \in Nat /\ Len(u) \in Nat
  OBVIOUS
<1>1. \A i \in 1..Len(s) : \E j \in 1..Len(u) : u[j].text = s[i].text
  <2> SUFFICES ASSUME NEW i \in 1..Len(s) PROVE \E j \in 1..Len(u) : u[j].text = s[i].text
    OBVIOUS
  <2>1. s[i].text \in TextsOf(u)
    BY <1>0 DEF TextsOf
  <2> QED  BY <1>0, <2>1 DEF TextsOf
<1>2. \A i \in 1..Len(s) : f[i] \in 1..Len(u) /\ u[f[i]].text = s[i].text
  BY <1>1
<1>3. f \in [1..Len(s) -> 1..Len(u)]
  BY <1>2
<1> HIDE DEF f
<1>4. \A i, j \in 1..Len(s) : f[i] = f[j] => i = j
  BY <1>0, <1>2 DEF Distinct
<1>5. f \in Injection(1..Len(s), 1..Len(u))
  BY <1>3, <1>4 DEF Injection, IsInjective
<1>6. /\ IsFiniteSet(1..Len(u)) /\ Cardinality(1..Len(u)) = Len(u)
      /\ Cardinality(1..Len(s)) = Len(s)
  BY <1>0, Upto
<1>7. Cardinality(1..Len(s)) <= Cardinality(1..Len(u))
  BY <1>5, <1>6, FS_Injection
<1> QED  BY <1>6, <1>7

-----------------------------------------------------------------------------
(* Sums.                                                                   *)

\* What g says of a set is the weight of one of its members and what it says of
\* the others.
Adds(w, g, T) ==
    g[T] = IF T = {} THEN 0
           ELSE LET x == CHOOSE x \in T : TRUE IN w[x] + g[T \ {x}]

AddsUp(w, S, g) == \A T \in SUBSET S : Adds(w, g, T)

Totals(w, S, g) == AddsUp(w, S, g) /\ g \in [SUBSET S -> Nat] /\ \A x \in S : w[x] \in Nat

Sums(w, S, g) == g = [T \in SUBSET S |->
                         IF T = {} THEN 0
                         ELSE LET x == CHOOSE x \in T : TRUE IN w[x] + g[T \ {x}]]

Additive(w, S, g) == \A T \in SUBSET S : \A x \in S \ T : g[T \cup {x}] = g[T] + w[x]

\* ranking.py:34.  A later rank contributes no more than an earlier one.
LEMMA WeightFacts ==
  /\ \A r \in Nat : Weight(r) \in Nat
  /\ \A q, r \in Nat : q < r => Weight(r) <= Weight(q)
<1>1. ASSUME NEW a \in Nat, NEW b \in Nat, NEW c \in Nat, 0 < b, b < c
      PROVE  a \div c \in Nat /\ a \div c <= a \div b
  BY <1>1
<1>2. ASSUME NEW a \in Nat, NEW b \in Nat, 0 < b
      PROVE  a \div b \in Nat
  BY <1>2
<1>3. Scale \in Nat
  BY DEF Scale
<1> HIDE DEF Scale
<1> QED  BY <1>1, <1>2, <1>3 DEF Weight, RRF_K

\* The empty set has no member.
LEMMA EmptyHasNone == Cardinality({}) = 0
  BY FS_EmptySet

\* One less is in a set without the member it is chosen by.
LEMMA Without ==
  ASSUME NEW S, IsFiniteSet(S), NEW T \in SUBSET S, T # {}
  PROVE  LET x == CHOOSE x \in T : TRUE
         IN  /\ x \in T /\ T \ {x} \in SUBSET S
             /\ IsFiniteSet(T) /\ Cardinality(T) \in Nat
             /\ Cardinality(T \ {x}) = Cardinality(T) - 1 /\ Cardinality(T \ {x}) \in Nat
<1> DEFINE x == CHOOSE x \in T : TRUE
<1>1. x \in T
  OBVIOUS
<1> HIDE DEF x
<1>2. IsFiniteSet(T)
  BY FS_Subset
<1>3. IsFiniteSet(T \ {x}) /\ Cardinality(T \ {x}) = Cardinality(T) - 1
  BY <1>1, <1>2, FS_RemoveElement
<1>4. Cardinality(T) \in Nat /\ Cardinality(T \ {x}) \in Nat
  BY <1>2, <1>3, FS_CardinalityType
<1> QED  BY <1>1, <1>2, <1>3, <1>4 DEF x

\* There is a function that adds up the weights of any members of S: the least set
\* without one cannot be.
LEMMA SumsExist ==
  ASSUME NEW S, IsFiniteSet(S), NEW w, \A x \in S : w[x] \in Nat
  PROVE  \E g \in [SUBSET S -> Nat] : \A T \in SUBSET S : Adds(w, g, T)
<1> DEFINE Right(n, g) == \A T \in SUBSET S : Cardinality(T) <= n => Adds(w, g, T)
           Bad == {n \in Nat : ~\E g \in [SUBSET S -> Nat] : Right(n, g)}
<1>1. Cardinality(S) \in Nat /\ \A T \in SUBSET S : Cardinality(T) \in Nat /\ Cardinality(T) <= Cardinality(S)
  BY FS_Subset, FS_CardinalityType
<1>2. SUFFICES ASSUME Bad # {} PROVE FALSE
  <2>1. CASE Bad = {}
    <3>1. \E g \in [SUBSET S -> Nat] : Right(Cardinality(S), g)
      BY <1>1, <2>1
    <3> QED  BY <1>1, <3>1
  <2> QED  BY <2>1
<1>3. PICK n \in Bad : \A m \in Bad : n <= m
  BY <1>2, LeastNumber
<1>4. n # 0
  <2> SUFFICES ASSUME n = 0 PROVE FALSE
    OBVIOUS
  <2>1. [T \in SUBSET S |-> 0] \in [SUBSET S -> Nat]
    OBVIOUS
  <2>2. \A T \in SUBSET S : Cardinality(T) <= 0 => T = {}
    BY <1>1, FS_Subset, FS_EmptySet
  <2>3. Right(0, [T \in SUBSET S |-> 0])
    BY <2>2 DEF Adds
  <2> QED  BY <1>3, <2>1, <2>3
<1>5. n \in Nat /\ n - 1 \in Nat
  BY <1>3, <1>4
<1>6. PICK g \in [SUBSET S -> Nat] : Right(n - 1, g)
  <2>1. n - 1 \notin Bad
    <3> HIDE DEF Bad
    <3> QED  BY <1>3, <1>5
  <2> HIDE DEF Right
  <2> QED  BY <1>5, <2>1
<1> DEFINE h == [T \in SUBSET S |->
                   IF Cardinality(T) <= n - 1 THEN g[T]
                   ELSE LET x == CHOOSE x \in T : TRUE IN w[x] + g[T \ {x}]]
<1>7. h \in [SUBSET S -> Nat]
  <2> SUFFICES ASSUME NEW T \in SUBSET S PROVE h[T] \in Nat
    OBVIOUS
  <2>1. CASE Cardinality(T) <= n - 1
    BY <2>1
  <2>2. CASE ~(Cardinality(T) <= n - 1)
    <3>1. T # {}
      <4>1. 0 <= n - 1
        BY <1>5
      <4> HIDE DEF h, Bad
      <4> QED  BY <2>2, <4>1, EmptyHasNone
    <3> DEFINE x == CHOOSE x \in T : TRUE
    <3>2. x \in T /\ T \ {x} \in SUBSET S
      BY <3>1, Without
    <3>3. h[T] = w[x] + g[T \ {x}]
      BY <2>2
    <3> HIDE DEF x, h
    <3> QED  BY <3>2, <3>3
  <2> QED  BY <2>1, <2>2
<1>8. Right(n, h)
  <2> SUFFICES ASSUME NEW T \in SUBSET S, Cardinality(T) <= n PROVE Adds(w, h, T)
    OBVIOUS
  <2>1. CASE T = {}
    <3>1. Cardinality(T) <= n - 1
      BY <1>5, <2>1, EmptyHasNone
    <3>2. h[T] = g[T] /\ Adds(w, g, T)
      BY <1>6, <3>1
    <3> HIDE DEF h
    <3> QED  BY <2>1, <3>2 DEF Adds
  <2>2. CASE T # {}
    <3> DEFINE x == CHOOSE x \in T : TRUE
    <3>1. T \ {x} \in SUBSET S /\ Cardinality(T \ {x}) = Cardinality(T) - 1 /\ Cardinality(T) \in Nat
      BY <2>2, Without
    <3>2. h[T \ {x}] = g[T \ {x}]
      BY <1>5, <3>1
    <3>3. h[T] = w[x] + g[T \ {x}]
      <4>1. CASE Cardinality(T) <= n - 1
        <5>1. h[T] = g[T] /\ Adds(w, g, T)
          BY <1>6, <4>1
        <5> HIDE DEF h
        <5> QED  BY <2>2, <5>1 DEF Adds
      <4>2. CASE ~(Cardinality(T) <= n - 1)
        BY <4>2
      <4> QED  BY <4>1, <4>2
    <3> HIDE DEF h
    <3> QED  BY <2>2, <3>2, <3>3 DEF Adds
  <2> QED  BY <2>1, <2>2
<1> QED  BY <1>3, <1>7, <1>8

\* And there is only one.
LEMMA SumsUnique ==
  ASSUME NEW S, IsFiniteSet(S), NEW w, NEW g, AddsUp(w, S, g), NEW h, AddsUp(w, S, h),
         NEW T \in SUBSET S
  PROVE  g[T] = h[T]
<1>0. \A U \in SUBSET S : Adds(w, g, U) /\ Adds(w, h, U)
  BY DEF AddsUp
<1> DEFINE Bad == {Cardinality(U) : U \in {V \in SUBSET S : g[V] # h[V]}}
<1>1. \A U \in SUBSET S : Cardinality(U) \in Nat
  BY FS_Subset, FS_CardinalityType
<1>2. SUFFICES ASSUME Bad # {} PROVE FALSE
  OBVIOUS
<1>3. Bad \in SUBSET Nat
  BY <1>1
<1>4. PICK n \in Bad : \A m \in Bad : n <= m
  BY <1>2, <1>3, LeastNumber
<1>5. PICK U \in SUBSET S : g[U] # h[U] /\ Cardinality(U) = n
  BY <1>4
<1> DEFINE x == CHOOSE x \in U : TRUE
<1>6. U # {}
  BY <1>0, <1>5 DEF Adds
<1>7. U \ {x} \in SUBSET S /\ Cardinality(U \ {x}) = n - 1 /\ n \in Nat
  BY <1>5, <1>6, Without
<1>8. g[U \ {x}] = h[U \ {x}]
  BY <1>4, <1>7
<1> HIDE DEF x
<1>9. g[U] = w[x] + g[U \ {x}] /\ h[U] = w[x] + h[U \ {x}]
  BY <1>0, <1>5, <1>6 DEF Adds, x
<1> QED  BY <1>5, <1>8, <1>9

\* What SumFunctionOnSet adds up.
LEMMA SumIs ==
  ASSUME NEW S, IsFiniteSet(S), NEW w, \A x \in S : w[x] \in Nat
  PROVE  \E g \in [SUBSET S -> Nat] :
            SumFunctionOnSet(w, S) = g[S] /\ \A T \in SUBSET S : Adds(w, g, T)
<1>1. PICK g \in [SUBSET S -> Nat] : \A T \in SUBSET S : Adds(w, g, T)
  BY SumsExist
<1>2. g = [T \in SUBSET S |-> IF T = {} THEN 0
                              ELSE LET x == CHOOSE x \in T : TRUE IN w[x] + g[T \ {x}]]
  BY <1>1 DEF Adds
<1>3. Sums(w, S, g)
  BY <1>2 DEF Sums
<1> DEFINE h == CHOOSE h : Sums(w, S, h)
<1>4. Sums(w, S, h)
  BY <1>3
<1>5. SumFunctionOnSet(w, S) = h[S]
  BY DEF SumFunctionOnSet, FoldFunctionOnSet, MapThenFoldSet, Sums
<1> HIDE DEF h
<1>6. \A T \in SUBSET S : Adds(w, h, T)
  BY <1>4 DEF Sums, Adds
<1>7. S \in SUBSET S /\ AddsUp(w, S, g) /\ AddsUp(w, S, h)
  BY <1>1, <1>6 DEF AddsUp
<1>8. g[S] = h[S]
  BY <1>7, SumsUnique
<1> QED  BY <1>1, <1>5, <1>8

\* A member adds its weight, whichever SumFunctionOnSet chooses first.
LEMMA AddsAny ==
  ASSUME NEW S, IsFiniteSet(S), NEW w, NEW g, Totals(w, S, g)
  PROVE  Additive(w, S, g)
<1> SUFFICES ASSUME NEW T \in SUBSET S, NEW x \in S \ T
             PROVE  g[T \cup {x}] = g[T] + w[x]
  BY DEF Additive
<1>0. AddsUp(w, S, g) /\ g \in [SUBSET S -> Nat] /\ \A y \in S : w[y] \in Nat
  BY DEF Totals
<1> DEFINE Wrong(V) == \E y \in S \ V : g[V \cup {y}] # g[V] + w[y]
           Bad == {Cardinality(U) : U \in {V \in SUBSET S : Wrong(V)}}
<1>1. \A U \in SUBSET S : IsFiniteSet(U) /\ Cardinality(U) \in Nat
  BY FS_Subset, FS_CardinalityType
<1>2. SUFFICES ASSUME Bad # {} PROVE FALSE
  <2> SUFFICES ASSUME g[T \cup {x}] # g[T] + w[x] PROVE Bad # {}
    OBVIOUS
  <2>1. Wrong(T)
    OBVIOUS
  <2> HIDE DEF Wrong
  <2>2. Cardinality(T) \in Bad
    BY <2>1
  <2> QED  BY <2>2
<1>3. Bad \in SUBSET Nat
  <2> HIDE DEF Wrong
  <2> QED  BY <1>1
<1>4. PICK n \in Bad : \A m \in Bad : n <= m
  BY <1>2, <1>3, LeastNumber
<1>5. PICK V \in SUBSET S : Wrong(V) /\ Cardinality(V) = n
  BY <1>4
<1>6. PICK y \in S \ V : g[V \cup {y}] # g[V] + w[y]
  BY <1>5
<1> DEFINE U == V \cup {y}
           c == CHOOSE c \in U : TRUE
<1>7. U \in SUBSET S /\ U # {} /\ c \in U
  OBVIOUS
<1>8. g[U] = w[c] + g[U \ {c}]
  <2>1. Adds(w, g, U)
    BY <1>0, <1>7 DEF AddsUp
  <2> HIDE DEF U
  <2> QED  BY <1>7, <2>1 DEF Adds
<1>9. w[c] \in Nat /\ w[y] \in Nat /\ g[V] \in Nat
  <2> HIDE DEF c
  <2> QED  BY <1>0, <1>7
<1> HIDE DEF c
<1>10. c # y
  <2> SUFFICES ASSUME c = y PROVE FALSE
    OBVIOUS
  <2>1. U \ {y} = V
    BY <1>6
  <2> HIDE DEF U
  <2>2. g[U] = w[y] + g[V]
    BY <1>8, <2>1
  <2> QED  BY <1>6, <1>9, <2>2 DEF U
<1> DEFINE W == V \ {c}
<1>11. /\ c \in V /\ W \in SUBSET S /\ y \in S \ W /\ c \in S \ W
       /\ U \ {c} = W \cup {y} /\ V = W \cup {c}
  BY <1>7, <1>10
<1>12. g[W \cup {y}] = g[W] + w[y] /\ g[W \cup {c}] = g[W] + w[c]
  <2>1. Cardinality(W) = n - 1 /\ n \in Nat
    BY <1>1, <1>5, <1>11, FS_RemoveElement
  <2>2. Cardinality(W) \notin Bad
    <3> HIDE DEF Bad
    <3> QED  BY <1>4, <2>1
  <2>3. ~Wrong(W)
    <3> HIDE DEF Wrong, W
    <3> QED  BY <1>11, <2>2
  <2> HIDE DEF W
  <2> QED  BY <1>11, <2>3
<1>13. g[W] \in Nat
  <2> HIDE DEF W
  <2> QED  BY <1>0, <1>11
<1> HIDE DEF U, W, Bad, Wrong
<1>14. g[U] = w[c] + (g[W] + w[y]) /\ g[V] = g[W] + w[c]
  BY <1>8, <1>11, <1>12
<1> QED  BY <1>6, <1>9, <1>13, <1>14 DEF U

\* The sums over the subsets of a finite set.
LEMMA SumFacts ==
  ASSUME NEW S, IsFiniteSet(S), NEW w, \A x \in S : w[x] \in Nat
  PROVE  /\ SumFunctionOnSet(w, {}) = 0
         /\ \A T \in SUBSET S : SumFunctionOnSet(w, T) \in Nat
         /\ \A T \in SUBSET S : \A x \in S \ T :
               SumFunctionOnSet(w, T \cup {x}) = SumFunctionOnSet(w, T) + w[x]
<1>1. PICK g \in [SUBSET S -> Nat] : \A T \in SUBSET S : Adds(w, g, T)
  BY SumsExist
<1>6. AddsUp(w, S, g) /\ Totals(w, S, g)
  BY <1>1 DEF AddsUp, Totals
<1>7. Additive(w, S, g)
  BY <1>6, AddsAny
<1>2. ASSUME NEW T \in SUBSET S PROVE SumFunctionOnSet(w, T) = g[T]
  <2>1. IsFiniteSet(T) /\ \A x \in T : w[x] \in Nat
    BY FS_Subset
  <2>2. PICK h \in [SUBSET T -> Nat] :
            SumFunctionOnSet(w, T) = h[T] /\ \A U \in SUBSET T : Adds(w, h, U)
    BY <2>1, SumIs
  <2>3. \A U \in SUBSET T : Adds(w, g, U)
    BY <1>1
  <2>4. T \in SUBSET T /\ AddsUp(w, T, h) /\ AddsUp(w, T, g)
    BY <2>2, <2>3 DEF AddsUp
  <2>5. h[T] = g[T]
    BY <2>1, <2>4, SumsUnique
  <2> QED  BY <2>2, <2>5
<1>3. g[{}] = 0
  <2>1. Adds(w, g, {})
    BY <1>1
  <2> QED  BY <2>1 DEF Adds
<1>4. SumFunctionOnSet(w, {}) = 0
  BY <1>2, <1>3
<1>5. ASSUME NEW T \in SUBSET S, NEW x \in S \ T
      PROVE  SumFunctionOnSet(w, T \cup {x}) = SumFunctionOnSet(w, T) + w[x]
  <2>1. g[T \cup {x}] = g[T] + w[x]
    BY <1>7 DEF Additive
  <2>2. T \cup {x} \in SUBSET S
    OBVIOUS
  <2> QED  BY <1>2, <2>1, <2>2
<1> QED  BY <1>2, <1>4, <1>5

-----------------------------------------------------------------------------
(* Slots, and the merges over them.                                        *)

\* What is sorted has a first member.
LEMMA SortedFirst ==
  ASSUME NEW S, IsFiniteSet(S), S # {}, NEW R, Sorts(S, R)
  PROVE  \E f \in S : \A x \in S : x = f \/ <<f, x>> \in R
<1>1. Cardinality(S) # 0 /\ Cardinality(S) \in Nat
  BY FS_EmptySet, FS_CardinalityType
<1>2. PICK f \in S : Rank(S, R, f) = 1
  BY <1>1, RankFacts
<1>3. ASSUME NEW x \in S, <<x, f>> \in R PROVE FALSE
  <2>1. Rank(S, R, x) < 1 /\ Rank(S, R, x) \in 1..Cardinality(S)
    BY <1>2, <1>3, RankFacts
  <2> QED  BY <1>1, <2>1
<1> QED  BY <1>3 DEF Sorts

\* A union of finitely many finite sets is finite.
LEMMA FiniteUnion ==
  ASSUME NEW n \in Nat, NEW F, \A i \in 1..n : IsFiniteSet(F[i])
  PROVE  IsFiniteSet(UNION {F[i] : i \in 1..n})
<1> DEFINE T == {F[i] : i \in 1..n}
           f == [i \in 1..n |-> F[i]]
<1>1. f \in Surjection(1..n, T)
  BY DEF Surjection
<1>2. IsFiniteSet(T)
  BY <1>1, Upto, FS_Surjection
<1>3. \A U \in T : IsFiniteSet(U)
  OBVIOUS
<1> HIDE DEF T
<1>4. IsFiniteSet(UNION T)
  BY <1>2, <1>3, FS_UNION
<1> QED  BY <1>4 DEF T

Places == Nat \X Nat

\* A sequence of lists is walked in either order.
LEMMA WalkSorts ==
  ASSUME NEW S \in SUBSET Places, NEW o \in {ByList, ByRank}
  PROVE  /\ Sorts(S, Walk(S, o))
         /\ \A a, b \in S : <<a, b>> \in Walk(S, o) <=> Precedes(o, a, b)
<1>1. \A a, b \in S : <<a, b>> \in Walk(S, o) <=> Precedes(o, a, b)
  BY DEF Walk
<1>2. \A a \in S : a[1] \in Nat /\ a[2] \in Nat /\ a = <<a[1], a[2]>>
  BY DEF Places
<1>3. \A a, b \in S : Precedes(o, a, b) <=>
         IF o = ByList THEN a[1] < b[1] \/ (a[1] = b[1] /\ a[2] < b[2])
         ELSE a[2] < b[2] \/ (a[2] = b[2] /\ a[1] < b[1])
  BY DEF Precedes, ByList, ByRank
<1>4. ASSUME NEW a \in S, NEW b \in S, a # b PROVE Precedes(o, a, b) \/ Precedes(o, b, a)
  <2>1. a[1] # b[1] \/ a[2] # b[2]
    BY <1>2, <1>4
  <2> QED  BY <1>2, <1>3, <2>1
<1>5. ASSUME NEW a \in S, NEW b \in S, NEW c \in S, Precedes(o, a, b), Precedes(o, b, c)
      PROVE  Precedes(o, a, c)
  BY <1>2, <1>3, <1>5
<1>6. \A a \in S : ~Precedes(o, a, a)
  BY <1>2, <1>3
<1> QED  BY <1>1, <1>4, <1>5, <1>6 DEF Sorts

\* The slots of lists.
LEMMA SlotFacts ==
  ASSUME NEW X, NEW ls \in Seq(Seq(X))
  PROVE  /\ \A s : s \in Slots(ls) <=> \E i \in 1..Len(ls) : \E r \in 1..Len(ls[i]) : s = <<i, r>>
         /\ IsFiniteSet(Slots(ls)) /\ Slots(ls) \in SUBSET Places
         /\ \A s \in Slots(ls) : /\ s[1] \in 1..Len(ls) /\ s[2] \in 1..Len(ls[s[1]])
                                 /\ s = <<s[1], s[2]>> /\ At(ls, s) = ls[s[1]][s[2]]
                                 /\ At(ls, s) \in X
<1>1. DOMAIN ls = 1..Len(ls) /\ Len(ls) \in Nat
  OBVIOUS
<1>2. \A i \in 1..Len(ls) : ls[i] \in Seq(X) /\ DOMAIN ls[i] = 1..Len(ls[i]) /\ Len(ls[i]) \in Nat
  OBVIOUS
<1> DEFINE F == [i \in 1..Len(ls) |-> {<<i, r>> : r \in DOMAIN ls[i]}]
<1>3. Slots(ls) = UNION {F[i] : i \in 1..Len(ls)}
  BY <1>1 DEF Slots
<1>4. ASSUME NEW i \in 1..Len(ls) PROVE IsFiniteSet(F[i])
  <2> DEFINE g == [r \in 1..Len(ls[i]) |-> <<i, r>>]
  <2>1. F[i] = {<<i, r>> : r \in 1..Len(ls[i])}
    BY <1>2
  <2>2. g \in Surjection(1..Len(ls[i]), F[i])
    BY <2>1 DEF Surjection
  <2>3. IsFiniteSet(1..Len(ls[i]))
    BY <1>2, Upto
  <2> HIDE DEF F, g
  <2> QED  BY <2>2, <2>3, FS_Surjection
<1>5. IsFiniteSet(Slots(ls))
  <2> HIDE DEF F
  <2>1. Len(ls) \in Nat
    OBVIOUS
  <2>2. IsFiniteSet(UNION {F[i] : i \in 1..Len(ls)})
    BY <1>4, <2>1, FiniteUnion
  <2> QED  BY <1>3, <2>2
<1>6. \A s : s \in Slots(ls) <=> \E i \in 1..Len(ls) : \E r \in 1..Len(ls[i]) : s = <<i, r>>
  BY <1>1, <1>2, <1>3
<1>7. Slots(ls) \in SUBSET Places
  BY <1>6 DEF Places
<1>8. \A s \in Slots(ls) : /\ s[1] \in 1..Len(ls) /\ s[2] \in 1..Len(ls[s[1]])
                           /\ s = <<s[1], s[2]>> /\ At(ls, s) = ls[s[1]][s[2]]
                           /\ At(ls, s) \in X
  BY <1>2, <1>6 DEF At
<1> QED  BY <1>5, <1>6, <1>7, <1>8

\* Every text is met for the first time at one slot.
LEMMA FirstFacts ==
  ASSUME NEW X, NEW ls \in Seq(Seq(X)), NEW o \in {ByList, ByRank}
  PROVE  /\ IsFiniteSet(FirstSeen(ls, o)) /\ FirstSeen(ls, o) \subseteq Slots(ls)
         /\ \A s \in Slots(ls) : \E f \in FirstSeen(ls, o) :
               At(ls, f).text = At(ls, s).text /\ (f = s \/ Precedes(o, f, s))
         /\ \A s, f \in FirstSeen(ls, o) : At(ls, s).text = At(ls, f).text => s = f
<1>1. FirstSeen(ls, o) \subseteq Slots(ls)
  BY DEF FirstSeen
<1>2. IsFiniteSet(FirstSeen(ls, o))
  BY <1>1, SlotFacts, FS_Subset
<1>3. ASSUME NEW s \in Slots(ls)
      PROVE  \E f \in FirstSeen(ls, o) :
                At(ls, f).text = At(ls, s).text /\ (f = s \/ Precedes(o, f, s))
  <2> DEFINE S == SlotsOf(ls, At(ls, s).text)
  <2>1. s \in S /\ S \subseteq Slots(ls)
    BY DEF SlotsOf
  <2>2. IsFiniteSet(S) /\ S \in SUBSET Places
    BY <2>1, SlotFacts, FS_Subset
  <2>3. \A x \in S : At(ls, x).text = At(ls, s).text
    BY DEF SlotsOf
  <2>4. \A x \in Slots(ls) : At(ls, x).text = At(ls, s).text => x \in S
    BY DEF SlotsOf
  <2> HIDE DEF S
  <2>5. Sorts(S, Walk(S, o))
    BY <2>2, WalkSorts
  <2>6. PICK f \in S : \A x \in S : x = f \/ <<f, x>> \in Walk(S, o)
    BY <2>1, <2>2, <2>5, SortedFirst
  <2>7. \A x \in S : x = f \/ Precedes(o, f, x)
    BY <2>2, <2>6, WalkSorts
  <2>8. ASSUME NEW x \in Slots(ls), Precedes(o, x, f), At(ls, x).text = At(ls, f).text PROVE FALSE
    <3>1. x \in S
      BY <2>3, <2>4, <2>8
    <3>2. <<x, f>> \in Walk(S, o) /\ (x = f \/ <<f, x>> \in Walk(S, o))
      BY <2>2, <2>6, <2>8, <3>1, WalkSorts
    <3> QED  BY <2>5, <3>1, <3>2 DEF Sorts
  <2>9. f \in FirstSeen(ls, o)
    BY <2>1, <2>8 DEF FirstSeen
  <2> QED  BY <2>1, <2>3, <2>7, <2>9
<1>4. ASSUME NEW s \in FirstSeen(ls, o), NEW f \in FirstSeen(ls, o),
             At(ls, s).text = At(ls, f).text, s # f
      PROVE  FALSE
  <2>1. s \in Slots(ls) /\ f \in Slots(ls) /\ Slots(ls) \in SUBSET Places
    BY <1>1, SlotFacts
  <2>2. Sorts(Slots(ls), Walk(Slots(ls), o))
    BY <2>1, WalkSorts
  <2>3. <<s, f>> \in Walk(Slots(ls), o) \/ <<f, s>> \in Walk(Slots(ls), o)
    BY <1>4, <2>1, <2>2 DEF Sorts
  <2>4. Precedes(o, s, f) \/ Precedes(o, f, s)
    BY <2>1, <2>3, WalkSorts
  <2> QED  BY <1>4, <2>1, <2>4 DEF FirstSeen
<1> QED  BY <1>1, <1>2, <1>3, <1>4

\* A merge puts the slots where a text is met first one after the other.
Merges(ls, o, R, M) ==
    /\ Sorts(FirstSeen(ls, o), R)
    /\ DOMAIN M = 1..Cardinality(FirstSeen(ls, o))
    /\ \A n \in DOMAIN M : M[n].text = At(ls, InOrder(FirstSeen(ls, o), R)[n]).text

Place(ls, o, R, s) == Rank(FirstSeen(ls, o), R, s)

\* A merge has every text of the lists once, where its first slot stands.
LEMMA MergeFacts ==
  ASSUME NEW X, NEW ls \in Seq(Seq(X)), NEW o \in {ByList, ByRank}, NEW R,
         NEW Y, NEW M \in Seq(Y), Merges(ls, o, R, M)
  PROVE  /\ Distinct(M)
         /\ \A t : t \in TextsOf(M) <=> \E i \in 1..Len(ls) : t \in TextsOf(ls[i])
         /\ \A s \in FirstSeen(ls, o) :
               Place(ls, o, R, s) \in 1..Len(M) /\ M[Place(ls, o, R, s)].text = At(ls, s).text
         /\ \A n \in 1..Len(M) : \E s \in FirstSeen(ls, o) :
               Place(ls, o, R, s) = n /\ M[n].text = At(ls, s).text
<1> DEFINE S == FirstSeen(ls, o)
<1>1. /\ IsFiniteSet(S) /\ S \subseteq Slots(ls)
      /\ \A s \in Slots(ls) : \E f \in S : At(ls, f).text = At(ls, s).text
      /\ \A s, f \in S : At(ls, s).text = At(ls, f).text => s = f
  BY FirstFacts
<1>2. Sorts(S, R) /\ \A n \in DOMAIN M : M[n].text = At(ls, InOrder(S, R)[n]).text
  BY DEF Merges
<1>3. DOMAIN M = 1..Len(M) /\ Len(M) = Cardinality(S)
  <2>1. DOMAIN M = 1..Len(M) /\ Len(M) \in Nat /\ Cardinality(S) \in Nat
    BY <1>1, FS_CardinalityType
  <2>2. 1..Len(M) = 1..Cardinality(S)
    BY <2>1 DEF Merges
  <2>3. Cardinality(1..Len(M)) = Len(M) /\ Cardinality(1..Cardinality(S)) = Cardinality(S)
    BY <2>1, Upto
  <2> QED  BY <2>1, <2>2, <2>3
<1> HIDE DEF S
<1>4. /\ InOrder(S, R) \in [1..Len(M) -> S]
      /\ \A s \in S : Rank(S, R, s) \in 1..Len(M) /\ InOrder(S, R)[Rank(S, R, s)] = s
      /\ \A n \in 1..Len(M) : Rank(S, R, InOrder(S, R)[n]) = n
  BY <1>1, <1>2, <1>3, InOrderFacts
<1>5. \A s \in S : Rank(S, R, s) \in 1..Len(M) /\ M[Rank(S, R, s)].text = At(ls, s).text
  BY <1>2, <1>3, <1>4
<1>6. \A n \in 1..Len(M) : \E s \in S : Rank(S, R, s) = n /\ M[n].text = At(ls, s).text
  BY <1>2, <1>3, <1>4
<1>7. Distinct(M)
  <2> SUFFICES ASSUME NEW m \in 1..Len(M), NEW n \in 1..Len(M), M[m].text = M[n].text PROVE m = n
    BY <1>3 DEF Distinct
  <2>1. InOrder(S, R)[m] \in S /\ InOrder(S, R)[n] \in S
    BY <1>4
  <2>2. At(ls, InOrder(S, R)[m]).text = At(ls, InOrder(S, R)[n]).text
    BY <1>2, <1>3
  <2>3. InOrder(S, R)[m] = InOrder(S, R)[n]
    BY <1>1, <2>1, <2>2
  <2> QED  BY <1>4, <2>3
<1>8. ASSUME NEW t PROVE t \in TextsOf(M) <=> \E i \in 1..Len(ls) : t \in TextsOf(ls[i])
  <2>0. \A i \in 1..Len(ls) : DOMAIN ls[i] = 1..Len(ls[i])
    OBVIOUS
  <2>1. ASSUME t \in TextsOf(M) PROVE \E i \in 1..Len(ls) : t \in TextsOf(ls[i])
    <3>1. PICK n \in 1..Len(M) : M[n].text = t
      BY <1>3, <2>1 DEF TextsOf
    <3>2. PICK s \in S : t = At(ls, s).text
      BY <1>6, <3>1
    <3>3. s[1] \in 1..Len(ls) /\ s[2] \in 1..Len(ls[s[1]]) /\ At(ls, s) = ls[s[1]][s[2]]
      BY <1>1, SlotFacts
    <3>4. t \in TextsOf(ls[s[1]])
      BY <2>0, <3>2, <3>3 DEF TextsOf
    <3> QED  BY <3>3, <3>4
  <2>2. ASSUME NEW i \in 1..Len(ls), t \in TextsOf(ls[i]) PROVE t \in TextsOf(M)
    <3>1. PICK r \in 1..Len(ls[i]) : ls[i][r].text = t
      BY <2>0, <2>2 DEF TextsOf
    <3>2. <<i, r>> \in Slots(ls) /\ At(ls, <<i, r>>).text = t
      BY <3>1, SlotFacts DEF At
    <3>3. PICK f \in S : At(ls, f).text = t
      BY <1>1, <3>2
    <3> QED  BY <1>3, <1>5, <3>3 DEF TextsOf
  <2> QED  BY <2>1, <2>2
<1> QED  BY <1>5, <1>6, <1>7, <1>8 DEF S, Place

-----------------------------------------------------------------------------
(* The store and what a backend returns of it.                             *)

\* The texts that are stored, and the types of what a request reads.
StoredTexts == {t \in Texts : copies[t] > 0}

InputsOK ==
    /\ conf \in ConfType
    /\ copies \in [Texts -> Nat]
    /\ meaning \in [Queries -> Orders]
    /\ words \in [Queries -> Matches]
    /\ rating \in [Texts -> 0..1]

Once(s) == \A i, j \in 1..Len(s) : s[i] = s[j] => i = j

\* An order has every text once, a match some.
LEMMA OrderFacts ==
  ASSUME NEW f \in Orders
  PROVE  f \in Seq(Texts) /\ Once(f) /\ \A t \in Texts : \E i \in 1..Len(f) : f[i] = t
<1>1. IsFiniteSet(Texts) /\ Cardinality(Texts) \in Nat
  BY RetrievalAssumption, FS_CardinalityType
<1>2. f \in [1..Cardinality(Texts) -> Texts]
      /\ \A i, j \in 1..Cardinality(Texts) : i # j => f[i] # f[j]
  BY DEF Orders, SetToSeqs
<1>3. f \in Seq(Texts) /\ Len(f) = Cardinality(Texts)
  BY <1>1, <1>2
<1>4. f \in Injection(1..Cardinality(Texts), Texts)
  BY <1>2 DEF Injection, IsInjective
<1>5. Cardinality(1..Cardinality(Texts)) = Cardinality(Texts) /\ IsFiniteSet(1..Cardinality(Texts))
  BY <1>1, Upto
<1>6. f \in Surjection(1..Cardinality(Texts), Texts)
  BY <1>1, <1>4, <1>5, FS_Injection
<1>7. \A t \in Texts : \E i \in 1..Cardinality(Texts) : f[i] = t
  BY <1>6 DEF Surjection
<1> QED  BY <1>2, <1>3, <1>7 DEF Once

\* A query matches texts, each once.
LEMMA MatchFacts ==
  ASSUME NEW f \in Matches
  PROVE  f \in Seq(Texts) /\ Once(f)
<1>1. PICK S \in SUBSET Texts : f \in SetToSeqs(S)
  BY DEF Matches
<1>2. Cardinality(S) \in Nat
  BY RetrievalAssumption, FS_Subset, FS_CardinalityType
<1>3. f \in [1..Cardinality(S) -> S]
      /\ \A i, j \in 1..Cardinality(S) : i # j => f[i] # f[j]
  BY <1>1 DEF SetToSeqs
<1>4. f \in [1..Cardinality(S) -> Texts]
  BY <1>3
<1>5. f \in Seq(Texts) /\ Len(f) = Cardinality(S)
  BY <1>2, <1>4
<1> QED  BY <1>3, <1>5 DEF Once

\* The chunks of an order are pairs of a place in it and a copy.
LEMMA StoredFacts ==
  ASSUME InputsOK, NEW texts \in Seq(Texts)
  PROVE  /\ \A s : s \in Stored(texts) <=>
               \E i \in 1..Len(texts) : \E c \in 1..copies[texts[i]] : s = <<i, c>>
         /\ IsFiniteSet(Stored(texts)) /\ Stored(texts) \in SUBSET Places
<1>1. DOMAIN texts = 1..Len(texts) /\ Len(texts) \in Nat
  OBVIOUS
<1>2. \A i \in 1..Len(texts) : texts[i] \in Texts /\ copies[texts[i]] \in Nat
  BY DEF InputsOK
<1> DEFINE F == [i \in 1..Len(texts) |-> {<<i, c>> : c \in 1..copies[texts[i]]}]
<1>3. Stored(texts) = UNION {F[i] : i \in 1..Len(texts)}
  BY <1>1 DEF Stored
<1>4. ASSUME NEW i \in 1..Len(texts) PROVE IsFiniteSet(F[i])
  <2> DEFINE g == [c \in 1..copies[texts[i]] |-> <<i, c>>]
  <2>1. F[i] = {<<i, c>> : c \in 1..copies[texts[i]]}
    OBVIOUS
  <2>2. g \in Surjection(1..copies[texts[i]], F[i])
    BY <2>1 DEF Surjection
  <2>3. IsFiniteSet(1..copies[texts[i]])
    BY <1>2, Upto
  <2> HIDE DEF F, g
  <2> QED  BY <2>2, <2>3, FS_Surjection
<1>5. IsFiniteSet(Stored(texts))
  <2> HIDE DEF F
  <2>1. Len(texts) \in Nat
    OBVIOUS
  <2>2. IsFiniteSet(UNION {F[i] : i \in 1..Len(texts)})
    BY <1>4, <2>1, FiniteUnion
  <2> QED  BY <1>3, <2>2
<1>6. \A s : s \in Stored(texts) <=>
         \E i \in 1..Len(texts) : \E c \in 1..copies[texts[i]] : s = <<i, c>>
  BY <1>3
<1>7. Stored(texts) \in SUBSET Places
  BY <1>2, <1>6 DEF Places
<1> QED  BY <1>5, <1>6, <1>7

\* Ranked has every chunk, a text that is stored once one time.
LEMMA RankedFacts ==
  ASSUME InputsOK, NEW texts \in Seq(Texts), Once(texts)
  PROVE  /\ Ranked(texts) \in Seq(HitType)
         /\ \A t : t \in TextsOf(Ranked(texts)) <=> t \in StoredTexts /\ \E i \in 1..Len(texts) : texts[i] = t
         /\ \A m, n \in 1..Len(Ranked(texts)) :
               Ranked(texts)[m].text = Ranked(texts)[n].text /\ copies[Ranked(texts)[m].text] = 1 => m = n
<1> DEFINE S == Stored(texts)
           R == Walk(S, ByList)
           N == Cardinality(S)
           order == InOrder(S, R)
           s == Ranked(texts)
<1>1. /\ \A x : x \in S <=> \E i \in 1..Len(texts) : \E c \in 1..copies[texts[i]] : x = <<i, c>>
      /\ IsFiniteSet(S) /\ S \in SUBSET Places
  BY StoredFacts
<1>2. Sorts(S, R)
  BY <1>1, WalkSorts
<1>3. s = [m \in DOMAIN order |-> Hit(texts[order[m][1]], Len(texts) - order[m][1])]
  BY DEF Ranked
<1> HIDE DEF S, R
<1>4. /\ N \in Nat /\ order \in [1..N -> S]
      /\ \A x \in S : Rank(S, R, x) \in 1..N /\ order[Rank(S, R, x)] = x
      /\ \A n \in 1..N : Rank(S, R, order[n]) = n
  BY <1>1, <1>2, InOrderFacts
<1> HIDE DEF order, N, s
<1>5. ASSUME NEW m \in 1..N
      PROVE  /\ order[m] \in S /\ order[m][1] \in 1..Len(texts)
             /\ order[m] = <<order[m][1], order[m][2]>>
             /\ order[m][2] \in 1..copies[texts[order[m][1]]]
             /\ texts[order[m][1]] \in Texts /\ copies[texts[order[m][1]]] \in Nat
  <2>1. order[m] \in S
    BY <1>4
  <2>2. PICK i \in 1..Len(texts) : \E c \in 1..copies[texts[i]] : order[m] = <<i, c>>
    BY <1>1, <2>1
  <2>3. texts[i] \in Texts /\ copies[texts[i]] \in Nat
    BY DEF InputsOK
  <2> QED  BY <2>1, <2>2, <2>3
<1>6. s = [m \in 1..N |-> [text |-> texts[order[m][1]], score |-> Len(texts) - order[m][1]]]
  BY <1>3, <1>4 DEF Hit
<1>7. \A m \in 1..N : s[m] \in HitType /\ s[m].text = texts[order[m][1]]
  <2> SUFFICES ASSUME NEW m \in 1..N PROVE s[m] \in HitType /\ s[m].text = texts[order[m][1]]
    OBVIOUS
  <2>1. Len(texts) - order[m][1] \in Int
    BY <1>5
  <2> QED  BY <1>5, <1>6, <2>1 DEF HitType
<1>8. s \in Seq(HitType) /\ Len(s) = N /\ DOMAIN s = 1..N
  BY <1>4, <1>6, <1>7
<1>9. ASSUME NEW m \in 1..N, NEW n \in 1..N, s[m].text = s[n].text, copies[s[m].text] = 1
      PROVE  m = n
  <2>1. order[m][1] = order[n][1]
    <3>1. texts[order[m][1]] = texts[order[n][1]]
      BY <1>7, <1>9
    <3>2. order[m][1] \in 1..Len(texts) /\ order[n][1] \in 1..Len(texts)
      BY <1>5
    <3> QED  BY <3>1, <3>2 DEF Once
  <2>2. copies[texts[order[m][1]]] = 1 /\ copies[texts[order[n][1]]] = 1
    BY <1>7, <1>9
  <2>3. order[m][2] \in 1..1 /\ order[n][2] \in 1..1
    BY <1>5, <2>2
  <2>4. order[m] = order[n]
    <3>1. order[m] = <<order[m][1], order[m][2]>> /\ order[n] = <<order[n][1], order[n][2]>>
      BY <1>5
    <3> QED  BY <2>1, <2>3, <3>1
  <2> QED  BY <1>4, <2>4
<1>10. ASSUME NEW t
       PROVE  t \in TextsOf(s) <=> t \in StoredTexts /\ \E i \in 1..Len(texts) : texts[i] = t
  <2>1. ASSUME t \in TextsOf(s) PROVE t \in StoredTexts /\ \E i \in 1..Len(texts) : texts[i] = t
    <3>1. PICK m \in 1..N : s[m].text = t
      BY <1>8, <2>1 DEF TextsOf
    <3> QED  BY <1>5, <1>7, <3>1 DEF StoredTexts
  <2>2. ASSUME t \in StoredTexts, NEW i \in 1..Len(texts), texts[i] = t PROVE t \in TextsOf(s)
    <3>1. <<i, 1>> \in S
      <4>1. copies[t] \in Nat /\ copies[t] > 0
        BY <2>2 DEF StoredTexts, InputsOK
      <4>2. 1 \in 1..copies[texts[i]]
        BY <2>2, <4>1
      <4> QED  BY <1>1, <4>2
    <3>2. PICK m \in 1..N : order[m] = <<i, 1>>
      BY <1>4, <3>1
    <3>3. s[m].text = t
      BY <1>7, <2>2, <3>2
    <3> QED  BY <1>8, <3>3 DEF TextsOf
  <2> QED  BY <2>1, <2>2
<1> QED  BY <1>8, <1>9, <1>10 DEF s

-----------------------------------------------------------------------------
(* The stages.                                                             *)

\* main.py:346-348.  The pool is as wide as every stage needs.
LEMMA PoolFacts ==
  ASSUME InputsOK, NEW n \in Nat
  PROVE  /\ Pool(n) \in Nat /\ Pool(n) \in {n, conf.rerank, conf.mmr}
         /\ n <= Pool(n) /\ conf.rerank <= Pool(n) /\ conf.mmr <= Pool(n)
<1>1. conf.rerank \in Nat /\ conf.mmr \in Nat
  BY DEF InputsOK, ConfType
<1>2. ASSUME NEW a \in Nat, NEW b \in Nat, NEW c \in Nat
      PROVE  /\ Max({a, b, c}) \in {a, b, c}
             /\ a <= Max({a, b, c}) /\ b <= Max({a, b, c}) /\ c <= Max({a, b, c})
  <2>1. \E x \in {a, b, c} : \A y \in {a, b, c} : x >= y
    OBVIOUS
  <2>2. Max({a, b, c}) \in {a, b, c} /\ \A y \in {a, b, c} : Max({a, b, c}) >= y
    BY <2>1 DEF Max
  <2> QED  BY <2>2
<1>3. /\ Pool(n) \in {n, conf.rerank, conf.mmr}
      /\ n <= Pool(n) /\ conf.rerank <= Pool(n) /\ conf.mmr <= Pool(n)
  BY <1>1, <1>2 DEF Pool
<1> QED  BY <1>1, <1>3

\* What a slot contributes.
Contributed(ls, t) == [s \in SlotsOf(ls, t) |-> Weight(s[2])]

\* The fused score of a text is the sum of the contributions, a number.
LEMMA FusedFacts ==
  ASSUME NEW X, NEW ls \in Seq(Seq(X)), NEW t
  PROVE  /\ Fused(ls, t) \in Nat
         /\ IsFiniteSet(SlotsOf(ls, t))
         /\ \A s \in SlotsOf(ls, t) : Contributed(ls, t)[s] = Weight(s[2]) /\ Weight(s[2]) \in Nat
         /\ Fused(ls, t) = SumFunctionOnSet(Contributed(ls, t), SlotsOf(ls, t))
<1> DEFINE S == SlotsOf(ls, t)
           w == Contributed(ls, t)
<1>1. S \subseteq Slots(ls)
  BY DEF SlotsOf
<1>2. IsFiniteSet(S)
  BY <1>1, SlotFacts, FS_Subset
<1>3. ASSUME NEW s \in S PROVE w[s] = Weight(s[2]) /\ Weight(s[2]) \in Nat
  <2>1. s \in Places
    BY <1>1, SlotFacts
  <2>2. s[2] \in Nat
    BY <2>1 DEF Places
  <2>3. w[s] = Weight(s[2])
    BY DEF Contributed
  <2> QED  BY <2>2, <2>3, WeightFacts
<1>4. Fused(ls, t) = SumFunctionOnSet(w, S)
  <2>1. DOMAIN w = S
    BY DEF Contributed
  <2>2. Fused(ls, t) = SumFunction(w)
    BY DEF Fused, Contributed
  <2> HIDE DEF w, S
  <2> QED  BY <2>1, <2>2 DEF SumFunction
<1> HIDE DEF S, w
<1>5. \A x \in S : w[x] \in Nat
  BY <1>3
<1>6. SumFunctionOnSet(w, S) \in Nat
  BY <1>2, <1>5, SumFacts
<1> QED  BY <1>2, <1>3, <1>4, <1>6 DEF S, w

\* The same, for one text.
LEMMA FusedIsNumber ==
  ASSUME NEW X, NEW ls \in Seq(Seq(X)), NEW t
  PROVE  Fused(ls, t) \in Nat
BY FusedFacts

\* A fusion before it is cut.
RrfAll(ls) ==
    LET first == FirstSeen(ls, ByList)
        order == InOrder(first, ByScore(ls, first))
        text == [n \in DOMAIN order |-> At(ls, order[n]).text]
    IN  [n \in DOMAIN order |-> Hit(text[n], Fused(ls, text[n]))]

\* ranking.py:40-42.  Falling score, and the order of the dict, is an order.
LEMMA ByScoreSorts ==
  ASSUME NEW X, NEW ls \in Seq(Seq(X)), NEW S \in SUBSET Slots(ls)
  PROVE  /\ Sorts(S, ByScore(ls, S))
         /\ \A a, b \in S : <<a, b>> \in ByScore(ls, S) <=>
               \/ Fused(ls, At(ls, a).text) > Fused(ls, At(ls, b).text)
               \/ Fused(ls, At(ls, a).text) = Fused(ls, At(ls, b).text) /\ Precedes(ByList, a, b)
<1> DEFINE score == [s \in S |-> Fused(ls, At(ls, s).text)]
           R == ByScore(ls, S)
           W == Walk(S, ByList)
<1>1. \A s \in S : score[s] \in Nat
  <2> SUFFICES ASSUME NEW s \in S PROVE Fused(ls, At(ls, s).text) \in Nat
    OBVIOUS
  <2> QED  BY FusedIsNumber
<1>2. S \in SUBSET Places
  BY SlotFacts
<1>3. Sorts(S, W) /\ \A a, b \in S : <<a, b>> \in W <=> Precedes(ByList, a, b)
  BY <1>2, WalkSorts
<1>4. \A a, b \in S : <<a, b>> \in R <=>
         \/ score[a] > score[b]
         \/ score[a] = score[b] /\ Precedes(ByList, a, b)
  BY DEF ByScore
<1> HIDE DEF W
<1>5. \A a, b \in S : <<a, b>> \in R <=>
         \/ score[a] > score[b]
         \/ score[a] = score[b] /\ <<a, b>> \in W
  BY <1>3, <1>4
<1> HIDE DEF score, R
<1>6. ASSUME NEW a \in S PROVE <<a, a>> \notin R
  <2>1. score[a] \in Nat /\ <<a, a>> \notin W
    BY <1>1, <1>3 DEF Sorts
  <2> QED  BY <1>5, <2>1
<1>7. ASSUME NEW a \in S, NEW b \in S, a # b PROVE <<a, b>> \in R \/ <<b, a>> \in R
  BY <1>1, <1>3, <1>5, <1>7 DEF Sorts
<1>8. ASSUME NEW a \in S, NEW b \in S, NEW c \in S, <<a, b>> \in R, <<b, c>> \in R
      PROVE  <<a, c>> \in R
  <2>1. score[a] \in Nat /\ score[b] \in Nat /\ score[c] \in Nat
    BY <1>1
  <2>2. <<a, b>> \in W /\ <<b, c>> \in W => <<a, c>> \in W
    BY <1>3 DEF Sorts
  <2> QED  BY <1>5, <1>8, <2>1, <2>2
<1>9. Sorts(S, R)
  BY <1>6, <1>7, <1>8 DEF Sorts
<1> QED  BY <1>4, <1>9 DEF score, R

\* ranking.py:20-43.  rrf_merge is a merge, by score.
LEMMA RrfFacts ==
  ASSUME NEW ls \in Seq(Seq(HitType))
  PROVE  /\ RrfAll(ls) \in Seq(HitType)
         /\ Merges(ls, ByList, ByScore(ls, FirstSeen(ls, ByList)), RrfAll(ls))
<1> DEFINE S == FirstSeen(ls, ByList)
           R == ByScore(ls, S)
           order == InOrder(S, R)
           N == Cardinality(S)
           text == [n \in DOMAIN order |-> At(ls, order[n]).text]
           M == RrfAll(ls)
<1>1. IsFiniteSet(S) /\ S \in SUBSET Slots(ls)
  BY FirstFacts
<1>2. Sorts(S, R)
  BY <1>1, ByScoreSorts
<1>3. M = [n \in DOMAIN order |-> Hit(text[n], Fused(ls, text[n]))]
  BY DEF RrfAll
<1> HIDE DEF S, R, M
<1>4. N \in Nat /\ order \in [1..N -> S]
  BY <1>1, <1>2, InOrderFacts
<1> HIDE DEF order, N
<1>5. ASSUME NEW n \in 1..N PROVE text[n] = At(ls, order[n]).text /\ text[n] \in Texts
  <2>1. order[n] \in Slots(ls)
    BY <1>1, <1>4
  <2>2. At(ls, order[n]) \in HitType
    BY <2>1, SlotFacts
  <2>3. text[n] = At(ls, order[n]).text
    BY <1>4
  <2> QED  BY <2>2, <2>3 DEF HitType
<1> HIDE DEF text
<1>6. ASSUME NEW n \in 1..N PROVE Fused(ls, text[n]) \in Nat
  BY FusedIsNumber
<1>7. M = [n \in 1..N |-> [text |-> text[n], score |-> Fused(ls, text[n])]]
  BY <1>3, <1>4 DEF Hit
<1>8. \A n \in 1..N : M[n] \in HitType /\ M[n].text = At(ls, order[n]).text
  BY <1>5, <1>6, <1>7 DEF HitType
<1>9. M \in Seq(HitType) /\ DOMAIN M = 1..N
  BY <1>4, <1>7, <1>8
<1>10. Merges(ls, ByList, R, M)
  BY <1>2, <1>8, <1>9 DEF Merges, S, order, N
<1> QED  BY <1>9, <1>10 DEF S, R, M

InterleaveAll(ls) ==
    LET first == FirstSeen(ls, ByRank)
        walked == InOrder(first, Walk(first, ByRank))
    IN  [n \in DOMAIN walked |-> At(ls, walked[n])]

\* ranking.py:46-68.  interleave_merge is a merge, by rank.
LEMMA InterleaveFacts ==
  ASSUME NEW X, NEW ls \in Seq(Seq(X))
  PROVE  /\ InterleaveAll(ls) \in Seq(X)
         /\ Merges(ls, ByRank, Walk(FirstSeen(ls, ByRank), ByRank), InterleaveAll(ls))
<1> DEFINE S == FirstSeen(ls, ByRank)
           R == Walk(S, ByRank)
           walked == InOrder(S, R)
           N == Cardinality(S)
           M == InterleaveAll(ls)
<1>1. IsFiniteSet(S) /\ S \in SUBSET Slots(ls)
  BY FirstFacts
<1>2. Sorts(S, R)
  BY <1>1, SlotFacts, WalkSorts
<1>3. M = [n \in DOMAIN walked |-> At(ls, walked[n])]
  BY DEF InterleaveAll
<1> HIDE DEF S, R, M
<1>4. N \in Nat /\ walked \in [1..N -> S]
  BY <1>1, <1>2, InOrderFacts
<1> HIDE DEF walked, N
<1>5. M = [n \in 1..N |-> At(ls, walked[n])]
  BY <1>3, <1>4
<1>6. \A n \in 1..N : M[n] \in X
  <2> SUFFICES ASSUME NEW n \in 1..N PROVE M[n] \in X
    OBVIOUS
  <2>1. walked[n] \in Slots(ls) /\ M[n] = At(ls, walked[n])
    BY <1>1, <1>4, <1>5
  <2> QED  BY <2>1, SlotFacts
<1>7. M \in Seq(X) /\ DOMAIN M = 1..N
  BY <1>4, <1>5, <1>6
<1>8. Merges(ls, ByRank, R, M)
  BY <1>2, <1>5, <1>7 DEF Merges, S, walked, N
<1> QED  BY <1>7, <1>8 DEF S, R, M

\* The reranker's order before it is cut.
RerankAll(s) ==
    LET order == InOrder(DOMAIN s, ByRating(s))
    IN  [m \in DOMAIN order |-> Hit(s[order[m]].text, rating[s[order[m]].text])]

\* reranker.py:66-83.  Reranking loses and adds no hit.
LEMMA RerankFacts ==
  ASSUME InputsOK, NEW s \in Seq(HitType)
  PROVE  /\ RerankAll(s) \in Seq(HitType) /\ Len(RerankAll(s)) = Len(s)
         /\ TextsOf(RerankAll(s)) = TextsOf(s)
         /\ Distinct(s) => Distinct(RerankAll(s))
<1> DEFINE S == 1..Len(s)
           R == ByRating(s)
           order == InOrder(S, R)
           M == RerankAll(s)
<1>1. /\ DOMAIN s = S /\ Len(s) \in Nat
      /\ IsFiniteSet(S) /\ Cardinality(S) = Len(s)
      /\ \A i \in S : s[i] \in HitType
  <2>1. DOMAIN s = S /\ Len(s) \in Nat /\ \A i \in S : s[i] \in HitType
    OBVIOUS
  <2> QED  BY <2>1, Upto
<1>2. M = [m \in DOMAIN order |-> Hit(s[order[m]].text, rating[s[order[m]].text])]
  BY <1>1 DEF RerankAll
<1>3. \A i \in S : s[i].text \in Texts /\ rating[s[i].text] \in 0..1
  BY <1>1 DEF HitType, InputsOK
<1>4. \A i, j \in S : <<i, j>> \in R <=>
         \/ rating[s[i].text] > rating[s[j].text]
         \/ rating[s[i].text] = rating[s[j].text] /\ i < j
  BY <1>1 DEF ByRating
<1> HIDE DEF R, M
<1>5. Sorts(S, R)
  <2> DEFINE r == [i \in S |-> rating[s[i].text]]
  <2>1. \A i \in S : r[i] \in 0..1 /\ i \in Nat
    BY <1>3
  <2>2. \A i, j \in S : <<i, j>> \in R <=> r[i] > r[j] \/ (r[i] = r[j] /\ i < j)
    BY <1>4
  <2> HIDE DEF r, S
  <2>3. \A i \in S : <<i, i>> \notin R
    BY <2>1, <2>2
  <2>4. ASSUME NEW i \in S, NEW j \in S, i # j PROVE <<i, j>> \in R \/ <<j, i>> \in R
    BY <2>1, <2>2, <2>4
  <2>5. ASSUME NEW a \in S, NEW b \in S, NEW c \in S, <<a, b>> \in R, <<b, c>> \in R
        PROVE  <<a, c>> \in R
    BY <2>1, <2>2, <2>5
  <2> QED  BY <2>3, <2>4, <2>5 DEF Sorts
<1>6. /\ order \in [S -> S]
      /\ \A x \in S : \E n \in S : order[n] = x
      /\ \A m, n \in S : order[m] = order[n] => m = n
  <2> HIDE DEF S
  <2>1. IsFiniteSet(S) /\ Cardinality(S) = Len(s) /\ S = 1..Len(s)
    BY <1>1 DEF S
  <2>2. /\ order \in [1..Cardinality(S) -> S]
        /\ \A x \in S : Rank(S, R, x) \in 1..Cardinality(S) /\ order[Rank(S, R, x)] = x
        /\ \A n \in 1..Cardinality(S) : Rank(S, R, order[n]) = n
    BY <1>5, <2>1, InOrderFacts
  <2> HIDE DEF order
  <2> QED  BY <2>1, <2>2
<1> HIDE DEF order
<1>7. M = [m \in S |-> [text |-> s[order[m]].text, score |-> rating[s[order[m]].text]]]
  BY <1>2, <1>6 DEF Hit
<1>8. ASSUME NEW m \in S PROVE M[m] \in HitType /\ M[m].text = s[order[m]].text
  <2>0. order[m] \in S
    BY <1>6
  <2>1. s[order[m]].text \in Texts /\ rating[s[order[m]].text] \in Int
    BY <1>3, <2>0
  <2>2. M[m] = [text |-> s[order[m]].text, score |-> rating[s[order[m]].text]]
    BY <1>7
  <2> QED  BY <2>1, <2>2 DEF HitType
<1>9. M \in Seq(HitType) /\ Len(M) = Len(s) /\ DOMAIN M = S
  BY <1>1, <1>7, <1>8
<1>10. TextsOf(M) = TextsOf(s)
  <2> HIDE DEF S
  <2>1. \A i \in S : \E m \in S : s[i].text = M[m].text
    BY <1>6, <1>8
  <2>2. \A m \in S : \E i \in S : s[i].text = M[m].text
    BY <1>6, <1>8
  <2>3. ASSUME NEW t PROVE t \in TextsOf(M) <=> t \in TextsOf(s)
    <3>1. t \in TextsOf(M) <=> \E m \in S : M[m].text = t
      BY <1>9 DEF TextsOf
    <3>2. t \in TextsOf(s) <=> \E i \in S : s[i].text = t
      BY <1>1 DEF TextsOf
    <3> QED  BY <2>1, <2>2, <3>1, <3>2
  <2> QED  BY <2>3
<1>11. Distinct(s) => Distinct(M)
  <2> HIDE DEF S
  <2> SUFFICES ASSUME Distinct(s), NEW m \in S, NEW n \in S, M[m].text = M[n].text PROVE m = n
    BY <1>9 DEF Distinct
  <2>1. order[m] \in S /\ order[n] \in S /\ s[order[m]].text = s[order[n]].text
    BY <1>6, <1>8
  <2>2. order[m] = order[n]
    BY <1>1, <2>1 DEF Distinct
  <2> QED  BY <1>6, <2>2
<1> QED  BY <1>9, <1>10, <1>11 DEF M

-----------------------------------------------------------------------------
(* MMR.                                                                    *)

\* A finite set of integers has a least and a greatest member.
LEMMA Extremes ==
  ASSUME NEW T \in SUBSET Int, IsFiniteSet(T), T # {}
  PROVE  Max(T) \in T /\ Min(T) \in T /\ \A x \in T : Min(T) <= x /\ x <= Max(T)
<1> DEFINE up == {p \in T \X T : p[1] > p[2]}
           down == {p \in T \X T : p[1] < p[2]}
<1>1. /\ \A x, y \in T : <<x, y>> \in up <=> x > y
      /\ \A x, y \in T : <<x, y>> \in down <=> x < y
  OBVIOUS
<1> HIDE DEF up, down
<1>2. Sorts(T, up) /\ Sorts(T, down)
  BY <1>1 DEF Sorts
<1>3. PICK a \in T : \A x \in T : x = a \/ <<a, x>> \in up
  BY <1>2, SortedFirst
<1>4. PICK b \in T : \A x \in T : x = b \/ <<b, x>> \in down
  BY <1>2, SortedFirst
<1>5. ASSUME NEW x \in T PROVE a >= x /\ b <= x
  <2>1. (x = a \/ a > x) /\ (x = b \/ b < x)
    BY <1>1, <1>3, <1>4
  <2> QED  BY <2>1
<1>6. Max(T) \in T /\ \A x \in T : Max(T) >= x
  BY <1>5 DEF Max
<1>7. Min(T) \in T /\ \A x \in T : Min(T) <= x
  BY <1>5 DEF Min
<1> QED  BY <1>6, <1>7

\* Two things are a finite set, and two numbers have a lesser one.
LEMMA TwoFinite ==
  ASSUME NEW x, NEW y PROVE IsFiniteSet({x, y})
<1>1. IsFiniteSet({x}) /\ IsFiniteSet({y})
  BY FS_Singleton
<1>2. IsFiniteSet({x} \cup {y})
  BY <1>1, FS_Union
<1>3. {x, y} = {x} \cup {y}
  OBVIOUS
<1> QED  BY <1>2, <1>3

LEMMA Lesser ==
  ASSUME NEW x \in Nat, NEW y \in Nat
  PROVE  Min({x, y}) \in Nat /\ Min({x, y}) <= x /\ Min({x, y}) <= y
<1> DEFINE T == {x, y}
<1>1. x \in T /\ y \in T /\ T \subseteq Nat /\ T \in SUBSET Int
  OBVIOUS
<1>2. IsFiniteSet(T)
  BY TwoFinite
<1> HIDE DEF T
<1>3. Min(T) \in T /\ \A z \in T : Min(T) <= z
  BY <1>1, <1>2, Extremes
<1>4. Min(T) \in Nat /\ Min(T) <= x /\ Min(T) <= y
  BY <1>1, <1>3
<1> QED  BY <1>4 DEF T

\* The image of a finite set.
LEMMA FiniteImage ==
  ASSUME NEW S, IsFiniteSet(S), NEW f
  PROVE  /\ IsFiniteSet({f[x] : x \in S})
         /\ Cardinality({f[x] : x \in S}) <= Cardinality(S)
<1> DEFINE T == {f[x] : x \in S}
           g == [x \in S |-> f[x]]
<1>1. g \in Surjection(S, T)
  BY DEF Surjection
<1> HIDE DEF g, T
<1>2. IsFiniteSet(T) /\ Cardinality(T) <= Cardinality(S)
  BY <1>1, FS_Surjection
<1> QED  BY <1>2 DEF T

\* The best of what is left is left.
LEMMA BestFacts ==
  ASSUME NEW s \in Seq(HitType), NEW d \in 0..2, NEW chosen,
         DOMAIN s \ chosen # {}, IsFiniteSet(chosen), chosen \subseteq DOMAIN s
  PROVE  Best(s, d, chosen) \in DOMAIN s \ chosen
<1> DEFINE scores == {s[i].score : i \in DOMAIN s}
           span == IF Max(scores) = Min(scores) THEN 1 ELSE Max(scores) - Min(scores)
           redundancy(i) == Max({0} \cup {Cosine(s[i].text, s[j].text) : j \in chosen})
           value(i) == (2 - d) * (s[i].score - Min(scores)) - d * span * redundancy(i)
           left == DOMAIN s \ chosen
           values == {value(i) : i \in left}
           best == {i \in left : value(i) = Max(values)}
<1>1. DOMAIN s = 1..Len(s) /\ Len(s) \in Nat /\ IsFiniteSet(DOMAIN s) /\ \A i \in DOMAIN s : s[i].score \in Int
  <2>1. DOMAIN s = 1..Len(s) /\ Len(s) \in Nat
    OBVIOUS
  <2>2. \A i \in DOMAIN s : s[i] \in HitType
    OBVIOUS
  <2> QED  BY <2>1, <2>2, Upto DEF HitType
<1>2. Min(scores) \in Int /\ Max(scores) \in Int /\ span \in Int
  <2> DEFINE f == [i \in DOMAIN s |-> s[i].score]
  <2>1. scores = {f[i] : i \in DOMAIN s}
    OBVIOUS
  <2> HIDE DEF f
  <2>2. IsFiniteSet(scores)
    <3>1. IsFiniteSet(DOMAIN s)
      BY <1>1
    <3>2. IsFiniteSet({f[i] : i \in DOMAIN s})
      BY <3>1, FiniteImage
    <3> QED  BY <2>1, <3>2
  <2>3. scores \in SUBSET Int /\ scores # {}
    BY <1>1
  <2> HIDE DEF scores
  <2>4. Max(scores) \in Int /\ Min(scores) \in Int
    BY <2>2, <2>3, Extremes
  <2> QED  BY <2>4
<1>3. ASSUME NEW i \in left PROVE redundancy(i) \in Int
  <2> DEFINE f == [j \in chosen |-> Cosine(s[i].text, s[j].text)]
             T == {0} \cup {Cosine(s[i].text, s[j].text) : j \in chosen}
  <2>1. {Cosine(s[i].text, s[j].text) : j \in chosen} = {f[j] : j \in chosen}
    OBVIOUS
  <2> HIDE DEF f
  <2>2. IsFiniteSet({Cosine(s[i].text, s[j].text) : j \in chosen})
    <3>1. IsFiniteSet({f[j] : j \in chosen})
      BY FiniteImage
    <3> QED  BY <2>1, <3>1
  <2>3. IsFiniteSet(T)
    BY <2>2, FS_Singleton, FS_Union
  <2>4. T \in SUBSET Int /\ T # {}
    BY DEF Cosine
  <2> HIDE DEF T
  <2>5. Max(T) \in Int
    BY <2>3, <2>4, Extremes
  <2> QED  BY <2>5 DEF T
<1>4. ASSUME NEW i \in left PROVE value(i) \in Int
  <2>1. s[i].score \in Int /\ redundancy(i) \in Int
    BY <1>1, <1>3
  <2>2. ASSUME NEW a \in Int, NEW b \in Int, NEW c \in Int, NEW e \in Int
        PROVE  (2 - d) * (a - b) - d * c * e \in Int
    OBVIOUS
  <2> HIDE DEF span, scores, redundancy
  <2> QED  BY <1>2, <2>1, <2>2
<1>5. Best(s, d, chosen) = Min(best)
  BY DEF Best
<1>6. Max(values) \in values
  <2> HIDE DEF value
  <2> DEFINE f == [i \in left |-> value(i)]
  <2>1. values = {f[i] : i \in left}
    OBVIOUS
  <2>2. values \in SUBSET Int
    BY <1>4
  <2>3. values # {}
    OBVIOUS
  <2>4. IsFiniteSet(left)
    BY <1>1, FS_Subset
  <2> HIDE DEF f, left, values
  <2>5. IsFiniteSet(values)
    BY <2>1, <2>4, FiniteImage
  <2> QED  BY <2>2, <2>3, <2>5, Extremes
<1> HIDE DEF value
<1>7. best # {} /\ best \subseteq left
  <2>1. PICK i \in left : Max(values) = value(i)
    BY <1>6
  <2>2. i \in best
    BY <2>1
  <2> QED  BY <2>2
<1> HIDE DEF best
<1>8. best \in SUBSET Int /\ IsFiniteSet(best)
  <2>1. best \subseteq DOMAIN s
    BY <1>7
  <2>2. IsFiniteSet(best)
    BY <1>1, <2>1, FS_Subset
  <2> QED  BY <1>1, <2>1, <2>2
<1>9. Min(best) \in best
  BY <1>7, <1>8, Extremes
<1> QED  BY <1>5, <1>7, <1>9

\* What is picked before the m-th.
Taken(p, m) == {p[j] : j \in 1..m - 1}

\* mmr_select always has a hit left to pick until it has picked all.
LEMMA StillLeft ==
  ASSUME NEW s \in Seq(HitType), NEW d \in 0..2, NEW n \in 1..Len(s), NEW p,
         \A j \in 1..n - 1 : p[j] \in DOMAIN s
  PROVE  Best(s, d, Taken(p, n)) \in DOMAIN s
<1> DEFINE chosen == {p[j] : j \in 1..n - 1}
<1>1. DOMAIN s = 1..Len(s) /\ Len(s) \in Nat /\ n - 1 \in Nat
  OBVIOUS
<1>2. /\ IsFiniteSet(1..n - 1) /\ Cardinality(1..n - 1) = n - 1
      /\ IsFiniteSet(1..Len(s)) /\ Cardinality(1..Len(s)) = Len(s)
  BY <1>1, Upto
<1>3. IsFiniteSet(chosen) /\ Cardinality(chosen) <= n - 1
  BY <1>2, FiniteImage
<1>4. chosen \subseteq DOMAIN s
  OBVIOUS
<1> HIDE DEF chosen
<1>5. ASSUME DOMAIN s \ chosen = {} PROVE FALSE
  <2>1. 1..Len(s) \subseteq chosen
    BY <1>1, <1>5
  <2>2. Cardinality(1..Len(s)) <= Cardinality(chosen)
    BY <1>3, <2>1, FS_Subset
  <2>3. Cardinality(chosen) \in Nat
    BY <1>3, FS_CardinalityType
  <2> QED  BY <1>1, <1>2, <1>3, <2>2, <2>3
<1>6. Best(s, d, chosen) \in DOMAIN s
  BY <1>3, <1>4, <1>5, BestFacts
<1> QED  BY <1>6 DEF chosen, Taken

\* The recursion of mmr_select is well-founded, and picks hits of s.
LEMMA PicksFacts ==
  ASSUME NEW s \in Seq(HitType), NEW d \in 0..2
  PROVE  \A m \in 1..Len(s) : Picks(s, d)[m] \in 1..Len(s)
<1> DEFINE D == DOMAIN s
           Next1(p, m) == Best(s, d, Taken(p, m))
           Right(n, p) == \A m \in 1..n : p[m] = Next1(p, m)
           Bad == {n \in 0..Len(s) : ~\E p \in [D -> D] : Right(n, p)}
           Defined(p) == p = [m \in D |-> Next1(p, m)]
           pick == CHOOSE p : Defined(p)
<1>1. D = 1..Len(s) /\ Len(s) \in Nat
  OBVIOUS
<1>2. Bad = {}
  <2> SUFFICES ASSUME Bad # {} PROVE FALSE
    OBVIOUS
  <2>1. Bad \in SUBSET Nat
    OBVIOUS
  <2> HIDE DEF Bad
  <2>2. PICK n \in Bad : \A m \in Bad : n <= m
    BY <2>1, LeastNumber
  <2>3. n \in 0..Len(s) /\ ~\E p \in [D -> D] : Right(n, p)
    BY <2>2 DEF Bad
  <2>4. n # 0
    <3>1. [m \in D |-> m] \in [D -> D] /\ Right(0, [m \in D |-> m])
      OBVIOUS
    <3> QED  BY <2>3, <3>1
  <2>5. n - 1 \in 0..Len(s) /\ n \in D /\ n - 1 \notin Bad
    BY <1>1, <2>1, <2>2, <2>3, <2>4
  <2>6. PICK p \in [D -> D] : Right(n - 1, p)
    BY <2>5 DEF Bad
  <2> DEFINE h == [p EXCEPT ![n] = Next1(p, n)]
  <2>7. Next1(p, n) \in D
    <3>1. \A j \in 1..n - 1 : p[j] \in D
      BY <1>1, <2>5
    <3> QED  BY <1>1, <2>5, <3>1, StillLeft
  <2> HIDE DEF D
  <2>8. h \in [D -> D]
    <3> HIDE DEF Next1
    <3> QED  BY <2>7
  <2>9. \A j \in 1..n - 1 : h[j] = p[j]
    BY <1>1, <2>5
  <2>10. h[n] = Next1(p, n)
    <3> HIDE DEF Next1
    <3> QED  BY <2>5
  <2> HIDE DEF h
  <2>11. ASSUME NEW m \in 1..n PROVE h[m] = Next1(h, m)
    <3>1. \A j \in 1..m - 1 : h[j] = p[j]
      BY <1>1, <2>3, <2>9
    <3>2. Taken(h, m) = Taken(p, m)
      BY <3>1 DEF Taken
    <3>3. Next1(h, m) = Next1(p, m)
      BY <3>2
    <3>4. CASE m = n
      BY <2>10, <3>3, <3>4
    <3>5. CASE m # n
      <4>1. m \in 1..n - 1
        BY <2>3, <3>5
      <4> HIDE DEF Next1
      <4> QED  BY <2>6, <2>9, <3>3, <4>1
    <3> QED  BY <3>4, <3>5
  <2> HIDE DEF Next1
  <2> QED  BY <2>3, <2>8, <2>11
<1>3. PICK p \in [D -> D] : Right(Len(s), p)
  <2> HIDE DEF Right
  <2>1. Len(s) \in 0..Len(s)
    BY <1>1
  <2> QED  BY <1>2, <2>1
<1>4. Defined(p)
  <2> HIDE DEF Next1, D
  <2> QED  BY <1>1, <1>3
<1>5. Defined(pick)
  <2> HIDE DEF Defined
  <2> QED  BY <1>4
<1>6. Picks(s, d) = pick
  BY DEF Picks, Taken
<1> HIDE DEF pick
<1>7. \A m \in D : pick[m] = Next1(pick, m)
  <2> HIDE DEF Next1, D
  <2> QED  BY <1>5
<1> DEFINE Out == {m \in D : pick[m] \notin D}
<1>8. Out = {}
  <2> SUFFICES ASSUME Out # {} PROVE FALSE
    OBVIOUS
  <2>1. Out \in SUBSET Nat
    BY <1>1
  <2>2. PICK n \in Out : \A m \in Out : n <= m
    <3> HIDE DEF Out
    <3> QED  BY <2>1, LeastNumber
  <2>3. n \in 1..Len(s) /\ pick[n] \notin D
    BY <1>1, <2>2
  <2>4. \A j \in 1..n - 1 : pick[j] \in D
    <3> SUFFICES ASSUME NEW j \in 1..n - 1, pick[j] \notin D PROVE FALSE
      OBVIOUS
    <3>1. j \in D /\ j < n /\ n \in Nat
      BY <1>1, <2>3
    <3>2. j \in Out
      BY <3>1
    <3>3. n <= j
      BY <2>2, <3>2
    <3> QED  BY <3>1, <3>3
  <2>5. Next1(pick, n) \in D
    BY <1>1, <2>3, <2>4, StillLeft
  <2>6. pick[n] = Next1(pick, n)
    BY <1>1, <1>7, <2>3
  <2> HIDE DEF Next1
  <2> QED  BY <2>3, <2>5, <2>6
<1> QED  BY <1>1, <1>6, <1>8

\* ranking.py:80-118.  MMR selects n hits, and what it selects for n it selects
\* for any larger m.
LEMMA MmrFacts ==
  ASSUME NEW s \in Seq(HitType), NEW d \in 0..2, NEW n \in Nat
  PROVE  /\ MmrSelect(s, n, d) \in Seq(HitType)
         /\ n >= Len(s) => MmrSelect(s, n, d) = s
         /\ n < Len(s) => Len(MmrSelect(s, n, d)) = n
         /\ TextsOf(MmrSelect(s, n, d)) \subseteq TextsOf(s)
         /\ \A m \in Nat : n <= m => TextsOf(MmrSelect(s, n, d)) \subseteq TextsOf(MmrSelect(s, m, d))
<1> DEFINE p == Picks(s, d)
<1>1. DOMAIN s = 1..Len(s) /\ Len(s) \in Nat /\ \A i \in 1..Len(s) : s[i] \in HitType
  OBVIOUS
<1>2. \A m \in 1..Len(s) : p[m] \in 1..Len(s)
  BY PicksFacts
<1> HIDE DEF p
<1>3. \A m \in Nat : MmrSelect(s, m, d) = IF m >= Len(s) THEN s ELSE [i \in 1..m |-> s[p[i]]]
  BY DEF MmrSelect, p
<1>4. ASSUME NEW m \in Nat, m < Len(s)
      PROVE  /\ MmrSelect(s, m, d) \in Seq(HitType) /\ Len(MmrSelect(s, m, d)) = m
             /\ TextsOf(MmrSelect(s, m, d)) = {s[p[i]].text : i \in 1..m}
             /\ TextsOf(MmrSelect(s, m, d)) \subseteq TextsOf(s)
  <2> DEFINE q == [i \in 1..m |-> s[p[i]]]
  <2>1. MmrSelect(s, m, d) = q
    BY <1>1, <1>3, <1>4
  <2>2. \A i \in 1..m : p[i] \in 1..Len(s) /\ s[p[i]] \in HitType
    BY <1>1, <1>2, <1>4
  <2>3. q \in Seq(HitType) /\ Len(q) = m /\ DOMAIN q = 1..m
    BY <2>2
  <2>4. TextsOf(q) = {s[p[i]].text : i \in 1..m}
    BY <2>3 DEF TextsOf
  <2>5. TextsOf(q) \subseteq TextsOf(s)
    BY <1>1, <2>2, <2>4 DEF TextsOf
  <2> QED  BY <2>1, <2>3, <2>4, <2>5
<1>5. ASSUME NEW m \in Nat, m >= Len(s) PROVE MmrSelect(s, m, d) = s
  BY <1>3, <1>5
<1>6. ASSUME NEW m \in Nat, n <= m
      PROVE  TextsOf(MmrSelect(s, n, d)) \subseteq TextsOf(MmrSelect(s, m, d))
  <2>1. CASE m >= Len(s)
    <3>1. n >= Len(s) \/ n < Len(s)
      BY <1>1
    <3> QED  BY <1>4, <1>5, <2>1, <3>1
  <2>2. CASE m < Len(s)
    <3>1. n < Len(s)
      BY <1>1, <1>6, <2>2
    <3>2. 1..n \subseteq 1..m
      BY <1>6
    <3>3. TextsOf(MmrSelect(s, n, d)) = {s[p[i]].text : i \in 1..n}
      BY <1>4, <3>1
    <3>4. TextsOf(MmrSelect(s, m, d)) = {s[p[i]].text : i \in 1..m}
      BY <1>4, <2>2
    <3> QED  BY <3>2, <3>3, <3>4
  <2> QED  BY <1>1, <2>1, <2>2
<1>7. n >= Len(s) \/ n < Len(s)
  BY <1>1
<1> QED  BY <1>4, <1>5, <1>6, <1>7

-----------------------------------------------------------------------------
(* One search.                                                             *)

\* What the fetches of queries qs return for n chunks.
Fetched(qs, n) == [i \in DOMAIN qs |-> Retrieved(qs[i], Pool(n))]

\* The candidates that a reranker keeps.
Keep(n) == IF conf.mmr > 0 THEN Max({n, conf.mmr}) ELSE n

\* main.py:369-374.  The candidates kept are enough for MMR and in the pool.
LEMMA KeepFacts ==
  ASSUME InputsOK, NEW n \in Nat
  PROVE  /\ Keep(n) \in Nat /\ n <= Keep(n) /\ Keep(n) <= Pool(n)
         /\ conf.mmr <= n => Keep(n) = n
         /\ n <= conf.mmr => Keep(n) = conf.mmr
         /\ \A ls : Reranked(ls, n) = IF conf.rerank = 0 THEN Merged(ls, n)
                                      ELSE Cut(RerankAll(Merged(ls, n)), Keep(n))
<1>1. conf.mmr \in Nat
  BY DEF InputsOK, ConfType
<1>2. ASSUME NEW a \in Nat, NEW b \in Nat
      PROVE  Max({a, b}) = IF a <= b THEN b ELSE a
  BY DEF Max
<1>3. Max({n, conf.mmr}) = IF n <= conf.mmr THEN conf.mmr ELSE n
  BY <1>1, <1>2
<1>4. n <= Pool(n) /\ conf.mmr <= Pool(n)
  BY PoolFacts
<1>5. ASSUME NEW ls
      PROVE  Reranked(ls, n) = IF conf.rerank = 0 THEN Merged(ls, n)
                               ELSE Cut(RerankAll(Merged(ls, n)), Keep(n))
  BY DEF Reranked, Rerank, RerankAll, Keep
<1> QED  BY <1>1, <1>3, <1>4, <1>5 DEF Keep

\* The merges, cut.
LEMMA MergedFacts ==
  ASSUME NEW n \in Nat
  PROVE  /\ \A ls : RrfMerge(ls, n) = Cut(RrfAll(ls), n)
         /\ \A ls : InterleaveMerge(ls, n) = Cut(InterleaveAll(ls), n)
<1>1. \A ls : RrfMerge(ls, n) = Cut(RrfAll(ls), n)
  BY DEF RrfMerge, RrfAll
<1>2. \A ls : InterleaveMerge(ls, n) = Cut(InterleaveAll(ls), n)
  BY DEF InterleaveMerge, MergedIn, InterleaveAll
<1> QED  BY <1>1, <1>2

\* What a query retrieves is stored, and no more than was asked for.
LEMMA RetrievedFacts ==
  ASSUME InputsOK, NEW q \in Queries, NEW n \in Nat
  PROVE  /\ Leg(meaning[q], n) \in Seq(HitType) /\ Leg(words[q], n) \in Seq(HitType)
         /\ Retrieved(q, n) \in Seq(HitType)
         /\ Len(Retrieved(q, n)) <= n
         /\ TextsOf(Retrieved(q, n)) \subseteq StoredTexts
<1>1. meaning[q] \in Orders /\ words[q] \in Matches
  BY DEF InputsOK
<1>2. /\ meaning[q] \in Seq(Texts) /\ Once(meaning[q])
      /\ words[q] \in Seq(Texts) /\ Once(words[q])
  BY <1>1, OrderFacts, MatchFacts
<1>3. ASSUME NEW texts \in Seq(Texts), Once(texts)
      PROVE  /\ Leg(texts, n) \in Seq(HitType) /\ Len(Leg(texts, n)) <= n
             /\ TextsOf(Leg(texts, n)) \subseteq StoredTexts
  <2>1. Ranked(texts) \in Seq(HitType) /\ TextsOf(Ranked(texts)) \subseteq StoredTexts
    BY <1>3, RankedFacts
  <2>2. Leg(texts, n) = Cut(Ranked(texts), n)
    BY DEF Leg
  <2>3. Leg(texts, n) \in Seq(HitType) /\ Len(Leg(texts, n)) <= n
    BY <2>1, <2>2, CutFacts
  <2>4. TextsOf(Leg(texts, n)) \subseteq TextsOf(Ranked(texts))
    <3>1. ASSUME NEW t \in TextsOf(Cut(Ranked(texts), n)) PROVE t \in TextsOf(Ranked(texts))
      <4>1. PICK i \in 1..Len(Ranked(texts)) : Ranked(texts)[i].text = t
        BY <2>1, CutTexts
      <4> QED  BY <2>1, <4>1 DEF TextsOf
    <3> QED  BY <2>2, <3>1
  <2> QED  BY <2>1, <2>3, <2>4
<1> DEFINE v == Leg(meaning[q], n)
           w == Leg(words[q], n)
           ls == <<v, w>>
<1>4. /\ v \in Seq(HitType) /\ Len(v) <= n /\ TextsOf(v) \subseteq StoredTexts
      /\ w \in Seq(HitType) /\ TextsOf(w) \subseteq StoredTexts
  BY <1>2, <1>3
<1>5. Retrieved(q, n) = IF ~conf.hybrid \/ w = <<>> THEN v ELSE RrfMerge(ls, n)
  BY DEF Retrieved
<1> HIDE DEF v, w
<1>6. RrfMerge(ls, n) = Cut(RrfAll(ls), n)
  BY MergedFacts
<1>7. ls \in Seq(Seq(HitType)) /\ Len(ls) = 2
  BY <1>4
<1>8. ls[1] = v /\ ls[2] = w
  OBVIOUS
<1> HIDE DEF ls
<1>9. /\ RrfAll(ls) \in Seq(HitType)
      /\ Merges(ls, ByList, ByScore(ls, FirstSeen(ls, ByList)), RrfAll(ls))
  BY <1>7, RrfFacts
<1>10. \A t : t \in TextsOf(RrfAll(ls)) <=> \E i \in 1..Len(ls) : t \in TextsOf(ls[i])
  BY <1>7, <1>9, MergeFacts
<1>11. TextsOf(RrfAll(ls)) \subseteq StoredTexts
  BY <1>4, <1>7, <1>8, <1>10
<1>12. /\ Cut(RrfAll(ls), n) \in Seq(HitType) /\ Len(Cut(RrfAll(ls), n)) <= n
       /\ TextsOf(Cut(RrfAll(ls), n)) \subseteq StoredTexts
  <2>1. ASSUME NEW t \in TextsOf(Cut(RrfAll(ls), n)) PROVE t \in StoredTexts
    <3>1. PICK i \in 1..Len(RrfAll(ls)) : RrfAll(ls)[i].text = t
      BY <1>9, CutTexts
    <3> QED  BY <1>9, <1>11, <3>1 DEF TextsOf
  <2> QED  BY <1>9, <2>1, CutFacts
<1> QED  BY <1>4, <1>5, <1>6, <1>12 DEF v, w

\* Every stage returns hits that were fetched.
LEMMA SearchFacts ==
  ASSUME InputsOK, NEW n \in Nat, NEW ls \in Seq(Seq(HitType)), Len(ls) >= 1,
         NEW T, \A i \in 1..Len(ls) : TextsOf(ls[i]) \subseteq T
  PROVE  /\ Merged(ls, n) \in Seq(HitType) /\ TextsOf(Merged(ls, n)) \subseteq T
         /\ Reranked(ls, n) \in Seq(HitType) /\ TextsOf(Reranked(ls, n)) \subseteq TextsOf(Merged(ls, n))
         /\ Diversified(ls, n) \in Seq(HitType)
         /\ TextsOf(Diversified(ls, n)) \subseteq TextsOf(Reranked(ls, n))
         /\ Search(ls, n) \in Seq(HitType) /\ Len(Search(ls, n)) <= n
         /\ TextsOf(Search(ls, n)) \subseteq TextsOf(Diversified(ls, n))
<1>0. Pool(n) \in Nat /\ Keep(n) \in Nat
  BY PoolFacts, KeepFacts
<1>1. ASSUME NEW s \in Seq(HitType), NEW m \in Nat
      PROVE  Cut(s, m) \in Seq(HitType) /\ TextsOf(Cut(s, m)) \subseteq TextsOf(s) /\ Len(Cut(s, m)) <= m
  <2>1. ASSUME NEW t \in TextsOf(Cut(s, m)) PROVE t \in TextsOf(s)
    <3>1. PICK i \in 1..Len(s) : s[i].text = t
      BY CutTexts
    <3> QED  BY <3>1 DEF TextsOf
  <2>2. Cut(s, m) \in Seq(HitType) /\ Len(Cut(s, m)) = (IF m < Len(s) THEN m ELSE Len(s))
    BY CutFacts
  <2>3. Len(Cut(s, m)) <= m
    BY <2>2
  <2> QED  BY <2>1, <2>2, <2>3
<1>2. Merged(ls, n) \in Seq(HitType) /\ TextsOf(Merged(ls, n)) \subseteq T
  <2>1. CASE Len(ls) = 1
    <3>1. Merged(ls, n) = ls[1]
      BY <2>1 DEF Merged
    <3> QED  BY <2>1, <3>1
  <2>2. CASE Len(ls) # 1
    <3> DEFINE M == InterleaveAll(ls)
    <3>1. M \in Seq(HitType) /\ Merges(ls, ByRank, Walk(FirstSeen(ls, ByRank), ByRank), M)
      BY InterleaveFacts
    <3> HIDE DEF M
    <3>2. \A t : t \in TextsOf(M) <=> \E i \in 1..Len(ls) : t \in TextsOf(ls[i])
      BY <3>1, MergeFacts
    <3>3. Merged(ls, n) = Cut(M, Pool(n))
      BY <1>0, <2>2, MergedFacts DEF Merged, M
    <3>4. TextsOf(M) \subseteq T
      BY <3>2
    <3> QED  BY <1>0, <1>1, <3>1, <3>3, <3>4
  <2> QED  BY <2>1, <2>2
<1>3. Reranked(ls, n) \in Seq(HitType) /\ TextsOf(Reranked(ls, n)) \subseteq TextsOf(Merged(ls, n))
  <2> DEFINE M == Merged(ls, n)
  <2>1. Reranked(ls, n) = IF conf.rerank = 0 THEN M ELSE Cut(RerankAll(M), Keep(n))
    BY KeepFacts
  <2> HIDE DEF M
  <2>2. M \in Seq(HitType)
    BY <1>2 DEF M
  <2>3. RerankAll(M) \in Seq(HitType) /\ TextsOf(RerankAll(M)) = TextsOf(M)
    BY <2>2, RerankFacts
  <2>4. Reranked(ls, n) \in Seq(HitType) /\ TextsOf(Reranked(ls, n)) \subseteq TextsOf(M)
    BY <1>0, <1>1, <2>1, <2>2, <2>3
  <2> QED  BY <2>4 DEF M
<1>4. Diversified(ls, n) \in Seq(HitType) /\ TextsOf(Diversified(ls, n)) \subseteq TextsOf(Reranked(ls, n))
  <2> DEFINE M == Reranked(ls, n)
  <2>1. Diversified(ls, n) = IF conf.mmr = 0 THEN M ELSE MmrSelect(M, n, conf.diversity)
    BY DEF Diversified
  <2>2. conf.diversity \in 0..2
    BY DEF InputsOK, ConfType
  <2> HIDE DEF M
  <2>3. M \in Seq(HitType)
    BY <1>3 DEF M
  <2>4. MmrSelect(M, n, conf.diversity) \in Seq(HitType)
        /\ TextsOf(MmrSelect(M, n, conf.diversity)) \subseteq TextsOf(M)
    BY <2>2, <2>3, MmrFacts
  <2>5. Diversified(ls, n) \in Seq(HitType) /\ TextsOf(Diversified(ls, n)) \subseteq TextsOf(M)
    BY <2>1, <2>3, <2>4
  <2> QED  BY <2>5 DEF M
<1>5. /\ Search(ls, n) \in Seq(HitType) /\ Len(Search(ls, n)) <= n
      /\ TextsOf(Search(ls, n)) \subseteq TextsOf(Diversified(ls, n))
  BY <1>1, <1>4 DEF Search
<1> QED  BY <1>2, <1>3, <1>4, <1>5

-----------------------------------------------------------------------------
(* A search that returns less than it was asked for has returned all.      *)

\* s has no text twice, and n hits unless it has all that is stored.
Full(s, n) == Distinct(s) /\ (StoredTexts \subseteq TextsOf(s) \/ Len(s) >= n)

\* A cut of all that is stored is all that fits.
LEMMA FullCut ==
  ASSUME NEW X, NEW s \in Seq(X), NEW m \in Nat, NEW n \in Nat, n <= m, Full(s, m)
  PROVE  Full(Cut(s, n), n)
<1>1. /\ DOMAIN s = 1..Len(s) /\ Len(s) \in Nat
      /\ Len(Cut(s, n)) = (IF n < Len(s) THEN n ELSE Len(s))
      /\ DOMAIN Cut(s, n) = 1..Len(Cut(s, n))
      /\ \A i \in 1..Len(s) : i <= n => Cut(s, n)[i] = s[i]
      /\ Len(s) <= n => Cut(s, n) = s
  BY CutFacts, CutTexts
<1>2. Distinct(Cut(s, n))
  <2>1. \A i \in DOMAIN Cut(s, n) : i \in DOMAIN s /\ Cut(s, n)[i] = s[i]
    BY <1>1
  <2> QED  BY <2>1 DEF Full, Distinct
<1>3. CASE Len(s) <= n
  <2>1. Cut(s, n) = s
    BY <1>1, <1>3
  <2>2. StoredTexts \subseteq TextsOf(s) \/ Len(s) >= n
    BY <1>1 DEF Full
  <2> QED  BY <1>2, <2>1, <2>2 DEF Full
<1>4. CASE n < Len(s)
  BY <1>1, <1>2, <1>4 DEF Full
<1> QED  BY <1>1, <1>3, <1>4

\* More hits, without a repetition, are full too.
LEMMA FullGrows ==
  ASSUME NEW X, NEW s \in Seq(X), NEW u \in Seq(X), NEW n \in Nat, Full(s, n),
         Distinct(u), TextsOf(s) \subseteq TextsOf(u)
  PROVE  Full(u, n)
<1>1. Len(s) <= Len(u)
  BY AsLong DEF Full
<1>2. Len(s) \in Nat /\ Len(u) \in Nat
  OBVIOUS
<1> QED  BY <1>1, <1>2 DEF Full

\* A leg, or the fusion of two, is full when every text is stored once.
LEMMA RetrievedFull ==
  ASSUME InputsOK, \A t \in Texts : copies[t] <= 1, NEW q \in Queries, NEW n \in Nat
  PROVE  Full(Retrieved(q, n), n)
<1> DEFINE texts == meaning[q]
           r == Ranked(texts)
           v == Leg(meaning[q], n)
           w == Leg(words[q], n)
           ls == <<v, w>>
<1>1. texts \in Seq(Texts) /\ Once(texts) /\ \A t \in Texts : \E i \in 1..Len(texts) : texts[i] = t
  <2>1. texts \in Orders
    BY DEF InputsOK
  <2> QED  BY <2>1, OrderFacts
<1> HIDE DEF texts
<1>2. /\ r \in Seq(HitType)
      /\ \A t : t \in TextsOf(r) <=> t \in StoredTexts /\ \E i \in 1..Len(texts) : texts[i] = t
      /\ \A i, j \in 1..Len(r) : r[i].text = r[j].text /\ copies[r[i].text] = 1 => i = j
  BY <1>1, RankedFacts
<1>3. v = Cut(r, n)
  BY DEF Leg, texts
<1> HIDE DEF r
<1>4. \A i \in 1..Len(r) : copies[r[i].text] = 1
  <2> SUFFICES ASSUME NEW i \in 1..Len(r) PROVE copies[r[i].text] = 1
    OBVIOUS
  <2>1. r[i].text \in StoredTexts
    BY <1>2 DEF TextsOf
  <2>2. r[i].text \in Texts /\ copies[r[i].text] \in Nat /\ copies[r[i].text] > 0 /\ copies[r[i].text] <= 1
    BY <2>1 DEF StoredTexts, InputsOK
  <2> QED  BY <2>2
<1>5. Distinct(r)
  BY <1>2, <1>4 DEF Distinct
<1>6. StoredTexts \subseteq TextsOf(r)
  BY <1>1, <1>2 DEF StoredTexts
<1>7. Full(v, n)
  <2>1. Full(r, n)
    BY <1>5, <1>6 DEF Full
  <2> QED  BY <1>2, <1>3, <2>1, FullCut
<1>8. Retrieved(q, n) = IF ~conf.hybrid \/ w = <<>> THEN v ELSE Cut(RrfAll(ls), n)
  BY MergedFacts DEF Retrieved
<1>9. v \in Seq(HitType) /\ w \in Seq(HitType)
  BY RetrievedFacts
<1> HIDE DEF v, w
<1>10. ls \in Seq(Seq(HitType)) /\ Len(ls) = 2 /\ ls[1] = v
  BY <1>9
<1> HIDE DEF ls
<1>11. /\ RrfAll(ls) \in Seq(HitType)
       /\ Merges(ls, ByList, ByScore(ls, FirstSeen(ls, ByList)), RrfAll(ls))
  BY <1>10, RrfFacts
<1>12. /\ Distinct(RrfAll(ls))
       /\ \A t : t \in TextsOf(RrfAll(ls)) <=> \E i \in 1..Len(ls) : t \in TextsOf(ls[i])
  BY <1>10, <1>11, MergeFacts
<1>13. TextsOf(v) \subseteq TextsOf(RrfAll(ls))
  BY <1>10, <1>12
<1>14. Full(RrfAll(ls), n)
  BY <1>7, <1>9, <1>11, <1>12, <1>13, FullGrows
<1>15. Full(Cut(RrfAll(ls), n), n)
  BY <1>11, <1>14, FullCut
<1> QED  BY <1>7, <1>8, <1>15

\* A search over full lists that returns less than n has returned all.
LEMMA SearchFull ==
  ASSUME InputsOK, NEW n \in Nat, NEW ls \in Seq(Seq(HitType)), Len(ls) >= 1,
         \A i \in 1..Len(ls) : Full(ls[i], Pool(n)), Len(Search(ls, n)) < n
  PROVE  StoredTexts \subseteq TextsOf(Search(ls, n))
<1>0. Pool(n) \in Nat /\ Keep(n) \in Nat /\ n <= Keep(n) /\ Keep(n) <= Pool(n)
  BY PoolFacts, KeepFacts
<1> DEFINE M == Merged(ls, n)
           R == Reranked(ls, n)
           D == Diversified(ls, n)
<1>1. M \in Seq(HitType) /\ R \in Seq(HitType) /\ D \in Seq(HitType)
  <2> DEFINE T == UNION {TextsOf(ls[i]) : i \in 1..Len(ls)}
  <2>1. \A i \in 1..Len(ls) : TextsOf(ls[i]) \subseteq T
    OBVIOUS
  <2> HIDE DEF T
  <2> QED  BY <2>1, SearchFacts
<1>2. Full(M, Pool(n))
  <2>1. CASE Len(ls) = 1
    BY <2>1 DEF Merged
  <2>2. CASE Len(ls) # 1
    <3> DEFINE I == InterleaveAll(ls)
    <3>1. I \in Seq(HitType) /\ Merges(ls, ByRank, Walk(FirstSeen(ls, ByRank), ByRank), I)
      BY InterleaveFacts
    <3>2. M = Cut(I, Pool(n))
      BY <1>0, <2>2, MergedFacts DEF Merged
    <3> HIDE DEF I, M
    <3>3. Distinct(I) /\ \A t : t \in TextsOf(I) <=> \E i \in 1..Len(ls) : t \in TextsOf(ls[i])
      BY <3>1, MergeFacts
    <3>4. ls[1] \in Seq(HitType) /\ TextsOf(ls[1]) \subseteq TextsOf(I) /\ Full(ls[1], Pool(n))
      BY <3>3
    <3>5. Full(I, Pool(n))
      BY <1>0, <3>1, <3>3, <3>4, FullGrows
    <3> QED  BY <1>0, <3>1, <3>2, <3>5, FullCut
  <2> QED  BY <2>1, <2>2
<1>3. R = IF conf.rerank = 0 THEN M ELSE Cut(RerankAll(M), Keep(n))
  BY KeepFacts
<1>4. D = IF conf.mmr = 0 THEN R ELSE MmrSelect(R, n, conf.diversity)
  BY DEF Diversified
<1>5. Search(ls, n) = Cut(D, n)
  BY DEF Search
<1> HIDE DEF M, R, D
<1>6. Full(R, n)
  <2>1. CASE conf.rerank = 0
    <3>1. Len(M) \in Nat
      BY <1>1
    <3> QED  BY <1>0, <1>2, <1>3, <2>1, <3>1 DEF Full
  <2>2. CASE conf.rerank # 0
    <3>1. /\ RerankAll(M) \in Seq(HitType) /\ Distinct(RerankAll(M))
          /\ TextsOf(M) \subseteq TextsOf(RerankAll(M))
      BY <1>1, <1>2, RerankFacts DEF Full
    <3>2. Full(RerankAll(M), Pool(n))
      BY <1>0, <1>1, <1>2, <3>1, FullGrows
    <3>3. Full(R, Keep(n))
      BY <1>0, <1>3, <2>2, <3>1, <3>2, FullCut
    <3>4. Len(R) \in Nat
      BY <1>1
    <3> QED  BY <1>0, <3>3, <3>4 DEF Full
  <2> QED  BY <2>1, <2>2
<1>7. Len(Search(ls, n)) = (IF n < Len(D) THEN n ELSE Len(D)) /\ (Len(D) <= n => Search(ls, n) = D)
  BY <1>1, <1>5, CutFacts, CutTexts
<1>8. Len(D) < n /\ Search(ls, n) = D
  <2>1. Len(D) \in Nat
    BY <1>1
  <2> QED  BY <1>7, <2>1
<1>9. D = R
  <2>1. CASE conf.mmr = 0
    BY <1>4, <2>1
  <2>2. CASE conf.mmr # 0
    <3>1. conf.diversity \in 0..2
      BY DEF InputsOK, ConfType
    <3>2. n >= Len(R) \/ n < Len(R)
      BY <1>1
    <3>3. /\ n >= Len(R) => D = R
          /\ n < Len(R) => Len(D) = n
      BY <1>1, <1>4, <2>2, <3>1, MmrFacts
    <3> QED  BY <1>8, <3>2, <3>3
  <2> QED  BY <2>1, <2>2
<1>10. Len(R) \in Nat
  BY <1>1
<1> QED  BY <1>6, <1>8, <1>9, <1>10 DEF Full

-----------------------------------------------------------------------------
(* Every list has its turn.                                                *)

\* ranking.py:60-67.  The first hit of every list is merged into any n as large as
\* the number of lists.
LEMMA FirstHitsShown ==
  ASSUME NEW X, NEW ls \in Seq(Seq(X)), NEW i \in 1..Len(ls), ls[i] # <<>>, NEW n \in Nat, Len(ls) <= n
  PROVE  ls[i][1].text \in TextsOf(InterleaveMerge(ls, n))
<1> DEFINE S == FirstSeen(ls, ByRank)
           R == Walk(S, ByRank)
           M == InterleaveAll(ls)
<1>1. <<i, 1>> \in Slots(ls) /\ At(ls, <<i, 1>>).text = ls[i][1].text
  <2>1. Len(ls[i]) \in Nat /\ Len(ls[i]) # 0
    OBVIOUS
  <2>2. 1 \in 1..Len(ls[i])
    BY <2>1
  <2> QED  BY <2>2, SlotFacts DEF At
<1>2. /\ IsFiniteSet(S) /\ S \subseteq Slots(ls) /\ Slots(ls) \in SUBSET Places
      /\ \A s \in Slots(ls) : /\ s[1] \in 1..Len(ls) /\ s[2] \in 1..Len(ls[s[1]])
                              /\ s = <<s[1], s[2]>>
  BY FirstFacts, SlotFacts
<1>3. PICK f \in S : At(ls, f).text = ls[i][1].text /\ (f = <<i, 1>> \/ Precedes(ByRank, f, <<i, 1>>))
  BY <1>1, FirstFacts
<1>4. \A a, b \in Slots(ls) : Precedes(ByRank, a, b) => a[2] < b[2] \/ (a[2] = b[2] /\ a[1] < b[1])
  BY DEF Precedes, ByRank
<1>5. \A s \in Slots(ls) : s[1] \in Nat /\ s[2] \in Nat /\ s[2] >= 1
  BY <1>2
<1>6. f \in Slots(ls) /\ f[2] = 1
  <2>1. f \in Slots(ls) /\ (f = <<i, 1>> \/ f[2] < 1 \/ f[2] = 1)
    BY <1>1, <1>2, <1>3, <1>4
  <2> QED  BY <1>5, <2>1
<1>7. f[1] \in 1..Len(ls) /\ f[1] - 1 \in Nat /\ Len(ls) \in Nat
  BY <1>2, <1>6
<1> DEFINE turn == [j \in 1..f[1] - 1 |-> <<j, 1>>]
           before == {turn[j] : j \in 1..f[1] - 1}
<1>8. IsFiniteSet(1..f[1] - 1) /\ Cardinality(1..f[1] - 1) = f[1] - 1
  BY <1>7, Upto
<1>9. IsFiniteSet(before) /\ Cardinality(before) <= f[1] - 1
  <2> HIDE DEF turn
  <2> QED  BY <1>8, FiniteImage
<1>10. Above(S, R, f) \subseteq before
  <2> SUFFICES ASSUME NEW y \in S, <<y, f>> \in R PROVE y \in before
    BY DEF Above
  <2>1. Precedes(ByRank, y, f)
    BY DEF Walk
  <2>2. y \in Slots(ls) /\ (y[2] < 1 \/ (y[2] = 1 /\ y[1] < f[1]))
    BY <1>2, <1>4, <1>6, <2>1
  <2>3. y[1] \in 1..Len(ls) /\ y[2] = 1 /\ y[1] < f[1] /\ y = <<y[1], y[2]>>
    BY <1>2, <1>5, <2>2
  <2>4. y[1] \in 1..f[1] - 1 /\ y = turn[y[1]]
    BY <1>7, <2>3
  <2> QED  BY <2>4
<1> HIDE DEF before
<1>11. Rank(S, R, f) <= n /\ Rank(S, R, f) \in Nat
  <2>1. IsFiniteSet(Above(S, R, f)) /\ Cardinality(Above(S, R, f)) <= Cardinality(before)
    BY <1>9, <1>10, FS_Subset
  <2>2. Cardinality(Above(S, R, f)) \in Nat
    BY <2>1, FS_CardinalityType
  <2>3. Cardinality(before) \in Nat
    BY <1>9, FS_CardinalityType
  <2>4. f[1] - 1 < n
    BY <1>7
  <2>5. f[1] - 1 \in Int
    BY <1>7
  <2>6. Rank(S, R, f) = Cardinality(Above(S, R, f)) + 1
    BY DEF Rank
  <2> QED  BY <1>9, <2>1, <2>2, <2>3, <2>4, <2>5, <2>6
<1>12. M \in Seq(X) /\ Merges(ls, ByRank, R, M)
  BY InterleaveFacts
<1>13. Place(ls, ByRank, R, f) \in 1..Len(M) /\ M[Place(ls, ByRank, R, f)].text = At(ls, f).text
  <2> HIDE DEF M, R
  <2> QED  BY <1>12, MergeFacts
<1>14. Place(ls, ByRank, R, f) = Rank(S, R, f)
  BY DEF Place
<1>15. InterleaveMerge(ls, n) = Cut(M, n)
  BY MergedFacts
<1> HIDE DEF S, R, M
<1> QED  BY <1>3, <1>11, <1>12, <1>13, <1>14, <1>15, CutTexts

-----------------------------------------------------------------------------
(* A wider search loses nothing.                                           *)

\* The first n of every list.
Below(ls, n) == [i \in DOMAIN ls |-> Cut(ls[i], n)]

\* The slots of the first n of every list.
LEMMA BelowFacts ==
  ASSUME NEW X, NEW ls \in Seq(Seq(X)), NEW n \in Nat
  PROVE  /\ Below(ls, n) \in Seq(Seq(X)) /\ Len(Below(ls, n)) = Len(ls)
         /\ \A s : s \in Slots(Below(ls, n)) <=>
               \E i \in 1..Len(ls) : \E r \in 1..Len(ls[i]) : r <= n /\ s = <<i, r>>
         /\ \A s \in Slots(Below(ls, n)) : At(Below(ls, n), s) = ls[s[1]][s[2]]
<1> DEFINE B == Below(ls, n)
<1>1. DOMAIN ls = 1..Len(ls) /\ Len(ls) \in Nat /\ \A i \in 1..Len(ls) : ls[i] \in Seq(X)
  OBVIOUS
<1>2. B = [i \in 1..Len(ls) |-> Cut(ls[i], n)]
  BY <1>1 DEF Below
<1>3. \A i \in 1..Len(ls) :
        /\ Cut(ls[i], n) \in Seq(X)
        /\ Len(Cut(ls[i], n)) = (IF n < Len(ls[i]) THEN n ELSE Len(ls[i]))
        /\ \A r \in 1..Len(ls[i]) : r <= n => Cut(ls[i], n)[r] = ls[i][r]
  <2> SUFFICES ASSUME NEW i \in 1..Len(ls)
               PROVE  /\ Cut(ls[i], n) \in Seq(X)
                      /\ Len(Cut(ls[i], n)) = (IF n < Len(ls[i]) THEN n ELSE Len(ls[i]))
                      /\ \A r \in 1..Len(ls[i]) : r <= n => Cut(ls[i], n)[r] = ls[i][r]
    OBVIOUS
  <2>1. ls[i] \in Seq(X)
    BY <1>1
  <2> QED  BY <2>1, CutFacts
<1> HIDE DEF B
<1>4. B \in Seq(Seq(X)) /\ Len(B) = Len(ls)
  <2>1. \A i \in 1..Len(ls) : Cut(ls[i], n) \in Seq(X)
    BY <1>3
  <2>2. B \in [1..Len(ls) -> Seq(X)]
    BY <1>2, <2>1
  <2>3. Len(ls) \in Nat
    BY <1>1
  <2>4. B \in Seq(Seq(X)) /\ Len(B) = Len(ls)
    <3> DEFINE Z == Seq(X)
               m == Len(ls)
    <3>1. m \in Nat /\ B \in [1..m -> Z]
      BY <2>2, <2>3
    <3> HIDE DEF Z, m
    <3>2. B \in Seq(Z) /\ DOMAIN B = 1..m
      BY <3>1
    <3>3. Len(B) = m
      BY <3>1, <3>2
    <3> QED  BY <3>2, <3>3 DEF Z, m
  <2> QED  BY <2>4
<1>5. ASSUME NEW i \in 1..Len(ls) PROVE B[i] = Cut(ls[i], n) /\ Len(ls[i]) \in Nat
  <2>1. B[i] = Cut(ls[i], n)
    BY <1>2
  <2>2. ls[i] \in Seq(X)
    BY <1>1
  <2>3. Len(ls[i]) \in Nat
    BY <2>2
  <2> QED  BY <2>1, <2>3
<1>6. ASSUME NEW i \in 1..Len(ls), NEW r
      PROVE  r \in 1..Len(B[i]) <=> r \in 1..Len(ls[i]) /\ r <= n
  <2>1. Len(B[i]) = (IF n < Len(ls[i]) THEN n ELSE Len(ls[i])) /\ Len(ls[i]) \in Nat
    BY <1>3, <1>5
  <2> QED  BY <2>1
<1>7. \A s : s \in Slots(B) <=> \E i \in 1..Len(ls) : \E r \in 1..Len(B[i]) : s = <<i, r>>
  BY <1>4, SlotFacts
<1>8. ASSUME NEW s
      PROVE  s \in Slots(B) <=> \E i \in 1..Len(ls) : \E r \in 1..Len(ls[i]) : r <= n /\ s = <<i, r>>
  BY <1>6, <1>7
<1>9. ASSUME NEW s \in Slots(B) PROVE At(B, s) = ls[s[1]][s[2]]
  <2>0. PICK i \in 1..Len(ls) : \E r \in 1..Len(ls[i]) : r <= n /\ s = <<i, r>>
    BY <1>8
  <2>1. PICK r \in 1..Len(ls[i]) : r <= n /\ s = <<i, r>>
    BY <2>0
  <2>2. At(B, s) = B[i][r]
    BY <2>1 DEF At
  <2>3. B[i][r] = ls[i][r]
    BY <1>3, <1>5, <2>1
  <2> QED  BY <2>1, <2>2, <2>3
<1> QED  BY <1>4, <1>8, <1>9 DEF B

\* A merge of the first q of every list, cut to q, has what one of the first p has.
LEMMA MergeGrows ==
  ASSUME NEW X, NEW ls \in Seq(Seq(X)), NEW p \in Nat, NEW q \in Nat, p <= q
  PROVE  TextsOf(InterleaveMerge(Below(ls, p), p)) \subseteq TextsOf(InterleaveMerge(Below(ls, q), q))
<1> DEFINE lo == Below(ls, p)
           hi == Below(ls, q)
           SL == FirstSeen(lo, ByRank)
           SH == FirstSeen(hi, ByRank)
           ML == InterleaveAll(lo)
           MH == InterleaveAll(hi)
<1>1. /\ lo \in Seq(Seq(X)) /\ hi \in Seq(Seq(X))
      /\ \A s : s \in Slots(lo) <=>
            \E i \in 1..Len(ls) : \E r \in 1..Len(ls[i]) : r <= p /\ s = <<i, r>>
      /\ \A s : s \in Slots(hi) <=>
            \E i \in 1..Len(ls) : \E r \in 1..Len(ls[i]) : r <= q /\ s = <<i, r>>
      /\ \A s \in Slots(lo) : At(lo, s) = ls[s[1]][s[2]]
      /\ \A s \in Slots(hi) : At(hi, s) = ls[s[1]][s[2]]
  <2>1. /\ lo \in Seq(Seq(X))
        /\ \A s : s \in Slots(lo) <=>
              \E i \in 1..Len(ls) : \E r \in 1..Len(ls[i]) : r <= p /\ s = <<i, r>>
        /\ \A s \in Slots(lo) : At(lo, s) = ls[s[1]][s[2]]
    BY BelowFacts, SMTT(30)
  <2>2. /\ hi \in Seq(Seq(X))
        /\ \A s : s \in Slots(hi) <=>
              \E i \in 1..Len(ls) : \E r \in 1..Len(ls[i]) : r <= q /\ s = <<i, r>>
        /\ \A s \in Slots(hi) : At(hi, s) = ls[s[1]][s[2]]
    BY BelowFacts, SMTT(30)
  <2> HIDE DEF lo, hi
  <2> QED  BY <2>1, <2>2
<1> HIDE DEF lo, hi
<1>2. ASSUME NEW s PROVE s \in Slots(lo) <=> s \in Slots(hi) /\ s[2] <= p
  <2>1. ASSUME s \in Slots(lo) PROVE s \in Slots(hi) /\ s[2] <= p
    <3>1. PICK i \in 1..Len(ls) : \E r \in 1..Len(ls[i]) : r <= p /\ s = <<i, r>>
      BY <1>1, <2>1
    <3>2. PICK r \in 1..Len(ls[i]) : r <= p /\ s = <<i, r>>
      BY <3>1
    <3>3. r <= q
      BY <3>2
    <3> QED  BY <1>1, <3>2, <3>3
  <2>2. ASSUME s \in Slots(hi), s[2] <= p PROVE s \in Slots(lo)
    <3>1. PICK i \in 1..Len(ls) : \E r \in 1..Len(ls[i]) : r <= q /\ s = <<i, r>>
      BY <1>1, <2>2
    <3>2. PICK r \in 1..Len(ls[i]) : s = <<i, r>>
      BY <3>1
    <3>3. r <= p
      BY <2>2, <3>2
    <3>4. \E j \in 1..Len(ls) : \E o \in 1..Len(ls[j]) : o <= p /\ s = <<j, o>>
      BY <3>2, <3>3
    <3> QED  BY <1>1, <3>4
  <2> QED  BY <2>1, <2>2
<1>3. \A s \in Slots(lo) : At(lo, s) = At(hi, s)
  BY <1>1, <1>2
<1>4. \A a, b \in Slots(hi) : Precedes(ByRank, a, b) => a[2] <= b[2]
  <2>1. \A a \in Slots(hi) : a[2] \in Nat
    BY <1>1
  <2> QED  BY <2>1 DEF Precedes, ByRank
<1>5. \A a \in Slots(hi) : a[2] \in Nat
  BY <1>1
<1>6. ASSUME NEW a \in Slots(hi), NEW b \in Slots(lo), Precedes(ByRank, a, b) PROVE a \in Slots(lo)
  BY <1>2, <1>4, <1>5, <1>6
<1>7. \A s : s \in SL <=> s \in SH /\ s \in Slots(lo)
  <2>1. \A s : s \in SL <=> s \in Slots(lo) /\
           ~\E o \in Slots(lo) : Precedes(ByRank, o, s) /\ At(lo, o).text = At(lo, s).text
    BY DEF FirstSeen
  <2>2. \A s : s \in SH <=> s \in Slots(hi) /\
           ~\E o \in Slots(hi) : Precedes(ByRank, o, s) /\ At(hi, o).text = At(hi, s).text
    BY DEF FirstSeen
  <2> HIDE DEF SL, SH
  <2>3. ASSUME NEW s \in SL PROVE s \in SH /\ s \in Slots(lo)
    <3>1. s \in Slots(lo) /\ s \in Slots(hi)
      BY <1>2, <2>1
    <3>2. ASSUME NEW o \in Slots(hi), Precedes(ByRank, o, s), At(hi, o).text = At(hi, s).text PROVE FALSE
      <4>1. o \in Slots(lo)
        BY <1>6, <3>1, <3>2
      <4>2. At(lo, o).text = At(lo, s).text
        BY <1>3, <3>1, <3>2, <4>1
      <4> QED  BY <2>1, <3>2, <4>1, <4>2
    <3> QED  BY <2>2, <3>1, <3>2
  <2>4. ASSUME NEW s \in SH, s \in Slots(lo) PROVE s \in SL
    <3>1. ASSUME NEW o \in Slots(lo), Precedes(ByRank, o, s), At(lo, o).text = At(lo, s).text PROVE FALSE
      <4>1. o \in Slots(hi) /\ At(hi, o).text = At(hi, s).text
        BY <1>2, <1>3, <2>4, <3>1
      <4> QED  BY <2>2, <3>1, <4>1
    <3> QED  BY <2>1, <2>4, <3>1
  <2> QED  BY <2>3, <2>4
<1>8. ASSUME NEW s \in SL
      PROVE  Rank(SL, Walk(SL, ByRank), s) = Rank(SH, Walk(SH, ByRank), s)
  <2>1. s \in SH /\ s \in Slots(lo) /\ SH \subseteq Slots(hi)
    BY <1>7 DEF FirstSeen
  <2>2. \A y : y \in Above(SL, Walk(SL, ByRank), s) <=> y \in SL /\ Precedes(ByRank, y, s)
    BY <1>8 DEF Above, Walk
  <2>3. \A y : y \in Above(SH, Walk(SH, ByRank), s) <=> y \in SH /\ Precedes(ByRank, y, s)
    BY <2>1 DEF Above, Walk
  <2> HIDE DEF SL, SH
  <2>4. \A y \in SH : Precedes(ByRank, y, s) => y \in SL
    BY <1>6, <1>7, <2>1
  <2>5. Above(SL, Walk(SL, ByRank), s) = Above(SH, Walk(SH, ByRank), s)
    BY <1>7, <2>2, <2>3, <2>4
  <2> QED  BY <2>5 DEF Rank
<1>9. /\ ML \in Seq(X) /\ Merges(lo, ByRank, Walk(SL, ByRank), ML)
      /\ MH \in Seq(X) /\ Merges(hi, ByRank, Walk(SH, ByRank), MH)
  BY <1>1, InterleaveFacts
<1>10. InterleaveMerge(lo, p) = Cut(ML, p) /\ InterleaveMerge(hi, q) = Cut(MH, q)
  BY MergedFacts
<1> HIDE DEF ML, MH
<1>11. ASSUME NEW t \in TextsOf(Cut(ML, p)) PROVE t \in TextsOf(Cut(MH, q))
  <2>1. PICK n \in 1..Len(ML) : n <= p /\ ML[n].text = t
    BY <1>9, CutTexts
  <2>0. \A m \in 1..Len(ML) : \E s \in SL :
           Place(lo, ByRank, Walk(SL, ByRank), s) = m /\ ML[m].text = At(lo, s).text
    BY <1>1, <1>9, MergeFacts
  <2>2. PICK s \in SL : Place(lo, ByRank, Walk(SL, ByRank), s) = n /\ ML[n].text = At(lo, s).text
    BY <2>0, <2>1
  <2>3. s \in SH /\ s \in Slots(lo)
    BY <1>7
  <2>4. /\ Place(hi, ByRank, Walk(SH, ByRank), s) \in 1..Len(MH)
        /\ MH[Place(hi, ByRank, Walk(SH, ByRank), s)].text = At(hi, s).text
    BY <1>1, <1>9, <2>3, MergeFacts
  <2>5. Place(hi, ByRank, Walk(SH, ByRank), s) = n
    BY <1>8, <2>2 DEF Place
  <2>6. n \in 1..Len(MH) /\ MH[n].text = t /\ n <= q
    BY <1>3, <2>1, <2>2, <2>3, <2>4, <2>5
  <2> QED  BY <1>9, <2>6, CutTexts
<1> QED  BY <1>10, <1>11 DEF lo, hi

\* The pool of a larger k is as wide, and if wider no wider than that k.
LEMMA PoolGrows ==
  ASSUME InputsOK, NEW n \in Nat, NEW m \in Nat, n <= m
  PROVE  Pool(n) <= Pool(m) /\ (Pool(n) = Pool(m) \/ Pool(m) = m)
<1>1. conf.rerank \in Nat /\ conf.mmr \in Nat
  BY DEF InputsOK, ConfType
<1>2. /\ Pool(n) \in Nat /\ Pool(n) \in {n, conf.rerank, conf.mmr}
      /\ n <= Pool(n) /\ conf.rerank <= Pool(n) /\ conf.mmr <= Pool(n)
  BY PoolFacts
<1>3. /\ Pool(m) \in Nat /\ Pool(m) \in {m, conf.rerank, conf.mmr}
      /\ m <= Pool(m) /\ conf.rerank <= Pool(m) /\ conf.mmr <= Pool(m)
  BY PoolFacts
<1> QED  BY <1>1, <1>2, <1>3

\* A longer cut has what a shorter one has.
LEMMA CutGrows ==
  ASSUME NEW X, NEW s \in Seq(X), NEW n \in Nat, NEW m \in Nat, n <= m
  PROVE  /\ TextsOf(Cut(s, n)) \subseteq TextsOf(Cut(s, m))
         /\ Cut(Cut(s, n), n) = Cut(s, n)
<1>1. ASSUME NEW t \in TextsOf(Cut(s, n)) PROVE t \in TextsOf(Cut(s, m))
  <2>1. PICK i \in 1..Len(s) : i <= n /\ s[i].text = t
    BY CutTexts
  <2>2. i <= m
    BY <2>1
  <2> QED  BY <2>1, <2>2, CutTexts
<1>2. Cut(s, n) \in Seq(X) /\ Len(Cut(s, n)) <= n
  BY CutFacts
<1>3. Cut(Cut(s, n), n) = Cut(s, n)
  BY <1>2, CutTexts
<1> QED  BY <1>1, <1>3

\* What the queries fetch.
LEMMA FetchedFacts ==
  ASSUME InputsOK, NEW qs \in Seq(Queries), Len(qs) >= 1, NEW n \in Nat
  PROVE  /\ Fetched(qs, n) \in Seq(Seq(HitType)) /\ Len(Fetched(qs, n)) = Len(qs)
         /\ \A i \in 1..Len(qs) : /\ Fetched(qs, n)[i] = Retrieved(qs[i], Pool(n))
                                  /\ TextsOf(Fetched(qs, n)[i]) \subseteq StoredTexts
         /\ Len(Merged(Fetched(qs, n), n)) <= Pool(n)
<1>1. DOMAIN qs = 1..Len(qs) /\ Len(qs) \in Nat /\ \A i \in 1..Len(qs) : qs[i] \in Queries
  OBVIOUS
<1>2. Pool(n) \in Nat
  BY PoolFacts
<1> DEFINE ls == Fetched(qs, n)
<1>3. ls = [i \in 1..Len(qs) |-> Retrieved(qs[i], Pool(n))]
  BY <1>1 DEF Fetched
<1> HIDE DEF ls
<1>4. ASSUME NEW i \in 1..Len(qs)
      PROVE  /\ Retrieved(qs[i], Pool(n)) \in Seq(HitType)
             /\ Len(Retrieved(qs[i], Pool(n))) <= Pool(n)
             /\ TextsOf(Retrieved(qs[i], Pool(n))) \subseteq StoredTexts
  <2>1. qs[i] \in Queries
    BY <1>1
  <2> QED  BY <1>2, <2>1, RetrievedFacts
<1>5. ls \in Seq(Seq(HitType)) /\ Len(ls) = Len(qs)
  BY <1>1, <1>3, <1>4
<1>6. \A i \in 1..Len(qs) : ls[i] = Retrieved(qs[i], Pool(n))
  BY <1>3
<1>7. Len(Merged(ls, n)) <= Pool(n)
  <2>1. CASE Len(ls) = 1
    <3>1. Merged(ls, n) = ls[1]
      BY <2>1 DEF Merged
    <3>2. 1 \in 1..Len(qs)
      BY <1>1
    <3> QED  BY <1>4, <1>6, <3>1, <3>2
  <2>2. CASE Len(ls) # 1
    <3>1. Merged(ls, n) = Cut(InterleaveAll(ls), Pool(n))
      BY <1>2, <2>2, MergedFacts DEF Merged
    <3>2. InterleaveAll(ls) \in Seq(HitType)
      BY <1>5, InterleaveFacts
    <3> QED  BY <1>2, <3>1, <3>2, CutFacts
  <2> QED  BY <2>1, <2>2
<1> QED  BY <1>4, <1>5, <1>6, <1>7 DEF ls

\* When no stage selects, all that was merged is shown.
LEMMA AllShown ==
  ASSUME InputsOK, NEW n \in Nat, NEW ls \in Seq(Seq(HitType)), Len(ls) >= 1,
         conf.mmr <= n, Len(Merged(ls, n)) <= n
  PROVE  TextsOf(Search(ls, n)) = TextsOf(Merged(ls, n))
<1> DEFINE M == Merged(ls, n)
           R == Reranked(ls, n)
           D == Diversified(ls, n)
           T == UNION {TextsOf(ls[i]) : i \in 1..Len(ls)}
<1>1. M \in Seq(HitType) /\ R \in Seq(HitType) /\ D \in Seq(HitType)
  <2>1. \A i \in 1..Len(ls) : TextsOf(ls[i]) \subseteq T
    OBVIOUS
  <2> HIDE DEF T
  <2> QED  BY <2>1, SearchFacts
<1>2. R = IF conf.rerank = 0 THEN M ELSE Cut(RerankAll(M), n)
  BY KeepFacts
<1>3. D = IF conf.mmr = 0 THEN R ELSE MmrSelect(R, n, conf.diversity)
  BY DEF Diversified
<1>4. Search(ls, n) = Cut(D, n)
  BY DEF Search
<1> HIDE DEF M, R, D, T
<1>5. Len(M) <= n
  BY DEF M
<1>6. RerankAll(M) \in Seq(HitType) /\ Len(RerankAll(M)) = Len(M) /\ TextsOf(RerankAll(M)) = TextsOf(M)
  BY <1>1, RerankFacts
<1>7. Cut(RerankAll(M), n) = RerankAll(M)
  BY <1>5, <1>6, CutTexts
<1>8. TextsOf(R) = TextsOf(M) /\ Len(R) <= n
  BY <1>2, <1>5, <1>6, <1>7
<1>9. D = R
  <2>1. conf.diversity \in 0..2
    BY DEF InputsOK, ConfType
  <2>2. MmrSelect(R, n, conf.diversity) = R
    BY <1>1, <1>8, <2>1, MmrFacts
  <2> QED  BY <1>3, <2>2
<1>10. Cut(D, n) = D
  BY <1>1, <1>8, <1>9, CutTexts
<1> QED  BY <1>4, <1>8, <1>9, <1>10 DEF M

\* The selection for a larger k has what that for a smaller one has.
LEMMA MmrGrows ==
  ASSUME NEW s \in Seq(HitType), NEW d \in 0..2, NEW n \in Nat, NEW m \in Nat, n <= m
  PROVE  /\ Cut(MmrSelect(s, n, d), n) = MmrSelect(s, n, d)
         /\ TextsOf(MmrSelect(s, n, d)) \subseteq TextsOf(MmrSelect(s, m, d))
<1> DEFINE r == MmrSelect(s, n, d)
<1>0. Len(s) \in Nat
  OBVIOUS
<1>1. /\ r \in Seq(HitType)
      /\ n >= Len(s) => r = s
      /\ n < Len(s) => Len(r) = n
  BY MmrFacts
<1>2. r \in Seq(HitType) /\ Len(r) <= n
  <2> HIDE DEF r
  <2>1. CASE n >= Len(s)
    BY <1>0, <1>1, <2>1
  <2>2. CASE n < Len(s)
    BY <1>1, <2>2
  <2> QED  BY <1>0, <2>1, <2>2
<1> HIDE DEF r
<1>3. Cut(r, n) = r
  BY <1>2, CutTexts
<1>4. TextsOf(MmrSelect(s, n, d)) \subseteq TextsOf(MmrSelect(s, m, d))
  BY MmrFacts
<1> QED  BY <1>3, <1>4 DEF r

\* From one pool, a larger k shows more.
LEMMA SamePool ==
  ASSUME InputsOK, NEW n \in Nat, NEW m \in Nat, n <= m, Pool(n) = Pool(m),
         NEW ls \in Seq(Seq(HitType)), Len(ls) >= 1, Len(Merged(ls, m)) <= Pool(m)
  PROVE  TextsOf(Search(ls, n)) \subseteq TextsOf(Search(ls, m))
<1> DEFINE M == Merged(ls, m)
           A == RerankAll(M)
           d == conf.diversity
           T == UNION {TextsOf(ls[i]) : i \in 1..Len(ls)}
           sn == IF conf.rerank = 0 THEN M ELSE Cut(A, Keep(n))
           sm == IF conf.rerank = 0 THEN M ELSE Cut(A, Keep(m))
<1>1. Merged(ls, n) = M
  BY DEF Merged
<1>2. M \in Seq(HitType)
  <2>1. \A i \in 1..Len(ls) : TextsOf(ls[i]) \subseteq T
    OBVIOUS
  <2> HIDE DEF T
  <2> QED  BY <2>1, SearchFacts
<1>3. /\ conf.rerank \in Nat /\ conf.mmr \in Nat /\ d \in 0..2
  BY DEF InputsOK, ConfType
<1>4. Reranked(ls, n) = sn /\ Reranked(ls, m) = sm
  BY <1>1, KeepFacts
<1>5. /\ Search(ls, n) = Cut(IF conf.mmr = 0 THEN sn ELSE MmrSelect(sn, n, d), n)
      /\ Search(ls, m) = Cut(IF conf.mmr = 0 THEN sm ELSE MmrSelect(sm, m, d), m)
  <2> HIDE DEF sn, sm
  <2> QED  BY <1>4 DEF Search, Diversified
<1>6. Len(M) <= Pool(m)
  OBVIOUS
<1> HIDE DEF M, d, T
<1>7. A \in Seq(HitType)
  BY <1>2, RerankFacts
<1>8. /\ Keep(n) \in Nat /\ Keep(n) = (IF n <= conf.mmr THEN conf.mmr ELSE n)
      /\ Keep(m) \in Nat /\ Keep(m) = (IF m <= conf.mmr THEN conf.mmr ELSE m)
  <2>1. /\ Keep(n) \in Nat
        /\ conf.mmr <= n => Keep(n) = n
        /\ n <= conf.mmr => Keep(n) = conf.mmr
    BY KeepFacts
  <2>2. /\ Keep(m) \in Nat
        /\ conf.mmr <= m => Keep(m) = m
        /\ m <= conf.mmr => Keep(m) = conf.mmr
    BY KeepFacts
  <2> QED  BY <1>3, <2>1, <2>2
<1>9. Keep(n) <= Keep(m) /\ Pool(m) \in {m, conf.rerank, conf.mmr} /\ m <= Pool(m)
  <2>1. Keep(n) <= Keep(m)
    BY <1>3, <1>8
  <2>2. Pool(m) \in {m, conf.rerank, conf.mmr} /\ m <= Pool(m)
    BY PoolFacts
  <2> QED  BY <2>1, <2>2
<1> HIDE DEF A
<1>10. sn \in Seq(HitType) /\ sm \in Seq(HitType) /\ TextsOf(sn) \subseteq TextsOf(sm)
  <2>1. /\ Cut(A, Keep(n)) \in Seq(HitType) /\ Cut(A, Keep(m)) \in Seq(HitType)
        /\ TextsOf(Cut(A, Keep(n))) \subseteq TextsOf(Cut(A, Keep(m)))
    BY <1>7, <1>8, <1>9, CutFacts, CutGrows
  <2> QED  BY <1>2, <2>1
<1>11. CASE conf.mmr = 0
  <2>1. Keep(n) = n /\ Keep(m) = m
    BY <1>3, <1>8, <1>11
  <2>2. CASE conf.rerank = 0
    <3>1. Search(ls, n) = Cut(M, n) /\ Search(ls, m) = Cut(M, m)
      BY <1>5, <1>11, <2>2
    <3> QED  BY <1>2, <3>1, CutGrows
  <2>3. CASE conf.rerank # 0
    <3>1. Search(ls, n) = Cut(Cut(A, n), n) /\ Search(ls, m) = Cut(Cut(A, m), m)
      BY <1>5, <1>11, <2>1, <2>3
    <3>2. Search(ls, n) = Cut(A, n) /\ Search(ls, m) = Cut(A, m)
      BY <1>7, <3>1, CutGrows
    <3> QED  BY <1>7, <3>2, CutGrows
  <2> QED  BY <2>2, <2>3
<1>12. CASE conf.mmr # 0
  <2>1. Search(ls, n) = Cut(MmrSelect(sn, n, d), n) /\ Search(ls, m) = Cut(MmrSelect(sm, m, d), m)
    BY <1>5, <1>12
  <2>2. CASE m <= conf.mmr
    <3>1. sn = sm
      BY <1>3, <1>8, <2>2
    <3> HIDE DEF sn, sm
    <3>2. Search(ls, n) = MmrSelect(sm, n, d) /\ Search(ls, m) = MmrSelect(sm, m, d)
      BY <1>3, <1>10, <2>1, <3>1, MmrGrows
    <3> QED  BY <1>3, <1>10, <3>2, MmrGrows
  <2>3. CASE m > conf.mmr
    <3>1. Len(sm) <= m
      <4>1. CASE conf.rerank = 0
        <5>1. Pool(m) = m
          BY <1>3, <1>9, <2>3, <4>1
        <5> QED  BY <1>6, <4>1, <5>1
      <4>2. CASE conf.rerank # 0
        <5>1. sm = Cut(A, m)
          BY <1>3, <1>8, <2>3, <4>2
        <5>2. Len(Cut(A, m)) <= m
          BY <1>7, CutFacts
        <5> QED  BY <5>1, <5>2
      <4> QED  BY <4>1, <4>2
    <3> HIDE DEF sn, sm
    <3>2. MmrSelect(sm, m, d) = sm
      <4>1. m >= Len(sm)
        <5>1. Len(sm) \in Nat
          BY <1>10
        <5> QED  BY <3>1, <5>1
      <4> QED  BY <1>3, <1>10, <4>1, MmrFacts
    <3>4. Search(ls, m) = MmrSelect(sm, m, d)
      BY <1>3, <1>10, <2>1, MmrGrows
    <3>5. TextsOf(MmrSelect(sn, n, d)) \subseteq TextsOf(sn)
      BY <1>3, <1>10, MmrFacts
    <3>3. Search(ls, n) = MmrSelect(sn, n, d)
      BY <1>3, <1>10, <2>1, MmrGrows
    <3> QED  BY <1>10, <3>2, <3>3, <3>4, <3>5
  <2> QED  BY <1>3, <2>2, <2>3
<1> QED  BY <1>11, <1>12

\* A wider search shows all that a narrower one has shown.
LEMMA SearchGrows ==
  ASSUME InputsOK, ~conf.hybrid, NEW qs \in Seq(Queries), Len(qs) >= 1,
         NEW n \in Nat, NEW m \in Nat, n <= m
  PROVE  TextsOf(Search(Fetched(qs, n), n)) \subseteq TextsOf(Search(Fetched(qs, m), m))
<1> DEFINE p == Pool(n)
           q == Pool(m)
           ranked == [i \in 1..Len(qs) |-> Ranked(meaning[qs[i]])]
           lo == Fetched(qs, n)
           hi == Fetched(qs, m)
<1>1. p \in Nat /\ q \in Nat /\ p <= q /\ (p = q \/ q = m)
  BY PoolFacts, PoolGrows
<1>2. /\ lo \in Seq(Seq(HitType)) /\ Len(lo) = Len(qs)
      /\ hi \in Seq(Seq(HitType)) /\ Len(hi) = Len(qs)
      /\ \A i \in 1..Len(qs) : TextsOf(lo[i]) \subseteq StoredTexts
      /\ Len(Merged(hi, m)) <= q
  BY FetchedFacts
<1>3. CASE p = q
  <2>1. lo = hi
    BY <1>3 DEF Fetched
  <2>2. Len(Merged(lo, m)) <= Pool(m)
    BY <1>2, <2>1
  <2> HIDE DEF lo, hi
  <2>3. Pool(n) = Pool(m)
    BY <1>3
  <2>4. TextsOf(Search(lo, n)) \subseteq TextsOf(Search(lo, m))
    BY <1>2, <2>2, <2>3, SamePool
  <2> QED  BY <2>1, <2>4 DEF lo, hi
<1>4. CASE p # q
  <2>1. DOMAIN qs = 1..Len(qs) /\ Len(qs) \in Nat
    OBVIOUS
  <2>2. \A i \in 1..Len(qs) : Ranked(meaning[qs[i]]) \in Seq(HitType)
    <3> SUFFICES ASSUME NEW i \in 1..Len(qs) PROVE Ranked(meaning[qs[i]]) \in Seq(HitType)
      OBVIOUS
    <3>1. meaning[qs[i]] \in Orders
      BY DEF InputsOK
    <3> QED  BY <3>1, OrderFacts, RankedFacts
  <2>3. ranked \in Seq(Seq(HitType)) /\ Len(ranked) = Len(qs) /\ DOMAIN ranked = 1..Len(qs)
    BY <2>1, <2>2
  <2>4. \A i \in 1..Len(qs) : \A x : Retrieved(qs[i], x) = Cut(ranked[i], x)
    BY DEF Retrieved, Leg
  <2> HIDE DEF ranked
  <2>5. lo = Below(ranked, p) /\ hi = Below(ranked, q)
    BY <2>1, <2>3, <2>4 DEF Fetched, Below
  <2>6. TextsOf(Merged(lo, n)) \subseteq TextsOf(Merged(hi, m))
    <3>1. CASE Len(qs) = 1
      <4>1. Merged(lo, n) = lo[1] /\ Merged(hi, m) = hi[1]
        BY <1>2, <3>1 DEF Merged
      <4>2. lo[1] = Cut(ranked[1], p) /\ hi[1] = Cut(ranked[1], q) /\ ranked[1] \in Seq(HitType)
        BY <2>1, <2>3, <2>5, <3>1 DEF Below
      <4> QED  BY <1>1, <4>1, <4>2, CutGrows
    <3>2. CASE Len(qs) # 1
      <4>1. Merged(lo, n) = InterleaveMerge(lo, p) /\ Merged(hi, m) = InterleaveMerge(hi, q)
        BY <1>2, <3>2 DEF Merged
      <4> HIDE DEF lo, hi, p, q
      <4> QED  BY <1>1, <2>3, <2>5, <4>1, MergeGrows
    <3> QED  BY <3>1, <3>2
  <2>7. TextsOf(Search(hi, m)) = TextsOf(Merged(hi, m))
    <3>1. conf.mmr <= m /\ q = m
      BY <1>1, <1>4, PoolFacts
    <3> HIDE DEF hi, lo
    <3> QED  BY <1>2, <3>1, AllShown
  <2>8. TextsOf(Search(lo, n)) \subseteq TextsOf(Merged(lo, n))
    <3> HIDE DEF hi, lo
    <3>1. /\ TextsOf(Reranked(lo, n)) \subseteq TextsOf(Merged(lo, n))
          /\ TextsOf(Diversified(lo, n)) \subseteq TextsOf(Reranked(lo, n))
          /\ TextsOf(Search(lo, n)) \subseteq TextsOf(Diversified(lo, n))
      BY <1>2, SearchFacts
    <3> QED  BY <3>1
  <2> QED  BY <2>6, <2>7, <2>8
<1> QED  BY <1>3, <1>4

-----------------------------------------------------------------------------
(* Fusion respects consensus.                                              *)

\* Wherever u is, t is before it.
Leads(s, t, u) == \A n \in 1..Len(s) : s[n].text = u => \E m \in 1..n - 1 : s[m].text = t

AtMostOnce(s, t) == \A i, j \in 1..Len(s) : s[i].text = t /\ s[j].text = t => i = j

\* What a list contributes to the score of a text.
Part(s, t) ==
    IF t \in TextsOf(s) THEN Weight(CHOOSE r \in 1..Len(s) : s[r].text = t) ELSE 0

\* A text contributes the weight of its rank, or nothing.
LEMMA PartFacts ==
  ASSUME NEW X, NEW s \in Seq(X), NEW t, AtMostOnce(s, t)
  PROVE  /\ t \in TextsOf(s) <=> \E r \in 1..Len(s) : s[r].text = t
         /\ \A r \in 1..Len(s) : s[r].text = t => Part(s, t) = Weight(r)
         /\ t \notin TextsOf(s) => Part(s, t) = 0
         /\ Part(s, t) \in Nat
<1>1. DOMAIN s = 1..Len(s) /\ Len(s) \in Nat
  OBVIOUS
<1>2. t \in TextsOf(s) <=> \E r \in 1..Len(s) : s[r].text = t
  BY <1>1 DEF TextsOf
<1>3. ASSUME NEW r \in 1..Len(s), s[r].text = t PROVE Part(s, t) = Weight(r)
  <2> DEFINE c == CHOOSE q \in 1..Len(s) : s[q].text = t
  <2>1. c \in 1..Len(s) /\ s[c].text = t
    BY <1>3
  <2>2. Part(s, t) = Weight(c)
    BY <1>2, <1>3 DEF Part
  <2> HIDE DEF c
  <2>3. c = r
    BY <1>3, <2>1 DEF AtMostOnce
  <2> QED  BY <2>2, <2>3
<1>4. t \notin TextsOf(s) => Part(s, t) = 0
  BY DEF Part
<1>5. Part(s, t) \in Nat
  <2>1. CASE t \notin TextsOf(s)
    BY <1>4, <2>1
  <2>2. CASE t \in TextsOf(s)
    <3>1. PICK r \in 1..Len(s) : s[r].text = t
      BY <1>2, <2>2
    <3>2. r \in Nat
      BY <1>1
    <3> QED  BY <1>3, <3>1, <3>2, WeightFacts
  <2> QED  BY <2>1, <2>2
<1> QED  BY <1>2, <1>3, <1>4, <1>5

\* A text before another contributes at least as much.
LEMMA PartLeads ==
  ASSUME NEW X, NEW s \in Seq(X), NEW t, NEW u, AtMostOnce(s, t), AtMostOnce(s, u), Leads(s, t, u)
  PROVE  Part(s, u) <= Part(s, t)
<1>1. CASE u \notin TextsOf(s)
  <2>1. Part(s, u) = 0 /\ Part(s, t) \in Nat
    BY <1>1, PartFacts
  <2> QED  BY <2>1
<1>2. CASE u \in TextsOf(s)
  <2>1. PICK n \in 1..Len(s) : s[n].text = u
    BY <1>2, PartFacts
  <2>2. PICK m \in 1..n - 1 : s[m].text = t
    BY <2>1 DEF Leads
  <2>3. m \in 1..Len(s) /\ m \in Nat /\ n \in Nat /\ m < n
    OBVIOUS
  <2>4. Part(s, u) = Weight(n) /\ Part(s, t) = Weight(m)
    BY <2>1, <2>2, <2>3, PartFacts
  <2>5. Weight(n) <= Weight(m)
    BY <2>3, WeightFacts
  <2> QED  BY <2>4, <2>5
<1> QED  BY <1>1, <1>2

\* The sums of no, one and two slots.
LEMMA SmallSums ==
  ASSUME NEW X, NEW ls \in Seq(Seq(X)), NEW t
  PROVE  /\ SlotsOf(ls, t) = {} => Fused(ls, t) = 0
         /\ \A a \in Places : SlotsOf(ls, t) = {a} => Fused(ls, t) = Weight(a[2])
         /\ \A a, b \in Places : SlotsOf(ls, t) = {a, b} /\ a # b =>
               Fused(ls, t) = Weight(a[2]) + Weight(b[2])
<1> DEFINE S == SlotsOf(ls, t)
           w == Contributed(ls, t)
           Sum(T) == SumFunctionOnSet(w, T)
<1> SUFFICES /\ S = {} => Fused(ls, t) = 0
             /\ \A a \in Places : S = {a} => Fused(ls, t) = Weight(a[2])
             /\ \A a, b \in Places : S = {a, b} /\ a # b => Fused(ls, t) = Weight(a[2]) + Weight(b[2])
  OBVIOUS
<1>1. /\ IsFiniteSet(S) /\ Fused(ls, t) = Sum(S)
      /\ \A s \in S : w[s] = Weight(s[2]) /\ Weight(s[2]) \in Nat
  BY FusedFacts
<1> HIDE DEF S, w
<1>2. \A x \in S : w[x] \in Nat
  BY <1>1
<1>3. /\ Sum({}) = 0
      /\ \A T \in SUBSET S : \A x \in S \ T : Sum(T \cup {x}) = Sum(T) + w[x]
  <2>1. IsFiniteSet(S)
    BY <1>1
  <2> QED  BY <1>2, <2>1, SumFacts, SMTT(30)
<1> HIDE DEF Sum
<1>4. ASSUME NEW a \in S PROVE Sum({a}) = Weight(a[2])
  <2>1. {} \in SUBSET S /\ a \in S \ {} /\ {} \cup {a} = {a}
    OBVIOUS
  <2>2. Sum({} \cup {a}) = Sum({}) + w[a]
    BY <1>3, <2>1
  <2>3. Sum({a}) = 0 + w[a]
    BY <1>3, <2>1, <2>2
  <2> QED  BY <1>1, <2>3
<1>5. ASSUME NEW a, NEW b, S = {a, b}, a # b
      PROVE  Sum(S) = Weight(a[2]) + Weight(b[2])
  <2>1. {a} \in SUBSET S /\ b \in S \ {a} /\ {a} \cup {b} = S /\ a \in S
    BY <1>5
  <2>2. Sum({a} \cup {b}) = Sum({a}) + w[b]
    BY <1>3, <2>1
  <2>3. Sum(S) = Weight(a[2]) + w[b]
    BY <1>4, <2>1, <2>2
  <2> QED  BY <1>1, <2>1, <2>3
<1>6. S = {} => Sum(S) = 0
  BY <1>3
<1>7. \A a \in Places : S = {a} => Sum(S) = Weight(a[2])
  BY <1>4
<1> QED  BY <1>1, <1>5, <1>6, <1>7

\* The fused score over two lists is the sum of what each contributes.
LEMMA FusedTwo ==
  ASSUME NEW v \in Seq(HitType), NEW w \in Seq(HitType), NEW t, AtMostOnce(v, t), AtMostOnce(w, t)
  PROVE  Fused(<<v, w>>, t) = Part(v, t) + Part(w, t)
<1> DEFINE ls == <<v, w>>
<1>1. ls \in Seq(Seq(HitType)) /\ Len(ls) = 2 /\ ls[1] = v /\ ls[2] = w
  OBVIOUS
<1> HIDE DEF ls
<1>2. ASSUME NEW s
      PROVE  s \in SlotsOf(ls, t) <=> \/ \E r \in 1..Len(v) : s = <<1, r>> /\ v[r].text = t
                                      \/ \E r \in 1..Len(w) : s = <<2, r>> /\ w[r].text = t
  <2>0. \A x : x \in Slots(ls) <=> \E i \in 1..Len(ls) : \E r \in 1..Len(ls[i]) : x = <<i, r>>
    <3>1. ls \in Seq(Seq(HitType))
      BY <1>1
    <3> QED  BY <3>1, SlotFacts
  <2>1. s \in Slots(ls) <=> \E i \in 1..2 : \E r \in 1..Len(ls[i]) : s = <<i, r>>
    BY <1>1, <2>0
  <2>2. s \in SlotsOf(ls, t) <=> s \in Slots(ls) /\ ls[s[1]][s[2]].text = t
    BY DEF SlotsOf, At
  <2>3. 1..2 = {1, 2}
    OBVIOUS
  <2> QED  BY <1>1, <2>1, <2>2, <2>3
<1>3. Part(v, t) \in Nat /\ Part(w, t) \in Nat
  BY PartFacts
<1>4. ASSUME NEW a \in 1..Len(v), v[a].text = t
      PROVE  /\ \A r \in 1..Len(v) : v[r].text = t => r = a
             /\ Part(v, t) = Weight(a) /\ <<1, a>> \in Places
  <2>1. \A r \in 1..Len(v) : v[r].text = t => r = a
    BY <1>4 DEF AtMostOnce
  <2>2. Part(v, t) = Weight(a)
    BY <1>4, PartFacts
  <2>3. <<1, a>> \in Places
    BY DEF Places
  <2> QED  BY <2>1, <2>2, <2>3
<1>5. ASSUME NEW b \in 1..Len(w), w[b].text = t
      PROVE  /\ \A r \in 1..Len(w) : w[r].text = t => r = b
             /\ Part(w, t) = Weight(b) /\ <<2, b>> \in Places
  <2>1. \A r \in 1..Len(w) : w[r].text = t => r = b
    BY <1>5 DEF AtMostOnce
  <2>2. Part(w, t) = Weight(b)
    BY <1>5, PartFacts
  <2>3. <<2, b>> \in Places
    BY DEF Places
  <2> QED  BY <2>1, <2>2, <2>3
<1>6. /\ t \notin TextsOf(v) => Part(v, t) = 0 /\ \A r \in 1..Len(v) : v[r].text # t
      /\ t \notin TextsOf(w) => Part(w, t) = 0 /\ \A r \in 1..Len(w) : w[r].text # t
  BY PartFacts
<1> DEFINE S == SlotsOf(ls, t)
           F == Fused(ls, t)
<1>0. /\ S = {} => F = 0
      /\ \A a \in Places : S = {a} => F = Weight(a[2])
      /\ \A a, b \in Places : S = {a, b} /\ a # b => F = Weight(a[2]) + Weight(b[2])
  BY <1>1, SmallSums
<1> HIDE DEF S, F
<1>7. CASE t \notin TextsOf(v) /\ t \notin TextsOf(w)
  <2>1. S = {}
    BY <1>2, <1>6, <1>7 DEF S
  <2>2. F = 0
    BY <1>0, <2>1
  <2> QED  BY <1>6, <1>7, <2>2 DEF F, ls
<1>8. CASE t \in TextsOf(v) /\ t \notin TextsOf(w)
  <2>1. PICK a \in 1..Len(v) : v[a].text = t
    BY <1>8, PartFacts
  <2>2. S = {<<1, a>>}
    BY <1>2, <1>4, <1>6, <1>8, <2>1 DEF S
  <2>3. F = Weight(<<1, a>>[2])
    BY <1>0, <1>4, <2>1, <2>2
  <2>4. Part(v, t) = Weight(a) /\ Part(w, t) = 0
    BY <1>4, <1>6, <1>8, <2>1
  <2> QED  BY <1>3, <2>3, <2>4 DEF F, ls
<1>9. CASE t \notin TextsOf(v) /\ t \in TextsOf(w)
  <2>1. PICK b \in 1..Len(w) : w[b].text = t
    BY <1>9, PartFacts
  <2>2. S = {<<2, b>>}
    BY <1>2, <1>5, <1>6, <1>9, <2>1 DEF S
  <2>3. F = Weight(<<2, b>>[2])
    BY <1>0, <1>5, <2>1, <2>2
  <2>4. Part(w, t) = Weight(b) /\ Part(v, t) = 0
    BY <1>5, <1>6, <1>9, <2>1
  <2> QED  BY <1>3, <2>3, <2>4 DEF F, ls
<1>10. CASE t \in TextsOf(v) /\ t \in TextsOf(w)
  <2>1. PICK a \in 1..Len(v) : v[a].text = t
    BY <1>10, PartFacts
  <2>2. PICK b \in 1..Len(w) : w[b].text = t
    BY <1>10, PartFacts
  <2>3. S = {<<1, a>>, <<2, b>>}
    BY <1>2, <1>4, <1>5, <2>1, <2>2 DEF S
  <2>4. <<1, a>> # <<2, b>> /\ <<1, a>> \in Places /\ <<2, b>> \in Places
    BY <1>4, <1>5, <2>1, <2>2
  <2>5. F = Weight(<<1, a>>[2]) + Weight(<<2, b>>[2])
    BY <1>0, <2>3, <2>4
  <2>6. Part(v, t) = Weight(a) /\ Part(w, t) = Weight(b)
    BY <1>4, <1>5, <2>1, <2>2
  <2> QED  BY <2>5, <2>6 DEF F, ls
<1> QED  BY <1>7, <1>8, <1>9, <1>10

\* ranking.py:24-29.  A text before another in both lists is before it in their
\* fusion.
LEMMA FusedLeads ==
  ASSUME NEW v \in Seq(HitType), NEW w \in Seq(HitType), NEW t, NEW u,
         AtMostOnce(v, t), AtMostOnce(w, t), AtMostOnce(v, u), AtMostOnce(w, u),
         Leads(v, t, u), Leads(w, t, u)
  PROVE  Leads(RrfAll(<<v, w>>), t, u)
<1> DEFINE ls == <<v, w>>
           S == FirstSeen(ls, ByList)
           R == ByScore(ls, S)
           M == RrfAll(ls)
<1>1. ls \in Seq(Seq(HitType)) /\ Len(ls) = 2 /\ ls[1] = v /\ ls[2] = w
  OBVIOUS
<1>2. Fused(ls, u) <= Fused(ls, t)
  <2>1. Fused(ls, u) = Part(v, u) + Part(w, u) /\ Fused(ls, t) = Part(v, t) + Part(w, t)
    BY FusedTwo
  <2>2. Part(v, u) <= Part(v, t) /\ Part(w, u) <= Part(w, t)
    BY PartLeads
  <2>3. /\ Part(v, u) \in Nat /\ Part(v, t) \in Nat
        /\ Part(w, u) \in Nat /\ Part(w, t) \in Nat
    BY PartFacts
  <2> HIDE DEF ls
  <2> QED  BY <2>1, <2>2, <2>3
<1> HIDE DEF ls
<1>3. /\ M \in Seq(HitType) /\ Merges(ls, ByList, R, M)
      /\ IsFiniteSet(S) /\ S \in SUBSET Slots(ls) /\ Slots(ls) \in SUBSET Places
  BY <1>1, RrfFacts, FirstFacts, SlotFacts
<1>4. /\ Sorts(S, R)
      /\ \A a, b \in S : Fused(ls, At(ls, a).text) > Fused(ls, At(ls, b).text) => <<a, b>> \in R
      /\ \A a, b \in S : Fused(ls, At(ls, a).text) = Fused(ls, At(ls, b).text) /\ Precedes(ByList, a, b)
                            => <<a, b>> \in R
  BY <1>1, <1>3, ByScoreSorts
<1>5. /\ \A s \in S : Place(ls, ByList, R, s) \in 1..Len(M) /\ M[Place(ls, ByList, R, s)].text = At(ls, s).text
      /\ \A n \in 1..Len(M) : \E s \in S : Place(ls, ByList, R, s) = n /\ M[n].text = At(ls, s).text
  <2> HIDE DEF M, R
  <2> QED  BY <1>1, <1>3, MergeFacts
<1>6. \A s \in Slots(ls) : \E f \in S :
         At(ls, f).text = At(ls, s).text /\ (f = s \/ Precedes(ByList, f, s))
  BY <1>1, FirstFacts
<1> HIDE DEF M, R, S
<1> SUFFICES ASSUME NEW n \in 1..Len(M), M[n].text = u PROVE \E m \in 1..n - 1 : M[m].text = t
  BY DEF Leads, M, ls
<1>7. PICK a \in S : Place(ls, ByList, R, a) = n /\ At(ls, a).text = u
  BY <1>5
<1>8. /\ a \in Slots(ls) /\ a[1] \in 1..2 /\ a[2] \in 1..Len(ls[a[1]])
      /\ At(ls, a) = ls[a[1]][a[2]]
  BY <1>1, <1>3, SlotFacts
<1>9. PICK r \in 1..a[2] - 1 : ls[a[1]][r].text = t
  <2>1. a[1] = 1 \/ a[1] = 2
    BY <1>8
  <2>2. Leads(ls[a[1]], t, u)
    BY <1>1, <2>1
  <2> QED  BY <1>7, <1>8, <2>2 DEF Leads
<1>10. <<a[1], r>> \in Slots(ls) /\ At(ls, <<a[1], r>>).text = t
  <2>1. r \in 1..Len(ls[a[1]])
    BY <1>1, <1>8
  <2> QED  BY <1>1, <1>8, <1>9, <2>1, SlotFacts DEF At
<1>11. PICK b \in S : At(ls, b).text = t /\ (b = <<a[1], r>> \/ Precedes(ByList, b, <<a[1], r>>))
  BY <1>6, <1>10
<1>12. Precedes(ByList, b, a)
  <2>1. b \in Places /\ a[1] \in Nat /\ a[2] \in Nat /\ r \in Nat /\ r < a[2]
    BY <1>3, <1>8
  <2>2. b[1] \in Nat /\ b[2] \in Nat
    BY <2>1 DEF Places
  <2>3. b[1] < a[1] \/ (b[1] = a[1] /\ b[2] <= r)
    BY <1>11, <2>1, <2>2 DEF Precedes, ByList
  <2> QED  BY <2>1, <2>2, <2>3 DEF Precedes, ByList
<1>13. <<b, a>> \in R
  <2>1. Fused(ls, u) \in Nat /\ Fused(ls, t) \in Nat
    BY <1>1, FusedIsNumber
  <2>2. Fused(ls, t) > Fused(ls, u) \/ Fused(ls, t) = Fused(ls, u)
    BY <1>2, <2>1
  <2> QED  BY <1>4, <1>7, <1>11, <1>12, <2>2
<1>14. Rank(S, R, b) < Rank(S, R, a)
  BY <1>3, <1>4, <1>13, RankFacts
<1>15. Place(ls, ByList, R, b) < n /\ Place(ls, ByList, R, b) \in 1..Len(M)
  BY <1>5, <1>7, <1>14 DEF Place, S
<1> QED  BY <1>5, <1>11, <1>15

-----------------------------------------------------------------------------
(* The request.                                                            *)

\* What a reply is made of.
LEMMA OthersFacts ==
  ASSUME NEW reply \in BoundedSeq(Queries, 2)
  PROVE  Others(reply) \in Seq(Queries)
<1>1. PICK m \in 0..2 : reply \in [1..m -> Queries]
  BY DEF BoundedSeq, SeqOf
<1> DEFINE kept == {i \in DOMAIN reply : reply[i] # Question}
           R == {p \in kept \X kept : p[1] < p[2]}
           order == InOrder(kept, R)
<1>2. kept \subseteq 1..m /\ m \in Nat /\ \A i \in kept : i \in Nat /\ reply[i] \in Queries
  BY <1>1
<1>3. IsFiniteSet(kept)
  BY <1>2, Upto, FS_Subset
<1>4. \A i, j \in kept : <<i, j>> \in R <=> i < j
  OBVIOUS
<1>5. Others(reply) = [n \in DOMAIN order |-> reply[order[n]]]
  BY DEF Others
<1> HIDE DEF kept, R
<1>6. Sorts(kept, R)
  BY <1>2, <1>4 DEF Sorts
<1>7. Cardinality(kept) \in Nat /\ order \in [1..Cardinality(kept) -> kept]
  BY <1>3, <1>6, InOrderFacts
<1> HIDE DEF order
<1>8. Others(reply) = [n \in 1..Cardinality(kept) |-> reply[order[n]]]
  BY <1>5, <1>7
<1>9. \A n \in 1..Cardinality(kept) : reply[order[n]] \in Queries
  BY <1>2, <1>7
<1> QED  BY <1>7, <1>8, <1>9

\* A search depends on what a request reads, which no step changes.
LEMMA InputsStay ==
  ASSUME UNCHANGED inputs
  PROVE  /\ \A n : Pool(n)' = Pool(n)
         /\ \A q, n : Retrieved(q, n)' = Retrieved(q, n)
         /\ \A qs, n : Fetched(qs, n)' = Fetched(qs, n)
         /\ \A ls, n : Search(ls, n)' = Search(ls, n)
<1>1. conf' = conf /\ copies' = copies /\ meaning' = meaning /\ words' = words /\ rating' = rating
  BY DEF inputs
<1>2. \A n : Pool(n)' = Pool(n)
  BY <1>1 DEF Pool
<1>3. \A t : Stored(t)' = Stored(t)
  BY <1>1 DEF Stored
<1>4. \A t : Ranked(t)' = Ranked(t)
  BY <1>3 DEF Ranked
<1>5. \A t, n : Leg(t, n)' = Leg(t, n)
  BY <1>4 DEF Leg
<1>6. \A q, n : Retrieved(q, n)' = Retrieved(q, n)
  BY <1>1, <1>5 DEF Retrieved
<1>7. \A qs, n : Fetched(qs, n)' = Fetched(qs, n)
  BY <1>2, <1>6 DEF Fetched
<1>8. \A s : ByRating(s)' = ByRating(s)
  BY <1>1 DEF ByRating
<1>9. \A s, n : Rerank(s, n)' = Rerank(s, n)
  BY <1>1, <1>8 DEF Rerank
<1>10. \A ls, n : Merged(ls, n)' = Merged(ls, n)
  BY <1>2 DEF Merged
<1>11. \A ls, n : Reranked(ls, n)' = Reranked(ls, n)
  BY <1>1, <1>9, <1>10 DEF Reranked
<1>12. \A ls, n : Diversified(ls, n)' = Diversified(ls, n)
  BY <1>1, <1>11 DEF Diversified
<1>13. \A ls, n : Search(ls, n)' = Search(ls, n)
  BY <1>12 DEF Search
<1> QED  BY <1>2, <1>6, <1>7, <1>13

\* The locals of the request.
LocalsOK ==
    /\ conf \in Confs /\ copies \in [Texts -> 0..MaxCopies]
    /\ pc \in {"queries", "fetch", "answer", "answered", "exhausted", "unanswered", "failed"}
    /\ queries \in Seq(Queries) /\ arrived \subseteq DOMAIN queries
    /\ DOMAIN lists = DOMAIN queries
    /\ k \in Nat \ {0}
    /\ round \in 0..MaxIter /\ (pc # "unanswered" => round < MaxIter)
    /\ contexts \in Seq(SUBSET Texts)

\* Before the first search, nothing is fetched; the question is in every one.
Started ==
    /\ pc = "queries" => /\ queries = <<>> /\ lists = <<>> /\ arrived = {}
                         /\ hits = <<>> /\ contexts = <<>>
    /\ pc # "queries" => Len(queries) >= 1

\* What has arrived is what the pool for k asks for.
Arriving ==
    pc \in {"fetch", "failed"} =>
        /\ hits = <<>>
        /\ lists = [i \in DOMAIN queries |->
                       IF i \in arrived THEN Retrieved(queries[i], Pool(k)) ELSE <<>>]

\* The hits are those of a search for n chunks that has ended.
Ended(n) ==
    /\ arrived = DOMAIN queries
    /\ lists = Fetched(queries, n)
    /\ hits = Search(lists, n)

Selected ==
    /\ pc \in {"answer", "answered", "exhausted"} => Ended(k)
    /\ pc = "unanswered" => \E n \in Nat \ {0} : n <= k /\ Ended(n)
    /\ pc = "exhausted" => Len(hits) < k

\* The LLM was shown more each time, and every search still to come shows it all.
ShownStays ==
    ~conf.hybrid =>
        /\ \A i, j \in 1..Len(contexts) : i < j => contexts[i] \subseteq contexts[j]
        /\ \A i \in 1..Len(contexts) : \A n \in Nat :
              k <= n => contexts[i] \subseteq TextsOf(Search(Fetched(queries, n), n))

RequestInv == InputsOK /\ LocalsOK /\ Started /\ Arriving /\ Selected /\ ShownStays

\* The request starts in the invariant.
LEMMA RequestInit == Init => RequestInv
<1> SUFFICES ASSUME Init PROVE RequestInv
  OBVIOUS
<1>1. InputsOK
  <2>1. conf \in ConfType
    BY RetrievalAssumption DEF Init
  <2>2. copies \in [Texts -> Nat]
    BY RetrievalAssumption DEF Init
  <2>3. meaning \in [Queries -> Orders] /\ words \in [Queries -> Matches]
    BY DEF Init
  <2>4. rating \in [Texts -> 0..1]
    BY DEF Init, Ratings
  <2> QED  BY <2>1, <2>2, <2>3, <2>4 DEF InputsOK
<1>2. LocalsOK
  <2>1. conf \in Confs /\ copies \in [Texts -> 0..MaxCopies] /\ pc = "queries"
    BY DEF Init
  <2>2. queries = <<>> /\ lists = <<>> /\ arrived = {} /\ contexts = <<>>
    BY DEF Init
  <2>3. k \in Nat \ {0} /\ round \in 0..MaxIter /\ round < MaxIter
    BY RetrievalAssumption DEF Init
  <2> QED  BY <2>1, <2>2, <2>3 DEF LocalsOK
<1>3. pc = "queries" /\ queries = <<>> /\ lists = <<>> /\ arrived = {} /\ hits = <<>> /\ contexts = <<>>
  BY DEF Init
<1>4. Started /\ Arriving /\ Selected
  BY <1>3 DEF Started, Arriving, Selected
<1>5. ShownStays
  <2>1. Len(contexts) = 0
    BY <1>3
  <2> QED  BY <2>1 DEF ShownStays
<1> QED  BY <1>1, <1>2, <1>4, <1>5 DEF RequestInv

\* The part that no step disturbs.
LEMMA InputsKept ==
  ASSUME InputsOK, conf \in Confs, copies \in [Texts -> 0..MaxCopies], UNCHANGED inputs
  PROVE  InputsOK' /\ (conf \in Confs)' /\ (copies \in [Texts -> 0..MaxCopies])'
<1>1. conf' = conf /\ copies' = copies /\ meaning' = meaning /\ words' = words /\ rating' = rating
  BY DEF inputs
<1> QED  BY <1>1 DEF InputsOK

\* The queries are fixed before anything is fetched.
LEMMA DecomposeStep ==
  ASSUME RequestInv, Decompose PROVE RequestInv'
<1>1. /\ pc = "queries" /\ pc' = "fetch"
      /\ lists' = [i \in DOMAIN queries' |-> <<>>]
      /\ UNCHANGED inputs
      /\ arrived' = arrived /\ k' = k /\ round' = round /\ hits' = hits /\ contexts' = contexts
  BY DEF Decompose
<1>2. queries = <<>> /\ arrived = {} /\ hits = <<>> /\ contexts = <<>>
  BY <1>1 DEF RequestInv, Started
<1>3. queries' \in Seq(Queries) /\ Len(queries') >= 1
  <2>1. PICK reply \in BoundedSeq(Queries, 2) :
           queries' = <<Question>> \o Cut(Others(reply), conf.decompose)
    BY DEF Decompose
  <2>2. Others(reply) \in Seq(Queries)
    BY OthersFacts
  <2>3. conf.decompose \in Nat
    BY DEF RequestInv, InputsOK, ConfType
  <2> DEFINE rest == Cut(Others(reply), conf.decompose)
  <2>4. rest \in Seq(Queries)
    BY <2>2, <2>3, CutFacts
  <2> HIDE DEF rest
  <2>5. <<Question>> \in Seq(Queries) /\ Len(<<Question>>) = 1
    BY DEF Queries
  <2>6. queries' = <<Question>> \o rest
    BY <2>1 DEF rest
  <2> HIDE DEF Queries
  <2> QED  BY <2>4, <2>5, <2>6
<1>4. InputsOK' /\ (conf \in Confs)' /\ (copies \in [Texts -> 0..MaxCopies])'
  BY <1>1, InputsKept DEF RequestInv, LocalsOK
<1>5. LocalsOK'
  <2>1. k' \in Nat \ {0} /\ round' \in 0..MaxIter /\ round' < MaxIter /\ contexts' \in Seq(SUBSET Texts)
    BY <1>1 DEF RequestInv, LocalsOK
  <2>2. DOMAIN lists' = DOMAIN queries' /\ arrived' \subseteq DOMAIN queries'
    BY <1>1, <1>2
  <2> QED  BY <1>1, <1>3, <1>4, <2>1, <2>2 DEF LocalsOK
<1>6. Started' /\ Selected'
  BY <1>1, <1>3 DEF Started, Selected
<1>7. Arriving'
  BY <1>1, <1>2 DEF Arriving
<1>8. ShownStays'
  <2>1. Len(contexts') = 0
    BY <1>1, <1>2
  <2> QED  BY <2>1 DEF ShownStays
<1> QED  BY <1>4, <1>5, <1>6, <1>7, <1>8 DEF RequestInv

\* A step that changes neither k, the queries nor what was shown.
LEMMA ShownKept ==
  ASSUME ShownStays, UNCHANGED inputs, UNCHANGED <<queries, contexts>>,
         k \in Nat, k' \in Nat, k <= k'
  PROVE  ShownStays'
<1>1. /\ \A qs, n : Fetched(qs, n)' = Fetched(qs, n)
      /\ \A ls, n : Search(ls, n)' = Search(ls, n)
  BY InputsStay
<1>2. conf' = conf /\ queries' = queries /\ contexts' = contexts
  BY DEF inputs
<1>3. \A n \in Nat : k' <= n => k <= n
  OBVIOUS
<1> QED  BY <1>1, <1>2, <1>3 DEF ShownStays

\* A fetch fills its own place.
LEMMA FetchStep ==
  ASSUME RequestInv, NEW i \in DOMAIN queries, Fetch(i) PROVE RequestInv'
<1>1. /\ pc = "fetch" /\ pc' = "fetch"
      /\ lists' = [lists EXCEPT ![i] = Retrieved(queries[i], Pool(k))]
      /\ arrived' = arrived \cup {i}
      /\ UNCHANGED inputs
      /\ queries' = queries /\ k' = k /\ round' = round /\ hits' = hits /\ contexts' = contexts
  BY DEF Fetch
<1>2. InputsOK' /\ (conf \in Confs)' /\ (copies \in [Texts -> 0..MaxCopies])'
  BY <1>1, InputsKept DEF RequestInv, LocalsOK
<1>3. LocalsOK'
  <2>1. /\ queries' \in Seq(Queries) /\ k' \in Nat \ {0} /\ round' \in 0..MaxIter
        /\ round' < MaxIter /\ contexts' \in Seq(SUBSET Texts)
    BY <1>1 DEF RequestInv, LocalsOK
  <2>2. DOMAIN lists' = DOMAIN queries' /\ arrived' \subseteq DOMAIN queries'
    BY <1>1 DEF RequestInv, LocalsOK
  <2> QED  BY <1>1, <1>2, <2>1, <2>2 DEF LocalsOK
<1>4. Started' /\ Selected'
  BY <1>1 DEF RequestInv, Started, Selected
<1>5. Arriving'
  <2>1. \A q, n : Retrieved(q, n)' = Retrieved(q, n)
    BY <1>1, InputsStay
  <2>2. \A n : Pool(n)' = Pool(n)
    BY <1>1, InputsStay
  <2>3. hits = <<>> /\ lists = [j \in DOMAIN queries |->
            IF j \in arrived THEN Retrieved(queries[j], Pool(k)) ELSE <<>>]
    BY <1>1 DEF RequestInv, Arriving
  <2>4. lists' = [j \in DOMAIN queries |->
            IF j \in arrived' THEN Retrieved(queries[j], Pool(k)) ELSE <<>>]
    BY <1>1, <2>3
  <2> QED  BY <1>1, <2>1, <2>2, <2>3, <2>4 DEF Arriving
<1>6. ShownStays'
  BY <1>1, ShownKept DEF RequestInv, LocalsOK
<1> QED  BY <1>2, <1>3, <1>4, <1>5, <1>6 DEF RequestInv

\* The texts of a search are stored.
LEMMA SearchStored ==
  ASSUME InputsOK, NEW qs \in Seq(Queries), Len(qs) >= 1, NEW n \in Nat
  PROVE  /\ Search(Fetched(qs, n), n) \in Seq(HitType)
         /\ Len(Search(Fetched(qs, n), n)) <= n
         /\ TextsOf(Search(Fetched(qs, n), n)) \subseteq StoredTexts
<1> DEFINE ls == Fetched(qs, n)
<1>1. ls \in Seq(Seq(HitType)) /\ Len(ls) >= 1 /\ \A i \in 1..Len(ls) : TextsOf(ls[i]) \subseteq StoredTexts
  BY FetchedFacts
<1> HIDE DEF ls
<1>2. /\ Search(ls, n) \in Seq(HitType) /\ Len(Search(ls, n)) <= n
      /\ TextsOf(Search(ls, n)) \subseteq TextsOf(Diversified(ls, n))
      /\ TextsOf(Diversified(ls, n)) \subseteq TextsOf(Reranked(ls, n))
      /\ TextsOf(Reranked(ls, n)) \subseteq TextsOf(Merged(ls, n))
      /\ TextsOf(Merged(ls, n)) \subseteq StoredTexts
  BY <1>1, SearchFacts
<1> QED  BY <1>2 DEF ls

\* A search shows what the searches before it showed: the part of the invariant
\* that speaks of the searches still to come.
LEMMA SelectStep ==
  ASSUME RequestInv, Select PROVE RequestInv'
<1>1. /\ pc = "fetch" /\ pc' = "answer" /\ arrived = DOMAIN queries
      /\ hits' = Search(lists, k) /\ contexts' = Append(contexts, TextsOf(hits'))
      /\ UNCHANGED inputs
      /\ queries' = queries /\ lists' = lists /\ arrived' = arrived /\ k' = k /\ round' = round
  BY DEF Select
<1>2. /\ InputsOK /\ queries \in Seq(Queries) /\ Len(queries) >= 1 /\ k \in Nat
      /\ contexts \in Seq(SUBSET Texts)
  BY <1>1 DEF RequestInv, LocalsOK, Started
<1>3. InputsOK' /\ (conf \in Confs)' /\ (copies \in [Texts -> 0..MaxCopies])'
  BY <1>1, InputsKept DEF RequestInv, LocalsOK
<1>4. lists = Fetched(queries, k)
  <2>1. lists = [i \in DOMAIN queries |->
                    IF i \in arrived THEN Retrieved(queries[i], Pool(k)) ELSE <<>>]
    BY <1>1 DEF RequestInv, Arriving
  <2> QED  BY <1>1, <2>1 DEF Fetched
<1>5. TextsOf(hits') \subseteq StoredTexts /\ StoredTexts \subseteq Texts
  BY <1>1, <1>2, <1>4, SearchStored DEF StoredTexts
<1> DEFINE shown == TextsOf(Search(Fetched(queries, k), k))
<1>6. /\ contexts' \in Seq(SUBSET Texts) /\ Len(contexts') = Len(contexts) + 1
      /\ \A i \in 1..Len(contexts) : contexts'[i] = contexts[i]
      /\ contexts'[Len(contexts) + 1] = shown
      /\ Len(contexts) \in Nat
  <2>1. shown \in SUBSET Texts /\ contexts' = Append(contexts, shown)
    BY <1>1, <1>4, <1>5
  <2> HIDE DEF shown
  <2> QED  BY <1>2, <2>1
<1> HIDE DEF shown
<1>7. LocalsOK'
  <2>1. /\ queries' \in Seq(Queries) /\ k' \in Nat \ {0} /\ round' \in 0..MaxIter
        /\ round' < MaxIter /\ DOMAIN lists' = DOMAIN queries' /\ arrived' \subseteq DOMAIN queries'
    BY <1>1 DEF RequestInv, LocalsOK
  <2> QED  BY <1>1, <1>3, <1>6, <2>1 DEF LocalsOK
<1>8. Started' /\ Arriving'
  BY <1>1 DEF RequestInv, Started, Arriving
<1>9. Selected'
  <2>1. /\ \A qs, n : Fetched(qs, n)' = Fetched(qs, n)
        /\ \A ls, n : Search(ls, n)' = Search(ls, n)
    BY <1>1, InputsStay
  <2> QED  BY <1>1, <1>4, <2>1 DEF Selected, Ended
<1>10. ShownStays'
  <2>1. /\ \A qs, n : Fetched(qs, n)' = Fetched(qs, n)
        /\ \A ls, n : Search(ls, n)' = Search(ls, n)
    BY <1>1, InputsStay
  <2>2. conf' = conf
    BY <1>1 DEF inputs
  <2> SUFFICES ASSUME ~conf.hybrid
               PROVE  /\ \A i, j \in 1..Len(contexts') : i < j => contexts'[i] \subseteq contexts'[j]
                      /\ \A i \in 1..Len(contexts') : \A n \in Nat :
                           k <= n => contexts'[i] \subseteq TextsOf(Search(Fetched(queries, n), n))
    BY <1>1, <2>1, <2>2 DEF ShownStays
  <2>3. /\ \A i, j \in 1..Len(contexts) : i < j => contexts[i] \subseteq contexts[j]
        /\ \A i \in 1..Len(contexts) : \A n \in Nat :
              k <= n => contexts[i] \subseteq TextsOf(Search(Fetched(queries, n), n))
    BY DEF RequestInv, ShownStays
  <2>4. \A i \in 1..Len(contexts) : contexts[i] \subseteq shown
    <3>1. k <= k
      BY <1>2
    <3> QED  BY <1>2, <2>3, <3>1 DEF shown
  <2>5. \A n \in Nat : k <= n => shown \subseteq TextsOf(Search(Fetched(queries, n), n))
    BY <1>2, SearchGrows DEF shown
  <2>6. \A i \in 1..Len(contexts') : i \in 1..Len(contexts) \/ i = Len(contexts) + 1
    BY <1>6
  <2>7. ASSUME NEW i \in 1..Len(contexts'), NEW j \in 1..Len(contexts'), i < j
        PROVE  contexts'[i] \subseteq contexts'[j]
    <3>1. i \in 1..Len(contexts)
      BY <1>6, <2>7
    <3> QED  BY <1>6, <2>3, <2>4, <2>6, <2>7, <3>1
  <2>8. ASSUME NEW i \in 1..Len(contexts'), NEW n \in Nat, k <= n
        PROVE  contexts'[i] \subseteq TextsOf(Search(Fetched(queries, n), n))
    BY <1>6, <2>3, <2>5, <2>6, <2>8
  <2> QED  BY <2>7, <2>8
<1> QED  BY <1>3, <1>7, <1>8, <1>9, <1>10 DEF RequestInv

\* The steps that only end the request.
LEMMA EndStep ==
  ASSUME RequestInv, SearchFails \/ Answers \/ Exhausted PROVE RequestInv'
<1>1. /\ UNCHANGED inputs
      /\ queries' = queries /\ lists' = lists /\ arrived' = arrived /\ k' = k /\ round' = round
      /\ hits' = hits /\ contexts' = contexts
  BY DEF SearchFails, Answers, Exhausted
<1>2. \/ pc = "fetch" /\ pc' = "failed"
      \/ pc = "answer" /\ pc' = "answered"
      \/ pc = "answer" /\ pc' = "exhausted" /\ Len(hits) < k
  BY DEF SearchFails, Answers, Exhausted, NothingMore
<1>3. InputsOK' /\ (conf \in Confs)' /\ (copies \in [Texts -> 0..MaxCopies])'
  BY <1>1, InputsKept DEF RequestInv, LocalsOK
<1>4. /\ \A n : Pool(n)' = Pool(n)
      /\ \A q, n : Retrieved(q, n)' = Retrieved(q, n)
      /\ \A qs, n : Fetched(qs, n)' = Fetched(qs, n)
      /\ \A ls, n : Search(ls, n)' = Search(ls, n)
  BY <1>1, InputsStay
<1>5. LocalsOK'
  <2>1. /\ queries' \in Seq(Queries) /\ k' \in Nat \ {0} /\ round' \in 0..MaxIter
        /\ round' < MaxIter /\ DOMAIN lists' = DOMAIN queries' /\ arrived' \subseteq DOMAIN queries'
        /\ contexts' \in Seq(SUBSET Texts)
    BY <1>1, <1>2 DEF RequestInv, LocalsOK
  <2> QED  BY <1>2, <1>3, <2>1 DEF LocalsOK
<1>6. Started'
  BY <1>1, <1>2 DEF RequestInv, Started
<1>7. Arriving'
  BY <1>1, <1>2, <1>4 DEF RequestInv, Arriving
<1>8. Selected'
  BY <1>1, <1>2, <1>4 DEF RequestInv, Selected, Ended
<1>9. ShownStays'
  BY <1>1, ShownKept DEF RequestInv, LocalsOK
<1> QED  BY <1>3, <1>5, <1>6, <1>7, <1>8, <1>9 DEF RequestInv

\* A larger k keeps what was shown, for k only grows.
LEMMA WidenStep ==
  ASSUME RequestInv, Widen PROVE RequestInv'
<1>1. /\ pc = "answer" /\ round' = round + 1 /\ k' = k * Factor
      /\ UNCHANGED inputs /\ queries' = queries /\ contexts' = contexts
  BY DEF Widen
<1>2. \/ round' = MaxIter /\ pc' = "unanswered" /\ lists' = lists /\ arrived' = arrived /\ hits' = hits
      \/ /\ round' # MaxIter /\ pc' = "fetch"
         /\ lists' = [i \in DOMAIN queries |-> <<>>] /\ arrived' = {} /\ hits' = <<>>
  BY DEF Widen
<1>3. InputsOK' /\ (conf \in Confs)' /\ (copies \in [Texts -> 0..MaxCopies])'
  BY <1>1, InputsKept DEF RequestInv, LocalsOK
<1>4. k \in Nat \ {0} /\ k' \in Nat \ {0} /\ k <= k'
  <2>1. k \in Nat \ {0} /\ Factor \in Nat \ {0}
    BY RetrievalAssumption DEF RequestInv, LocalsOK
  <2>2. \A a, b \in Nat \ {0} : a * b \in Nat \ {0} /\ a <= a * b
    OBVIOUS
  <2> QED  BY <1>1, <2>1, <2>2
<1>5. Ended(k) /\ Len(queries) >= 1
  BY <1>1 DEF RequestInv, Selected, Started
<1>6. LocalsOK'
  <2>1. queries' \in Seq(Queries) /\ contexts' \in Seq(SUBSET Texts)
    BY <1>1 DEF RequestInv, LocalsOK
  <2>2. round' \in 0..MaxIter /\ (pc' # "unanswered" => round' < MaxIter)
    <3>1. round \in 0..MaxIter /\ round < MaxIter /\ MaxIter \in Nat
      BY <1>1, RetrievalAssumption DEF RequestInv, LocalsOK
    <3> QED  BY <1>1, <1>2, <3>1
  <2>3. DOMAIN lists' = DOMAIN queries' /\ arrived' \subseteq DOMAIN queries'
    BY <1>1, <1>2 DEF RequestInv, LocalsOK
  <2>4. pc' \in {"fetch", "unanswered"}
    BY <1>2
  <2> QED  BY <1>3, <1>4, <2>1, <2>2, <2>3, <2>4 DEF LocalsOK
<1>7. Started'
  BY <1>1, <1>2, <1>5 DEF Started
<1>8. Arriving'
  BY <1>1, <1>2 DEF Arriving
<1>9. Selected'
  <2>1. CASE pc' = "fetch"
    BY <2>1 DEF Selected
  <2>2. CASE pc' = "unanswered"
    <3>1. /\ \A qs, n : Fetched(qs, n)' = Fetched(qs, n)
          /\ \A ls, n : Search(ls, n)' = Search(ls, n)
      BY <1>1, InputsStay
    <3>2. lists' = lists /\ arrived' = arrived /\ hits' = hits
      BY <1>2, <2>2
    <3>3. /\ arrived' = DOMAIN queries' /\ lists' = Fetched(queries', k) /\ hits' = Search(lists', k)
      BY <1>1, <1>5, <3>2 DEF Ended
    <3>4. \E n \in Nat \ {0} : n <= k' /\ arrived' = DOMAIN queries' /\ lists' = Fetched(queries, n)'
                              /\ hits' = Search(lists, n)'
      BY <1>1, <1>4, <3>1, <3>3
    <3> QED  BY <2>2, <3>4 DEF Selected, Ended
  <2> QED  BY <1>2, <2>1, <2>2
<1>10. ShownStays'
  BY <1>1, <1>4, ShownKept DEF RequestInv
<1> QED  BY <1>3, <1>6, <1>7, <1>8, <1>9, <1>10 DEF RequestInv

\* Every step keeps the invariant.
LEMMA RequestNext == RequestInv /\ [Next]_vars => RequestInv'
<1> SUFFICES ASSUME RequestInv, [Next]_vars PROVE RequestInv'
  OBVIOUS
<1>1. CASE Decompose
  BY <1>1, DecomposeStep
<1>2. CASE \E i \in DOMAIN queries : Fetch(i)
  BY <1>2, FetchStep
<1>3. CASE Select
  BY <1>3, SelectStep
<1>4. CASE SearchFails \/ Answers \/ Exhausted
  BY <1>4, EndStep
<1>5. CASE Widen
  BY <1>5, WidenStep
<1>6. CASE UNCHANGED vars
  <2>1. /\ UNCHANGED inputs /\ pc' = pc
        /\ queries' = queries /\ lists' = lists /\ arrived' = arrived /\ k' = k /\ round' = round
        /\ hits' = hits /\ contexts' = contexts
    BY <1>6 DEF vars, inputs
  <2>2. /\ \A n : Pool(n)' = Pool(n)
        /\ \A q, n : Retrieved(q, n)' = Retrieved(q, n)
        /\ \A qs, n : Fetched(qs, n)' = Fetched(qs, n)
        /\ \A ls, n : Search(ls, n)' = Search(ls, n)
    BY <2>1, InputsStay
  <2>3. InputsOK' /\ (conf \in Confs)' /\ (copies \in [Texts -> 0..MaxCopies])'
    BY <2>1, InputsKept DEF RequestInv, LocalsOK
  <2>4. LocalsOK' /\ Started'
    BY <2>1, <2>3 DEF RequestInv, LocalsOK, Started
  <2>5. Arriving'
    BY <2>1, <2>2 DEF RequestInv, Arriving
  <2>6. Selected'
    BY <2>1, <2>2 DEF RequestInv, Selected, Ended
  <2>7. ShownStays'
    BY <2>1, ShownKept DEF RequestInv, LocalsOK
  <2> QED  BY <2>3, <2>4, <2>5, <2>6, <2>7 DEF RequestInv
<1> QED  BY <1>1, <1>2, <1>3, <1>4, <1>5, <1>6 DEF Next

\* main.py:340-377, 424-465.  What was fetched, selected and shown stands in the
\* relation RequestInv all through the request.
THEOREM RequestInvariance == Spec => []RequestInv
BY RequestInit, RequestNext, PTL DEF Spec

\* Cuts keep who leads.
LEMMA LeadsCut ==
  ASSUME NEW X, NEW s \in Seq(X), NEW n \in Nat, NEW m \in Nat, n <= m, NEW t, NEW u
  PROVE  /\ Leads(Cut(s, m), t, u) => Leads(Cut(s, n), t, u)
         /\ Leads(s, t, u) => Leads(Cut(s, n), t, u)
         /\ AtMostOnce(s, t) => AtMostOnce(Cut(s, n), t)
<1> DEFINE c == Cut(s, n)
           e == Cut(s, m)
<1>1. Len(s) \in Nat
  OBVIOUS
<1>2. /\ \A i \in 1..Len(c) : i \in 1..Len(s) /\ i \in 1..Len(e) /\ c[i] = s[i] /\ e[i] = s[i]
      /\ Len(c) \in Nat /\ Len(e) \in Nat
  <2>1. /\ Len(c) = (IF n < Len(s) THEN n ELSE Len(s))
        /\ \A i \in 1..Len(s) : i <= n => c[i] = s[i]
    BY CutFacts
  <2>2. /\ Len(e) = (IF m < Len(s) THEN m ELSE Len(s))
        /\ \A i \in 1..Len(s) : i <= m => e[i] = s[i]
    BY CutFacts
  <2> HIDE DEF c, e
  <2>3. \A i \in 1..Len(c) : i \in 1..Len(s) /\ i <= n /\ i <= m /\ i \in 1..Len(e)
    BY <1>1, <2>1, <2>2
  <2> QED  BY <1>1, <2>1, <2>2, <2>3
<1> HIDE DEF c, e
<1>3. \A i \in 1..Len(c) : \A j \in 1..i - 1 : j \in 1..Len(c)
  BY <1>2
<1>4. ASSUME Leads(e, t, u) PROVE Leads(c, t, u)
  <2> SUFFICES ASSUME NEW i \in 1..Len(c), c[i].text = u PROVE \E j \in 1..i - 1 : c[j].text = t
    BY DEF Leads
  <2>1. PICK j \in 1..i - 1 : e[j].text = t
    BY <1>2, <1>4 DEF Leads
  <2> QED  BY <1>2, <1>3, <2>1
<1>5. ASSUME Leads(s, t, u) PROVE Leads(c, t, u)
  <2> SUFFICES ASSUME NEW i \in 1..Len(c), c[i].text = u PROVE \E j \in 1..i - 1 : c[j].text = t
    BY DEF Leads
  <2>1. PICK j \in 1..i - 1 : s[j].text = t
    BY <1>2, <1>5 DEF Leads
  <2> QED  BY <1>2, <1>3, <2>1
<1>6. ASSUME AtMostOnce(s, t) PROVE AtMostOnce(c, t)
  BY <1>2, <1>6 DEF AtMostOnce
<1> QED  BY <1>4, <1>5, <1>6 DEF c, e

\* hybrid.py:89-108.  A text before another in both legs for a wide pool is before
\* it in what is retrieved for a narrow one.
LEMMA RetrievedLeads ==
  ASSUME InputsOK, conf.hybrid, NEW q \in Queries, NEW n \in Nat, NEW m \in Nat, n <= m,
         NEW t \in Texts, NEW u \in Texts, copies[t] = 1, copies[u] = 1,
         Leads(Leg(meaning[q], m), t, u), Leads(Leg(words[q], m), t, u)
  PROVE  Leads(Retrieved(q, n), t, u)
<1> DEFINE v == Leg(meaning[q], n)
           w == Leg(words[q], n)
<1>1. v \in Seq(HitType) /\ w \in Seq(HitType)
  BY RetrievedFacts
<1>2. ASSUME NEW texts \in Seq(Texts), Once(texts), Leads(Leg(texts, m), t, u)
      PROVE  /\ Leads(Leg(texts, n), t, u)
             /\ AtMostOnce(Leg(texts, n), t) /\ AtMostOnce(Leg(texts, n), u)
  <2> DEFINE r == Ranked(texts)
  <2>1. /\ r \in Seq(HitType)
        /\ \A i, j \in 1..Len(r) : r[i].text = r[j].text /\ copies[r[i].text] = 1 => i = j
    BY <1>2, RankedFacts
  <2>2. Leg(texts, n) = Cut(r, n) /\ Leg(texts, m) = Cut(r, m)
    BY DEF Leg
  <2> HIDE DEF r
  <2>3. AtMostOnce(r, t) /\ AtMostOnce(r, u)
    BY <2>1 DEF AtMostOnce
  <2>4. Leads(Cut(r, m), t, u)
    BY <1>2, <2>2
  <2> QED  BY <2>1, <2>2, <2>3, <2>4, LeadsCut
<1>3. /\ meaning[q] \in Seq(Texts) /\ Once(meaning[q])
      /\ words[q] \in Seq(Texts) /\ Once(words[q])
  <2>1. meaning[q] \in Orders /\ words[q] \in Matches
    BY DEF InputsOK
  <2> QED  BY <2>1, OrderFacts, MatchFacts
<1>4. /\ Leads(v, t, u) /\ AtMostOnce(v, t) /\ AtMostOnce(v, u)
      /\ Leads(w, t, u) /\ AtMostOnce(w, t) /\ AtMostOnce(w, u)
  BY <1>2, <1>3
<1>5. Retrieved(q, n) = IF w = <<>> THEN v ELSE Cut(RrfAll(<<v, w>>), n)
  BY MergedFacts DEF Retrieved
<1> HIDE DEF v, w
<1>6. Leads(RrfAll(<<v, w>>), t, u)
  BY <1>1, <1>4, FusedLeads
<1>7. RrfAll(<<v, w>>) \in Seq(HitType)
  <2>1. <<v, w>> \in Seq(Seq(HitType))
    BY <1>1
  <2> QED  BY <2>1, RrfFacts
<1>8. Leads(Cut(RrfAll(<<v, w>>), n), t, u)
  BY <1>6, <1>7, LeadsCut
<1> QED  BY <1>4, <1>5, <1>8

\* main.py:424-425.  A wider search never loses a chunk that the LLM was shown.
THEOREM ContextGuarantee == Spec => []ContextGrows
<1>1. RequestInv => ContextGrows
  <2> SUFFICES ASSUME RequestInv, ~conf.hybrid
               PROVE  \A i, j \in DOMAIN contexts : i < j => contexts[i] \subseteq contexts[j]
    BY DEF ContextGrows
  <2>1. DOMAIN contexts = 1..Len(contexts)
    BY DEF RequestInv, LocalsOK
  <2> QED  BY <2>1 DEF RequestInv, ShownStays
<1> QED  BY <1>1, RequestInvariance, PTL

\* ranking.py:50-53.  The best hit of every sub-query reaches the LLM.
THEOREM SlotGuarantee == Spec => []SlotPerQuery
<1>1. RequestInv => SlotPerQuery
  <2> SUFFICES ASSUME RequestInv, pc = "answer", Len(queries) > 1, conf.rerank = 0, conf.mmr = 0,
                      k >= Len(queries), NEW i \in DOMAIN lists, lists[i] # <<>>
               PROVE  lists[i][1].text \in TextsOf(hits)
    BY DEF SlotPerQuery
  <2>1. /\ InputsOK /\ queries \in Seq(Queries) /\ k \in Nat
        /\ lists = Fetched(queries, k) /\ hits = Search(lists, k)
    BY DEF RequestInv, LocalsOK, Selected, Ended
  <2>2. Len(queries) >= 1 /\ Len(queries) \in Nat
    BY <2>1
  <2>3. lists \in Seq(Seq(HitType)) /\ Len(lists) = Len(queries)
    BY <2>1, <2>2, FetchedFacts
  <2>4. i \in 1..Len(lists)
    BY <2>3
  <2>5. Pool(k) = k
    BY <2>1, PoolFacts
  <2>6. Merged(lists, k) = InterleaveMerge(lists, k)
    <3>1. Len(lists) # 1
      BY <2>2, <2>3
    <3> QED  BY <2>5, <3>1 DEF Merged
  <2>7. Search(lists, k) = Cut(InterleaveMerge(lists, k), k)
    BY <2>6 DEF Search, Diversified, Reranked
  <2>8. InterleaveMerge(lists, k) = Cut(InterleaveAll(lists), k) /\ InterleaveAll(lists) \in Seq(HitType)
    BY <2>1, <2>3, MergedFacts, InterleaveFacts
  <2>9. Cut(InterleaveMerge(lists, k), k) = InterleaveMerge(lists, k)
    BY <2>1, <2>8, CutGrows
  <2>10. lists[i][1].text \in TextsOf(InterleaveMerge(lists, k))
    BY <2>1, <2>3, <2>4, FirstHitsShown
  <2> QED  BY <2>1, <2>7, <2>9, <2>10
<1> QED  BY <1>1, RequestInvariance, PTL

\* main.py:460-464.  The loop gives up early only when the LLM has seen all.
THEOREM ExhaustionGuarantee == Spec => []ExhaustionIsReal
<1>1. RequestInv => ExhaustionIsReal
  <2> SUFFICES ASSUME RequestInv, pc = "exhausted", \A t \in Texts : copies[t] <= 1
               PROVE  StoredTexts \subseteq TextsOf(hits)
    BY DEF ExhaustionIsReal, StoredTexts
  <2>1. /\ InputsOK /\ queries \in Seq(Queries) /\ Len(queries) >= 1 /\ k \in Nat
        /\ lists = Fetched(queries, k) /\ hits = Search(lists, k) /\ Len(hits) < k
    BY DEF RequestInv, LocalsOK, Started, Selected, Ended
  <2>2. /\ lists \in Seq(Seq(HitType)) /\ Len(lists) = Len(queries)
        /\ \A i \in 1..Len(queries) : lists[i] = Retrieved(queries[i], Pool(k))
    BY <2>1, FetchedFacts
  <2>3. Pool(k) \in Nat
    BY <2>1, PoolFacts
  <2>4. ASSUME NEW i \in 1..Len(lists) PROVE Full(lists[i], Pool(k))
    <3>1. queries[i] \in Queries
      BY <2>1, <2>2
    <3> QED  BY <2>1, <2>2, <2>3, <3>1, RetrievedFull
  <2> QED  BY <2>1, <2>2, <2>4, SearchFull
<1> QED  BY <1>1, RequestInvariance, PTL

\* ranking.py:24-29.  A text no lower than another in both legs is not below it
\* in what they are fused to.
THEOREM ConsensusGuarantee == Spec => []ConsensusWins
<1>1. RequestInv => ConsensusWins
  <2> SUFFICES ASSUME RequestInv, NEW i \in arrived, conf.hybrid,
                      NEW t \in Texts, NEW u \in Texts, copies[t] = 1, copies[u] = 1,
                      \A n \in DOMAIN Leg(meaning[queries[i]], Pool(k)) :
                         Leg(meaning[queries[i]], Pool(k))[n].text = u =>
                            \E m \in 1..n - 1 : Leg(meaning[queries[i]], Pool(k))[m].text = t,
                      \A n \in DOMAIN Leg(words[queries[i]], Pool(k)) :
                         Leg(words[queries[i]], Pool(k))[n].text = u =>
                            \E m \in 1..n - 1 : Leg(words[queries[i]], Pool(k))[m].text = t,
                      NEW n \in DOMAIN lists[i], lists[i][n].text = u
               PROVE  \E m \in DOMAIN lists[i] : lists[i][m].text = t /\ m < n
    BY DEF ConsensusWins
  <2>1. /\ InputsOK /\ queries \in Seq(Queries) /\ i \in 1..Len(queries) /\ k \in Nat /\ queries[i] \in Queries
    BY DEF RequestInv, LocalsOK
  <2>2. \E x \in Nat : x <= k /\ lists[i] = Retrieved(queries[i], Pool(x))
    <3>1. pc # "queries"
      BY DEF RequestInv, Started
    <3>2. CASE pc \in {"fetch", "failed"}
      BY <2>1, <3>2 DEF RequestInv, Arriving
    <3>3. CASE pc \in {"answer", "answered", "exhausted"}
      BY <2>1, <3>3 DEF RequestInv, Selected, Ended, Fetched
    <3>4. CASE pc = "unanswered"
      BY <2>1, <3>4 DEF RequestInv, Selected, Ended, Fetched
    <3> QED  BY <3>1, <3>2, <3>3, <3>4 DEF RequestInv, LocalsOK
  <2>3. PICK x \in Nat : x <= k /\ lists[i] = Retrieved(queries[i], Pool(x))
    BY <2>2
  <2>4. Pool(x) \in Nat /\ Pool(k) \in Nat /\ Pool(x) <= Pool(k)
    BY <2>1, <2>3, PoolFacts, PoolGrows
  <2>5. Leads(Leg(meaning[queries[i]], Pool(k)), t, u) /\ Leads(Leg(words[queries[i]], Pool(k)), t, u)
    <3>1. /\ Leg(meaning[queries[i]], Pool(k)) \in Seq(HitType)
          /\ Leg(words[queries[i]], Pool(k)) \in Seq(HitType)
      BY <2>1, <2>4, RetrievedFacts
    <3> QED  BY <3>1 DEF Leads
  <2>6. Leads(lists[i], t, u)
    BY <2>1, <2>3, <2>4, <2>5, RetrievedLeads
  <2>7. lists[i] \in Seq(HitType)
    BY <2>1, <2>3, <2>4, RetrievedFacts
  <2>8. DOMAIN lists[i] = 1..Len(lists[i]) /\ Len(lists[i]) \in Nat
    BY <2>7
  <2>9. PICK m \in 1..n - 1 : lists[i][m].text = t
    BY <2>6, <2>8 DEF Leads
  <2>10. m \in DOMAIN lists[i] /\ m < n
    <3>1. n \in 1..Len(lists[i])
      BY <2>8
    <3> QED  BY <2>8, <3>1
  <2> QED  BY <2>9, <2>10
<1> QED  BY <1>1, RequestInvariance, PTL

\* The types of the locals of _search and of the loop around it.
THEOREM RequestTypes == Spec => []TypeOK
<1>1. RequestInv => TypeOK
  <2> SUFFICES ASSUME RequestInv PROVE TypeOK
    OBVIOUS
  <2>1. /\ InputsOK /\ queries \in Seq(Queries) /\ k \in Nat
    BY DEF RequestInv, LocalsOK
  <2>2. hits = <<>> \/ \E n \in Nat : n <= k /\ Len(queries) >= 1 /\ hits = Search(Fetched(queries, n), n)
    BY DEF RequestInv, LocalsOK, Started, Arriving, Selected, Ended
  <2>3. TextsOf(hits) \subseteq StoredTexts /\ Len(hits) <= k
    <3>1. CASE hits = <<>>
      BY <2>1, <3>1 DEF TextsOf
    <3>2. CASE \E n \in Nat : n <= k /\ Len(queries) >= 1 /\ hits = Search(Fetched(queries, n), n)
      <4>1. PICK n \in Nat : n <= k /\ Len(queries) >= 1 /\ hits = Search(Fetched(queries, n), n)
        BY <3>2
      <4>2. hits \in Seq(HitType) /\ Len(hits) <= n /\ TextsOf(hits) \subseteq StoredTexts
        BY <2>1, <4>1, SearchStored
      <4>3. Len(hits) \in Nat
        BY <4>2
      <4> QED  BY <2>1, <4>1, <4>2, <4>3
    <3> QED  BY <2>2, <3>1, <3>2
  <2> QED  BY <2>1, <2>3 DEF TypeOK, StoredTexts, RequestInv, LocalsOK
<1> QED  BY <1>1, RequestInvariance, PTL


-----------------------------------------------------------------------------
(* Definitions by recursion over the first numbers.                        *)

\* What holds of 0 and of a number when it holds of the one before holds of all.
LEMMA Upward ==
  ASSUME NEW N \in Nat, NEW T, 0 \in T, \A n \in 1..N : n - 1 \in T => n \in T
  PROVE  0..N \subseteq T
<1> DEFINE Bad == (0..N) \ T
<1> SUFFICES ASSUME Bad # {} PROVE FALSE
  OBVIOUS
<1>1. Bad \in SUBSET Nat
  OBVIOUS
<1>2. PICK n \in Bad : \A m \in Bad : n <= m
  <2> HIDE DEF Bad
  <2> QED  BY <1>1, LeastNumber
<1>3. n \in 1..N /\ n - 1 \in 0..N /\ ~(n <= n - 1)
  OBVIOUS
<1>4. n - 1 \in T
  BY <1>2, <1>3
<1> QED  BY <1>3, <1>4

Follows(f, N, base, step) == f[0] = base /\ \A n \in 1..N : f[n] = step[<<n, f[n - 1]>>]

\* There is a function that starts with base and goes on with step.
LEMMA Recursion ==
  ASSUME NEW N \in Nat, NEW X, NEW base \in X, NEW step \in [(1..N) \X X -> X]
  PROVE  \E f \in [0..N -> X] : Follows(f, N, base, step)
<1> DEFINE Right(n, f) == f[0] = base /\ \A m \in 1..n : f[m] = step[<<m, f[m - 1]>>]
           T == {n \in 0..N : \E f \in [0..N -> X] : Right(n, f)}
<1>1. 0 \in T
  <2>1. [m \in 0..N |-> base] \in [0..N -> X] /\ Right(0, [m \in 0..N |-> base])
    OBVIOUS
  <2> HIDE DEF Right
  <2> QED  BY <2>1
<1>2. ASSUME NEW n \in 1..N, n - 1 \in T PROVE n \in T
  <2>1. PICK f \in [0..N -> X] : Right(n - 1, f)
    <3> HIDE DEF Right
    <3> QED  BY <1>2
  <2>2. n - 1 \in 0..N /\ n \in 0..N /\ n # n - 1
    OBVIOUS
  <2>3. f[n - 1] \in X
    BY <2>2
  <2>4. step[<<n, f[n - 1]>>] \in X
    BY <2>3
  <2> DEFINE h == [f EXCEPT ![n] = step[<<n, f[n - 1]>>]]
  <2>5. h \in [0..N -> X]
    BY <2>4
  <2>6. \A m \in 0..N : m # n => h[m] = f[m]
    OBVIOUS
  <2>7. h[n] = step[<<n, f[n - 1]>>]
    BY <2>2
  <2> HIDE DEF h
  <2>8. h[0] = base
    BY <2>1, <2>6
  <2>9. ASSUME NEW m \in 1..n PROVE h[m] = step[<<m, h[m - 1]>>]
    <3>1. m - 1 \in 0..N /\ m - 1 # n /\ m \in 0..N
      OBVIOUS
    <3>2. h[m - 1] = f[m - 1]
      BY <2>6, <3>1
    <3>3. CASE m = n
      BY <2>7, <3>2, <3>3
    <3>4. CASE m # n
      <4>1. m \in 1..n - 1
        BY <3>4
      <4>2. f[m] = step[<<m, f[m - 1]>>]
        BY <2>1, <4>1
      <4>3. h[m] = f[m]
        BY <2>6, <3>1, <3>4
      <4> QED  BY <3>2, <4>2, <4>3
    <3> QED  BY <3>3, <3>4
  <2>10. Right(n, h)
    BY <2>8, <2>9
  <2> HIDE DEF Right
  <2> QED  BY <2>2, <2>5, <2>10
<1>3. N \in T
  <2>1. 0..N \subseteq T
    <3> HIDE DEF T
    <3> QED  BY <1>1, <1>2, Upward
  <2>2. N \in 0..N
    OBVIOUS
  <2> HIDE DEF T
  <2> QED  BY <2>1, <2>2
<1>4. PICK f \in [0..N -> X] : Right(N, f)
  <2> HIDE DEF Right
  <2> QED  BY <1>3
<1> QED  BY <1>4 DEF Follows

-----------------------------------------------------------------------------
(* What fits the budget.                                                   *)

\* documents.py:930-940.  What is shown fits, and the first of the differences
\* is shown.
LEMMA FillFacts ==
  ASSUME NEW sizes \in Seq(Nat), budget \in Nat, sizes # <<>> => sizes[1] <= budget
  PROVE  /\ Fill(sizes) \subseteq 1..Len(sizes)
         /\ SumFunctionOnSet(sizes, Fill(sizes)) <= budget
         /\ sizes # <<>> => 1 \in Fill(sizes)
<1> DEFINE N == Len(sizes)
           D == 1..N
           X == SUBSET D
           Sum(S) == SumFunctionOnSet(sizes, S)
           Grown(n, S) == S \cup {m \in {n} : Sum(S) + sizes[m] <= budget}
           Body(f) == [n \in 0..N |-> IF n = 0 THEN {} ELSE Grown(n, f[n - 1])]
           shown == CHOOSE f : f = Body(f)
<1>1. N \in Nat /\ \A n \in D : sizes[n] \in Nat
  OBVIOUS
<1>2. IsFiniteSet(D)
  BY <1>1, Upto
<1>3. Fill(sizes) = shown[N]
  BY DEF Fill
<1>4. shown = Body(shown)
  <2> DEFINE step == [q \in D \X X |-> Grown(q[1], q[2])]
  <2>1. ASSUME NEW q \in D \X X PROVE Grown(q[1], q[2]) \in X
    <3> HIDE DEF Sum, N
    <3> QED  OBVIOUS
  <2>2. step \in [D \X X -> X]
    <3> HIDE DEF Grown, X
    <3> QED  BY <2>1
  <2>3. \A n \in D : \A S \in X : step[<<n, S>>] = Grown(n, S)
    <3> HIDE DEF Grown, X, D
    <3> QED  OBVIOUS
  <2> HIDE DEF step
  <2>4. {} \in X
    OBVIOUS
  <2> HIDE DEF X
  <2>5. PICK f \in [0..N -> X] : Follows(f, N, {}, step)
    <3> HIDE DEF N
    <3> QED  BY <1>1, <2>2, <2>4, Recursion
  <2>6. \A n \in 1..N : f[n] = Grown(n, f[n - 1])
    <3> HIDE DEF Grown, N
    <3>1. \A n \in 1..N : n - 1 \in 0..N
      BY <1>1
    <3> QED  BY <2>3, <2>5, <3>1 DEF Follows
  <2>7. f = Body(f)
    <3> HIDE DEF Grown, N
    <3> QED  BY <2>5, <2>6 DEF Follows
  <2> HIDE DEF Body
  <2> QED  BY <2>7
<1> HIDE DEF shown, Sum
<1>5. shown[0] = {} /\ \A n \in 1..N : shown[n] = Grown(n, shown[n - 1])
  <2> HIDE DEF Grown, N
  <2>1. 0 \in 0..N /\ \A n \in 1..N : n \in 0..N /\ n # 0
    BY <1>1
  <2> QED  BY <1>4, <2>1
<1>6. /\ Sum({}) = 0
      /\ \A S \in SUBSET D : Sum(S) \in Nat
      /\ \A S \in SUBSET D : \A n \in D \ S : Sum(S \cup {n}) = Sum(S) + sizes[n]
  <2> HIDE DEF D
  <2> QED  BY <1>1, <1>2, SumFacts DEF Sum
<1> DEFINE Good(n) == /\ shown[n] \subseteq 1..n
                      /\ Sum(shown[n]) <= budget
                      /\ n # 0 => 1 \in shown[n]
           T == {n \in 0..N : Good(n)}
<1> HIDE DEF N
<1>7. 0 \in T
  <2>1. shown[0] \subseteq 1..0
    BY <1>5
  <2>2. Sum(shown[0]) = 0
    BY <1>5, <1>6
  <2> QED  BY <1>1, <2>1, <2>2
<1>8. ASSUME NEW n \in 1..N, n - 1 \in T PROVE n \in T
  <2>1. shown[n] = Grown(n, shown[n - 1])
    BY <1>5
  <2> DEFINE S == shown[n - 1]
  <2>2. S \subseteq 1..n - 1 /\ Sum(S) <= budget /\ (n - 1 # 0 => 1 \in S)
    BY <1>8
  <2>3. n \in D /\ n - 1 \in Nat /\ n \in Nat /\ n # 0
    BY <1>1
  <2> HIDE DEF S
  <2>4. S \in SUBSET D /\ n \notin S
    BY <1>1, <2>2, <2>3
  <2>5. Sum(S \cup {n}) = Sum(S) + sizes[n] /\ Sum(S) \in Nat /\ sizes[n] \in Nat
    BY <1>1, <1>6, <2>3, <2>4
  <2>6. CASE Sum(S) + sizes[n] <= budget
    <3>1. shown[n] = S \cup {n}
      BY <2>1, <2>6 DEF S
    <3>2. Sum(shown[n]) <= budget
      BY <2>5, <2>6, <3>1
    <3>3. shown[n] \subseteq 1..n
      BY <2>2, <2>3, <3>1
    <3>4. 1 \in shown[n]
      <4>1. n = 1 \/ n - 1 # 0
        BY <2>3
      <4> QED  BY <2>2, <3>1, <4>1
    <3> QED  BY <3>2, <3>3, <3>4
  <2>7. CASE ~(Sum(S) + sizes[n] <= budget)
    <3>1. shown[n] = S
      BY <2>1, <2>7 DEF S
    <3>2. n # 1
      <4> SUFFICES ASSUME n = 1 PROVE FALSE
        OBVIOUS
      <4>1. S = {}
        BY <2>2
      <4>2. Sum(S) = 0
        BY <1>6, <4>1
      <4>3. sizes # <<>>
        BY <1>1 DEF N
      <4> QED  BY <2>5, <2>7, <4>2, <4>3
    <3>3. shown[n] \subseteq 1..n
      BY <2>2, <2>3, <3>1
    <3>4. 1 \in shown[n]
      <4>1. n - 1 # 0
        BY <2>3, <3>2
      <4> QED  BY <2>2, <3>1, <4>1
    <3>5. Sum(shown[n]) <= budget
      BY <2>2, <3>1
    <3> QED  BY <3>3, <3>4, <3>5
  <2> QED  BY <2>6, <2>7
<1>9. N \in T
  <2>1. 0..N \subseteq T
    <3> HIDE DEF T
    <3> QED  BY <1>1, <1>7, <1>8, Upward
  <2> HIDE DEF T
  <2> QED  BY <1>1, <2>1
<1>10. sizes # <<>> => N # 0
  BY DEF N
<1> QED  BY <1>1, <1>3, <1>9, <1>10 DEF Sum, N

-----------------------------------------------------------------------------
(* Which passages are one passage edited.                                  *)

PassageType == [lines : Seq(Lines), chunk : Nat]

\* The words of a passage are finitely many.
LEMMA WordsFacts ==
  ASSUME ComparisonAssumption, NEW p \in PassageType
  PROVE  IsFiniteSet(WordsOf(p))
<1> DEFINE s == p.lines
           F == [i \in 1..Len(s) |-> Words[s[i]]]
<1>1. s \in Seq(Lines) /\ Len(s) \in Nat /\ DOMAIN s = 1..Len(s)
  <2>1. s \in Seq(Lines)
    BY DEF PassageType
  <2> HIDE DEF s
  <2> QED  BY <2>1
<1>2. ASSUME NEW i \in 1..Len(s) PROVE IsFiniteSet(F[i])
  <2>1. s[i] \in Lines
    <3> HIDE DEF s
    <3> QED  BY <1>1
  <2> QED  BY <2>1 DEF ComparisonAssumption
<1>3. WordsOf(p) = UNION {F[i] : i \in 1..Len(s)}
  <2>1. WordsOf(p) = UNION {Words[l] : l \in Range(s)}
    BY DEF WordsOf
  <2>2. Range(s) = {s[i] : i \in 1..Len(s)}
    <3> HIDE DEF s
    <3> QED  BY <1>1 DEF Range
  <2>3. {Words[l] : l \in Range(s)} = {F[i] : i \in 1..Len(s)}
    <3> HIDE DEF s
    <3> QED  BY <2>2
  <2> QED  BY <2>1, <2>3
<1>4. Len(s) \in Nat
  BY <1>1
<1> HIDE DEF F, s
<1>5. IsFiniteSet(UNION {F[i] : i \in 1..Len(s)})
  BY <1>2, <1>4, FiniteUnion
<1> QED  BY <1>3, <1>5

\* The fractions x/y and u/v.
Exceeds(x, y, u, v) == x * v > u * y
Equals(x, y, u, v) == x * v = u * y
AtLeast(x, y, u, v) == x * v >= u * y

\* They are ordered.
LEMMA Fractions ==
  ASSUME NEW x \in Nat, NEW y \in Nat, NEW u \in Nat, NEW v \in Nat, NEW s \in Nat, NEW t \in Nat,
         y > 0, v > 0, t > 0, AtLeast(x, y, u, v), AtLeast(u, v, s, t)
  PROVE  /\ Exceeds(x, y, u, v) \/ Exceeds(u, v, s, t) => Exceeds(x, y, s, t)
         /\ Equals(x, y, u, v) /\ Equals(u, v, s, t) => Equals(x, y, s, t)
<1>0. x * v >= u * y /\ u * t >= s * v
  BY DEF AtLeast
<1>1. ASSUME NEW a \in Nat, NEW b \in Nat, NEW c \in Nat, c > 0
      PROVE  /\ a >= b => a * c >= b * c
             /\ a > b => a * c > b * c
  <2>1. ASSUME a > b PROVE a * c > b * c
    <3>1. PICK d \in Nat : d > 0 /\ a = b + d
      <4>1. a - b \in Nat /\ a - b > 0 /\ a = b + (a - b)
        BY <2>1
      <4> QED  BY <4>1
    <3>2. d * c \in Nat /\ b * c \in Nat /\ d * c > 0
      BY <1>1, <3>1
    <3>3. a * c = b * c + d * c
      BY <3>1
    <3> QED  BY <3>2, <3>3
  <2> QED  BY <2>1
<1>2. /\ x * v \in Nat /\ u * y \in Nat /\ u * t \in Nat /\ s * v \in Nat
      /\ x * t \in Nat /\ s * y \in Nat
  OBVIOUS
<1>3. /\ (x * v) * t >= (u * y) * t /\ (u * t) * y >= (s * v) * y
      /\ x * v > u * y => (x * v) * t > (u * y) * t
      /\ u * t > s * v => (u * t) * y > (s * v) * y
  BY <1>0, <1>1, <1>2
<1>4. /\ (u * y) * t = (u * t) * y
      /\ (x * v) * t = (x * t) * v
      /\ (s * v) * y = (s * y) * v
  OBVIOUS
<1>5. /\ s * y > x * t => (s * y) * v > (x * t) * v
      /\ s * y >= x * t => (s * y) * v >= (x * t) * v
      /\ x * t > s * y => (x * t) * v > (s * y) * v
  BY <1>1, <1>2
<1>6. /\ (x * v) * t \in Nat /\ (u * y) * t \in Nat /\ (u * t) * y \in Nat
      /\ (s * v) * y \in Nat /\ (x * t) * v \in Nat /\ (s * y) * v \in Nat
  BY <1>2
<1> DEFINE L == x * t
           R == s * y
           Lv == (x * t) * v
           Rv == (s * y) * v
           M == (u * y) * t
<1>7. /\ L \in Nat /\ R \in Nat /\ Lv \in Nat /\ Rv \in Nat /\ M \in Nat
      /\ Lv >= M /\ M >= Rv
      /\ x * v > u * y => Lv > M
      /\ u * t > s * v => M > Rv
      /\ x * v = u * y => Lv = M
      /\ u * t = s * v => M = Rv
      /\ R > L => Rv > Lv
      /\ R >= L => Rv >= Lv
      /\ L > R => Lv > Rv
  BY <1>2, <1>3, <1>4, <1>5, <1>6
<1> HIDE DEF L, R, Lv, Rv, M
<1>8. /\ L >= R
      /\ x * v > u * y \/ u * t > s * v => L > R
      /\ x * v = u * y /\ u * t = s * v => L = R
  BY <1>7
<1> QED  BY <1>8 DEF L, R, Exceeds, Equals

\* documents.py:816.  The pairs are sorted by falling overlap.
LEMMA CloserSorts ==
  ASSUME ComparisonAssumption, NEW a \in Seq(PassageType), NEW b \in Seq(PassageType),
         NEW S \in SUBSET Similar(a, b)
  PROVE  IsFiniteSet(S) /\ Sorts(S, ByOverlap(a, b, S))
<1> DEFINE sh(p) == Shared(a, b, p)
           tot(p) == Total(a, b, p)
<1>1. DOMAIN a = 1..Len(a) /\ DOMAIN b = 1..Len(b) /\ Len(a) \in Nat /\ Len(b) \in Nat
  OBVIOUS
<1>2. IsFiniteSet(S)
  <2>1. IsFiniteSet(DOMAIN a) /\ IsFiniteSet(DOMAIN b)
    BY <1>1, Upto
  <2>2. IsFiniteSet((DOMAIN a) \X (DOMAIN b))
    BY <2>1, FS_Product
  <2>3. S \subseteq (DOMAIN a) \X (DOMAIN b)
    BY DEF Similar
  <2> QED  BY <2>2, <2>3, FS_Subset
<1>3. ASSUME NEW p \in S
      PROVE  /\ p = <<p[1], p[2]>> /\ p[1] \in Nat /\ p[2] \in Nat
             /\ sh(p) \in Nat /\ tot(p) \in Nat /\ tot(p) > 0
  <2>1. /\ p \in (DOMAIN a) \X (DOMAIN b)
        /\ WordsOf(a[p[1]]) # {}
    BY DEF Similar
  <2>2. p = <<p[1], p[2]>> /\ p[1] \in 1..Len(a) /\ p[2] \in 1..Len(b)
    BY <1>1, <2>1
  <2>3. a[p[1]] \in PassageType /\ b[p[2]] \in PassageType
    BY <2>2
  <2> DEFINE v == WordsOf(a[p[1]])
             w == WordsOf(b[p[2]])
  <2>4. IsFiniteSet(v) /\ IsFiniteSet(w)
    BY <2>3, WordsFacts
  <2>5. v # {}
    BY <2>1
  <2>6. sh(p) = Cardinality(v \cap w) /\ tot(p) = Cardinality(v \cup w)
    BY DEF Shared, Total
  <2> HIDE DEF v, w, sh, tot
  <2>7. IsFiniteSet(v \cap w) /\ IsFiniteSet(v \cup w)
    BY <2>4, FS_Intersection, FS_Union
  <2>8. Cardinality(v \cap w) \in Nat /\ Cardinality(v \cup w) \in Nat
    BY <2>7, FS_CardinalityType
  <2>9. Cardinality(v \cup w) # 0
    BY <2>5, <2>7, FS_EmptySet
  <2> QED  BY <2>2, <2>6, <2>8, <2>9
<1> DEFINE Later(p, r) == p[1] > r[1] \/ (p[1] = r[1] /\ p[2] > r[2])
           R == ByOverlap(a, b, S)
<1>4. \A p, r \in S : <<p, r>> \in R <=>
         \/ sh(p) * tot(r) > sh(r) * tot(p)
         \/ sh(p) * tot(r) = sh(r) * tot(p) /\ Later(p, r)
  BY DEF ByOverlap, Closer
<1> HIDE DEF sh, tot, R
<1>5. \A p, r \in S : sh(p) * tot(r) \in Nat
  BY <1>3
<1>6. ASSUME NEW p \in S, NEW q \in S, NEW r \in S, <<p, q>> \in R, <<q, r>> \in R
      PROVE  <<p, r>> \in R
  <2>1. /\ sh(p) * tot(q) >= sh(q) * tot(p)
        /\ sh(q) * tot(r) >= sh(r) * tot(q)
    <3>1. ASSUME NEW c \in S, NEW d \in S, <<c, d>> \in R
          PROVE  sh(c) * tot(d) >= sh(d) * tot(c)
      <4> DEFINE x == sh(c) * tot(d)
                 y == sh(d) * tot(c)
      <4>1. x \in Nat /\ y \in Nat
        BY <1>5
      <4>2. x > y \/ x = y
        BY <1>4, <3>1
      <4> HIDE DEF x, y
      <4>3. x >= y
        BY <4>1, <4>2
      <4> QED  BY <4>3 DEF x, y
    <3> QED  BY <1>6, <3>1
  <2>2. /\ Exceeds(sh(p), tot(p), sh(q), tot(q)) \/ Exceeds(sh(q), tot(q), sh(r), tot(r))
              => Exceeds(sh(p), tot(p), sh(r), tot(r))
        /\ Equals(sh(p), tot(p), sh(q), tot(q)) /\ Equals(sh(q), tot(q), sh(r), tot(r))
              => Equals(sh(p), tot(p), sh(r), tot(r))
    <3>1. /\ sh(p) \in Nat /\ tot(p) \in Nat /\ tot(p) > 0
          /\ sh(q) \in Nat /\ tot(q) \in Nat /\ tot(q) > 0
          /\ sh(r) \in Nat /\ tot(r) \in Nat /\ tot(r) > 0
      BY <1>3
    <3>2. AtLeast(sh(p), tot(p), sh(q), tot(q)) /\ AtLeast(sh(q), tot(q), sh(r), tot(r))
      BY <2>1 DEF AtLeast
    <3> QED  BY <3>1, <3>2, Fractions
  <2>3. CASE sh(p) * tot(q) > sh(q) * tot(p) \/ sh(q) * tot(r) > sh(r) * tot(q)
    BY <1>4, <2>2, <2>3 DEF Exceeds
  <2>4. CASE ~(sh(p) * tot(q) > sh(q) * tot(p)) /\ ~(sh(q) * tot(r) > sh(r) * tot(q))
    <3>1. /\ sh(p) * tot(q) = sh(q) * tot(p) /\ sh(q) * tot(r) = sh(r) * tot(q)
          /\ Later(p, q) /\ Later(q, r)
      BY <1>4, <1>6, <2>4
    <3>2. Later(p, r)
      <4>1. /\ p[1] \in Nat /\ p[2] \in Nat /\ q[1] \in Nat /\ q[2] \in Nat
            /\ r[1] \in Nat /\ r[2] \in Nat
        BY <1>3
      <4>2. Later(p, q) /\ Later(q, r)
        BY <3>1
      <4> QED  BY <4>1, <4>2
    <3> QED  BY <1>4, <2>2, <3>1, <3>2 DEF Equals
  <2> QED  BY <2>3, <2>4
<1>7. ASSUME NEW p \in S, <<p, p>> \in R PROVE FALSE
  <2>1. sh(p) * tot(p) \in Nat /\ ~Later(p, p)
    BY <1>3, <1>5
  <2> QED  BY <1>4, <1>7, <2>1
<1>8. ASSUME NEW p \in S, NEW r \in S, p # r PROVE <<p, r>> \in R \/ <<r, p>> \in R
  <2>1. p[1] # r[1] \/ p[2] # r[2]
    BY <1>3, <1>8
  <2>2. Later(p, r) \/ Later(r, p)
    BY <1>3, <2>1
  <2> DEFINE x == sh(p) * tot(r)
             y == sh(r) * tot(p)
  <2>3. x \in Nat /\ y \in Nat
    BY <1>5
  <2>4. /\ <<p, r>> \in R <=> x > y \/ (x = y /\ Later(p, r))
        /\ <<r, p>> \in R <=> y > x \/ (y = x /\ Later(r, p))
    BY <1>4
  <2> HIDE DEF x, y, Later
  <2> QED  BY <2>2, <2>3, <2>4
<1>9. Sorts(S, R)
  BY <1>6, <1>7, <1>8 DEF Sorts
<1> QED  BY <1>2, <1>9 DEF R

\* No passage is in two pairs.
Apart(pairs) == \A p, r \in pairs : p[1] = r[1] \/ p[2] = r[2] => p = r

\* documents.py:817-824.  Greedy pairs no passage twice, and leaves none that could
\* be paired with one it also leaves.
LEMMA GreedyFacts ==
  ASSUME ComparisonAssumption, NEW a \in Seq(PassageType), NEW b \in Seq(PassageType)
  PROVE  /\ Greedy(a, b) \subseteq Similar(a, b) /\ Apart(Greedy(a, b))
         /\ \A p \in Similar(a, b) : ~Free(Greedy(a, b), p)
<1> DEFINE S == Similar(a, b)
           R == ByOverlap(a, b, S)
           order == InOrder(S, R)
           N == Len(order)
           X == SUBSET S
           Grown(n, P) == P \cup {p \in {order[n]} : Free(P, p)}
           Body(f) == [n \in 0..N |-> IF n = 0 THEN {} ELSE Grown(n, f[n - 1])]
           paired == CHOOSE f : f = Body(f)
<1>1. IsFiniteSet(S) /\ Sorts(S, R)
  <2>1. S \in SUBSET Similar(a, b)
    OBVIOUS
  <2> QED  BY <2>1, CloserSorts
<1>2. Greedy(a, b) = paired[N]
  <2>1. Greedy(a, b) = Accepted(order)
    BY DEF Greedy, InTurn
  <2> HIDE DEF order
  <2>2. Accepted(order) = paired[N]
    BY DEF Accepted
  <2> QED  BY <2>1, <2>2
<1>3. /\ N \in Nat /\ \A n \in 1..N : order[n] \in S
      /\ \A p \in S : \E n \in 1..N : order[n] = p
  <2> HIDE DEF S, R
  <2>1. /\ Cardinality(S) \in Nat /\ order \in [1..Cardinality(S) -> S]
        /\ \A p \in S : Rank(S, R, p) \in 1..Cardinality(S) /\ order[Rank(S, R, p)] = p
    BY <1>1, InOrderFacts
  <2> HIDE DEF order
  <2>2. N = Cardinality(S)
    <3>1. order \in Seq(S)
      BY <2>1
    <3> QED  BY <2>1, <3>1
  <2> QED  BY <2>1, <2>2
<1> HIDE DEF S, order, N
<1>4. paired = Body(paired)
  <2> DEFINE step == [q \in (1..N) \X X |-> Grown(q[1], q[2])]
  <2>1. ASSUME NEW q \in (1..N) \X X PROVE Grown(q[1], q[2]) \in X
    <3>1. order[q[1]] \in S /\ q[2] \in SUBSET S
      BY <1>3
    <3> QED  BY <3>1
  <2>2. step \in [(1..N) \X X -> X]
    <3> HIDE DEF Grown, X
    <3> QED  BY <2>1
  <2>3. \A n \in 1..N : \A P \in X : step[<<n, P>>] = Grown(n, P)
    <3> HIDE DEF Grown, X
    <3> QED  OBVIOUS
  <2> HIDE DEF step
  <2>4. {} \in X
    OBVIOUS
  <2> HIDE DEF X
  <2>5. PICK f \in [0..N -> X] : Follows(f, N, {}, step)
    BY <1>3, <2>2, <2>4, Recursion
  <2>6. \A n \in 1..N : f[n] = Grown(n, f[n - 1])
    <3> HIDE DEF Grown
    <3>1. \A n \in 1..N : n - 1 \in 0..N
      BY <1>3
    <3> QED  BY <2>3, <2>5, <3>1 DEF Follows
  <2>7. f = Body(f)
    <3> HIDE DEF Grown
    <3> QED  BY <2>5, <2>6 DEF Follows
  <2> HIDE DEF Body
  <2> QED  BY <2>7
<1> HIDE DEF paired
<1>5. paired[0] = {} /\ \A n \in 1..N : paired[n] = Grown(n, paired[n - 1])
  <2> HIDE DEF Grown
  <2>1. 0 \in 0..N /\ \A n \in 1..N : n \in 0..N /\ n # 0
    BY <1>3
  <2> QED  BY <1>4, <2>1
<1> DEFINE Good(n) == /\ paired[n] \subseteq S
                      /\ Apart(paired[n])
                      /\ \A m \in 1..n : ~Free(paired[n], order[m])
           T == {n \in 0..N : Good(n)}
<1>6. 0 \in T
  <2>1. Good(0)
    BY <1>5 DEF Apart
  <2> HIDE DEF Good
  <2> QED  BY <1>3, <2>1
<1>7. ASSUME NEW n \in 1..N, n - 1 \in T PROVE n \in T
  <2> DEFINE P == paired[n - 1]
             p == order[n]
  <2>1. P \subseteq S /\ Apart(P) /\ \A m \in 1..n - 1 : ~Free(P, order[m])
    BY <1>7
  <2>2. p \in S
    BY <1>3
  <2>3. paired[n] = P \cup {q \in {p} : Free(P, q)}
    BY <1>5
  <2> HIDE DEF P, p
  <2> DEFINE Q == paired[n]
  <2>4. Q \subseteq S
    BY <2>1, <2>2, <2>3
  <2>5. P \subseteq Q /\ (Free(P, p) => p \in Q) /\ \A q \in Q : q \in P \/ (q = p /\ Free(P, p))
    BY <2>3
  <2> HIDE DEF Q
  <2>6. Apart(Q)
    BY <2>1, <2>5 DEF Apart, Free
  <2>7. ASSUME NEW m \in 1..n PROVE ~Free(Q, order[m])
    <3>1. CASE m = n
      BY <2>5, <3>1 DEF Free, p
    <3>2. CASE m # n
      <4>1. m \in 1..n - 1
        BY <3>2
      <4>2. ~Free(P, order[m])
        BY <2>1, <4>1
      <4> QED  BY <2>5, <4>2 DEF Free
    <3> QED  BY <3>1, <3>2
  <2>8. Good(n)
    BY <2>4, <2>6, <2>7 DEF Q
  <2> HIDE DEF Good
  <2> QED  BY <1>3, <2>8
<1>8. N \in T
  <2>1. 0..N \subseteq T
    <3> HIDE DEF T
    <3> QED  BY <1>3, <1>6, <1>7, Upward
  <2> HIDE DEF T
  <2> QED  BY <1>3, <2>1
<1>9. ASSUME NEW p \in S PROVE ~Free(paired[N], p)
  BY <1>3, <1>8
<1> QED  BY <1>2, <1>8, <1>9 DEF S

AddUp(P, I, N) == Cardinality(P) + Cardinality((1..N) \ I) = N

\* Passages are in a pair or left over.
LEMMA Counted ==
  ASSUME NEW N \in Nat, NEW P, IsFiniteSet(P), NEW f \in [P -> 1..N],
         \A p, r \in P : f[p] = f[r] => p = r, NEW I, I = {f[p] : p \in P}
  PROVE  AddUp(P, I, N)
<1>1. f \in [P -> I]
  OBVIOUS
<1>2. \A p, r \in P : f[p] = f[r] => p = r
  OBVIOUS
<1>3. \A i \in I : \E p \in P : f[p] = i
  OBVIOUS
<1>4. I \subseteq 1..N
  OBVIOUS
<1>5. f \in Bijection(P, I)
  BY <1>1, <1>2, <1>3 DEF Bijection, Injection, Surjection, IsInjective
<1>6. Cardinality(I) = Cardinality(P)
  BY <1>5, FS_Bijection DEF ExistsBijection
<1>7. IsFiniteSet(1..N) /\ Cardinality(1..N) = N
  BY Upto
<1>8. (1..N) \cap I = I
  BY <1>4
<1>9. Cardinality((1..N) \ I) = Cardinality(1..N) - Cardinality((1..N) \cap I)
  BY <1>7, FS_Difference
<1>10. Cardinality(P) \in Nat
  BY FS_CardinalityType
<1>11. Cardinality((1..N) \ I) = N - Cardinality(P)
  BY <1>6, <1>7, <1>8, <1>9
<1> QED  BY <1>10, <1>11 DEF AddUp

\* documents.py:825-827.  What becomes of the passages of two documents.
LEMMA PairFacts ==
  ASSUME ComparisonAssumption, NEW a \in Seq(PassageType), NEW b \in Seq(PassageType)
  PROVE  LET pairs == PairChanged(a, b)
             removed == DOMAIN a \ {p[1] : p \in Range(pairs)}
             added == DOMAIN b \ {p[2] : p \in Range(pairs)}
         IN  /\ pairs \in Seq((1..Len(a)) \X (1..Len(b)))
             /\ removed \subseteq 1..Len(a) /\ added \subseteq 1..Len(b)
             /\ Len(pairs) + Cardinality(removed) = Len(a)
             /\ Len(pairs) + Cardinality(added) = Len(b)
             /\ Len(a) * Len(b) <= MaxPairings =>
                   \A i \in removed, j \in added :
                      LET v == WordsOf(a[i])
                          w == WordsOf(b[j])
                      IN  2 * Cardinality(v \cap w) < Cardinality(v \cup w) \/ v \cap w = {}
<1> DEFINE pairs == PairChanged(a, b)
           P == Range(pairs)
           removed == DOMAIN a \ {p[1] : p \in P}
           added == DOMAIN b \ {p[2] : p \in P}
           G == Greedy(a, b)
           D == (1..Len(a)) \X (1..Len(b))
<1>1. DOMAIN a = 1..Len(a) /\ DOMAIN b = 1..Len(b) /\ Len(a) \in Nat /\ Len(b) \in Nat
  OBVIOUS
<1>2. G \subseteq Similar(a, b) /\ Apart(G) /\ \A p \in Similar(a, b) : ~Free(G, p)
  BY GreedyFacts
<1>3. Similar(a, b) \subseteq D
  BY <1>1 DEF Similar
<1>4. /\ IsFiniteSet(P) /\ P \subseteq D /\ Apart(P)
      /\ pairs \in Seq(D) /\ Len(pairs) = Cardinality(P)
      /\ Len(a) * Len(b) <= MaxPairings => P = G
  <2>1. CASE Len(a) * Len(b) > MaxPairings
    <3>1. pairs = <<>> /\ P = {}
      BY <2>1 DEF PairChanged, InTurn, Range
    <3>2. ~(Len(a) * Len(b) <= MaxPairings)
      BY <1>1, <2>1 DEF ComparisonAssumption
    <3>3. pairs \in Seq(D) /\ Len(pairs) = 0
      BY <3>1
    <3> HIDE DEF pairs, P, D, G
    <3> QED  BY <3>1, <3>2, <3>3, FS_EmptySet DEF Apart
  <2>2. CASE ~(Len(a) * Len(b) > MaxPairings)
    <3> DEFINE R == ByOverlap(a, b, G)
    <3>1. pairs = InOrder(G, R)
      BY <2>2 DEF PairChanged, InTurn
    <3>2. IsFiniteSet(G) /\ Sorts(G, R)
      <4>1. G \in SUBSET Similar(a, b)
        BY <1>2
      <4> QED  BY <4>1, CloserSorts
    <3> HIDE DEF G, R
    <3>3. /\ Cardinality(G) \in Nat /\ InOrder(G, R) \in [1..Cardinality(G) -> G]
          /\ \A p \in G : Rank(G, R, p) \in 1..Cardinality(G) /\ InOrder(G, R)[Rank(G, R, p)] = p
      BY <3>2, InOrderFacts
    <3> HIDE DEF pairs
    <3>4. pairs \in Seq(G) /\ Len(pairs) = Cardinality(G) /\ DOMAIN pairs = 1..Cardinality(G)
      <4>1. pairs \in [1..Cardinality(G) -> G] /\ Cardinality(G) \in Nat
        BY <3>1, <3>3
      <4>2. pairs \in Seq(G)
        BY <4>1
      <4> QED  BY <4>1, <4>2
    <3>5. P = G
      BY <3>1, <3>3, <3>4 DEF Range
    <3>6. G \subseteq D
      BY <1>2, <1>3
    <3> HIDE DEF D, P
    <3>7. pairs \in Seq(D)
      BY <3>4, <3>6
    <3> QED  BY <1>2, <3>2, <3>4, <3>5, <3>6, <3>7
  <2> QED  BY <2>1, <2>2
<1> HIDE DEF pairs, P, G
<1>5. Len(pairs) + Cardinality(removed) = Len(a)
  <2> DEFINE f == [p \in P |-> p[1]]
             I == {p[1] : p \in P}
  <2>1. f \in [P -> 1..Len(a)]
    BY <1>4
  <2>2. \A p, r \in P : f[p] = f[r] => p = r
    BY <1>4 DEF Apart
  <2>3. I = {f[p] : p \in P}
    OBVIOUS
  <2> HIDE DEF f, I
  <2>4. IsFiniteSet(P) /\ Len(a) \in Nat
    BY <1>1, <1>4
  <2>5. AddUp(P, I, Len(a))
    BY <2>1, <2>2, <2>3, <2>4, Counted
  <2> QED  BY <1>1, <1>4, <2>5 DEF I, AddUp
<1>6. Len(pairs) + Cardinality(added) = Len(b)
  <2> DEFINE f == [p \in P |-> p[2]]
             I == {p[2] : p \in P}
  <2>1. f \in [P -> 1..Len(b)]
    BY <1>4
  <2>2. \A p, r \in P : f[p] = f[r] => p = r
    BY <1>4 DEF Apart
  <2>3. I = {f[p] : p \in P}
    OBVIOUS
  <2> HIDE DEF f, I
  <2>4. IsFiniteSet(P) /\ Len(b) \in Nat
    BY <1>1, <1>4
  <2>5. AddUp(P, I, Len(b))
    BY <2>1, <2>2, <2>3, <2>4, Counted
  <2> QED  BY <1>1, <1>4, <2>5 DEF I, AddUp
<1>7. ASSUME Len(a) * Len(b) <= MaxPairings, NEW i \in removed, NEW j \in added
      PROVE  LET v == WordsOf(a[i])
                 w == WordsOf(b[j])
             IN  2 * Cardinality(v \cap w) < Cardinality(v \cup w) \/ v \cap w = {}
  <2> DEFINE v == WordsOf(a[i])
             w == WordsOf(b[j])
             p == <<i, j>>
  <2>1. i \in DOMAIN a /\ j \in DOMAIN b /\ p[1] = i /\ p[2] = j
    OBVIOUS
  <2>2. \A r \in G : r[1] # i /\ r[2] # j
    BY <1>4, <1>7
  <2>3. p \notin Similar(a, b)
    BY <1>2, <2>1, <2>2 DEF Free
  <2>4. v = {} \/ w = {} \/ ~(2 * Cardinality(v \cap w) >= Cardinality(v \cup w))
    BY <2>1, <2>3 DEF Similar, Shared, Total
  <2>5. Cardinality(v \cap w) \in Nat /\ Cardinality(v \cup w) \in Nat
    <3>1. a[i] \in PassageType /\ b[j] \in PassageType
      BY <2>1
    <3>2. IsFiniteSet(v) /\ IsFiniteSet(w)
      BY <3>1, WordsFacts
    <3> HIDE DEF v, w
    <3>3. IsFiniteSet(v \cap w) /\ IsFiniteSet(v \cup w)
      BY <3>2, FS_Intersection, FS_Union
    <3> QED  BY <3>3, FS_CardinalityType
  <2> HIDE DEF v, w
  <2>6. 2 * Cardinality(v \cap w) < Cardinality(v \cup w) \/ v \cap w = {}
    BY <2>4, <2>5
  <2> QED  BY <2>6 DEF v, w
<1>8. pairs \in Seq((1..Len(a)) \X (1..Len(b)))
  BY <1>4
<1>9. removed \subseteq 1..Len(a) /\ added \subseteq 1..Len(b)
  BY <1>1
<1> HIDE DEF removed, added
<1> QED  BY <1>5, <1>6, <1>7, <1>8, <1>9 DEF pairs, P, removed, added

-----------------------------------------------------------------------------
(* Runs of places.                                                         *)

\* Where the runs of R start, in their order.
Starts(R) == {s \in R : <<s[1], s[2] - 1>> \notin R}

StartsInOrder(R) == InOrder(Starts(R), Walk(Starts(R), ByList))

\* The runs, and the place each of their members comes from.
Runs(R, rows) ==
    [n \in DOMAIN StartsInOrder(R) |->
        SubSeq(rows[StartsInOrder(R)[n][1]], StartsInOrder(R)[n][2], EndOf(R, StartsInOrder(R)[n], rows))]

Origin(R, t) == <<StartsInOrder(R)[t[1]][1], StartsInOrder(R)[t[1]][2] + t[2] - 1>>

\* A run is as long as it can be.
LEMMA EndFacts ==
  ASSUME NEW X, NEW rows \in Seq(Seq(X)), NEW R \in SUBSET Slots(rows), NEW s \in R
  PROVE  LET e == EndOf(R, s, rows)
         IN  /\ e \in s[2]..Len(rows[s[1]])
             /\ \A m \in s[2]..e : <<s[1], m>> \in R
             /\ \A n \in s[2]..Len(rows[s[1]]) : (\A m \in s[2]..n : <<s[1], m>> \in R) => n <= e
<1> DEFINE L == Len(rows[s[1]])
           E == {n \in s[2]..L : \A m \in s[2]..n : <<s[1], m>> \in R}
<1>1. s[1] \in 1..Len(rows) /\ s[2] \in 1..L /\ s = <<s[1], s[2]>>
  BY SlotFacts
<1>2. L \in Nat /\ s[2] \in Nat
  <2>1. rows[s[1]] \in Seq(X)
    BY <1>1
  <2>2. L \in Nat
    BY <2>1
  <2> QED  BY <1>1, <2>2
<1>3. s[2] \in E
  <2>1. \A m \in s[2]..s[2] : m = s[2]
    BY <1>2
  <2>2. <<s[1], s[2]>> \in R
    BY <1>1
  <2>3. s[2] \in s[2]..L
    BY <1>1, <1>2
  <2> HIDE DEF L
  <2> QED  BY <2>1, <2>2, <2>3
<1>4. E \in SUBSET Int /\ IsFiniteSet(E)
  <2>1. E \subseteq 1..L
    BY <1>1, <1>2
  <2>2. IsFiniteSet(1..L)
    BY <1>2, Upto
  <2> HIDE DEF E, L
  <2>3. IsFiniteSet(E)
    BY <2>1, <2>2, FS_Subset
  <2>4. E \in SUBSET Int
    BY <2>1
  <2> QED  BY <2>3, <2>4
<1>5. Max(E) \in E /\ \A n \in E : n <= Max(E)
  <2> HIDE DEF E
  <2> QED  BY <1>3, <1>4, Extremes
<1>6. EndOf(R, s, rows) = Max(E)
  BY DEF EndOf
<1> QED  BY <1>5, <1>6

\* Every place of R is in a run.
LEMMA StartFacts ==
  ASSUME NEW X, NEW rows \in Seq(Seq(X)), NEW R \in SUBSET Slots(rows), NEW t \in R
  PROVE  \E s \in Starts(R) : /\ s[1] = t[1] /\ s[2] <= t[2]
                              /\ \A m \in s[2]..t[2] : <<t[1], m>> \in R
<1> DEFINE T == {j \in 1..t[2] : \A m \in j..t[2] : <<t[1], m>> \in R}
<1>1. t[2] \in Nat /\ t[2] \in 1..t[2] /\ t = <<t[1], t[2]>>
  <2>1. t[2] \in 1..Len(rows[t[1]]) /\ t = <<t[1], t[2]>>
    BY SlotFacts
  <2> QED  BY <2>1
<1>2. t[2] \in T
  <2>1. \A m \in t[2]..t[2] : m = t[2]
    BY <1>1
  <2> QED  BY <1>1, <2>1
<1>3. T \in SUBSET Nat
  OBVIOUS
<1> HIDE DEF T
<1>4. PICK j \in T : \A i \in T : j <= i
  BY <1>2, <1>3, LeastNumber
<1>5. j \in 1..t[2] /\ j \in Nat /\ \A m \in j..t[2] : <<t[1], m>> \in R
  BY <1>4 DEF T
<1> DEFINE s == <<t[1], j>>
<1>6. s \in R
  BY <1>1, <1>5
<1>7. <<s[1], s[2] - 1>> \notin R
  <2> SUFFICES ASSUME <<t[1], j - 1>> \in R PROVE FALSE
    OBVIOUS
  <2>1. <<t[1], j - 1>>[2] \in 1..Len(rows[<<t[1], j - 1>>[1]])
    BY SlotFacts
  <2>2. j - 1 \in 1..t[2]
    BY <1>1, <1>5, <2>1
  <2>3. \A m \in (j - 1)..t[2] : m = j - 1 \/ m \in j..t[2]
    BY <1>1, <1>5
  <2>4. j - 1 \in T
    BY <1>5, <2>2, <2>3 DEF T
  <2> QED  BY <1>4, <1>5, <2>4
<1>8. s[1] = t[1] /\ s[2] = j /\ s \in Starts(R)
  BY <1>6, <1>7 DEF Starts
<1> HIDE DEF s
<1>9. s[2] <= t[2] /\ \A m \in s[2]..t[2] : <<t[1], m>> \in R
  BY <1>1, <1>5, <1>8
<1> QED  BY <1>8, <1>9

\* The order of the runs.
LEMMA StartOrder ==
  ASSUME NEW X, NEW rows \in Seq(Seq(X)), NEW R \in SUBSET Slots(rows)
  PROVE  /\ Starts(R) \subseteq R
         /\ Len(StartsInOrder(R)) \in Nat /\ DOMAIN StartsInOrder(R) = 1..Len(StartsInOrder(R))
         /\ \A n \in 1..Len(StartsInOrder(R)) : StartsInOrder(R)[n] \in Starts(R)
         /\ \A s \in Starts(R) : \E n \in 1..Len(StartsInOrder(R)) : StartsInOrder(R)[n] = s
         /\ \A n, m \in 1..Len(StartsInOrder(R)) : StartsInOrder(R)[n] = StartsInOrder(R)[m] => n = m
<1> DEFINE S == Starts(R)
           W == Walk(S, ByList)
           o == StartsInOrder(R)
<1>1. S \subseteq R
  BY DEF Starts
<1>2. IsFiniteSet(S) /\ S \in SUBSET Places
  <2>1. S \subseteq Slots(rows)
    BY <1>1
  <2> HIDE DEF S
  <2> QED  BY <2>1, SlotFacts, FS_Subset
<1>3. o = InOrder(S, W)
  BY DEF StartsInOrder
<1> HIDE DEF S, o
<1>4. Sorts(S, W)
  BY <1>2, WalkSorts
<1> HIDE DEF W
<1>5. /\ Cardinality(S) \in Nat /\ o \in [1..Cardinality(S) -> S]
      /\ \A s \in S : Rank(S, W, s) \in 1..Cardinality(S) /\ o[Rank(S, W, s)] = s
      /\ \A n \in 1..Cardinality(S) : Rank(S, W, o[n]) = n
  BY <1>2, <1>3, <1>4, InOrderFacts
<1>6. o \in Seq(S)
  BY <1>5
<1>7. Len(o) = Cardinality(S) /\ DOMAIN o = 1..Cardinality(S)
  BY <1>5, <1>6
<1>8. \A n, m \in 1..Len(o) : o[n] = o[m] => n = m
  <2> SUFFICES ASSUME NEW n \in 1..Len(o), NEW m \in 1..Len(o), o[n] = o[m] PROVE n = m
    OBVIOUS
  <2>1. Rank(S, W, o[n]) = n /\ Rank(S, W, o[m]) = m
    BY <1>5, <1>7
  <2> QED  BY <2>1
<1> QED  BY <1>1, <1>5, <1>7, <1>8 DEF S, o

\* Every place of R is in one run, once, and nothing else is in any.
LEMMA RunFacts ==
  ASSUME NEW X, NEW rows \in Seq(Seq(X)), NEW R \in SUBSET Slots(rows)
  PROVE  LET runs == Runs(R, rows)
         IN  /\ runs \in Seq(Seq(X)) /\ Len(runs) = Len(StartsInOrder(R))
             /\ \A t \in Slots(runs) : Origin(R, t) \in R /\ At(rows, Origin(R, t)) = At(runs, t)
             /\ \A s \in R : \E t \in Slots(runs) : Origin(R, t) = s
             /\ \A t, u \in Slots(runs) : Origin(R, t) = Origin(R, u) => t = u
<1> DEFINE runs == Runs(R, rows)
           o == StartsInOrder(R)
           N == Len(o)
           End(n) == EndOf(R, o[n], rows)
<1>1. /\ Starts(R) \subseteq R
      /\ N \in Nat /\ DOMAIN o = 1..N
      /\ \A n \in 1..N : o[n] \in Starts(R)
      /\ \A s \in Starts(R) : \E n \in 1..N : o[n] = s
      /\ \A n, m \in 1..N : o[n] = o[m] => n = m
  BY StartOrder
<1>2. ASSUME NEW n \in 1..N
      PROVE  /\ o[n] \in R /\ o[n] = <<o[n][1], o[n][2]>>
             /\ <<o[n][1], o[n][2] - 1>> \notin R
             /\ rows[o[n][1]] \in Seq(X)
             /\ o[n][2] \in Nat /\ 1 <= o[n][2] /\ o[n][2] <= End(n)
             /\ End(n) \in Nat /\ End(n) <= Len(rows[o[n][1]])
             /\ \A m \in o[n][2]..End(n) : <<o[n][1], m>> \in R
             /\ \A e \in o[n][2]..Len(rows[o[n][1]]) :
                   (\A m \in o[n][2]..e : <<o[n][1], m>> \in R) => e <= End(n)
  <2> DEFINE s == o[n]
  <2>1. s \in R /\ <<s[1], s[2] - 1>> \notin R
    <3>1. s \in Starts(R)
      BY <1>1
    <3> QED  BY <3>1 DEF Starts
  <2> HIDE DEF o, N
  <2>2. s \in Slots(rows)
    BY <2>1
  <2>3. s[1] \in 1..Len(rows) /\ s[2] \in 1..Len(rows[s[1]]) /\ s = <<s[1], s[2]>>
    BY <2>2, SlotFacts
  <2>4. rows[s[1]] \in Seq(X)
    BY <2>3
  <2>5. /\ EndOf(R, s, rows) \in s[2]..Len(rows[s[1]])
        /\ \A m \in s[2]..EndOf(R, s, rows) : <<s[1], m>> \in R
        /\ \A e \in s[2]..Len(rows[s[1]]) :
              (\A m \in s[2]..e : <<s[1], m>> \in R) => e <= EndOf(R, s, rows)
    BY <2>1, EndFacts
  <2>6. Len(rows[s[1]]) \in Nat
    BY <2>4
  <2> HIDE DEF s
  <2>7. s[2] \in Nat /\ 1 <= s[2] /\ EndOf(R, s, rows) \in Nat /\ s[2] <= EndOf(R, s, rows)
        /\ EndOf(R, s, rows) <= Len(rows[s[1]])
    BY <2>3, <2>5, <2>6
  <2> QED  BY <2>1, <2>3, <2>4, <2>5, <2>7 DEF s
<1> HIDE DEF o, N, End
<1>3. ASSUME NEW n \in 1..N
      PROVE  LET r == SubSeq(rows[o[n][1]], o[n][2], End(n))
             IN  /\ r \in Seq(X) /\ Len(r) = End(n) - o[n][2] + 1
                 /\ \A i \in 1..End(n) - o[n][2] + 1 : r[i] = rows[o[n][1]][o[n][2] + i - 1]
  <2> DEFINE row == rows[o[n][1]]
             b == o[n][2]
             e == End(n)
  <2>1. row \in Seq(X) /\ b \in Nat /\ e \in Nat /\ 1 <= b /\ b <= e /\ e <= Len(row)
    BY <1>2
  <2> HIDE DEF row, b, e
  <2>2. \A i \in b..e : row[i] \in X
    BY <2>1
  <2>3. b \in Int /\ e \in Int
    BY <2>1
  <2>4. /\ SubSeq(row, b, e) \in Seq(X)
        /\ Len(SubSeq(row, b, e)) = IF b <= e THEN e - b + 1 ELSE 0
        /\ \A i \in 1..e - b + 1 : SubSeq(row, b, e)[i] = row[b + i - 1]
    BY <2>2, <2>3, SubSeqProperties
  <2>5. Len(SubSeq(row, b, e)) = e - b + 1
    BY <2>1, <2>4
  <2> QED  BY <2>4, <2>5 DEF row, b, e
<1>4. /\ runs \in Seq(Seq(X)) /\ Len(runs) = N
      /\ \A n \in 1..N : runs[n] = SubSeq(rows[o[n][1]], o[n][2], End(n))
  <2>1. runs = [n \in 1..N |-> SubSeq(rows[o[n][1]], o[n][2], End(n))]
    BY <1>1 DEF Runs, o, End
  <2>2. runs \in [1..N -> Seq(X)]
    BY <1>3, <2>1
  <2> HIDE DEF runs
  <2>3. runs \in Seq(Seq(X))
    BY <1>1, <2>2
  <2>4. Len(runs) = N
    BY <1>1, <2>2, <2>3
  <2>5. \A n \in 1..N : runs[n] = SubSeq(rows[o[n][1]], o[n][2], End(n))
    BY <2>1
  <2> QED  BY <2>3, <2>4, <2>5
<1> HIDE DEF runs
<1> DEFINE Org(t) == <<o[t[1]][1], o[t[1]][2] + t[2] - 1>>
<1>5. \A t : Origin(R, t) = Org(t)
  BY DEF Origin, o
<1>6. \A t : t \in Slots(runs) <=> \E n \in 1..N : \E i \in 1..End(n) - o[n][2] + 1 : t = <<n, i>>
  <2>1. \A t : t \in Slots(runs) <=> \E n \in 1..Len(runs) : \E i \in 1..Len(runs[n]) : t = <<n, i>>
    BY <1>4, SlotFacts
  <2>2. \A n \in 1..N : Len(runs[n]) = End(n) - o[n][2] + 1
    BY <1>3, <1>4
  <2>3. \A n \in 1..N : (1..Len(runs[n])) = (1..End(n) - o[n][2] + 1)
    BY <2>2
  <2> QED  BY <1>4, <2>1, <2>3
<1>7. ASSUME NEW t \in Slots(runs)
      PROVE  /\ t[1] \in 1..N /\ t = <<t[1], t[2]>> /\ t[2] \in Nat /\ 1 <= t[2]
             /\ Org(t) \in R /\ At(rows, Org(t)) = At(runs, t)
             /\ o[t[1]][2] + t[2] - 1 \in o[t[1]][2]..End(t[1])
  <2>1. PICK n \in 1..N : \E i \in 1..End(n) - o[n][2] + 1 : t = <<n, i>>
    BY <1>6
  <2>2. PICK i \in 1..End(n) - o[n][2] + 1 : t = <<n, i>>
    BY <2>1
  <2>3. t[1] = n /\ t[2] = i
    BY <2>2
  <2> DEFINE b == o[n][2]
             e == End(n)
             d == o[n][1]
  <2>4. b \in Nat /\ e \in Nat /\ b <= e /\ 1 <= b /\ \A m \in b..e : <<d, m>> \in R
    BY <1>2
  <2>5. /\ runs[n] = SubSeq(rows[d], b, e)
        /\ \A j \in 1..e - b + 1 : SubSeq(rows[d], b, e)[j] = rows[d][b + j - 1]
    BY <1>3, <1>4
  <2>6. i \in 1..e - b + 1
    OBVIOUS
  <2> HIDE DEF b, e, d
  <2>7. b + i - 1 \in b..e /\ i \in Nat /\ 1 <= i
    BY <2>4, <2>6
  <2>8. <<d, b + i - 1>> \in R
    BY <2>4, <2>7
  <2>9. runs[n][i] = rows[d][b + i - 1]
    BY <2>5, <2>6
  <2>10. Org(t) = <<d, b + i - 1>>
    BY <2>3 DEF d, b
  <2>11. At(rows, <<d, b + i - 1>>) = rows[d][b + i - 1] /\ At(runs, t) = runs[n][i]
    BY <2>3 DEF At
  <2> HIDE DEF Org
  <2>12. Org(t) \in R /\ At(rows, Org(t)) = At(runs, t)
    BY <2>8, <2>9, <2>10, <2>11
  <2> QED  BY <2>2, <2>3, <2>7, <2>12 DEF b, e
<1>8. ASSUME NEW s \in R PROVE \E t \in Slots(runs) : Org(t) = s
  <2>1. PICK f \in Starts(R) : /\ f[1] = s[1] /\ f[2] <= s[2]
                               /\ \A m \in f[2]..s[2] : <<s[1], m>> \in R
    BY StartFacts
  <2>2. PICK n \in 1..N : o[n] = f
    BY <1>1
  <2>3. s \in Slots(rows)
    OBVIOUS
  <2>4. s[2] \in 1..Len(rows[s[1]]) /\ s = <<s[1], s[2]>> /\ s[1] \in 1..Len(rows)
    BY <2>3, SlotFacts
  <2>5. Len(rows[s[1]]) \in Nat
    <3>1. rows[s[1]] \in Seq(X)
      BY <2>4
    <3> QED  BY <3>1
  <2> DEFINE b == o[n][2]
             e == End(n)
  <2>6. /\ b \in Nat /\ 1 <= b /\ e \in Nat /\ b <= s[2] /\ o[n][1] = s[1]
        /\ \A m \in b..s[2] : <<s[1], m>> \in R
        /\ \A x \in b..Len(rows[s[1]]) : (\A m \in b..x : <<s[1], m>> \in R) => x <= e
    BY <1>2, <2>1, <2>2
  <2> HIDE DEF b, e
  <2>7. s[2] \in b..Len(rows[s[1]]) /\ s[2] \in Nat
    BY <2>4, <2>5, <2>6
  <2>8. s[2] <= e
    BY <2>6, <2>7
  <2> DEFINE i == s[2] - b + 1
             t == <<n, i>>
  <2>9. i \in 1..e - b + 1 /\ b + i - 1 = s[2]
    <3>1. b \in Nat /\ e \in Nat /\ s[2] \in Nat /\ b <= s[2] /\ s[2] <= e
      BY <2>6, <2>7, <2>8
    <3> QED  BY <3>1
  <2>10. t \in Slots(runs)
    <3>1. i \in 1..End(n) - o[n][2] + 1
      BY <2>9 DEF b, e
    <3> HIDE DEF i
    <3> QED  BY <1>6, <3>1
  <2>11. Org(t) = <<s[1], b + i - 1>>
    <3> HIDE DEF i
    <3> QED  BY <2>6 DEF b
  <2>12. Org(t) = s
    <3> HIDE DEF i, t, Org
    <3> QED  BY <2>4, <2>9, <2>11
  <2> HIDE DEF t, Org
  <2> QED  BY <2>10, <2>12
<1>9. ASSUME NEW t \in Slots(runs), NEW u \in Slots(runs), Org(t) = Org(u),
             o[t[1]][2] < o[u[1]][2]
      PROVE  FALSE
  <2> DEFINE n == t[1]
             m == u[1]
  <2>1. n \in 1..N /\ m \in 1..N
    BY <1>7
  <2>2. o[n][1] = o[m][1] /\ o[n][2] + t[2] - 1 = o[m][2] + u[2] - 1
    BY <1>9
  <2>3. o[n][2] + t[2] - 1 <= End(n) /\ t[2] \in Nat /\ u[2] \in Nat /\ 1 <= u[2]
    <3>1. /\ o[n][2] + t[2] - 1 \in o[n][2]..End(n)
          /\ t[2] \in Nat /\ u[2] \in Nat /\ 1 <= u[2]
      BY <1>7
    <3> QED  BY <3>1
  <2>4. /\ o[n][2] \in Nat /\ End(n) \in Nat /\ o[m][2] \in Nat
        /\ \A j \in o[n][2]..End(n) : <<o[n][1], j>> \in R
        /\ <<o[m][1], o[m][2] - 1>> \notin R
    BY <1>2, <2>1
  <2> DEFINE j == o[m][2] - 1
  <2>5. j \in o[n][2]..End(n)
    <3>1. o[n][2] < o[m][2]
      BY <1>9
    <3>2. o[m][2] - 1 <= End(n)
      BY <2>2, <2>3, <2>4
    <3> QED  BY <2>4, <3>1, <3>2
  <2> HIDE DEF n, m, j
  <2>6. <<o[n][1], j>> \in R
    BY <2>4, <2>5
  <2> QED  BY <2>2, <2>4, <2>6 DEF j
<1>10. ASSUME NEW t \in Slots(runs), NEW u \in Slots(runs), Org(t) = Org(u) PROVE t = u
  <2>1. /\ t[1] \in 1..N /\ t = <<t[1], t[2]>> /\ t[2] \in Nat
        /\ u[1] \in 1..N /\ u = <<u[1], u[2]>> /\ u[2] \in Nat
    BY <1>7
  <2>2. /\ o[t[1]][2] \in Nat /\ o[t[1]] = <<o[t[1]][1], o[t[1]][2]>>
        /\ o[u[1]][2] \in Nat /\ o[u[1]] = <<o[u[1]][1], o[u[1]][2]>>
    BY <1>2, <2>1
  <2>3. ~(o[t[1]][2] < o[u[1]][2]) /\ ~(o[u[1]][2] < o[t[1]][2])
    <3> HIDE DEF Org
    <3> QED  BY <1>9, <1>10
  <2>4. o[t[1]][1] = o[u[1]][1] /\ o[t[1]][2] + t[2] - 1 = o[u[1]][2] + u[2] - 1
    BY <1>10
  <2>5. o[t[1]][2] = o[u[1]][2] /\ t[2] = u[2]
    BY <2>1, <2>2, <2>3, <2>4
  <2>6. o[t[1]] = o[u[1]]
    BY <2>2, <2>4, <2>5
  <2>7. t[1] = u[1]
    BY <1>1, <2>1, <2>6
  <2> QED  BY <2>1, <2>5, <2>7
<1> HIDE DEF Org
<1>11. \A t \in Slots(runs) : Origin(R, t) \in R /\ At(rows, Origin(R, t)) = At(runs, t)
  BY <1>5, <1>7
<1>12. \A s \in R : \E t \in Slots(runs) : Origin(R, t) = s
  BY <1>5, <1>8
<1>13. \A t, u \in Slots(runs) : Origin(R, t) = Origin(R, u) => t = u
  BY <1>5, <1>10
<1> QED  BY <1>4, <1>11, <1>12, <1>13 DEF runs, N, o

-----------------------------------------------------------------------------
(* The passages of a document that the other does not have.                *)

LineOrShort == Lines \cup {Short}

\* The rows of the chunks, and the lines of them that are compared.
LEMMA TextFacts ==
  ASSUME NEW doc \in Documents
  PROVE  /\ doc \in Seq(Seq(LineOrShort)) /\ Len(doc) \in Nat /\ DOMAIN doc = 1..Len(doc)
         /\ AllRows(doc) \in Seq(Seq(LineOrShort)) /\ Len(AllRows(doc)) = Len(doc)
         /\ \A l : l \in LinesOf(doc) <=> l \in Lines /\ \E s \in Slots(AllRows(doc)) : At(AllRows(doc), s) = l
         /\ LinesOf(doc) \subseteq TextLines(doc) /\ TextLines(doc) \subseteq Lines
         /\ IsFiniteSet(TextLines(doc)) /\ IsFiniteSet(LinesOf(doc))
<1> DEFINE rows == AllRows(doc)
<1>1. doc \in Seq(Seq(LineOrShort)) /\ Len(doc) \in Nat /\ DOMAIN doc = 1..Len(doc)
  BY DEF Documents, LineOrShort
<1>2. ASSUME NEW i \in 1..Len(doc)
      PROVE  /\ Rows(doc, i) \in Seq(LineOrShort)
             /\ Range(Rows(doc, i)) \subseteq Range(doc[i])
  <2>1. doc[i] \in Seq(LineOrShort) /\ Len(doc[i]) \in Nat /\ DOMAIN doc[i] = 1..Len(doc[i])
    BY <1>1
  <2>2. CASE Len(doc) > 1 /\ Len(doc[i]) >= EdgeLines
    <3> DEFINE n == Len(doc[i])
               cut == SubSeq(doc[i], 2, n - 1)
    <3>1. Rows(doc, i) = cut
      BY <2>2 DEF Rows
    <3>2. \A j \in 2..n - 1 : doc[i][j] \in LineOrShort /\ j \in 1..n
      BY <2>1
    <3>3. 2 \in Int /\ n - 1 \in Int
      BY <2>1
    <3>4. /\ cut \in Seq(LineOrShort)
          /\ Len(cut) = IF 2 <= n - 1 THEN (n - 1) - 2 + 1 ELSE 0
          /\ \A j \in 1..(n - 1) - 2 + 1 : cut[j] = doc[i][2 + j - 1]
      BY <3>2, <3>3, SubSeqProperties
    <3>5. ASSUME NEW j \in DOMAIN cut PROVE cut[j] \in Range(doc[i])
      <4>1. j \in 1..Len(cut)
        BY <3>4
      <4>2. j \in 1..(n - 1) - 2 + 1 /\ 2 + j - 1 \in 1..n
        BY <2>1, <3>4, <4>1
      <4> QED  BY <2>1, <3>4, <4>2 DEF Range
    <3> HIDE DEF cut
    <3>6. Range(cut) \subseteq Range(doc[i])
      BY <3>5 DEF Range
    <3> QED  BY <3>1, <3>4, <3>6
  <2>3. CASE ~(Len(doc) > 1 /\ Len(doc[i]) >= EdgeLines)
    BY <2>1, <2>3 DEF Rows
  <2> QED  BY <2>2, <2>3
<1>3. /\ rows \in Seq(Seq(LineOrShort)) /\ Len(rows) = Len(doc)
      /\ \A i \in 1..Len(doc) : rows[i] = Rows(doc, i)
  <2>1. rows = [i \in 1..Len(doc) |-> Rows(doc, i)]
    BY <1>1 DEF AllRows
  <2>2. rows \in [1..Len(doc) -> Seq(LineOrShort)]
    BY <1>2, <2>1
  <2>3. \A i \in 1..Len(doc) : rows[i] = Rows(doc, i)
    BY <2>1
  <2> HIDE DEF rows
  <2>4. rows \in Seq(Seq(LineOrShort))
    <3> DEFINE n == Len(doc)
               Y == Seq(LineOrShort)
    <3>1. n \in Nat /\ rows \in [1..n -> Y]
      BY <1>1, <2>2
    <3> HIDE DEF n, Y
    <3>2. rows \in Seq(Y)
      BY <3>1
    <3> QED  BY <3>2 DEF Y
  <2>5. Len(rows) = Len(doc)
    BY <1>1, <2>2, <2>4
  <2> QED  BY <2>3, <2>4, <2>5
<1> HIDE DEF rows
<1>4. \A l : l \in LinesOf(doc) <=> l \in Lines /\ \E s \in Slots(rows) : At(rows, s) = l
  <2> SUFFICES ASSUME NEW l
               PROVE  l \in LinesOf(doc) <=> l \in Lines /\ \E s \in Slots(rows) : At(rows, s) = l
    OBVIOUS
  <2>1. l \in LinesOf(doc) <=> l \in Lines /\ \E i \in 1..Len(doc) : l \in Range(rows[i])
    BY <1>1, <1>3 DEF LinesOf
  <2>2. \A s : s \in Slots(rows) <=> \E i \in 1..Len(rows) : \E r \in 1..Len(rows[i]) : s = <<i, r>>
    BY <1>3, SlotFacts
  <2>3. ASSUME NEW i \in 1..Len(doc), l \in Range(rows[i])
        PROVE  \E s \in Slots(rows) : At(rows, s) = l
    <3>1. rows[i] \in Seq(LineOrShort)
      BY <1>3
    <3>2. DOMAIN rows[i] = 1..Len(rows[i])
      BY <3>1
    <3>3. PICK r \in 1..Len(rows[i]) : rows[i][r] = l
      BY <2>3, <3>2 DEF Range
    <3>4. <<i, r>> \in Slots(rows)
      BY <1>3, <2>2
    <3>5. At(rows, <<i, r>>) = l
      BY <3>3 DEF At
    <3> QED  BY <3>4, <3>5
  <2>4. ASSUME NEW s \in Slots(rows), At(rows, s) = l
        PROVE  \E i \in 1..Len(doc) : l \in Range(rows[i])
    <3>1. s[1] \in 1..Len(rows) /\ s[2] \in 1..Len(rows[s[1]])
      BY <1>3, SlotFacts
    <3>2. rows[s[1]] \in Seq(LineOrShort)
      BY <1>3, <3>1
    <3>3. DOMAIN rows[s[1]] = 1..Len(rows[s[1]])
      BY <3>2
    <3>4. rows[s[1]][s[2]] = l
      BY <2>4 DEF At
    <3> QED  BY <1>3, <3>1, <3>3, <3>4 DEF Range
  <2> QED  BY <2>1, <2>3, <2>4
<1>5. LinesOf(doc) \subseteq TextLines(doc) /\ TextLines(doc) \subseteq Lines
  BY <1>1, <1>2 DEF LinesOf, TextLines
<1>6. IsFiniteSet(TextLines(doc))
  <2> DEFINE f == [s \in Slots(doc) |-> At(doc, s)]
             T == {f[s] : s \in Slots(doc)}
  <2>1. IsFiniteSet(Slots(doc))
    BY <1>1, SlotFacts
  <2>2. IsFiniteSet(T)
    <3> HIDE DEF f
    <3> QED  BY <2>1, FiniteImage
  <2>3. ASSUME NEW l \in TextLines(doc) PROVE l \in T
    <3>1. PICK i \in 1..Len(doc) : l \in Range(doc[i])
      BY <1>1 DEF TextLines
    <3>2. doc[i] \in Seq(LineOrShort)
      BY <1>1
    <3>3. DOMAIN doc[i] = 1..Len(doc[i])
      BY <3>2
    <3>4. PICK r \in 1..Len(doc[i]) : doc[i][r] = l
      BY <3>1, <3>3 DEF Range
    <3>5. <<i, r>> \in Slots(doc)
      BY <1>1, SlotFacts
    <3>6. f[<<i, r>>] = l
      BY <3>4, <3>5 DEF At
    <3> HIDE DEF f
    <3> QED  BY <3>5, <3>6
  <2> HIDE DEF T
  <2>4. TextLines(doc) \subseteq T
    BY <2>3
  <2> QED  BY <2>2, <2>4, FS_Subset
<1>7. IsFiniteSet(LinesOf(doc))
  BY <1>5, <1>6, FS_Subset
<1> QED  BY <1>1, <1>3, <1>4, <1>5, <1>6, <1>7 DEF rows

\* documents.py:772-783.  Every line that is not there is reported where it comes first.
LEMMA ReportedFacts ==
  ASSUME NEW doc \in Documents, NEW other
  PROVE  LET rows == AllRows(doc)
             R == Reported(doc, other)
         IN  /\ R \in SUBSET Slots(rows)
             /\ \A s \in R : At(rows, s) \in LinesOf(doc) /\ ~Present(doc, other, At(rows, s))
             /\ \A l \in LinesOf(doc) : ~Present(doc, other, l) => \E s \in R : At(rows, s) = l
             /\ \A s, t \in R : At(rows, s) = At(rows, t) => s = t
<1> DEFINE rows == AllRows(doc)
           R == Reported(doc, other)
           W(S) == Walk(S, ByList)
<1>1. /\ rows \in Seq(Seq(LineOrShort))
      /\ \A l : l \in LinesOf(doc) <=> l \in Lines /\ \E s \in Slots(rows) : At(rows, s) = l
  BY TextFacts
<1>2. \A s : s \in R <=> /\ s \in Slots(rows) /\ At(rows, s) \in Lines
                         /\ ~Present(doc, other, At(rows, s)) /\ ~Repeats(rows, s)
  BY DEF Reported
<1>3. \A s : Repeats(rows, s) <=>
         \E o \in Slots(rows) : Precedes(ByList, o, s) /\ At(rows, o) = At(rows, s)
  BY DEF Repeats
<1> HIDE DEF rows, R
<1>4. IsFiniteSet(Slots(rows)) /\ Slots(rows) \in SUBSET Places
  BY <1>1, SlotFacts
<1>5. R \in SUBSET Slots(rows)
  BY <1>2
<1>6. \A s \in R : At(rows, s) \in LinesOf(doc) /\ ~Present(doc, other, At(rows, s))
  BY <1>1, <1>2
<1>7. ASSUME NEW l \in LinesOf(doc), ~Present(doc, other, l)
      PROVE  \E s \in R : At(rows, s) = l
  <2> DEFINE S == {s \in Slots(rows) : At(rows, s) = l}
  <2>1. S # {} /\ l \in Lines
    BY <1>1
  <2>2. S \subseteq Slots(rows)
    OBVIOUS
  <2>3. IsFiniteSet(S) /\ S \in SUBSET Places
    <3> HIDE DEF S
    <3> QED  BY <1>4, <2>2, FS_Subset
  <2>4. Sorts(S, W(S)) /\ \A x, y \in S : <<x, y>> \in W(S) <=> Precedes(ByList, x, y)
    <3> HIDE DEF S
    <3> QED  BY <2>3, WalkSorts
  <2> HIDE DEF W
  <2>5. PICK f \in S : \A x \in S : x = f \/ <<f, x>> \in W(S)
    <3> HIDE DEF S
    <3> QED  BY <2>1, <2>3, <2>4, SortedFirst
  <2>6. f \in Slots(rows) /\ At(rows, f) = l
    BY <2>5
  <2>7. ASSUME NEW o \in Slots(rows), Precedes(ByList, o, f), At(rows, o) = At(rows, f)
        PROVE  FALSE
    <3>1. o \in S
      BY <2>6, <2>7
    <3> HIDE DEF S
    <3>2. <<o, f>> \in W(S) /\ (o = f \/ <<f, o>> \in W(S))
      BY <2>4, <2>5, <2>7, <3>1
    <3> QED  BY <2>4, <3>1, <3>2 DEF Sorts
  <2>8. ~Repeats(rows, f)
    BY <1>3, <2>7
  <2>9. f \in R
    BY <1>2, <1>7, <2>1, <2>6, <2>8
  <2> QED  BY <2>6, <2>9
<1>8. ASSUME NEW s \in R, NEW t \in R, At(rows, s) = At(rows, t), s # t PROVE FALSE
  <2>1. s \in Slots(rows) /\ t \in Slots(rows)
    BY <1>5
  <2>2. Sorts(Slots(rows), W(Slots(rows)))
        /\ \A x, y \in Slots(rows) : <<x, y>> \in W(Slots(rows)) <=> Precedes(ByList, x, y)
    BY <1>4, WalkSorts
  <2> HIDE DEF W
  <2>3. Precedes(ByList, s, t) \/ Precedes(ByList, t, s)
    BY <1>8, <2>1, <2>2 DEF Sorts
  <2>4. Repeats(rows, s) \/ Repeats(rows, t)
    BY <1>3, <1>8, <2>1, <2>3
  <2> QED  BY <1>2, <2>4
<1> QED  BY <1>5, <1>6, <1>7, <1>8 DEF rows, R

\* documents.py:733-788.  The passages hold every line that is compared and not there
\* once, and no other.
LEMMA PassageFacts ==
  ASSUME NEW doc \in Documents, NEW other
  PROVE  LET P == Passages(doc, other)
         IN  /\ P \in Seq(PassageType)
             /\ \A n \in 1..Len(P) : P[n].chunk \in 1..Len(doc)
             /\ \A l : l \in LinesOf(doc) /\ ~Present(doc, other, l) => Times(P, l) = 1
             /\ \A l : ~(l \in LinesOf(doc) /\ ~Present(doc, other, l)) => Times(P, l) = 0
<1> DEFINE rows == AllRows(doc)
           R == Reported(doc, other)
           P == Passages(doc, other)
           o == StartsInOrder(R)
           N == Len(o)
           lines == Runs(R, rows)
<1>1. /\ rows \in Seq(Seq(LineOrShort)) /\ Len(rows) = Len(doc) /\ Len(doc) \in Nat
      /\ LinesOf(doc) \subseteq Lines
  BY TextFacts
<1>2. /\ R \in SUBSET Slots(rows)
      /\ \A s \in R : At(rows, s) \in LinesOf(doc) /\ ~Present(doc, other, At(rows, s))
      /\ \A l \in LinesOf(doc) : ~Present(doc, other, l) => \E s \in R : At(rows, s) = l
      /\ \A s, t \in R : At(rows, s) = At(rows, t) => s = t
  BY ReportedFacts
<1>3. P = [n \in DOMAIN o |-> [lines |-> SubSeq(rows[o[n][1]], o[n][2], EndOf(R, o[n], rows)),
                               chunk |-> o[n][1]]]
  BY DEF Passages, RunsOf, StartsInOrder, Starts
<1>4. lines = [n \in DOMAIN o |-> SubSeq(rows[o[n][1]], o[n][2], EndOf(R, o[n], rows))]
  BY DEF Runs
<1> HIDE DEF rows, R, P
<1>5. /\ lines \in Seq(Seq(LineOrShort)) /\ Len(lines) = N
      /\ \A t \in Slots(lines) : Origin(R, t) \in R /\ At(rows, Origin(R, t)) = At(lines, t)
      /\ \A s \in R : \E t \in Slots(lines) : Origin(R, t) = s
      /\ \A t, u \in Slots(lines) : Origin(R, t) = Origin(R, u) => t = u
  BY <1>1, <1>2, RunFacts
<1>6. /\ N \in Nat /\ DOMAIN o = 1..N
      /\ \A n \in 1..N : o[n] \in Starts(R)
      /\ Starts(R) \subseteq R
  BY <1>1, <1>2, StartOrder
<1> HIDE DEF o, N, lines
<1>7. /\ DOMAIN P = 1..N /\ DOMAIN lines = 1..N
      /\ \A n \in 1..N : P[n].lines = lines[n] /\ P[n].chunk = o[n][1]
      /\ \A n \in 1..N : P[n] = [lines |-> lines[n], chunk |-> o[n][1]]
  BY <1>3, <1>4, <1>6
<1>8. ASSUME NEW n \in 1..N PROVE lines[n] \in Seq(Lines) /\ o[n][1] \in 1..Len(doc)
  <2>1. o[n] \in Slots(rows)
    BY <1>2, <1>6
  <2>2. o[n][1] \in 1..Len(doc)
    BY <1>1, <2>1, SlotFacts
  <2>3. lines[n] \in Seq(LineOrShort)
    BY <1>5
  <2>4. ASSUME NEW i \in 1..Len(lines[n]) PROVE lines[n][i] \in Lines
    <3>1. <<n, i>> \in Slots(lines)
      BY <1>5, SlotFacts
    <3>2. At(lines, <<n, i>>) = lines[n][i]
      BY DEF At
    <3>3. At(lines, <<n, i>>) \in LinesOf(doc)
      BY <1>2, <1>5, <3>1
    <3> QED  BY <1>1, <3>2, <3>3
  <2>5. lines[n] \in Seq(Lines)
    BY <2>3, <2>4
  <2> QED  BY <2>2, <2>5
<1>9. P \in Seq(PassageType) /\ Len(P) = N
  <2>1. ASSUME NEW n \in 1..N PROVE P[n] \in PassageType
    <3>1. lines[n] \in Seq(Lines) /\ o[n][1] \in Nat
      BY <1>1, <1>8
    <3> QED  BY <1>7, <3>1 DEF PassageType
  <2>2. P \in [1..N -> PassageType]
    BY <1>3, <1>6, <2>1
  <2>3. P \in Seq(PassageType)
    BY <1>6, <2>2
  <2> QED  BY <1>6, <2>2, <2>3
<1>10. [n \in DOMAIN P |-> P[n].lines] = lines
  <2>1. lines = [n \in 1..N |-> lines[n]]
    BY <1>4, <1>6
  <2> QED  BY <1>7, <2>1
<1>11. \A l : Times(P, l) = Cardinality({t \in Slots(lines) : At(lines, t) = l})
  BY <1>10 DEF Times
<1>12. ASSUME NEW l, l \in LinesOf(doc), ~Present(doc, other, l) PROVE Times(P, l) = 1
  <2>1. PICK s \in R : At(rows, s) = l
    BY <1>2, <1>12
  <2>2. PICK t \in Slots(lines) : Origin(R, t) = s
    BY <1>5
  <2>3. At(lines, t) = l
    BY <1>5, <2>1, <2>2
  <2>4. ASSUME NEW u \in Slots(lines), At(lines, u) = l PROVE u = t
    <3>1. Origin(R, u) \in R /\ At(rows, Origin(R, u)) = l
      BY <1>5, <2>4
    <3>2. Origin(R, u) = s
      BY <1>2, <2>1, <3>1
    <3> QED  BY <1>5, <2>2, <3>2
  <2>5. {u \in Slots(lines) : At(lines, u) = l} = {t}
    BY <2>3, <2>4
  <2>6. Cardinality({t}) = 1
    BY FS_Singleton
  <2>7. Times(P, l) = Cardinality({u \in Slots(lines) : At(lines, u) = l})
    BY <1>11
  <2> QED  BY <2>5, <2>6, <2>7
<1>13. ASSUME NEW l, ~(l \in LinesOf(doc) /\ ~Present(doc, other, l)) PROVE Times(P, l) = 0
  <2>1. ASSUME NEW u \in Slots(lines), At(lines, u) = l PROVE FALSE
    BY <1>2, <1>5, <1>13, <2>1
  <2>2. {u \in Slots(lines) : At(lines, u) = l} = {}
    BY <2>1
  <2> QED  BY <1>11, <2>2, EmptyHasNone
<1>14. \A n \in 1..Len(P) : P[n].chunk \in 1..Len(doc)
  BY <1>7, <1>8, <1>9
<1> QED  BY <1>9, <1>12, <1>13, <1>14 DEF P

\* Where the overlap of the chunks repeats their edges, the lines that are compared and
\* not there are the lines a reader of the other document would miss.
LEMMA MissingFacts ==
  ASSUME ComparisonAssumption, NEW doc \in Documents, NEW other \in Documents,
         EdgesRepeated(doc), EdgesRepeated(other)
  PROVE  \A l : l \in Missing(doc, other) <=> l \in LinesOf(doc) /\ ~Present(doc, other, l)
<1>1. LinesOf(doc) = TextLines(doc) /\ LinesOf(other) = TextLines(other)
  BY TextFacts DEF EdgesRepeated
<1>2. ASSUME NEW d \in {doc, other}, NEW mask
      PROVE  Masked(d, mask) \in Nat
  <2>1. IsFiniteSet(LinesOf(d))
    BY TextFacts
  <2>2. IsFiniteSet({l \in LinesOf(d) : Mask[l] = mask})
    BY <2>1, FS_Subset
  <2> QED  BY <2>2, FS_CardinalityType DEF Masked
<1>3. RunningLines \in Nat
  BY DEF ComparisonAssumption
<1> SUFFICES ASSUME NEW l
             PROVE  l \in Missing(doc, other) <=> l \in LinesOf(doc) /\ ~Present(doc, other, l)
  OBVIOUS
<1>4. Present(doc, other, l) <=>
         \/ \E m \in TextLines(other) : m = l \/ <<l, m>> \in Within
         \/ Masked(doc, Mask[l]) >= RunningLines /\ Masked(other, Mask[l]) >= RunningLines
  BY <1>1 DEF Present, Running, ContainsLine
<1>5. l \in Missing(doc, other) <=>
         /\ l \in TextLines(doc)
         /\ \A m \in TextLines(other) : m # l /\ <<l, m>> \notin Within
         /\ Masked(doc, Mask[l]) < RunningLines \/ Masked(other, Mask[l]) < RunningLines
  BY <1>1 DEF Missing, Masked
<1>6. /\ Masked(doc, Mask[l]) < RunningLines <=> ~(Masked(doc, Mask[l]) >= RunningLines)
      /\ Masked(other, Mask[l]) < RunningLines <=> ~(Masked(other, Mask[l]) >= RunningLines)
  BY <1>2, <1>3
<1> QED  BY <1>1, <1>4, <1>5, <1>6

\* So the passages tell the documents apart.
LEMMA Tells ==
  ASSUME ComparisonAssumption, NEW doc \in Documents, NEW other \in Documents,
         EdgesRepeated(doc), EdgesRepeated(other)
  PROVE  TellsApart(Passages(doc, other), doc, other)
<1> DEFINE P == Passages(doc, other)
<1>1. /\ \A l : l \in LinesOf(doc) /\ ~Present(doc, other, l) => Times(P, l) = 1
      /\ \A l : ~(l \in LinesOf(doc) /\ ~Present(doc, other, l)) => Times(P, l) = 0
  BY PassageFacts
<1>2. \A l : l \in Missing(doc, other) <=> l \in LinesOf(doc) /\ ~Present(doc, other, l)
  BY MissingFacts
<1> HIDE DEF P
<1>3. TellsApart(P, doc, other)
  BY <1>1, <1>2 DEF TellsApart
<1> QED  BY <1>3 DEF P

-----------------------------------------------------------------------------
(* The differences of two documents.                                       *)

\* The score of a chunk is a number.
LEMMA ScoreFacts ==
  ASSUME NEW doc \in Documents, NEW i \in 1..Len(doc)
  PROVE  Score(doc[i]) \in Nat
<1> DEFINE c == doc[i]
           f == [r \in 1..Len(c) |-> c[r]]
           T == {f[r] : r \in 1..Len(c)}
<1>1. c \in Seq(LineOrShort)
  BY TextFacts
<1>2. DOMAIN c = 1..Len(c) /\ Len(c) \in Nat
  BY <1>1
<1>3. IsFiniteSet(T)
  <2>1. IsFiniteSet(1..Len(c))
    BY <1>2, Upto
  <2> HIDE DEF f, c
  <2> QED  BY <2>1, FiniteImage
<1>4. Range(c) = T
  BY <1>2 DEF Range
<1> HIDE DEF T, c
<1>5. IsFiniteSet(Range(c) \cap Topical)
  BY <1>3, <1>4, FS_Intersection
<1> QED  BY <1>5, FS_CardinalityType DEF Score, c

\* documents.py:925.  The differences are sorted by weight.
LEMMA WeightSorts ==
  ASSUME ComparisonAssumption, NEW S \in SUBSET Places, NEW size, NEW score,
         \A d \in S : size[d] \in Nat /\ score[d] \in Nat
  PROVE  Sorts(S, ByWeight(S, size, score))
<1> DEFINE R == ByWeight(S, size, score)
           big(d) == size[d] >= Substantial
           W == Walk(S, ByList)
<1>1. Sorts(S, W) /\ \A p, q \in S : <<p, q>> \in W <=> Precedes(ByList, p, q)
  BY WalkSorts
<1>2. \A p, q \in S : <<p, q>> \in R <=>
         \/ big(p) /\ ~big(q)
         \/ big(p) = big(q) /\ score[p] > score[q]
         \/ big(p) = big(q) /\ score[p] = score[q] /\ <<p, q>> \in W
  <2> SUFFICES ASSUME NEW p \in S, NEW q \in S
               PROVE  <<p, q>> \in R <=>
                         \/ big(p) /\ ~big(q)
                         \/ big(p) = big(q) /\ score[p] > score[q]
                         \/ big(p) = big(q) /\ score[p] = score[q] /\ Precedes(ByList, p, q)
    BY <1>1
  <2> QED  BY DEF ByWeight
<1>3. \A d \in S : big(d) \in BOOLEAN /\ score[d] \in Nat
  OBVIOUS
<1> HIDE DEF R, big, W
<1>4. ASSUME NEW p \in S, <<p, p>> \in R PROVE FALSE
  <2>1. <<p, p>> \notin W
    BY <1>1 DEF Sorts
  <2>2. score[p] \in Nat
    BY <1>3
  <2>3. score[p] > score[p]
    BY <1>2, <1>4, <2>1
  <2> QED  BY <2>2, <2>3
<1>5. ASSUME NEW p \in S, NEW q \in S, NEW r \in S, <<p, q>> \in R, <<q, r>> \in R
      PROVE  <<p, r>> \in R
  <2>1. <<p, q>> \in W /\ <<q, r>> \in W => <<p, r>> \in W
    BY <1>1 DEF Sorts
  <2>2. /\ score[p] \in Nat /\ score[q] \in Nat /\ score[r] \in Nat
        /\ big(p) \in BOOLEAN /\ big(q) \in BOOLEAN /\ big(r) \in BOOLEAN
    BY <1>3
  <2>3. \/ big(p) /\ ~big(q)
        \/ big(p) = big(q) /\ score[p] > score[q]
        \/ big(p) = big(q) /\ score[p] = score[q] /\ <<p, q>> \in W
    BY <1>2, <1>5
  <2>4. \/ big(q) /\ ~big(r)
        \/ big(q) = big(r) /\ score[q] > score[r]
        \/ big(q) = big(r) /\ score[q] = score[r] /\ <<q, r>> \in W
    BY <1>2, <1>5
  <2>5. \/ big(p) /\ ~big(r)
        \/ big(p) = big(r) /\ score[p] > score[r]
        \/ big(p) = big(r) /\ score[p] = score[r] /\ <<p, r>> \in W
    BY <2>1, <2>2, <2>3, <2>4
  <2> QED  BY <1>2, <2>5
<1>6. ASSUME NEW p \in S, NEW q \in S, p # q PROVE <<p, q>> \in R \/ <<q, p>> \in R
  <2>1. <<p, q>> \in W \/ <<q, p>> \in W
    BY <1>1, <1>6 DEF Sorts
  <2>2. /\ score[p] \in Nat /\ score[q] \in Nat /\ big(p) \in BOOLEAN /\ big(q) \in BOOLEAN
    BY <1>3
  <2>3. \/ big(p) /\ ~big(q)
        \/ big(q) /\ ~big(p)
        \/ big(p) = big(q) /\ score[p] > score[q]
        \/ big(p) = big(q) /\ score[q] > score[p]
        \/ big(p) = big(q) /\ score[p] = score[q]
    BY <2>2
  <2> QED  BY <1>2, <2>1, <2>3
<1>7. Sorts(S, R)
  BY <1>4, <1>5, <1>6 DEF Sorts
<1> QED  BY <1>7 DEF R

\* The differences, and the passages they are made of.
LEMMA PartsFacts ==
  ASSUME NEW a \in Seq(PassageType), NEW b \in Seq(PassageType),
         NEW pairs \in Seq((1..Len(a)) \X (1..Len(b))),
         NEW removed \in SUBSET (1..Len(a)), NEW added \in SUBSET (1..Len(b))
  PROVE  LET all == Differences(pairs, removed, added)
         IN  /\ IsFiniteSet(all) /\ all \in SUBSET Places
             /\ \A d \in all : /\ IsFiniteSet(Parts(pairs, d)) /\ Parts(pairs, d) # {}
                               /\ \A o \in Parts(pairs, d) :
                                     \/ o[1] = 1 /\ o[2] \in 1..Len(a)
                                     \/ o[1] = 2 /\ o[2] \in 1..Len(b)
<1> DEFINE all == Differences(pairs, removed, added)
<1>1. Len(a) \in Nat /\ Len(b) \in Nat /\ Len(pairs) \in Nat /\ DOMAIN pairs = 1..Len(pairs)
  OBVIOUS
<1>2. IsFiniteSet(all)
  <2>1. IsFiniteSet(1..Len(a)) /\ IsFiniteSet(1..Len(b)) /\ IsFiniteSet(1..Len(pairs))
    BY <1>1, Upto
  <2>2. IsFiniteSet(removed) /\ IsFiniteSet(added) /\ IsFiniteSet(DOMAIN pairs)
    BY <1>1, <2>1, FS_Subset
  <2>3. IsFiniteSet({1}) /\ IsFiniteSet({2}) /\ IsFiniteSet({3})
    BY FS_Singleton
  <2>4. /\ IsFiniteSet({1} \X DOMAIN pairs) /\ IsFiniteSet({2} \X added)
        /\ IsFiniteSet({3} \X removed)
    BY <2>2, <2>3, FS_Product
  <2>5. IsFiniteSet(({1} \X DOMAIN pairs) \cup ({2} \X added))
    BY <2>4, FS_Union
  <2>6. IsFiniteSet((({1} \X DOMAIN pairs) \cup ({2} \X added)) \cup ({3} \X removed))
    BY <2>4, <2>5, FS_Union
  <2> QED  BY <2>6 DEF Differences
<1>3. \A d \in all : \/ d[1] = 1 /\ d[2] \in 1..Len(pairs) /\ d = <<1, d[2]>>
                     \/ d[1] = 2 /\ d[2] \in added /\ d = <<2, d[2]>>
                     \/ d[1] = 3 /\ d[2] \in removed /\ d = <<3, d[2]>>
  BY <1>1 DEF Differences
<1> HIDE DEF all
<1>4. all \in SUBSET Places
  <2> SUFFICES ASSUME NEW d \in all PROVE d \in Places
    OBVIOUS
  <2>1. d[1] \in Nat /\ d[2] \in Nat /\ d = <<d[1], d[2]>>
    BY <1>1, <1>3
  <2> QED  BY <2>1 DEF Places
<1>5. ASSUME NEW d \in all
      PROVE  /\ IsFiniteSet(Parts(pairs, d)) /\ Parts(pairs, d) # {}
             /\ \A o \in Parts(pairs, d) :
                   \/ o[1] = 1 /\ o[2] \in 1..Len(a)
                   \/ o[1] = 2 /\ o[2] \in 1..Len(b)
  <2>1. CASE d[1] = 1 /\ d[2] \in 1..Len(pairs)
    <3>1. Parts(pairs, d) = {<<1, pairs[d[2]][1]>>, <<2, pairs[d[2]][2]>>}
      BY <2>1 DEF Parts
    <3>2. pairs[d[2]] \in (1..Len(a)) \X (1..Len(b))
      BY <2>1
    <3>3. pairs[d[2]][1] \in 1..Len(a) /\ pairs[d[2]][2] \in 1..Len(b)
      BY <3>2
    <3>4. IsFiniteSet(Parts(pairs, d))
      <4>1. IsFiniteSet({<<1, pairs[d[2]][1]>>, <<2, pairs[d[2]][2]>>})
        BY TwoFinite
      <4> QED  BY <3>1, <4>1
    <3> QED  BY <3>1, <3>3, <3>4
  <2>2. CASE d[1] = 2 /\ d[2] \in added
    <3>1. Parts(pairs, d) = {<<2, d[2]>>}
      BY <2>2 DEF Parts
    <3>2. IsFiniteSet({<<2, d[2]>>})
      BY FS_Singleton
    <3>3. d[2] \in 1..Len(b)
      BY <2>2
    <3>4. \A o \in Parts(pairs, d) : o[1] = 2 /\ o[2] = d[2]
      BY <3>1
    <3>5. IsFiniteSet(Parts(pairs, d)) /\ Parts(pairs, d) # {}
      BY <3>1, <3>2
    <3> QED  BY <3>3, <3>4, <3>5
  <2>3. CASE d[1] = 3 /\ d[2] \in removed
    <3>1. Parts(pairs, d) = {<<1, d[2]>>}
      BY <2>3 DEF Parts
    <3>2. IsFiniteSet({<<1, d[2]>>})
      BY FS_Singleton
    <3>3. d[2] \in 1..Len(a)
      BY <2>3
    <3>4. \A o \in Parts(pairs, d) : o[1] = 1 /\ o[2] = d[2]
      BY <3>1
    <3>5. IsFiniteSet(Parts(pairs, d)) /\ Parts(pairs, d) # {}
      BY <3>1, <3>2
    <3> QED  BY <3>3, <3>4, <3>5
  <2> QED  BY <1>3, <2>1, <2>2, <2>3
<1> QED  BY <1>2, <1>4, <1>5 DEF all

ReadDocs == chunks \in Seq(Documents) /\ budget \in Nat \ {0}

\* documents.py:878-972.  What a comparison is built of.
LEMMA DiffFacts ==
  ASSUME ComparisonAssumption, ReadDocs, Len(chunks) = 2
  PROVE  /\ Diff.kind = "diff"
         /\ Diff.old = Passages(chunks[1], chunks[2]) /\ Diff.new = Passages(chunks[2], chunks[1])
         /\ Diff.pairs = PairChanged(Diff.old, Diff.new)
         /\ Diff.removed = DOMAIN Diff.old \ {p[1] : p \in Range(Diff.pairs)}
         /\ Diff.added = DOMAIN Diff.new \ {p[2] : p \in Range(Diff.pairs)}
         /\ Diff.sizes \in Seq(Nat) /\ (Diff.sizes # <<>> => Diff.sizes[1] <= budget)
         /\ Diff.shown = Fill(Diff.sizes)
         /\ Diff.sources \subseteq Slots(chunks)
<1> DEFINE a == Passages(chunks[1], chunks[2])
           b == Passages(chunks[2], chunks[1])
           pairs == PairChanged(a, b)
           removed == DOMAIN a \ {p[1] : p \in Range(pairs)}
           added == DOMAIN b \ {p[2] : p \in Range(pairs)}
           all == Differences(pairs, removed, added)
           Passage(o) == At(<<a, b>>, o)
           From(d) == {<<o[1], Passage(o).chunk>> : o \in Parts(pairs, d)}
           size == [d \in all |-> SumFunction([o \in Parts(pairs, d) |-> Len(Passage(o).lines)])]
           score == [d \in all |-> Max({Score(At(chunks, c)) : c \in From(d)})]
           order == InOrder(all, ByWeight(all, size, score))
           sizes == [n \in DOMAIN order |->
                       IF n = 1 THEN Min({size[order[n]], budget}) ELSE size[order[n]]]
           shown == Fill(sizes)
           sources == UNION {From(order[n]) : n \in shown}
<1>1. Diff = [kind |-> "diff", sources |-> sources, old |-> a, new |-> b, pairs |-> pairs,
              removed |-> removed, added |-> added, sizes |-> sizes, shown |-> shown]
  BY DEF Diff, Cuts
<1>2. chunks[1] \in Documents /\ chunks[2] \in Documents /\ budget \in Nat /\ budget \in Int
  BY DEF ReadDocs
<1>3. /\ a \in Seq(PassageType) /\ \A n \in 1..Len(a) : a[n].chunk \in 1..Len(chunks[1])
      /\ b \in Seq(PassageType) /\ \A n \in 1..Len(b) : b[n].chunk \in 1..Len(chunks[2])
  BY <1>2, PassageFacts
<1> HIDE DEF a, b
<1>4. /\ pairs \in Seq((1..Len(a)) \X (1..Len(b)))
      /\ removed \subseteq 1..Len(a) /\ added \subseteq 1..Len(b)
  BY <1>3, PairFacts
<1> HIDE DEF pairs, removed, added
<1>5. /\ IsFiniteSet(all) /\ all \in SUBSET Places
      /\ \A d \in all : /\ IsFiniteSet(Parts(pairs, d)) /\ Parts(pairs, d) # {}
                        /\ \A o \in Parts(pairs, d) :
                              \/ o[1] = 1 /\ o[2] \in 1..Len(a)
                              \/ o[1] = 2 /\ o[2] \in 1..Len(b)
  BY <1>3, <1>4, PartsFacts
<1> HIDE DEF all
<1>6. ASSUME NEW d \in all, NEW o \in Parts(pairs, d)
      PROVE  /\ Passage(o) \in PassageType
             /\ o[1] \in 1..2 /\ Passage(o).chunk \in 1..Len(chunks[o[1]])
  <2>1. CASE o[1] = 1 /\ o[2] \in 1..Len(a)
    <3>1. Passage(o) = a[o[2]]
      BY <2>1 DEF At
    <3> HIDE DEF Passage
    <3> QED  BY <1>3, <2>1, <3>1
  <2>2. CASE o[1] = 2 /\ o[2] \in 1..Len(b)
    <3>1. Passage(o) = b[o[2]]
      BY <2>2 DEF At
    <3> HIDE DEF Passage
    <3> QED  BY <1>3, <2>2, <3>1
  <2> QED  BY <1>5, <2>1, <2>2
<1> HIDE DEF Passage
<1>7. ASSUME NEW d \in all
      PROVE  /\ From(d) \subseteq Slots(chunks) /\ From(d) # {} /\ IsFiniteSet(From(d))
             /\ \A c \in From(d) : Score(At(chunks, c)) \in Nat
  <2>1. ASSUME NEW o \in Parts(pairs, d)
        PROVE  LET c == <<o[1], Passage(o).chunk>>
               IN  c \in Slots(chunks) /\ Score(At(chunks, c)) \in Nat
    <3> DEFINE c == <<o[1], Passage(o).chunk>>
               i == Passage(o).chunk
    <3>1. o[1] \in 1..2 /\ i \in 1..Len(chunks[o[1]])
      BY <1>6
    <3>2. chunks \in Seq(Seq(Seq(LineOrShort)))
      BY DEF ReadDocs, Documents, LineOrShort
    <3> HIDE DEF i
    <3>3. c \in Slots(chunks)
      <4>1. o[1] \in 1..Len(chunks)
        BY <3>1
      <4>2. <<o[1], i>> \in Slots(chunks)
        BY <3>1, <3>2, <4>1, SlotFacts
      <4> QED  BY <4>2 DEF i
    <3>4. chunks[o[1]] \in Documents
      BY <3>1 DEF ReadDocs
    <3>5. Score(chunks[o[1]][i]) \in Nat
      BY <3>1, <3>4, ScoreFacts
    <3>6. At(chunks, c) = chunks[o[1]][i]
      BY DEF At, i
    <3> QED  BY <3>3, <3>5, <3>6
  <2>2. Parts(pairs, d) # {} /\ IsFiniteSet(Parts(pairs, d))
    BY <1>5
  <2> DEFINE f == [o \in Parts(pairs, d) |-> <<o[1], Passage(o).chunk>>]
  <2>3. From(d) = {f[o] : o \in Parts(pairs, d)}
    OBVIOUS
  <2>4. IsFiniteSet({f[o] : o \in Parts(pairs, d)})
    <3> HIDE DEF f
    <3> QED  BY <2>2, FiniteImage
  <2>5. IsFiniteSet(From(d))
    <3> HIDE DEF f, From
    <3> QED  BY <2>3, <2>4
  <2>6. ASSUME NEW c \in From(d)
        PROVE  c \in Slots(chunks) /\ Score(At(chunks, c)) \in Nat
    <3>1. PICK o \in Parts(pairs, d) : c = <<o[1], Passage(o).chunk>>
      OBVIOUS
    <3> HIDE DEF From
    <3> QED  BY <2>1, <3>1
  <2>7. From(d) # {}
    <3>1. PICK o \in Parts(pairs, d) : TRUE
      BY <2>2
    <3>2. <<o[1], Passage(o).chunk>> \in From(d)
      BY <3>1
    <3> HIDE DEF From
    <3> QED  BY <3>2
  <2> HIDE DEF From
  <2> QED  BY <2>5, <2>6, <2>7
<1> HIDE DEF From
<1>8. ASSUME NEW d \in all PROVE score[d] \in Nat
  <2> DEFINE f == [c \in From(d) |-> Score(At(chunks, c))]
             T == {f[c] : c \in From(d)}
  <2>1. T = {Score(At(chunks, c)) : c \in From(d)}
    OBVIOUS
  <2>2. IsFiniteSet(T)
    <3>1. IsFiniteSet(From(d))
      BY <1>7
    <3> HIDE DEF f
    <3> QED  BY <3>1, FiniteImage
  <2>3. T # {} /\ T \subseteq Nat
    BY <1>7
  <2> HIDE DEF T
  <2>4. Max(T) \in T
    <3>1. T \in SUBSET Int
      BY <2>3
    <3> QED  BY <2>2, <2>3, <3>1, Extremes
  <2>5. score[d] = Max(T)
    BY <2>1
  <2> HIDE DEF score
  <2> QED  BY <2>3, <2>4, <2>5
<1>9. ASSUME NEW d \in all PROVE size[d] \in Nat
  <2> DEFINE S == Parts(pairs, d)
             w == [o \in S |-> Len(Passage(o).lines)]
  <2>1. IsFiniteSet(S)
    BY <1>5
  <2>2. ASSUME NEW o \in S PROVE w[o] \in Nat
    <3>1. Passage(o) \in PassageType
      BY <1>6
    <3>2. Passage(o).lines \in Seq(Lines)
      BY <3>1 DEF PassageType
    <3>3. Len(Passage(o).lines) \in Nat
      BY <3>2
    <3> QED  BY <3>3
  <2>3. DOMAIN w = S /\ size[d] = SumFunction(w)
    OBVIOUS
  <2> HIDE DEF S, w, size
  <2>4. SumFunctionOnSet(w, S) \in Nat
    BY <2>1, <2>2, SumFacts
  <2> QED  BY <2>3, <2>4 DEF SumFunction
<1> HIDE DEF size, score
<1> DEFINE R == ByWeight(all, size, score)
<1>10. Sorts(all, R)
  BY <1>5, <1>8, <1>9, WeightSorts
<1> HIDE DEF R
<1>11. /\ Cardinality(all) \in Nat /\ order \in [1..Cardinality(all) -> all]
  <2>1. order = InOrder(all, R)
    BY DEF R
  <2> HIDE DEF order
  <2> QED  BY <1>5, <1>10, <2>1, InOrderFacts
<1> HIDE DEF order
<1> DEFINE N == Cardinality(all)
<1>12. N \in Nat /\ DOMAIN order = 1..N /\ \A n \in 1..N : order[n] \in all
  BY <1>11
<1> HIDE DEF N
<1>13. sizes \in [1..N -> Nat] /\ \A n \in 1..N : n = 1 => sizes[n] <= budget
  <2>1. ASSUME NEW x \in Nat PROVE Min({x, budget}) \in Nat /\ Min({x, budget}) <= budget
    BY <1>2, Lesser
  <2>2. \A n \in 1..N : size[order[n]] \in Nat
    BY <1>9, <1>12
  <2>3. \A n \in 1..N : sizes[n] = IF n = 1 THEN Min({size[order[n]], budget}) ELSE size[order[n]]
    BY <1>12
  <2>4. ASSUME NEW n \in 1..N PROVE sizes[n] \in Nat /\ (n = 1 => sizes[n] <= budget)
    <3> DEFINE z == size[order[n]]
    <3>1. z \in Nat
      BY <2>2
    <3>2. sizes[n] = IF n = 1 THEN Min({z, budget}) ELSE z
      BY <2>3
    <3> HIDE DEF sizes, z
    <3>3. Min({z, budget}) \in Nat /\ Min({z, budget}) <= budget
      BY <2>1, <3>1
    <3> QED  BY <3>1, <3>2, <3>3
  <2>5. sizes = [n \in 1..N |-> sizes[n]]
    BY <1>12
  <2> HIDE DEF sizes
  <2> QED  BY <2>4, <2>5
<1> HIDE DEF sizes
<1>14. sizes \in Seq(Nat) /\ Len(sizes) = N
  <2>1. sizes \in Seq(Nat)
    BY <1>12, <1>13
  <2> QED  BY <1>12, <1>13, <2>1
<1>15. sizes # <<>> => sizes[1] <= budget
  <2> SUFFICES ASSUME sizes # <<>> PROVE sizes[1] <= budget
    OBVIOUS
  <2>1. N # 0
    BY <1>14
  <2>2. 1 \in 1..N
    BY <1>12, <2>1
  <2> QED  BY <1>13, <2>2
<1>16. shown \subseteq 1..N
  BY <1>2, <1>14, <1>15, FillFacts
<1> HIDE DEF shown
<1>17. sources \subseteq Slots(chunks)
  BY <1>7, <1>12, <1>16
<1> HIDE DEF sources
<1>18. /\ Diff.kind = "diff" /\ Diff.old = a /\ Diff.new = b /\ Diff.pairs = pairs
       /\ Diff.removed = removed /\ Diff.added = added /\ Diff.sizes = sizes
       /\ Diff.shown = shown /\ Diff.sources = sources
  BY <1>1
<1> QED  BY <1>14, <1>15, <1>17, <1>18 DEF a, b, pairs, removed, added, shown

-----------------------------------------------------------------------------
(* What a context holds is in the documents.                               *)

\* documents.py:572-600.
LEMMA TakeFacts ==
  ASSUME ReadDocs, NEW d \in 1..Len(chunks), NEW limit
  PROVE  Take(d, limit) \subseteq Slots(chunks)
<1> DEFINE doc == chunks[d]
           D == DOMAIN doc
           R == {p \in D \X D : \/ Score(doc[p[1]]) > Score(doc[p[2]])
                                \/ Score(doc[p[1]]) = Score(doc[p[2]]) /\ p[1] < p[2]}
           order == Closest(doc)
           size == [n \in DOMAIN order |-> Len(doc[order[n]])]
           fitting == {n \in DOMAIN order : SumFunctionOnSet(size, 1..n) <= limit}
           N == Len(doc)
           T == {Min({1, Len(order)})} \cup fitting
<1>1. doc \in Documents /\ N \in Nat /\ D = 1..N
  BY TextFacts DEF ReadDocs
<1>2. order = InOrder(D, R)
  BY DEF Closest
<1>3. IsFiniteSet(D) /\ Cardinality(D) = N
  BY <1>1, Upto
<1>4. Sorts(D, R)
  <2>1. \A i, j \in D : <<i, j>> \in R <=>
           Score(doc[i]) > Score(doc[j]) \/ (Score(doc[i]) = Score(doc[j]) /\ i < j)
    OBVIOUS
  <2>2. \A i \in D : Score(doc[i]) \in Nat /\ i \in Nat
    BY <1>1, ScoreFacts
  <2> HIDE DEF R, D, doc
  <2> QED  BY <2>1, <2>2 DEF Sorts
<1>5. order \in [1..N -> D]
  <2> HIDE DEF order, D, R, doc, N
  <2> QED  BY <1>2, <1>3, <1>4, InOrderFacts
<1>6. DOMAIN order = 1..N /\ Len(order) = N
  <2> HIDE DEF order, D, doc, N
  <2>1. order \in Seq(D)
    BY <1>1, <1>5
  <2> QED  BY <1>1, <1>5, <2>1
<1>7. Max(T) \in 0..N
  <2>1. Min({1, N}) \in Nat /\ Min({1, N}) <= N
    BY <1>1, Lesser
  <2>2. fitting \subseteq 0..N
    BY <1>1, <1>6
  <2>3. T \subseteq 0..N
    BY <1>1, <1>6, <2>1, <2>2
  <2> HIDE DEF T, N
  <2>4. IsFiniteSet(0..N)
    <3>1. 0 \in Int /\ N \in Int
      BY <1>1
    <3> QED  BY <3>1, FS_Interval
  <2>5. IsFiniteSet(T) /\ T \in SUBSET Int
    <3>1. IsFiniteSet(T)
      BY <2>3, <2>4, FS_Subset
    <3>2. 0..N \subseteq Int
      BY <1>1
    <3> QED  BY <2>3, <3>1, <3>2
  <2>6. T # {}
    BY DEF T
  <2>7. Max(T) \in T
    BY <2>5, <2>6, Extremes
  <2> QED  BY <2>3, <2>7
<1>8. Take(d, limit) = {<<d, order[n]>> : n \in 1..Max(T)}
  BY DEF Take
<1>9. ASSUME NEW n \in 1..Max(T) PROVE <<d, order[n]>> \in Slots(chunks)
  <2>1. n \in 1..N
    <3> HIDE DEF T, N
    <3> QED  BY <1>1, <1>7
  <2>2. order[n] \in 1..Len(chunks[d])
    <3> HIDE DEF order
    <3> QED  BY <1>1, <1>5, <2>1
  <2>3. chunks \in Seq(Seq(Seq(LineOrShort)))
    BY DEF ReadDocs, Documents, LineOrShort
  <2> HIDE DEF order
  <2> QED  BY <2>2, <2>3, SlotFacts
<1> HIDE DEF T, order
<1> QED  BY <1>8, <1>9

\* documents.py:614-640, 853-875.
LEMMA ContextFacts ==
  ASSUME ReadDocs, Len(chunks) > 0
  PROVE  /\ Whole.kind = "whole" /\ Whole.sources \subseteq Slots(chunks)
         /\ Excerpts.kind = "excerpts" /\ Excerpts.sources \subseteq Slots(chunks)
<1>1. DOMAIN chunks = 1..Len(chunks) /\ Len(chunks) \in Nat
  BY DEF ReadDocs
<1>2. 1 \in 1..Len(chunks)
  BY <1>1
<1>3. Take(1, budget) \subseteq Slots(chunks)
  BY <1>2, TakeFacts
<1>4. \A d \in 1..Len(chunks) : Take(d, Share) \subseteq Slots(chunks)
  BY TakeFacts
<1>5. Whole.kind = "whole" /\ Whole.sources = Take(1, budget)
  BY DEF Whole, Nothing
<1>6. Excerpts.kind = "excerpts" /\ Excerpts.sources = UNION {Take(d, Share) : d \in DOMAIN chunks}
  BY DEF Excerpts, Nothing
<1> QED  BY <1>1, <1>3, <1>4, <1>5, <1>6

-----------------------------------------------------------------------------
(* The request.                                                            *)

\* How far the request has come.
Progress ==
    /\ phase = "read" => Len(chunks) < Len(store)
    /\ phase \in {"build", "answer"} => Len(chunks) > 0
    /\ phase # "answer" => built = Nothing

CompareInv == CompareTypeOK /\ Progress /\ DifferencesReported /\ DifferencesAccounted

\* A context that is no comparison says nothing of differences.
LEMMA NoDifferences ==
  ASSUME built.kind # "diff"
  PROVE  DifferencesReported /\ DifferencesAccounted
BY DEF DifferencesReported, DifferencesAccounted

\* Before the context is built there is none.
LEMMA NothingFacts == Nothing.kind = "none" /\ Nothing.sources = {}
BY DEF Nothing

\* A request starts with nothing read.
LEMMA CompareStart ==
  ASSUME ComparisonAssumption, CompareInit
  PROVE  CompareInv
<1>1. /\ store \in Stores /\ budget \in Budgets /\ chunks = <<>> /\ phase = "read" /\ built = Nothing
  BY DEF CompareInit
<1>2. store \in Seq(Documents) /\ store # <<>>
  BY <1>1 DEF ComparisonAssumption
<1>3. Len(store) \in Nat /\ Len(store) > 0
  BY <1>2
<1>4. chunks \in Seq(Documents) /\ Len(chunks) = 0
  BY <1>1
<1>5. CompareTypeOK
  BY <1>1, <1>2, <1>3, <1>4, NothingFacts DEF CompareTypeOK
<1>6. Progress
  BY <1>1, <1>3, <1>4 DEF Progress
<1>7. DifferencesReported /\ DifferencesAccounted
  BY <1>1, NothingFacts, NoDifferences
<1> QED  BY <1>5, <1>6, <1>7 DEF CompareInv

\* The next document is one of the named ones, as it is now.
LEMMA ReadStep ==
  ASSUME ComparisonAssumption, CompareInv, ReadDocument
  PROVE  CompareInv'
<1>1. /\ phase = "read" /\ built = Nothing /\ built' = built /\ store' = store /\ budget' = budget
      /\ chunks' = Append(chunks, store[Len(chunks) + 1])
      /\ phase' = CASE Len(chunks') < Len(store) -> "read"
                    [] Len(chunks') = Len(store) /\ <<>> \in Range(chunks') -> "unresolved"
                    [] OTHER -> "build"
  BY DEF ReadDocument, CompareInv, Progress
<1>2. /\ budget \in Budgets /\ store \in Seq(Documents) /\ chunks \in Seq(Documents)
      /\ Len(chunks) < Len(store) /\ Len(chunks) \in Nat /\ Len(store) \in Nat
  BY <1>1 DEF CompareInv, CompareTypeOK, Progress
<1>3. store[Len(chunks) + 1] \in Documents
  <2>1. Len(chunks) + 1 \in 1..Len(store)
    BY <1>2
  <2> QED  BY <1>2, <2>1
<1>4. chunks' \in Seq(Documents) /\ Len(chunks') = Len(chunks) + 1
  BY <1>1, <1>2, <1>3
<1>5. /\ phase' \in {"read", "build", "unresolved"}
      /\ phase' = "read" => Len(chunks') < Len(store)
  <2>1. CASE Len(chunks') < Len(store)
    BY <1>1, <2>1
  <2>2. CASE ~(Len(chunks') < Len(store)) /\ Len(chunks') = Len(store) /\ <<>> \in Range(chunks')
    BY <1>1, <2>2
  <2>3. CASE ~(Len(chunks') < Len(store)) /\ ~(Len(chunks') = Len(store) /\ <<>> \in Range(chunks'))
    BY <1>1, <2>3
  <2> QED  BY <2>1, <2>2, <2>3
<1>6. built'.kind = "none" /\ built'.sources = {}
  BY <1>1, NothingFacts
<1>7. CompareTypeOK'
  <2>1. budget' \in Budgets /\ store' \in Seq(Documents) /\ Len(chunks') <= Len(store')
    BY <1>1, <1>2, <1>4
  <2>2. phase' \in {"read", "build", "answer", "unresolved"}
    BY <1>5
  <2> QED  BY <1>4, <1>6, <2>1, <2>2 DEF CompareTypeOK
<1>8. Progress'
  <2>1. built' = Nothing
    BY <1>1
  <2>2. phase' = "read" => Len(chunks') < Len(store')
    BY <1>1, <1>5
  <2>3. Len(chunks') > 0
    BY <1>2, <1>4
  <2> QED  BY <2>1, <2>2, <2>3 DEF Progress, Nothing
<1>9. DifferencesReported' /\ DifferencesAccounted'
  BY <1>6 DEF DifferencesReported, DifferencesAccounted
<1> QED  BY <1>7, <1>8, <1>9 DEF CompareInv

\* What the indexer does to the store does not reach what was read.
LEMMA ReplaceStep ==
  ASSUME ComparisonAssumption, CompareInv, NEW d \in DOMAIN store, IndexerReplaces(d)
  PROVE  CompareInv'
<1>1. PICK u \in Updates : store' = [store EXCEPT ![d] = u]
  BY DEF IndexerReplaces
<1>2. /\ phase = "read" /\ built = Nothing
      /\ built' = built /\ budget' = budget /\ chunks' = chunks /\ phase' = phase
  BY DEF IndexerReplaces, CompareInv, Progress
<1>3. /\ budget \in Budgets /\ store \in Seq(Documents) /\ chunks \in Seq(Documents)
      /\ Len(chunks) < Len(store)
  BY <1>2 DEF CompareInv, CompareTypeOK, Progress
<1>4. u \in Documents
  BY DEF ComparisonAssumption
<1>5. store' \in Seq(Documents) /\ Len(store') = Len(store)
  <2>1. d \in 1..Len(store)
    BY <1>3
  <2> QED  BY <1>1, <1>3, <1>4, <2>1
<1>6. built'.kind = "none" /\ built'.sources = {}
  BY <1>2, NothingFacts
<1>7. CompareTypeOK'
  <2>1. Len(chunks') <= Len(store')
    BY <1>2, <1>3, <1>5
  <2> QED  BY <1>2, <1>3, <1>5, <1>6, <2>1 DEF CompareTypeOK
<1>8. Progress'
  BY <1>2, <1>3, <1>5 DEF Progress
<1>9. DifferencesReported' /\ DifferencesAccounted'
  BY <1>6 DEF DifferencesReported, DifferencesAccounted
<1> QED  BY <1>7, <1>8, <1>9 DEF CompareInv

\* documents.py:836-841: what holds of a comparison when it is built.
LEMMA ComparisonBuilt ==
  ASSUME ComparisonAssumption, ReadDocs, Len(chunks) = 2, built' = Diff,
         chunks' = chunks, budget' = budget
  PROVE  DifferencesReported' /\ DifferencesAccounted'
<1> DEFINE a == Passages(chunks[1], chunks[2])
           b == Passages(chunks[2], chunks[1])
           pairs == PairChanged(a, b)
           removed == DOMAIN a \ {p[1] : p \in Range(pairs)}
           added == DOMAIN b \ {p[2] : p \in Range(pairs)}
           sizes == Diff.sizes
<1>1. /\ built'.old = a /\ built'.new = b /\ built'.pairs = pairs
      /\ built'.removed = removed /\ built'.added = added
      /\ built'.sizes = sizes /\ built'.shown = Fill(sizes)
  BY DiffFacts
<1>2. sizes \in Seq(Nat) /\ (sizes # <<>> => sizes[1] <= budget)
  BY DiffFacts
<1>3. chunks[1] \in Documents /\ chunks[2] \in Documents /\ budget \in Nat
  BY DEF ReadDocs
<1>4. a \in Seq(PassageType) /\ b \in Seq(PassageType)
  BY <1>3, PassageFacts
<1>5. ASSUME EdgesRepeated(chunks[1]), EdgesRepeated(chunks[2])
      PROVE  TellsApart(a, chunks[1], chunks[2]) /\ TellsApart(b, chunks[2], chunks[1])
  BY <1>3, <1>5, Tells
<1> HIDE DEF a, b
<1>6. /\ Len(pairs) + Cardinality(removed) = Len(a)
      /\ Len(pairs) + Cardinality(added) = Len(b)
      /\ Len(a) * Len(b) <= MaxPairings =>
            \A i \in removed, j \in added :
               LET v == WordsOf(a[i])
                   w == WordsOf(b[j])
               IN  2 * Cardinality(v \cap w) < Cardinality(v \cup w) \/ v \cap w = {}
  BY <1>4, PairFacts
<1> HIDE DEF sizes, pairs, removed, added
<1>7. SumFunctionOnSet(sizes, Fill(sizes)) <= budget /\ (sizes # <<>> => Fill(sizes) # {})
  <2>1. SumFunctionOnSet(sizes, Fill(sizes)) <= budget /\ (sizes # <<>> => 1 \in Fill(sizes))
    BY <1>2, <1>3, FillFacts
  <2> QED  BY <2>1
<1>8. DifferencesReported'
  <2> SUFFICES ASSUME \A d \in 1..2 : EdgesRepeated(chunks'[d])
               PROVE  /\ TellsApart(built'.old, chunks'[1], chunks'[2])
                      /\ TellsApart(built'.new, chunks'[2], chunks'[1])
    BY DEF DifferencesReported
  <2>1. EdgesRepeated(chunks[1]) /\ EdgesRepeated(chunks[2])
    OBVIOUS
  <2> QED  BY <1>1, <1>5, <2>1
<1>9. DifferencesAccounted'
  BY <1>1, <1>6, <1>7 DEF DifferencesAccounted
<1> QED  BY <1>8, <1>9

\* main.py:588-603: the context is made of what was read.
LEMMA BuildStep ==
  ASSUME ComparisonAssumption, CompareInv, BuildContext
  PROVE  CompareInv'
<1>1. /\ phase = "build" /\ phase' = "answer"
      /\ store' = store /\ budget' = budget /\ chunks' = chunks
      /\ built' = IF Len(chunks) = 1 THEN Whole
                  ELSE IF Len(chunks) = 2 /\ Versions(chunks[1], chunks[2]) THEN Diff
                  ELSE Excerpts
  BY DEF BuildContext
<1>2. /\ budget \in Budgets /\ store \in Seq(Documents) /\ chunks \in Seq(Documents)
      /\ Len(chunks) <= Len(store) /\ Len(chunks) > 0
  BY <1>1 DEF CompareInv, CompareTypeOK, Progress
<1>3. ReadDocs
  BY <1>2 DEF ReadDocs, ComparisonAssumption
<1>4. Progress'
  BY <1>1, <1>2 DEF Progress
<1>5. /\ built'.kind \in {"whole", "excerpts", "diff"} /\ built'.sources \subseteq Slots(chunks)
      /\ DifferencesReported' /\ DifferencesAccounted'
  <2>1. CASE built' = Diff /\ Len(chunks) = 2
    <3>1. Diff.kind = "diff" /\ Diff.sources \subseteq Slots(chunks)
      BY <1>3, <2>1, DiffFacts
    <3>2. DifferencesReported' /\ DifferencesAccounted'
      BY <1>1, <1>3, <2>1, ComparisonBuilt
    <3> QED  BY <2>1, <3>1, <3>2
  <2>2. CASE built' = Whole \/ built' = Excerpts
    <3>1. built'.kind \in {"whole", "excerpts"} /\ built'.sources \subseteq Slots(chunks)
      BY <1>2, <1>3, <2>2, ContextFacts
    <3>2. DifferencesReported' /\ DifferencesAccounted'
      BY <3>1 DEF DifferencesReported, DifferencesAccounted
    <3> QED  BY <3>1, <3>2
  <2> QED  BY <1>1, <2>1, <2>2
<1>6. CompareTypeOK'
  <2>1. built'.sources \subseteq Slots(chunks')
    BY <1>1, <1>5
  <2>2. built'.kind \in {"none", "whole", "excerpts", "diff"}
    BY <1>5
  <2>3. phase' \in {"read", "build", "answer", "unresolved"}
    BY <1>1
  <2>4. budget' \in Budgets /\ store' \in Seq(Documents) /\ chunks' \in Seq(Documents)
    BY <1>1, <1>2
  <2>5. Len(chunks') <= Len(store')
    BY <1>1, <1>2
  <2> QED  BY <2>1, <2>2, <2>3, <2>4, <2>5 DEF CompareTypeOK
<1> QED  BY <1>4, <1>5, <1>6 DEF CompareInv

\* No step of the request breaks its invariant.
LEMMA CompareStep ==
  ASSUME ComparisonAssumption, CompareInv, [CompareNext]_compareVars
  PROVE  CompareInv'
<1>1. CASE ReadDocument
  BY <1>1, ReadStep
<1>2. ASSUME NEW d \in DOMAIN store, IndexerReplaces(d) PROVE CompareInv'
  BY <1>2, ReplaceStep
<1>3. CASE BuildContext
  BY <1>3, BuildStep
<1>4. CASE UNCHANGED compareVars
  BY <1>4 DEF compareVars, CompareInv, CompareTypeOK, Progress, DifferencesReported,
              DifferencesAccounted
<1> QED  BY <1>1, <1>2, <1>3, <1>4 DEF CompareNext

\* The inductive invariant of a /rag request in document mode: its types, how
\* far it has come, and what it says of a comparison.
THEOREM CompareInvariance == CompareSpec => []CompareInv
<1>1. CompareInit => CompareInv
  BY CompareStart, ComparisonAssumption
<1>2. CompareInv /\ [CompareNext]_compareVars => CompareInv'
  BY CompareStep, ComparisonAssumption
<1> QED  BY <1>1, <1>2, PTL DEF CompareSpec

\* The context of a /rag request in document mode names only chunks of the
\* documents that were read (main.py:_answer_documents).
THEOREM CompareTypes == CompareSpec => []CompareTypeOK
<1>1. CompareInv => CompareTypeOK
  BY DEF CompareInv
<1> QED  BY <1>1, CompareInvariance, PTL

\* However two versions of one text were cut into overlapping chunks, every
\* line one of them has and the other misses is in exactly one passage of the
\* comparison, and no other line is in any (documents.py:836-841), whatever
\* the indexer replaced between the two reads.
THEOREM ReportGuarantee == CompareSpec => []DifferencesReported
<1>1. CompareInv => DifferencesReported
  BY DEF CompareInv
<1> QED  BY <1>1, CompareInvariance, PTL

\* The totals of a comparison count every passage once, no two passages left
\* over are one edited, and what is shown fits the budget and is not nothing
\* (documents.py:836-972).
THEOREM AccountGuarantee == CompareSpec => []DifferencesAccounted
<1>1. CompareInv => DifferencesAccounted
  BY DEF CompareInv
<1> QED  BY <1>1, CompareInvariance, PTL
=============================================================================
