------------------------------ MODULE FoldProofs ------------------------------
(***************************************************************************)
(* Lemmas about the folds of the community modules, for the proofs of the  *)
(* components that add up what a set or a sequence holds.  Induction is by *)
(* a smallest counterexample, with sets instead of operators: the provers  *)
(* cannot instantiate an operator parameter.                               *)
(***************************************************************************)
EXTENDS Integers, Functions, FiniteSetTheorems, TLAPS

\* The well-ordering of the naturals.
LEMMA LeastNatural ==
  ASSUME NEW T, T \subseteq Nat, T # {}
  PROVE  \E x \in T : \A y \in T : x <= y
<1> DEFINE R == {ss \in Nat \X Nat : ss[1] < ss[2]}
<1>1. IsWellFoundedOn(R, Nat)
  BY ONLY NatLessThanWellFounded, Zenon DEF OpToRel, R
<1>2. PICK x \in T : \A y \in T : ~(<<y, x>> \in R)
  <2> HIDE DEF R
  <2> QED
    BY <1>1, WFMin
<1>3. ASSUME NEW y \in T
      PROVE  x <= y
  <2>1. x \in Nat /\ y \in Nat
    OBVIOUS
  <2>2. SUFFICES ASSUME y < x
                 PROVE  FALSE
    BY <2>1
  <2>3. <<y, x>> \in R
    BY <2>1, <2>2 DEF R
  <2> QED
    BY <1>2, <2>3
<1> QED
  BY <1>3

\* Induction over the natural numbers.
LEMMA Induction ==
  ASSUME NEW G, 0 \in G, \A n \in Nat : n \in G => n + 1 \in G
  PROVE  Nat \subseteq G
<1> DEFINE T == {n \in Nat : n \notin G}
<1> SUFFICES ASSUME T # {}
             PROVE  FALSE
  OBVIOUS
<1>1. PICK x \in T : \A y \in T : x <= y
  BY LeastNatural
<1>2. x \in Nat /\ x # 0
  OBVIOUS
<1>3. x - 1 \in Nat /\ (x - 1) + 1 = x
  BY <1>2
<1>4. x - 1 \notin T
  BY <1>1, <1>3
<1>5. x - 1 \in G
  BY <1>3, <1>4
<1>6. x \in G
  BY <1>3, <1>5
<1> QED
  BY <1>6

\* Induction over the subsets of a finite set.
LEMMA SubsetInduction ==
  ASSUME NEW S, IsFiniteSet(S), NEW G,
         \A s \in SUBSET S : (\A x \in s : s \ {x} \in G) => s \in G
  PROVE  SUBSET S \subseteq G
<1> DEFINE N == {n \in Nat : \A s \in SUBSET S : Cardinality(s) = n => s \in G}
<1>1. \A s \in SUBSET S : IsFiniteSet(s) /\ Cardinality(s) \in Nat
  BY FS_Subset, FS_CardinalityType
<1>2. 0 \in N
  <2>1. \A s \in SUBSET S : Cardinality(s) = 0 => s = {}
    BY <1>1, FS_EmptySet
  <2> QED
    BY <2>1
<1>3. ASSUME NEW n \in Nat, n \in N
      PROVE  n + 1 \in N
  <2> SUFFICES ASSUME NEW s \in SUBSET S, Cardinality(s) = n + 1
               PROVE  s \in G
    OBVIOUS
  <2>1. \A x \in s : s \ {x} \in SUBSET S /\ Cardinality(s \ {x}) = n
    <3> TAKE x \in s
    <3>1. Cardinality(s \ {x}) = Cardinality(s) - 1
      BY <1>1, FS_RemoveElement
    <3> QED
      BY <3>1
  <2>2. \A x \in s : s \ {x} \in G
    BY <1>3, <2>1
  <2> QED
    BY <2>2
<1> HIDE DEF N
<1>4. Nat \subseteq N
  BY <1>2, <1>3, Induction
<1> QED
  BY <1>1, <1>4 DEF N

-----------------------------------------------------------------------------
(* A fold over the subsets of a set: h is the function that MapThenFoldSet   *)
(* defines when the combination of two values is m, the start e, and the     *)
(* value of x is v[x].                                                       *)

OneOf(s) == CHOOSE x \in s : TRUE

IsFold(h, m, e, v, S) ==
  h = [s \in SUBSET S |-> IF s = {} THEN e ELSE m[<<v[OneOf(s)], h[s \ {OneOf(s)}]>>]]

\* The order in which values are combined does not matter.
Combines(m, M) == /\ m \in [M \X M -> M]
                  /\ \A a, b, c \in M : m[<<a, m[<<b, c>>]>>] = m[<<b, m[<<a, c>>]>>]

LEMMA OneIsIn ==
  ASSUME NEW s, s # {}
  PROVE  OneOf(s) \in s
BY DEF OneOf

LEMMA FoldExists ==
  ASSUME NEW S, IsFiniteSet(S), NEW m, NEW e, NEW v
  PROVE  \E h : IsFold(h, m, e, v, S)
<1> DEFINE F(h, s) == IF s = {} THEN e ELSE m[<<v[OneOf(s)], h[s \ {OneOf(s)}]>>]
           Upto(h, n) == \A s \in SUBSET S : Cardinality(s) <= n => h[s] = F(h, s)
           N == {n \in Nat : \E h : Upto(h, n)}
<1>1. \A s \in SUBSET S : IsFiniteSet(s) /\ Cardinality(s) \in Nat /\ Cardinality(s) <= Cardinality(S)
  BY FS_Subset, FS_CardinalityType
<1>2. 0 \in N
  <2>1. \A s \in SUBSET S : Cardinality(s) <= 0 => s = {}
    BY <1>1, FS_EmptySet
  <2> DEFINE h == [s \in SUBSET S |-> e]
  <2>2. Upto(h, 0)
    BY <2>1
  <2> QED
    BY <2>2
<1>3. ASSUME NEW n \in Nat, n \in N
      PROVE  n + 1 \in N
  <2>1. PICK g : Upto(g, n)
    BY <1>3
  <2> DEFINE h == [s \in SUBSET S |-> F(g, s)]
  <2>2. ASSUME NEW s \in SUBSET S, Cardinality(s) <= n + 1
        PROVE  h[s] = F(h, s)
    <3>1. CASE s = {}
      BY <3>1
    <3>2. CASE s # {}
      <4>1. PICK c \in s : c = OneOf(s)
        BY <3>2, OneIsIn
      <4>2. s \ {c} \in SUBSET S /\ Cardinality(s \ {c}) <= n
        <5>1. Cardinality(s \ {c}) = Cardinality(s) - 1
          BY <1>1, FS_RemoveElement
        <5> QED
          BY <1>1, <2>2, <5>1
      <4>3. g[s \ {c}] = F(g, s \ {c})
        BY <2>1, <4>2
      <4>4. h[s \ {c}] = F(g, s \ {c})
        BY <4>2
      <4>5. h[s] = m[<<v[c], g[s \ {c}]>>] /\ F(h, s) = m[<<v[c], h[s \ {c}]>>]
        BY <3>2, <4>1
      <4> QED
        BY <4>3, <4>4, <4>5
    <3> QED
      BY <3>1, <3>2
  <2> HIDE DEF h, F
  <2>3. Upto(h, n + 1)
    BY <2>2
  <2>4. n + 1 \in Nat /\ \E k : Upto(k, n + 1)
    BY <2>3
  <2> HIDE DEF Upto
  <2> QED
    BY <2>4
<1>4. Cardinality(S) \in N
  <2> HIDE DEF N
  <2>1. Nat \subseteq N
    BY <1>2, <1>3, Induction
  <2> QED
    BY <1>1, <2>1
<1>5. PICK g : Upto(g, Cardinality(S))
  BY <1>4
<1> DEFINE h == [s \in SUBSET S |-> g[s]]
<1>6. \A s \in SUBSET S : g[s] = F(g, s)
  BY <1>1, <1>5
<1>7. \A s \in SUBSET S : F(g, s) = F(h, s)
  <2> SUFFICES ASSUME NEW s \in SUBSET S, s # {}
               PROVE  F(g, s) = F(h, s)
    OBVIOUS
  <2>1. s \ {OneOf(s)} \in SUBSET S
    OBVIOUS
  <2> QED
    BY <2>1
<1>8. h = [s \in SUBSET S |-> F(h, s)]
  <2> HIDE DEF F
  <2> QED
    BY <1>6, <1>7
<1> QED
  BY <1>8 DEF IsFold

\* h folds the values v of the finite set S, all in M.
FoldsOver(h, m, e, v, S, M) ==
  /\ IsFiniteSet(S) /\ Combines(m, M) /\ e \in M /\ \A x \in S : v[x] \in M
  /\ IsFold(h, m, e, v, S)

LEMMA FoldUnfolds ==
  ASSUME NEW S, NEW M, NEW m, NEW e, NEW v, NEW h, FoldsOver(h, m, e, v, S, M)
  PROVE  /\ h[{}] = e
         /\ \A s \in SUBSET S : s # {} => h[s] = m[<<v[OneOf(s)], h[s \ {OneOf(s)}]>>]
BY DEF FoldsOver, IsFold

\* What a fold over M yields is in M.
LEMMA FoldIsIn ==
  ASSUME NEW S, NEW M, NEW m, NEW e, NEW v, NEW h, FoldsOver(h, m, e, v, S, M)
  PROVE  \A s \in SUBSET S : h[s] \in M
<1> DEFINE G == {s \in SUBSET S : h[s] \in M}
<1>1. ASSUME NEW s \in SUBSET S, \A x \in s : s \ {x} \in G
      PROVE  s \in G
  <2>1. CASE s = {}
    <3>1. h[{}] = e
      BY FoldUnfolds
    <3> QED
      BY <2>1, <3>1 DEF FoldsOver
  <2>2. CASE s # {}
    <3>1. PICK c \in s : c = OneOf(s)
      BY <2>2, OneIsIn
    <3>2. h[s] = m[<<v[c], h[s \ {c}]>>]
      BY <2>2, <3>1, FoldUnfolds
    <3>3. v[c] \in M /\ h[s \ {c}] \in M
      BY <1>1 DEF FoldsOver
    <3>4. h[s] \in M
      BY <3>2, <3>3 DEF FoldsOver, Combines
    <3> QED
      BY <3>4
  <2> QED
    BY <2>1, <2>2
<1> HIDE DEF G
<1>2. SUBSET S \subseteq G
  BY <1>1, SubsetInduction DEF FoldsOver
<1> QED
  BY <1>2 DEF G

\* Any element may be combined last.
LEMMA FoldStep ==
  ASSUME NEW S, NEW M, NEW m, NEW e, NEW v, NEW h, FoldsOver(h, m, e, v, S, M)
  PROVE  \A s \in SUBSET S : \A x \in s : h[s] = m[<<v[x], h[s \ {x}]>>]
<1> DEFINE G == {s \in SUBSET S : \A x \in s : h[s] = m[<<v[x], h[s \ {x}]>>]}
<1>1. ASSUME NEW s \in SUBSET S, \A x \in s : s \ {x} \in G
      PROVE  s \in G
  <2> SUFFICES ASSUME NEW x \in s
               PROVE  h[s] = m[<<v[x], h[s \ {x}]>>]
    OBVIOUS
  <2>1. PICK c \in s : c = OneOf(s)
    BY OneIsIn
  <2>2. h[s] = m[<<v[c], h[s \ {c}]>>]
    BY <2>1, FoldUnfolds
  <2>3. CASE x = c
    BY <2>2, <2>3
  <2>4. CASE x # c
    <3>1. h[s \ {c}] = m[<<v[x], h[(s \ {c}) \ {x}]>>]
      BY <1>1, <2>4
    <3>2. h[s \ {x}] = m[<<v[c], h[(s \ {x}) \ {c}]>>]
      BY <1>1, <2>4
    <3>3. (s \ {x}) \ {c} = (s \ {c}) \ {x} /\ (s \ {x}) \ {c} \in SUBSET S
      OBVIOUS
    <3>4. v[x] \in M /\ v[c] \in M /\ h[(s \ {x}) \ {c}] \in M
      BY <3>3, FoldIsIn DEF FoldsOver
    <3>5. PICK k \in M : k = h[(s \ {x}) \ {c}]
      BY <3>4
    <3>6. m[<<v[c], m[<<v[x], k>>]>>] = m[<<v[x], m[<<v[c], k>>]>>]
      BY <3>4 DEF FoldsOver, Combines
    <3> QED
      BY <2>2, <3>1, <3>2, <3>3, <3>5, <3>6
  <2> QED
    BY <2>3, <2>4
<1> HIDE DEF G
<1>2. SUBSET S \subseteq G
  BY <1>1, SubsetInduction DEF FoldsOver
<1> QED
  BY <1>2 DEF G

\* b takes S into T, injectively, and keeps the values.
Carries(b, S, v, T, w) ==
  /\ \A x \in S : b[x] \in T /\ v[x] = w[b[x]]
  /\ \A x, y \in S : b[x] = b[y] => x = y

\* Folds over two sets agree when one is carried into the other.
LEMMA FoldSame ==
  ASSUME NEW S, NEW T, NEW M, NEW m, NEW e, NEW v, NEW w,
         NEW h, FoldsOver(h, m, e, v, S, M), NEW g, FoldsOver(g, m, e, w, T, M),
         NEW b, Carries(b, S, v, T, w)
  PROVE  \A s \in SUBSET S : h[s] = g[{b[x] : x \in s}]
<1> DEFINE I(s) == {b[x] : x \in s}
           G == {s \in SUBSET S : h[s] = g[I(s)]}
<1>0. /\ \A x \in S : b[x] \in T /\ v[x] = w[b[x]]
      /\ \A x, y \in S : b[x] = b[y] => x = y
  BY DEF Carries
<1>a. \A s \in SUBSET S : \A x \in s : h[s] = m[<<v[x], h[s \ {x}]>>]
  BY FoldStep
<1>b. \A s \in SUBSET T : \A x \in s : g[s] = m[<<w[x], g[s \ {x}]>>]
  BY FoldStep
<1>1. ASSUME NEW s \in SUBSET S, \A x \in s : s \ {x} \in G
      PROVE  s \in G
  <2>1. CASE s = {}
    <3>1. I(s) = {} /\ {} \in SUBSET T
      BY <2>1
    <3>2. h[{}] = e
      BY FoldUnfolds
    <3>3. g[{}] = e
      BY FoldUnfolds
    <3> QED
      BY <2>1, <3>1, <3>2, <3>3
  <2>2. CASE s # {}
    <3>1. PICK c \in s : TRUE
      BY <2>2
    <3>2. h[s] = m[<<v[c], h[s \ {c}]>>]
      BY <1>a
    <3>3. I(s) \in SUBSET T /\ b[c] \in I(s)
      BY <1>0
    <3>4. I(s) \ {b[c]} = I(s \ {c})
      BY <1>0
    <3> HIDE DEF I
    <3>5. g[I(s)] = m[<<w[b[c]], g[I(s) \ {b[c]}]>>]
      BY <1>b, <3>3
    <3>6. h[s \ {c}] = g[I(s \ {c})]
      BY <1>1
    <3> QED
      BY <1>0, <3>2, <3>4, <3>5, <3>6
  <2> QED
    BY <2>1, <2>2
<1> HIDE DEF G
<1>2. SUBSET S \subseteq G
  BY <1>1, SubsetInduction DEF FoldsOver
<1> QED
  BY <1>2 DEF G

\* The values v of the finite set S can be folded.
Foldable(m, e, v, S, M) ==
  IsFiniteSet(S) /\ Combines(m, M) /\ e \in M /\ \A x \in S : v[x] \in M

\* Each step of h is one of a fold, if what it builds on is in M.
StepsBy(h, m, e, v, S, M) ==
  /\ h = [s \in SUBSET S |-> h[s]] /\ h[{}] = e
  /\ \A s \in SUBSET S : s # {} /\ v[OneOf(s)] \in M /\ h[s \ {OneOf(s)}] \in M =>
       h[s] = m[<<v[OneOf(s)], h[s \ {OneOf(s)}]>>]

LEMMA FoldByValues ==
  ASSUME NEW S, NEW M, NEW m, NEW e, NEW v, Foldable(m, e, v, S, M), NEW h, StepsBy(h, m, e, v, S, M)
  PROVE  FoldsOver(h, m, e, v, S, M)
<1>0. /\ IsFiniteSet(S) /\ Combines(m, M) /\ e \in M /\ \A x \in S : v[x] \in M
      /\ h = [s \in SUBSET S |-> h[s]] /\ h[{}] = e
      /\ \A s \in SUBSET S : s # {} /\ v[OneOf(s)] \in M /\ h[s \ {OneOf(s)}] \in M =>
           h[s] = m[<<v[OneOf(s)], h[s \ {OneOf(s)}]>>]
  BY DEF Foldable, StepsBy
<1> DEFINE G == {s \in SUBSET S : h[s] \in M}
<1>1. ASSUME NEW s \in SUBSET S, \A x \in s : s \ {x} \in G
      PROVE  s \in G
  <2>1. CASE s = {}
    BY <1>0, <2>1
  <2>2. CASE s # {}
    <3>1. PICK c \in s : c = OneOf(s)
      BY <2>2, OneIsIn
    <3>2. v[c] \in M /\ h[s \ {c}] \in M
      BY <1>0, <1>1
    <3>3. h[s] = m[<<v[c], h[s \ {c}]>>]
      BY <1>0, <2>2, <3>1, <3>2
    <3>4. h[s] \in M
      BY <1>0, <3>2, <3>3 DEF Combines
    <3> QED
      BY <3>4
  <2> QED
    BY <2>1, <2>2
<1>2. SUBSET S \subseteq G
  <2> HIDE DEF G
  <2> QED
    BY <1>0, <1>1, SubsetInduction
<1>3. \A s \in SUBSET S : h[s] = IF s = {} THEN e ELSE m[<<v[OneOf(s)], h[s \ {OneOf(s)}]>>]
  <2> SUFFICES ASSUME NEW s \in SUBSET S, s # {}
               PROVE  h[s] = m[<<v[OneOf(s)], h[s \ {OneOf(s)}]>>]
    BY <1>0
  <2>1. s \ {OneOf(s)} \in SUBSET S
    OBVIOUS
  <2>2. h[s \ {OneOf(s)}] \in M
    BY <1>2, <2>1
  <2>3. v[OneOf(s)] \in M
    BY <1>0, OneIsIn
  <2> QED
    BY <1>0, <2>2, <2>3
<1>4. IsFold(h, m, e, v, S)
  BY <1>0, <1>3 DEF IsFold
<1> QED
  BY <1>0, <1>4 DEF FoldsOver

\* h folds all the values, one step at a time.
FoldWithSteps(h, m, e, v, S, M) ==
  /\ FoldsOver(h, m, e, v, S, M)
  /\ h = [s \in SUBSET S |-> h[s]] /\ h[{}] = e
  /\ \A s \in SUBSET S : s # {} =>
       /\ v[OneOf(s)] \in M /\ h[s \ {OneOf(s)}] \in M
       /\ h[s] = m[<<v[OneOf(s)], h[s \ {OneOf(s)}]>>]

\* There is a fold of all finitely many values.
LEMMA FoldOfAll ==
  ASSUME NEW S, NEW M, NEW m, NEW e, NEW v, Foldable(m, e, v, S, M)
  PROVE  \E h : FoldWithSteps(h, m, e, v, S, M)
<1>1. PICK h : IsFold(h, m, e, v, S)
  BY FoldExists DEF Foldable
<1>2. FoldsOver(h, m, e, v, S, M)
  BY <1>1 DEF FoldsOver, Foldable
<1>3. h = [s \in SUBSET S |-> h[s]]
  BY <1>1 DEF IsFold
<1>4. \A s \in SUBSET S : h[s] \in M
  BY <1>2, FoldIsIn
<1>5. h[{}] = e
  BY <1>2, FoldUnfolds
<1>6. \A s \in SUBSET S : s # {} => h[s] = m[<<v[OneOf(s)], h[s \ {OneOf(s)}]>>]
  BY <1>1 DEF IsFold
<1>7. \A s \in SUBSET S : s # {} => v[OneOf(s)] \in M /\ h[s \ {OneOf(s)}] \in M
  <2> SUFFICES ASSUME NEW s \in SUBSET S, s # {}
               PROVE  v[OneOf(s)] \in M /\ h[s \ {OneOf(s)}] \in M
    OBVIOUS
  <2>1. OneOf(s) \in s /\ s \ {OneOf(s)} \in SUBSET S
    BY OneIsIn
  <2> QED
    BY <1>4, <2>1 DEF Foldable
<1>8. FoldWithSteps(h, m, e, v, S, M)
  BY <1>2, <1>3, <1>5, <1>6, <1>7 DEF FoldWithSteps
<1> QED
  BY <1>8

-----------------------------------------------------------------------------
(* Sums and products of natural numbers. *)

Plus == [p \in Nat \X Nat |-> p[1] + p[2]]
Times == [p \in Nat \X Nat |-> p[1] * p[2]]

LEMMA PlusCombines ==
  /\ Combines(Plus, Nat)
  /\ \A a, b \in Nat : Plus[<<a, b>>] = a + b
<1>1. \A a, b \in Nat : Plus[<<a, b>>] = a + b
  BY DEF Plus
<1>2. Plus \in [Nat \X Nat -> Nat]
  BY DEF Plus
<1>3. ASSUME NEW a \in Nat, NEW b \in Nat, NEW c \in Nat
      PROVE  Plus[<<a, Plus[<<b, c>>]>>] = Plus[<<b, Plus[<<a, c>>]>>]
  <2>1. Plus[<<b, c>>] = b + c /\ Plus[<<a, c>>] = a + c
    BY <1>1
  <2>2. Plus[<<a, b + c>>] = a + (b + c) /\ Plus[<<b, a + c>>] = b + (a + c)
    BY <1>1
  <2> QED
    BY <2>1, <2>2
<1> QED
  BY <1>1, <1>2, <1>3 DEF Combines

LEMMA TimesCombines ==
  /\ Combines(Times, Nat)
  /\ \A a, b \in Nat : Times[<<a, b>>] = a * b
<1>1. \A a, b \in Nat : a * b \in Nat
  OBVIOUS
<1>2. \A a, b \in Nat : Times[<<a, b>>] = a * b
  BY DEF Times
<1>3. Times \in [Nat \X Nat -> Nat]
  BY <1>1 DEF Times
<1>4. ASSUME NEW a \in Nat, NEW b \in Nat, NEW c \in Nat
      PROVE  Times[<<a, Times[<<b, c>>]>>] = Times[<<b, Times[<<a, c>>]>>]
  <2>1. Times[<<b, c>>] = b * c /\ Times[<<a, c>>] = a * c /\ b * c \in Nat /\ a * c \in Nat
    BY <1>1, <1>2
  <2>2. Times[<<a, b * c>>] = a * (b * c) /\ Times[<<b, a * c>>] = b * (a * c)
    BY <1>2, <2>1
  <2>3. a * (b * c) = b * (a * c)
    OBVIOUS
  <2> QED
    BY <2>1, <2>2, <2>3
<1> QED
  BY <1>2, <1>3, <1>4 DEF Combines

\* h is the sum of v over every subset of S.
Adds(h, v, S) ==
  h = [s \in SUBSET S |-> IF s = {} THEN 0 ELSE v[OneOf(s)] + h[s \ {OneOf(s)}]]

\* h is the sum of the natural numbers v over the finite set S.
SumsOver(h, v, S) == IsFiniteSet(S) /\ (\A x \in S : v[x] \in Nat) /\ Adds(h, v, S)

LEMMA SumIsFold ==
  ASSUME NEW S, NEW v, NEW h, SumsOver(h, v, S)
  PROVE  FoldsOver(h, Plus, 0, v, S, Nat)
<1>1. /\ h = [s \in SUBSET S |-> h[s]] /\ h[{}] = 0
      /\ \A s \in SUBSET S : s # {} => h[s] = v[OneOf(s)] + h[s \ {OneOf(s)}]
  BY DEF SumsOver, Adds
<1>2. StepsBy(h, Plus, 0, v, S, Nat)
  BY <1>1, PlusCombines DEF StepsBy
<1>3. Foldable(Plus, 0, v, S, Nat)
  BY PlusCombines DEF SumsOver, Foldable
<1> QED
  BY <1>2, <1>3, FoldByValues

LEMMA SumExists ==
  ASSUME NEW S, IsFiniteSet(S), NEW v, \A x \in S : v[x] \in Nat
  PROVE  \E h : SumsOver(h, v, S)
<1>1. Foldable(Plus, 0, v, S, Nat)
  BY PlusCombines DEF Foldable
<1>2. PICK h : FoldWithSteps(h, Plus, 0, v, S, Nat)
  BY <1>1, FoldOfAll
<1>2a. /\ h = [s \in SUBSET S |-> h[s]] /\ h[{}] = 0
       /\ \A s \in SUBSET S : s # {} =>
            /\ v[OneOf(s)] \in Nat /\ h[s \ {OneOf(s)}] \in Nat
            /\ h[s] = Plus[<<v[OneOf(s)], h[s \ {OneOf(s)}]>>]
  BY <1>2 DEF FoldWithSteps
<1>3. \A s \in SUBSET S : s # {} => h[s] = v[OneOf(s)] + h[s \ {OneOf(s)}]
  BY <1>2a, PlusCombines
<1>4. Adds(h, v, S)
  BY <1>2a, <1>3 DEF Adds
<1> QED
  BY <1>4 DEF SumsOver

\* What a sum is, element by element.
LEMMA SumStep ==
  ASSUME NEW S, NEW v, NEW h, SumsOver(h, v, S)
  PROVE  /\ h[{}] = 0
         /\ \A s \in SUBSET S : h[s] \in Nat
         /\ \A s \in SUBSET S : \A x \in s : h[s] = v[x] + h[s \ {x}]
<1>1. FoldsOver(h, Plus, 0, v, S, Nat)
  BY SumIsFold
<1>2. h[{}] = 0
  BY DEF SumsOver, Adds
<1>3. \A s \in SUBSET S : h[s] \in Nat
  BY <1>1, FoldIsIn
<1>4. \A s \in SUBSET S : \A x \in s : h[s] = Plus[<<v[x], h[s \ {x}]>>]
  BY <1>1, FoldStep
<1>5. \A s \in SUBSET S : \A x \in s : h[s] = v[x] + h[s \ {x}]
  <2> SUFFICES ASSUME NEW s \in SUBSET S, NEW x \in s
               PROVE  h[s] = v[x] + h[s \ {x}]
    OBVIOUS
  <2>1. v[x] \in Nat /\ h[s \ {x}] \in Nat
    BY <1>3 DEF SumsOver
  <2>2. h[s] = Plus[<<v[x], h[s \ {x}]>>]
    BY <1>4
  <2> QED
    BY <2>1, <2>2, PlusCombines
<1> QED
  BY <1>2, <1>3, <1>5

\* Two sums of which the second has one more element, i.
LEMMA SumOfOneMore ==
  ASSUME NEW S, NEW v, NEW h, SumsOver(h, v, S),
         NEW T, NEW w, NEW g, SumsOver(g, w, T),
         NEW b, Carries(b, S, v, T, w), NEW i \in T, {b[x] : x \in S} = T \ {i}
  PROVE  h[S] \in Nat /\ g[T] = w[i] + h[S]
<1>1. FoldsOver(h, Plus, 0, v, S, Nat)
  BY SumIsFold
<1>2. FoldsOver(g, Plus, 0, w, T, Nat)
  BY SumIsFold
<1>3. \A s \in SUBSET S : h[s] = g[{b[x] : x \in s}]
  BY <1>1, <1>2, FoldSame
<1>4. h[S] = g[T \ {i}]
  BY <1>3
<1>5. \A s \in SUBSET T : \A x \in s : g[s] = Plus[<<w[x], g[s \ {x}]>>]
  BY <1>2, FoldStep
<1>6. g[T] = Plus[<<w[i], g[T \ {i}]>>]
  BY <1>5
<1>7. \A s \in SUBSET S : h[s] \in Nat
  BY <1>1, FoldIsIn
<1>8. w[i] \in Nat /\ h[S] \in Nat
  BY <1>7 DEF SumsOver
<1>9. Plus[<<w[i], h[S]>>] = w[i] + h[S]
  BY <1>8, PlusCombines
<1> QED
  BY <1>4, <1>6, <1>8, <1>9

-----------------------------------------------------------------------------
(* The greatest of some naturals and 1, and what the folds of the modules    *)
(* are: a sum, a product and a maximum.                                      *)

Greater == [p \in Nat \X Nat |-> IF p[1] > p[2] THEN p[1] ELSE p[2]]

LEMMA GreaterCombines ==
  /\ Combines(Greater, Nat)
  /\ \A a, b \in Nat : Greater[<<a, b>>] = IF a > b THEN a ELSE b
<1>1. \A a, b \in Nat : Greater[<<a, b>>] = IF a > b THEN a ELSE b
  BY DEF Greater
<1>2. Greater \in [Nat \X Nat -> Nat]
  BY DEF Greater
<1>3. ASSUME NEW a \in Nat, NEW b \in Nat, NEW c \in Nat
      PROVE  Greater[<<a, Greater[<<b, c>>]>>] = Greater[<<b, Greater[<<a, c>>]>>]
  <2>1. /\ Greater[<<b, c>>] = IF b > c THEN b ELSE c
        /\ Greater[<<a, c>>] = IF a > c THEN a ELSE c
        /\ Greater[<<b, c>>] \in Nat /\ Greater[<<a, c>>] \in Nat
    BY <1>1
  <2>2. /\ Greater[<<a, Greater[<<b, c>>]>>] = IF a > Greater[<<b, c>>] THEN a ELSE Greater[<<b, c>>]
        /\ Greater[<<b, Greater[<<a, c>>]>>] = IF b > Greater[<<a, c>>] THEN b ELSE Greater[<<a, c>>]
    BY <1>1, <2>1
  <2> QED
    BY <2>1, <2>2
<1> QED
  BY <1>1, <1>2, <1>3 DEF Combines

SumOn(v, S) == FoldFunctionOnSet(LAMBDA a, b : a + b, 0, v, S)

LEMMA SumOnIsFold ==
  ASSUME NEW S, IsFiniteSet(S), NEW v, \A x \in S : v[x] \in Nat
  PROVE  \E h : FoldsOver(h, Plus, 0, v, S, Nat) /\ SumOn(v, S) = h[S]
<1> DEFINE R(g) == g = [s \in SUBSET S |->
                          IF s = {} THEN 0 ELSE v[CHOOSE x \in s : TRUE] + g[s \ {CHOOSE x \in s : TRUE}]]
<1>1. Foldable(Plus, 0, v, S, Nat)
  BY PlusCombines DEF Foldable
<1>2. PICK h : FoldWithSteps(h, Plus, 0, v, S, Nat)
  BY <1>1, FoldOfAll
<1>3. /\ h = [s \in SUBSET S |-> h[s]] /\ h[{}] = 0
      /\ \A s \in SUBSET S : s # {} =>
           /\ v[OneOf(s)] \in Nat /\ h[s \ {OneOf(s)}] \in Nat
           /\ h[s] = Plus[<<v[OneOf(s)], h[s \ {OneOf(s)}]>>]
  BY <1>2 DEF FoldWithSteps
<1>4. \A s \in SUBSET S : s # {} => h[s] = v[OneOf(s)] + h[s \ {OneOf(s)}]
  BY <1>3, PlusCombines
<1>5. R(h)
  BY <1>3, <1>4 DEF OneOf
<1>6. SumOn(v, S) = (CHOOSE g : R(g))[S]
  BY ONLY Zenon DEF SumOn, FoldFunctionOnSet, MapThenFoldSet, R
<1>7. ASSUME NEW g, R(g)
      PROVE  FoldsOver(g, Plus, 0, v, S, Nat)
  <2>1. /\ g = [s \in SUBSET S |-> g[s]] /\ g[{}] = 0
        /\ \A s \in SUBSET S : s # {} => g[s] = v[OneOf(s)] + g[s \ {OneOf(s)}]
    BY <1>7 DEF OneOf
  <2>2. StepsBy(g, Plus, 0, v, S, Nat)
    BY <2>1, PlusCombines DEF StepsBy
  <2> QED
    BY <1>1, <2>2, FoldByValues
<1> HIDE DEF R
<1> QED
  BY <1>5, <1>6, <1>7

ProductOn(v, S) == FoldFunctionOnSet(LAMBDA a, b : a * b, 1, v, S)

LEMMA ProductOnIsFold ==
  ASSUME NEW S, IsFiniteSet(S), NEW v, \A x \in S : v[x] \in Nat
  PROVE  \E h : FoldsOver(h, Times, 1, v, S, Nat) /\ ProductOn(v, S) = h[S]
<1> DEFINE R(g) == g = [s \in SUBSET S |->
                          IF s = {} THEN 1 ELSE v[CHOOSE x \in s : TRUE] * g[s \ {CHOOSE x \in s : TRUE}]]
<1>1. Foldable(Times, 1, v, S, Nat)
  BY TimesCombines DEF Foldable
<1>2. PICK h : FoldWithSteps(h, Times, 1, v, S, Nat)
  BY <1>1, FoldOfAll
<1>3. /\ h = [s \in SUBSET S |-> h[s]] /\ h[{}] = 1
      /\ \A s \in SUBSET S : s # {} =>
           /\ v[OneOf(s)] \in Nat /\ h[s \ {OneOf(s)}] \in Nat
           /\ h[s] = Times[<<v[OneOf(s)], h[s \ {OneOf(s)}]>>]
  BY <1>2 DEF FoldWithSteps
<1>4. \A s \in SUBSET S : s # {} => h[s] = v[OneOf(s)] * h[s \ {OneOf(s)}]
  BY <1>3, TimesCombines
<1>5. R(h)
  BY <1>3, <1>4 DEF OneOf
<1>6. ProductOn(v, S) = (CHOOSE g : R(g))[S]
  BY ONLY Zenon DEF ProductOn, FoldFunctionOnSet, MapThenFoldSet, R
<1>7. ASSUME NEW g, R(g)
      PROVE  FoldsOver(g, Times, 1, v, S, Nat)
  <2>1. /\ g = [s \in SUBSET S |-> g[s]] /\ g[{}] = 1
        /\ \A s \in SUBSET S : s # {} => g[s] = v[OneOf(s)] * g[s \ {OneOf(s)}]
    BY <1>7 DEF OneOf
  <2>2. StepsBy(g, Times, 1, v, S, Nat)
    BY <2>1, TimesCombines DEF StepsBy
  <2> QED
    BY <1>1, <2>2, FoldByValues
<1> HIDE DEF R
<1> QED
  BY <1>5, <1>6, <1>7

GreatestOn(v, S) == FoldFunctionOnSet(LAMBDA a, b : IF a > b THEN a ELSE b, 1, v, S)

LEMMA GreatestOnIsFold ==
  ASSUME NEW S, IsFiniteSet(S), NEW v, \A x \in S : v[x] \in Nat
  PROVE  \E h : FoldsOver(h, Greater, 1, v, S, Nat) /\ GreatestOn(v, S) = h[S]
<1> DEFINE R(g) == g = [s \in SUBSET S |->
                          IF s = {} THEN 1 ELSE IF v[CHOOSE x \in s : TRUE] > g[s \ {CHOOSE x \in s : TRUE}] THEN v[CHOOSE x \in s : TRUE] ELSE g[s \ {CHOOSE x \in s : TRUE}]]
<1>1. Foldable(Greater, 1, v, S, Nat)
  BY GreaterCombines DEF Foldable
<1>2. PICK h : FoldWithSteps(h, Greater, 1, v, S, Nat)
  BY <1>1, FoldOfAll
<1>3. /\ h = [s \in SUBSET S |-> h[s]] /\ h[{}] = 1
      /\ \A s \in SUBSET S : s # {} =>
           /\ v[OneOf(s)] \in Nat /\ h[s \ {OneOf(s)}] \in Nat
           /\ h[s] = Greater[<<v[OneOf(s)], h[s \ {OneOf(s)}]>>]
  BY <1>2 DEF FoldWithSteps
<1>4. \A s \in SUBSET S : s # {} => h[s] = IF v[OneOf(s)] > h[s \ {OneOf(s)}] THEN v[OneOf(s)] ELSE h[s \ {OneOf(s)}]
  BY <1>3, GreaterCombines
<1>5. R(h)
  BY <1>3, <1>4 DEF OneOf
<1>6. GreatestOn(v, S) = (CHOOSE g : R(g))[S]
  BY ONLY Zenon DEF GreatestOn, FoldFunctionOnSet, MapThenFoldSet, R
<1>7. ASSUME NEW g, R(g)
      PROVE  FoldsOver(g, Greater, 1, v, S, Nat)
  <2>1. /\ g = [s \in SUBSET S |-> g[s]] /\ g[{}] = 1
        /\ \A s \in SUBSET S : s # {} => g[s] = IF v[OneOf(s)] > g[s \ {OneOf(s)}] THEN v[OneOf(s)] ELSE g[s \ {OneOf(s)}]
    BY <1>7 DEF OneOf
  <2>2. StepsBy(g, Greater, 1, v, S, Nat)
    BY <2>1, GreaterCombines DEF StepsBy
  <2> QED
    BY <1>1, <2>2, FoldByValues
<1> HIDE DEF R
<1> QED
  BY <1>5, <1>6, <1>7

\* Folds over one and over two indices.
LEMMA FoldOfOne ==
  ASSUME NEW M, NEW m, NEW e, NEW v, NEW h, NEW S, NEW i, S = {i}, FoldsOver(h, m, e, v, S, M)
  PROVE  h[S] = m[<<v[i], e>>]
<1>1. h[{}] = e
  BY FoldUnfolds
<1>2. \A s \in SUBSET S : \A x \in s : h[s] = m[<<v[x], h[s \ {x}]>>]
  BY FoldStep
<1>3. h[S] = m[<<v[i], h[S \ {i}]>>]
  BY <1>2
<1>4. S \ {i} = {}
  OBVIOUS
<1> QED
  BY <1>1, <1>3, <1>4

LEMMA FoldOfTwo ==
  ASSUME NEW M, NEW m, NEW e, NEW v, NEW h, NEW S, NEW i, NEW j, i # j, S = {i, j},
         FoldsOver(h, m, e, v, S, M)
  PROVE  h[S] = m[<<v[i], m[<<v[j], e>>]>>]
<1>1. h[{}] = e
  BY FoldUnfolds
<1>2. \A s \in SUBSET S : \A x \in s : h[s] = m[<<v[x], h[s \ {x}]>>]
  BY FoldStep
<1>3. h[S] = m[<<v[i], h[S \ {i}]>>]
  BY <1>2
<1>4. S \ {i} = {j} /\ {j} \in SUBSET S /\ {j} \ {j} = {}
  OBVIOUS
<1>5. h[{j}] = m[<<v[j], h[{j} \ {j}]>>]
  BY <1>2, <1>4
<1> QED
  BY <1>1, <1>3, <1>4, <1>5
=============================================================================
