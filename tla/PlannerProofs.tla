---------------------------- MODULE PlannerProofs ----------------------------
(***************************************************************************)
(* Proofs about the parallelism planner (Planner, over CostEngine and      *)
(* Sharding), for every set of run-specs and of choices per axis, every    *)
(* machine and every cost of a link.  From the bottom: sums; what an       *)
(* architecture is and that its sizes, segments and records are numbers;   *)
(* that the memory of a rank is a line in the batch; the roofline of a     *)
(* cell; frontiers and selections of any rows; the plan that main makes of *)
(* them; and that the ranks of a row hold no less than the whole model.    *)
(***************************************************************************)
EXTENDS Planner, SequenceTheorems, FoldProofs

-----------------------------------------------------------------------------
(* Sums. *)

LEMMA TotalIsSumOn ==
  ASSUME NEW v
  PROVE  Total(v) = SumOn(v, DOMAIN v)
BY ONLY Zenon DEF Total, SumOn, FoldFunction

\* v restricted to S.
On(v, S) == [x \in S |-> v[x]]
Summable(v, S) == IsFiniteSet(S) /\ \A x \in S : v[x] \in Nat

LEMMA TotalIsFold ==
  ASSUME NEW S, NEW v, Summable(v, S)
  PROVE  \E h : FoldsOver(h, Plus, 0, v, S, Nat) /\ Total(On(v, S)) = h[S]
<1> DEFINE u == On(v, S)
<1>1. DOMAIN u = S /\ \A x \in S : u[x] = v[x]
  BY DEF On
<1>2. IsFiniteSet(S) /\ \A x \in S : v[x] \in Nat
  BY DEF Summable
<1>3. \A x \in S : u[x] \in Nat
  BY <1>1, <1>2
<1> HIDE DEF u
<1>4. PICK g : FoldsOver(g, Plus, 0, u, S, Nat) /\ SumOn(u, S) = g[S]
  BY <1>2, <1>3, SumOnIsFold
<1>5. Total(u) = g[S]
  BY <1>1, <1>4, TotalIsSumOn
<1>6. Foldable(Plus, 0, v, S, Nat)
  BY <1>2, PlusCombines DEF Foldable
<1>7. PICK h : FoldWithSteps(h, Plus, 0, v, S, Nat)
  BY <1>6, FoldOfAll
<1>8. FoldsOver(h, Plus, 0, v, S, Nat)
  BY <1>7 DEF FoldWithSteps
<1> DEFINE b == [x \in S |-> x]
<1>9. Carries(b, S, v, S, u)
  BY <1>1 DEF Carries
<1>10. {b[x] : x \in S} = S
  OBVIOUS
<1> HIDE DEF b
<1>11. \A s \in SUBSET S : h[s] = g[{b[x] : x \in s}]
  BY <1>4, <1>8, <1>9, FoldSame
<1>12. h[S] = g[S]
  BY <1>10, <1>11
<1> QED
  BY <1>5, <1>8, <1>12 DEF u

\* A sum of natural numbers is one.
LEMMA TotalIsNat ==
  ASSUME NEW S, NEW v, Summable(v, S)
  PROVE  Total(On(v, S)) \in Nat
<1>1. PICK h : FoldsOver(h, Plus, 0, v, S, Nat) /\ Total(On(v, S)) = h[S]
  BY TotalIsFold
<1>2. \A s \in SUBSET S : h[s] \in Nat
  BY <1>1, FoldIsIn
<1> QED
  BY <1>1, <1>2

LEMMA TotalOfNone ==
  ASSUME NEW v
  PROVE  Total(On(v, {})) = 0
<1>1. Summable(v, {})
  BY FS_EmptySet DEF Summable
<1>2. PICK h : FoldsOver(h, Plus, 0, v, {}, Nat) /\ Total(On(v, {})) = h[{}]
  BY <1>1, TotalIsFold
<1>3. h[{}] = 0
  BY <1>2, FoldUnfolds
<1> QED
  BY <1>2, <1>3

\* One value taken out.
LEMMA TotalStep ==
  ASSUME NEW S, NEW v, Summable(v, S), NEW x \in S
  PROVE  /\ Summable(v, S \ {x})
         /\ Total(On(v, S)) = v[x] + Total(On(v, S \ {x}))
<1>1. Summable(v, S \ {x})
  BY FS_RemoveElement DEF Summable
<1>2. PICK h : FoldsOver(h, Plus, 0, v, S, Nat) /\ Total(On(v, S)) = h[S]
  BY TotalIsFold
<1>3. PICK g : FoldsOver(g, Plus, 0, v, S \ {x}, Nat) /\ Total(On(v, S \ {x})) = g[S \ {x}]
  BY <1>1, TotalIsFold
<1> DEFINE b == [y \in S \ {x} |-> y]
<1>4. Carries(b, S \ {x}, v, S, v)
  BY DEF Carries
<1>5. {b[y] : y \in S \ {x}} = S \ {x}
  OBVIOUS
<1> HIDE DEF b
<1>6. \A s \in SUBSET (S \ {x}) : g[s] = h[{b[y] : y \in s}]
  BY <1>2, <1>3, <1>4, FoldSame
<1>7. g[S \ {x}] = h[S \ {x}]
  BY <1>5, <1>6
<1>8. \A s \in SUBSET S : \A y \in s : h[s] = Plus[<<v[y], h[s \ {y}]>>]
  BY <1>2, FoldStep
<1>9. h[S] = Plus[<<v[x], h[S \ {x}]>>]
  BY <1>8
<1>10. v[x] \in Nat /\ Total(On(v, S \ {x})) \in Nat
  BY <1>1, TotalIsNat DEF Summable
<1>11. Plus[<<v[x], h[S \ {x}]>>] = v[x] + h[S \ {x}]
  BY <1>3, <1>7, <1>10, PlusCombines
<1> QED
  BY <1>1, <1>2, <1>3, <1>7, <1>9, <1>11

LEMMA TimesSum ==
  ASSUME NEW k \in Int, NEW m \in Int, NEW n \in Int
  PROVE  k * (m + n) = k * m + k * n
OBVIOUS

\* What a sum over S says follows, if it is so for none and stays so with one more.
LEMMA TotalLinear ==
  ASSUME NEW S, NEW u, NEW v, NEW w, NEW k \in Nat,
         Summable(u, S), Summable(v, S), \A x \in S : w[x] = u[x] + k * v[x]
  PROVE  Summable(w, S) /\ Total(On(w, S)) = Total(On(u, S)) + k * Total(On(v, S))
<1> DEFINE G == {s \in SUBSET S : Total(On(w, s)) = Total(On(u, s)) + k * Total(On(v, s))}
<1>0. IsFiniteSet(S) /\ \A x \in S : u[x] \in Nat /\ v[x] \in Nat
  BY DEF Summable
<1>1. \A x \in S : w[x] \in Nat
  <2> SUFFICES ASSUME NEW x \in S
               PROVE  w[x] \in Nat
    OBVIOUS
  <2>1. k * v[x] \in Nat
    BY <1>0
  <2> QED
    BY <1>0, <2>1
<1>2. \A s \in SUBSET S : Summable(u, s) /\ Summable(v, s) /\ Summable(w, s)
  BY <1>0, <1>1, FS_Subset DEF Summable
<1>3. ASSUME NEW s \in SUBSET S, \A x \in s : s \ {x} \in G
      PROVE  s \in G
  <2>1. CASE s = {}
    <3>1. Total(On(w, {})) = 0 /\ Total(On(u, {})) = 0 /\ Total(On(v, {})) = 0
      BY TotalOfNone
    <3> QED
      BY <2>1, <3>1
  <2>2. CASE s # {}
    <3>1. PICK x \in s : TRUE
      BY <2>2
    <3> DEFINE t == s \ {x}
               U == Total(On(u, t))
               V == Total(On(v, t))
    <3>2. Total(On(w, s)) = w[x] + Total(On(w, t))
      BY <1>2, TotalStep
    <3>3. Total(On(u, s)) = u[x] + U
      BY <1>2, TotalStep
    <3>4. Total(On(v, s)) = v[x] + V
      BY <1>2, TotalStep
    <3>5. t \in SUBSET S
      OBVIOUS
    <3>6. U \in Nat /\ V \in Nat
      BY <1>2, <3>5, TotalIsNat
    <3>7. Total(On(w, t)) = U + k * V
      BY <1>3
    <3>8. w[x] = u[x] + k * v[x] /\ u[x] \in Nat /\ v[x] \in Nat
      BY <1>0
    <3> HIDE DEF U, V, t
    <3>9. k * (v[x] + V) = k * v[x] + k * V
      BY <3>6, <3>8, TimesSum
    <3>10. k * v[x] \in Int /\ k * V \in Int
      BY <3>6, <3>8
    <3>11. Total(On(w, s)) = Total(On(u, s)) + k * Total(On(v, s))
      BY <3>2, <3>3, <3>4, <3>6, <3>7, <3>8, <3>9, <3>10
    <3> QED
      BY <3>11
  <2> QED
    BY <2>1, <2>2
<1> HIDE DEF G
<1>4. SUBSET S \subseteq G
  BY <1>0, <1>3, SubsetInduction
<1>5. S \in G
  BY <1>4
<1> QED
  BY <1>2, <1>5 DEF G

\* Each value counts.
LEMMA TotalAtLeast ==
  ASSUME NEW S, NEW v, Summable(v, S), NEW x \in S
  PROVE  Total(On(v, S)) >= v[x] /\ Total(On(v, S)) \in Nat /\ v[x] \in Nat
<1>1. Summable(v, S \ {x}) /\ Total(On(v, S)) = v[x] + Total(On(v, S \ {x}))
  BY TotalStep
<1>2. Total(On(v, S \ {x})) \in Nat /\ v[x] \in Nat
  BY <1>1, TotalIsNat DEF Summable
<1> QED
  BY <1>1, <1>2

\* Restricting a function to its domain changes nothing.
LEMMA TotalOnDomain ==
  ASSUME NEW S, NEW v, v = [x \in S |-> v[x]]
  PROVE  Total(v) = Total(On(v, S))
BY DEF On

LEMMA OnSame ==
  ASSUME NEW S, NEW u, NEW v, \A x \in S : u[x] = v[x]
  PROVE  On(u, S) = On(v, S)
BY DEF On

\* A finite set of numbers has a greatest one.
LEMMA MaxIsOne ==
  ASSUME NEW S, IsFiniteSet(S), S \subseteq Int, S # {}
  PROVE  Max(S) \in S /\ \A y \in S : Max(S) >= y
<1> DEFINE G == {s \in SUBSET S : s = {} \/ \E x \in s : \A y \in s : x >= y}
<1>1. ASSUME NEW s \in SUBSET S, \A x \in s : s \ {x} \in G
      PROVE  s \in G
  <2>1. CASE s = {}
    BY <2>1
  <2>2. CASE s # {}
    <3>1. PICK x \in s : TRUE
      BY <2>2
    <3>2. CASE s \ {x} = {}
      <4>1. s = {x} /\ x \in Int
        BY <3>2
      <4>2. x >= x
        BY <4>1
      <4> QED
        BY <4>1, <4>2
    <3>3. CASE s \ {x} # {}
      <4>1. PICK z \in s \ {x} : \A y \in s \ {x} : z >= y
        BY <1>1, <3>3
      <4>2. x \in Int /\ z \in Int
        OBVIOUS
      <4>3. CASE x >= z
        <5>1. \A y \in s : x >= y
          BY <4>1, <4>2, <4>3
        <5> QED
          BY <5>1
      <4>4. CASE z >= x
        <5>1. \A y \in s : z >= y
          BY <4>1, <4>2, <4>4
        <5> QED
          BY <5>1
      <4> QED
        BY <4>2, <4>3, <4>4
    <3> QED
      BY <3>2, <3>3
  <2> QED
    BY <2>1, <2>2
<1> HIDE DEF G
<1>2. SUBSET S \subseteq G
  BY <1>1, SubsetInduction
<1>3. S \in G
  BY <1>2
<1>4. \E x \in S : \A y \in S : x >= y
  BY <1>3 DEF G
<1> QED
  BY <1>4 DEF Max

-----------------------------------------------------------------------------
(* What an architecture, a configuration and an operating point are.         *)

IsMla(m) == {m.qRank, m.kvRank, m.nope, m.rope, m.vDim} \subseteq Nat
IsGroup(g) ==
  /\ {g.nq, g.nkv} \subseteq Sizes
  /\ {g.count, g.dim, g.cap, g.dense, g.moe, g.experts, g.active} \subseteq Nat
  /\ g.hasMla \in BOOLEAN /\ (g.hasMla => IsMla(g.mla))
IsArch(a) ==
  /\ {a.hidden, a.vocab, a.dtype} \subseteq Sizes
  /\ {a.experts, a.kvBytes, a.weightBytes, a.headBytes} \subseteq Nat
  /\ IsFiniteSet(DOMAIN a.groups) /\ DOMAIN a.groups \subseteq Nat /\ DOMAIN a.groups # {}
  /\ \A i \in DOMAIN a.groups : IsGroup(a.groups[i])
  /\ a.layers \in Seq(DOMAIN a.groups) /\ a.layers # <<>>

IsConfig(cfg) == {cfg.tp, cfg.cp, cfg.dp} \subseteq Sizes /\ cfg.ep \in BOOLEAN /\ cfg.degree = None
IsPoint(op) == op.s \in Nat /\ op.bs \in Nat /\ op.regime \in Regimes

Labels == {"mla", "sliding", "global", "dense", "moe", "dense+moe", ""}
Classes == {"attn_qo", "attn_kv", "attn_score", "dense_mlp", "routed_experts", "router", "embed"}
Segments == [cls : Classes, type : Labels, mult : Nat, unit : Nat, cap : Nat]

LEMMA Product2 ==
  ASSUME NEW m \in Nat, NEW n \in Nat
  PROVE  m * n \in Nat /\ (m > 0 /\ n > 0 => m * n > 0)
OBVIOUS

LEMMA DivNat ==
  ASSUME NEW n \in Nat, NEW d \in Sizes
  PROVE  n \div d \in Nat
BY DEF Sizes

LEMMA ShareIsNat ==
  ASSUME NEW n \in Nat, NEW d \in Sizes
  PROVE  Share(n, d) \in Nat
<1>1. n * Scale \in Nat
  BY ScaleAssumption
<1> DEFINE p == n * Scale
<1> HIDE DEF p
<1>2. p \in Nat
  BY <1>1 DEF p
<1>3. p \div d \in Nat
  BY <1>2, DivNat
<1> QED
  BY <1>3 DEF Share, p

\* Division and remainder.
LEMMA DivMod ==
  ASSUME NEW n \in Int, NEW d \in Nat \ {0}
  PROVE  /\ n \div d \in Int /\ n % d \in Int /\ 0 <= n % d /\ n % d < d
         /\ n = (n \div d) * d + (n % d)
OBVIOUS

LEMMA QuotientIs ==
  ASSUME NEW n \in Int, NEW d \in Nat \ {0}, NEW q \in Int, q * d <= n, n < q * d + d
  PROVE  n \div d = q
<1>1. PICK p \in Int : p = n \div d
  BY DivMod
<1>2. p * d <= n /\ n < p * d + d
  BY <1>1, DivMod
<1>3. p * d \in Int /\ q * d \in Int
  BY <1>1
<1>4. ~(p >= q + 1)
  <2> SUFFICES ASSUME p >= q + 1
               PROVE  FALSE
    OBVIOUS
  <2>1. p * d >= (q + 1) * d
    BY <1>1
  <2>2. (q + 1) * d = q * d + d
    OBVIOUS
  <2> QED
    BY <1>2, <1>3, <2>1, <2>2
<1>5. ~(q >= p + 1)
  <2> SUFFICES ASSUME q >= p + 1
               PROVE  FALSE
    OBVIOUS
  <2>1. q * d >= (p + 1) * d
    BY <1>1
  <2>2. (p + 1) * d = p * d + d
    BY <1>1
  <2> QED
    BY <1>2, <1>3, <2>1, <2>2
<1> QED
  BY <1>1, <1>4, <1>5

\* What a rank of d holds when Scale is a multiple of d.
LEMMA ShareIsExact ==
  ASSUME NEW n \in Nat, NEW d \in Sizes, Scale % d = 0
  PROVE  Share(n, d) = n * (Scale \div d) /\ Scale \div d \in Sizes /\ (Scale \div d) * d = Scale
<1>1. Scale \in Nat /\ Scale > 0 /\ d \in Nat \ {0}
  BY ScaleAssumption DEF Sizes
<1>2. PICK q \in Int : q = Scale \div d /\ Scale = q * d
  <2>1. PICK n0 \in Int : n0 = Scale
    BY <1>1
  <2>2. PICK q \in Int, r \in Int : q = n0 \div d /\ r = n0 % d /\ n0 = q * d + r
    BY <1>1, DivMod
  <2>3. q * d \in Int /\ r = 0
    BY <1>1, <2>1, <2>2
  <2>4. n0 = q * d
    BY <2>2, <2>3
  <2> QED
    BY <2>1, <2>2, <2>4
<1>4. q \in Nat /\ q > 0
  <2> SUFFICES ASSUME q <= 0
               PROVE  FALSE
    BY <1>2
  <2>1. q * d <= 0
    BY <1>1
  <2> QED
    BY <1>1, <1>2, <2>1
<1>5. PICK p \in Nat : p = n * q
  BY <1>4
<1>6. n * Scale = p * d
  BY <1>1, <1>2, <1>4, <1>5
<1>7. p * d \in Int
  BY <1>1
<1>8. (p * d) \div d = p
  BY <1>1, <1>5, <1>7, QuotientIs
<1>9. Share(n, d) = p
  BY <1>6, <1>8 DEF Share
<1> QED
  BY <1>2, <1>4, <1>5, <1>9 DEF Sizes

LEMMA LeastOf ==
  ASSUME NEW m \in Int, NEW n \in Int
  PROVE  /\ Least(m, n) \in {m, n} /\ Least(m, n) <= m /\ Least(m, n) <= n
         /\ Greatest(m, n) \in {m, n} /\ Greatest(m, n) >= m /\ Greatest(m, n) >= n
BY DEF Least, Greatest


-----------------------------------------------------------------------------
(* What a rank's work is divided by. *)

Axes == {"hidden", "replicated", "heads", "tensor_parallel", "vocab", "expert_tensor_parallel"}

LEMMA GreatestIsSize ==
  ASSUME NEW m \in Nat, NEW n \in Sizes
  PROVE  Greatest(m, n) \in Sizes /\ Greatest(n, m) \in Sizes
BY DEF Greatest, Sizes

LEMMA LeastIsSize ==
  ASSUME NEW m \in Sizes, NEW n \in Sizes
  PROVE  Least(m, n) \in Sizes
BY DEF Least, Sizes

LEMMA TimesIsSize ==
  ASSUME NEW m \in Sizes, NEW n \in Sizes
  PROVE  m * n \in Sizes
BY Product2 DEF Sizes

LEMMA HeadDivisors ==
  ASSUME NEW cfg, IsConfig(cfg), NEW regime, NEW heads \in Nat, NEW isMla \in BOOLEAN
  PROVE  /\ HeadTp(cfg, regime) \in Sizes /\ HeadDivisor(cfg, regime, heads) \in Sizes
         /\ KvHeads(heads, isMla) \in Sizes /\ World(cfg) \in Sizes /\ EpDegree(cfg) = World(cfg)
<1>1. cfg.tp \in Sizes /\ cfg.cp \in Sizes /\ cfg.dp \in Sizes /\ cfg.degree = None
  BY DEF IsConfig
<1>2. 1 \in Sizes /\ 0 \in Nat
  BY DEF Sizes
<1>3. cfg.tp \div cfg.cp \in Nat
  BY <1>1, DivNat DEF Sizes
<1>4. HeadTp(cfg, regime) \in Sizes
  BY <1>1, <1>2, <1>3, GreatestIsSize DEF HeadTp
<1>5. HeadDivisor(cfg, regime, heads) \in Sizes
  <2>1. Greatest(heads, 1) \in Sizes
    BY <1>2, GreatestIsSize
  <2>2. Least(HeadTp(cfg, regime), Greatest(heads, 1)) \in Sizes
    BY <1>4, <2>1, LeastIsSize
  <2>3. Least(HeadTp(cfg, regime), Greatest(heads, 1)) \in Nat
    BY <2>2 DEF Sizes
  <2> QED
    BY <1>2, <2>3, GreatestIsSize DEF HeadDivisor
<1>6. KvHeads(heads, isMla) \in Sizes
  BY <1>2, GreatestIsSize DEF KvHeads
<1>7. World(cfg) \in Sizes
  BY <1>1, TimesIsSize DEF World
<1> QED
  BY <1>1, <1>4, <1>5, <1>6, <1>7 DEF EpDegree

LEMMA CpIsSize ==
  ASSUME NEW cfg, IsConfig(cfg), NEW regime, NEW cap, NEW nkv \in Nat, NEW isMla \in BOOLEAN
  PROVE  CpG(cfg, regime, cap, nkv, isMla) \in Sizes
<1>1. cfg.tp \in Nat /\ cfg.cp \in Sizes /\ 1 \in Sizes
  BY DEF IsConfig, Sizes
<1>2. KvHeads(nkv, isMla) \in Sizes
  BY HeadDivisors
<1>3. cfg.tp \div KvHeads(nkv, isMla) \in Nat
  BY <1>1, <1>2, DivNat
<1>4. Greatest(cfg.tp \div KvHeads(nkv, isMla), 1) \in Sizes
  BY <1>1, <1>3, GreatestIsSize
<1> QED
  BY <1>1, <1>4, LeastIsSize DEF CpG

LEMMA WorkDivisors ==
  ASSUME NEW cfg, IsConfig(cfg), NEW regime, NEW cap, NEW nkv \in Nat, NEW isMla \in BOOLEAN, NEW cls \in Classes
  PROVE  /\ KvCacheDivisor(cfg, regime, cap, nkv, isMla) \in Sizes
         /\ FlopDivisor(cls, cfg, regime, cap, nkv, isMla) \in Sizes
         /\ cls # "attn_score" => WeightDivisor(cls, cfg, regime, nkv, isMla) \in Sizes
<1>1. CpG(cfg, regime, cap, nkv, isMla) \in Sizes /\ 1 \in Sizes
  BY CpIsSize DEF Sizes
<1>2. KvHeads(nkv, isMla) \in Nat
  BY HeadDivisors DEF Sizes
<1>3. HeadDivisor(cfg, regime, KvHeads(nkv, isMla)) \in Sizes
  BY <1>2, HeadDivisors
<1>4. cfg.tp \in Sizes /\ World(cfg) \in Sizes /\ HeadTp(cfg, regime) \in Sizes /\ cfg.ep \in BOOLEAN
  BY HeadDivisors DEF IsConfig
<1>5. ASSUME NEW c \in Classes \ {"attn_score"}
      PROVE  WeightDivisor(c, cfg, regime, nkv, isMla) \in Sizes
  BY <1>1, <1>3, <1>4 DEF WeightDivisor, Classes
<1>6. (IF cls = "attn_score" THEN "attn_qo" ELSE cls) \in Classes \ {"attn_score"}
  BY DEF Classes
<1>7. WeightDivisor(IF cls = "attn_score" THEN "attn_qo" ELSE cls, cfg, regime, nkv, isMla) \in Sizes
  BY <1>5, <1>6
<1>8. FlopDivisor(cls, cfg, regime, cap, nkv, isMla) \in Sizes
  BY <1>1, <1>7, TimesIsSize DEF FlopDivisor
<1>9. KvCacheDivisor(cfg, regime, cap, nkv, isMla) \in Sizes
  BY <1>1, <1>3, TimesIsSize DEF KvCacheDivisor
<1> QED
  BY <1>5, <1>8, <1>9

LEMMA RowDivisors ==
  ASSUME NEW cfg, IsConfig(cfg), NEW regime, NEW axis \in Axes, NEW heads \in Nat, NEW layout
  PROVE  /\ ActivationWidthDivisor(axis, cfg, regime, heads) \in Sizes
         /\ ActivationRowDivisor(layout, cfg, regime) \in Sizes
         /\ RoutedSpread(cfg) \in Sizes
<1>1. 1 \in Sizes /\ cfg.tp \in Sizes /\ cfg.cp \in Sizes /\ cfg.ep \in BOOLEAN
  BY DEF Sizes, IsConfig
<1>2. HeadDivisor(cfg, regime, heads) \in Sizes /\ World(cfg) \in Sizes /\ EpDegree(cfg) = World(cfg)
  BY HeadDivisors
<1>3. ExpertTp(cfg) \in Sizes
  <2>1. Greatest(EpDegree(cfg), 1) \in Sizes
    BY <1>1, <1>2, GreatestIsSize DEF Sizes
  <2>2. World(cfg) \div Greatest(EpDegree(cfg), 1) \in Nat
    BY <1>2, <2>1, DivNat DEF Sizes
  <2>3. EpTp(cfg) \in Sizes
    BY <1>1, <2>2, GreatestIsSize DEF EpTp
  <2> QED
    BY <1>1, <2>3 DEF ExpertTp
<1>4. ActivationWidthDivisor(axis, cfg, regime, heads) \in Sizes
  BY <1>1, <1>2, <1>3 DEF ActivationWidthDivisor, Axes
<1>5. ActivationRowDivisor(layout, cfg, regime) \in Sizes
  BY <1>1 DEF ActivationRowDivisor
<1>6. RoutedSpread(cfg) \in Sizes
  BY <1>1, <1>2 DEF RoutedSpread
<1> QED
  BY <1>4, <1>5, <1>6


-----------------------------------------------------------------------------
(* The counts of an architecture. *)

LEMMA NatTimes == \A m, n \in Nat : m * n \in Nat
BY Product2

LEMMA NatPlus == \A m, n \in Nat : m + n \in Nat
OBVIOUS

LEMMA ElementBytes ==
  ASSUME NEW a, IsArch(a)
  PROVE  /\ a.hidden \in Nat /\ a.hidden > 0 /\ a.vocab \in Nat /\ a.dtype \in Nat /\ a.dtype > 0
         /\ WElemBytes(a) \in Nat /\ KvElemBytes(a) \in Nat /\ VocabTableTwiceBytes(a) \in Nat
         /\ EmbedParams(a) \in Nat /\ 2 * a.vocab * a.hidden \in Nat
<1>1. a.hidden \in Nat /\ a.hidden > 0 /\ a.vocab \in Nat /\ a.dtype \in Nat /\ a.dtype > 0
  BY DEF IsArch, Sizes
<1>2. a.kvBytes \in Nat /\ a.weightBytes \in Nat /\ a.headBytes \in Nat
  BY DEF IsArch
<1>3. WElemBytes(a) \in Nat /\ KvElemBytes(a) \in Nat
  BY <1>1, <1>2 DEF WElemBytes, KvElemBytes
<1>4. LmHeadElemBytes(a) \in Nat
  BY <1>2, <1>3 DEF LmHeadElemBytes
<1>5. VocabTableTwiceBytes(a) \in Nat
  BY <1>3, <1>4 DEF VocabTableTwiceBytes
<1>6. 2 * a.vocab \in Nat /\ 1 * a.vocab \in Nat
  BY <1>1
<1>7. 2 * a.vocab * a.hidden \in Nat /\ 1 * a.vocab * a.hidden \in Nat
  BY <1>1, <1>6, NatTimes
<1>8. EmbedParams(a) \in Nat
  BY <1>7 DEF EmbedParams
<1> QED
  BY <1>1, <1>3, <1>5, <1>7, <1>8

LEMMA MlaDims ==
  ASSUME NEW g, IsGroup(g), g.hasMla
  PROVE  /\ QkHeadDim(g.mla) \in Nat /\ KvCacheDim(g.mla) \in Nat
         /\ g.mla.qRank \in Nat /\ g.mla.kvRank \in Nat /\ g.mla.nope + g.mla.vDim \in Nat /\ g.mla.vDim \in Nat
<1>1. IsMla(g.mla)
  BY DEF IsGroup
<1>2. g.mla.qRank \in Nat /\ g.mla.kvRank \in Nat /\ g.mla.nope \in Nat /\ g.mla.rope \in Nat /\ g.mla.vDim \in Nat
  BY <1>1 DEF IsMla
<1> QED
  BY <1>2 DEF QkHeadDim, KvCacheDim

LEMMA GroupDims ==
  ASSUME NEW g, IsGroup(g)
  PROVE  /\ g.nq \in Nat /\ g.nq > 0 /\ g.nkv \in Nat /\ g.nkv > 0 /\ g.dim \in Nat /\ g.count \in Nat
         /\ g.cap \in Nat /\ g.dense \in Nat /\ g.moe \in Nat /\ g.experts \in Nat /\ g.active \in Nat
         /\ g.hasMla \in BOOLEAN
         /\ AttnLabel(g) \in Labels /\ FfnLabel(g) \in Labels
         /\ ScoreFlopsPerKey(g) \in Nat
<1>1. /\ g.nq \in Nat /\ g.nq > 0 /\ g.nkv \in Nat /\ g.nkv > 0 /\ g.dim \in Nat /\ g.count \in Nat
      /\ g.cap \in Nat /\ g.dense \in Nat /\ g.moe \in Nat /\ g.experts \in Nat /\ g.active \in Nat
      /\ g.hasMla \in BOOLEAN
  BY DEF IsGroup, Sizes
<1>2. AttnLabel(g) \in Labels /\ FfnLabel(g) \in Labels
  BY DEF AttnLabel, FfnLabel, Labels
<1>3. ScoreFlopsPerKey(g) \in Nat
  <2>1. CASE g.hasMla
    <3>1. QkHeadDim(g.mla) + g.mla.vDim \in Nat
      BY <2>1, MlaDims, NatPlus
    <3>2. 2 * g.nq \in Nat
      BY <1>1
    <3>3. 2 * g.nq * (QkHeadDim(g.mla) + g.mla.vDim) \in Nat
      BY <3>1, <3>2, NatTimes
    <3> QED
      BY <2>1, <3>3 DEF ScoreFlopsPerKey
  <2>2. CASE ~g.hasMla
    <3>1. 4 * g.nq \in Nat
      BY <1>1
    <3>2. 4 * g.nq * g.dim \in Nat
      BY <1>1, <3>1, NatTimes
    <3> QED
      BY <2>2, <3>2 DEF ScoreFlopsPerKey
  <2> QED
    BY <2>1, <2>2
<1> QED
  BY <1>1, <1>2, <1>3

LEMMA AttentionParams ==
  ASSUME NEW a, IsArch(a), NEW g, IsGroup(g)
  PROVE  AttnQoParams(a, g) \in Nat /\ OwnKvParams(a, g) \in Nat /\ KvUnitPerToken(a, g) \in Nat
<1>1. a.hidden \in Nat /\ KvElemBytes(a) \in Nat
  BY ElementBytes
<1>2. g.nq \in Nat /\ g.nkv \in Nat /\ g.dim \in Nat /\ g.hasMla \in BOOLEAN
  BY GroupDims
<1>3. CASE g.hasMla
  <2> DEFINE m == g.mla
  <2>1. /\ QkHeadDim(m) \in Nat /\ KvCacheDim(m) \in Nat
        /\ m.qRank \in Nat /\ m.kvRank \in Nat /\ m.nope + m.vDim \in Nat /\ m.vDim \in Nat
    BY <1>3, MlaDims
  <2> HIDE DEF m
  <2>2. a.hidden * m.qRank \in Nat /\ a.hidden * KvCacheDim(m) \in Nat
    BY <1>1, <2>1, NatTimes
  <2>3. m.qRank * g.nq \in Nat /\ m.kvRank * g.nq \in Nat /\ g.nq * m.vDim \in Nat
    BY <1>2, <2>1, NatTimes
  <2>4. /\ m.qRank * g.nq * QkHeadDim(m) \in Nat /\ m.kvRank * g.nq * (m.nope + m.vDim) \in Nat
        /\ g.nq * m.vDim * a.hidden \in Nat
    BY <1>1, <2>1, <2>3, NatTimes
  <2>5. a.hidden * m.qRank + m.qRank * g.nq * QkHeadDim(m) + a.hidden * KvCacheDim(m)
        + m.kvRank * g.nq * (m.nope + m.vDim) + g.nq * m.vDim * a.hidden \in Nat
    BY <2>2, <2>4, NatPlus
  <2>6. AttnQoParams(a, g) \in Nat
    BY <1>3, <2>5 DEF AttnQoParams, WeightsAttn, m
  <2>7. OwnKvParams(a, g) = 0
    BY <1>3 DEF OwnKvParams, AliasesV, AttnKvParams
  <2>8. KvUnitPerToken(a, g) \in Nat
    BY <1>1, <1>3, <2>1, NatTimes DEF KvUnitPerToken, m
  <2> QED
    BY <2>6, <2>7, <2>8
<1>4. CASE ~g.hasMla
  <2>1. 2 * a.hidden \in Nat /\ 2 * g.nkv \in Nat
    BY <1>1, <1>2
  <2>2. 2 * a.hidden * g.nq \in Nat
    BY <1>2, <2>1, NatTimes
  <2>3. AttnQoParams(a, g) \in Nat
    BY <1>2, <1>4, <2>2, NatTimes DEF AttnQoParams
  <2>4. a.hidden * g.nkv \in Nat
    BY <1>1, <1>2, NatTimes
  <2>5. PICK n \in Nat : n = a.hidden * g.nkv * g.dim
    BY <1>2, <2>4, NatTimes
  <2>6. 2 * a.hidden * g.nkv * g.dim = 2 * n
    BY <1>1, <1>2, <2>5
  <2>7. OwnKvParams(a, g) \in Nat
    BY <1>4, <2>5, <2>6 DEF OwnKvParams, AttnKvParams
  <2>8. 2 * g.nkv * g.dim \in Nat
    BY <1>2, <2>1, NatTimes
  <2>9. KvUnitPerToken(a, g) \in Nat
    BY <1>1, <1>4, <2>8, NatTimes DEF KvUnitPerToken
  <2> QED
    BY <2>3, <2>7, <2>9
<1> QED
  BY <1>2, <1>3, <1>4

LEMMA FfnParams ==
  ASSUME NEW a, IsArch(a), NEW g, IsGroup(g)
  PROVE  /\ MlpBlockParams(a, g.dense) \in Nat /\ MlpBlockParams(a, g.moe) * g.experts \in Nat
         /\ RouterParams(a, g) \in Nat /\ DenseMlpFlops(a, g) \in Nat /\ MoeFlops(a, g) \in Nat
<1>1. a.hidden \in Nat
  BY ElementBytes
<1>2. g.dense \in Nat /\ g.moe \in Nat /\ g.experts \in Nat /\ g.active \in Nat
  BY GroupDims
<1>3. 3 * a.hidden \in Nat /\ 6 * a.hidden \in Nat
  BY <1>1
<1>4. MlpBlockParams(a, g.dense) \in Nat /\ MlpBlockParams(a, g.moe) \in Nat
  BY <1>2, <1>3, NatTimes DEF MlpBlockParams
<1>5. MlpBlockParams(a, g.moe) * g.experts \in Nat
  BY <1>2, <1>4, NatTimes
<1>6. RouterParams(a, g) \in Nat /\ DenseMlpFlops(a, g) \in Nat
  BY <1>1, <1>2, <1>3, NatTimes DEF RouterParams, DenseMlpFlops
<1>7. 6 * a.hidden * g.moe \in Nat
  BY <1>2, <1>3, NatTimes
<1>8. MoeFlops(a, g) \in Nat
  BY <1>2, <1>7, NatTimes DEF MoeFlops
<1> QED
  BY <1>4, <1>5, <1>6, <1>8


-----------------------------------------------------------------------------
(* The segments of a bundle. *)

\* What a function has on a finite set is finite.
LEMMA ImageIsFinite ==
  ASSUME NEW S, IsFiniteSet(S), NEW f
  PROVE  IsFiniteSet({f[x] : x \in S})
<1> DEFINE T == {f[x] : x \in S}
           h == [x \in S |-> f[x]]
<1>1. h \in [S -> T] /\ \A t \in T : \E x \in S : h[x] = t
  OBVIOUS
<1>2. h \in Surjection(S, T)
  BY <1>1 DEF Surjection
<1> HIDE DEF h, T
<1>3. IsFiniteSet(T)
  BY <1>2, FS_Surjection
<1> QED
  BY <1>3 DEF T

\* A set of at most six is finite.
LEMMA FewAreFinite ==
  ASSUME NEW u, NEW v, NEW w, NEW x, NEW y, NEW z
  PROVE  IsFiniteSet({u, v, w, x, y, z})
<1>1. IsFiniteSet({u}) /\ IsFiniteSet({v}) /\ IsFiniteSet({w}) /\ IsFiniteSet({x}) /\ IsFiniteSet({y}) /\ IsFiniteSet({z})
  BY FS_Singleton
<1>2. IsFiniteSet({u} \cup {v}) /\ IsFiniteSet({w} \cup {x}) /\ IsFiniteSet({y} \cup {z})
  BY <1>1, FS_Union
<1>3. IsFiniteSet(({u} \cup {v}) \cup ({w} \cup {x}))
  BY <1>2, FS_Union
<1>4. IsFiniteSet((({u} \cup {v}) \cup ({w} \cup {x})) \cup ({y} \cup {z}))
  BY <1>2, <1>3, FS_Union
<1>5. {u, v, w, x, y, z} = (({u} \cup {v}) \cup ({w} \cup {x})) \cup ({y} \cup {z})
  OBVIOUS
<1> QED
  BY <1>4, <1>5

\* Pieces of one layer of group g.
IsPiecesOf(pieces, g) ==
  /\ IsFiniteSet(pieces) /\ pieces \subseteq Segments
  /\ \A p \in pieces : p.type \in {AttnLabel(g), FfnLabel(g)}

LEMMA PiecesOfGroup ==
  ASSUME NEW a, IsArch(a), NEW g, IsGroup(g)
  PROVE  /\ IsPiecesOf(WeightPieces(a, g), g) /\ \A p \in WeightPieces(a, g) : p.cls # "attn_score"
         /\ IsPiecesOf(KvPieces(a, g), g) /\ \A p \in KvPieces(a, g) : p.cap = g.cap /\ p.type = AttnLabel(g)
         /\ IsPiecesOf(FlopPieces(a, g), g)
<1>1. /\ AttnQoParams(a, g) \in Nat /\ OwnKvParams(a, g) \in Nat /\ KvUnitPerToken(a, g) \in Nat
      /\ MlpBlockParams(a, g.dense) \in Nat /\ MlpBlockParams(a, g.moe) * g.experts \in Nat
      /\ RouterParams(a, g) \in Nat /\ DenseMlpFlops(a, g) \in Nat /\ MoeFlops(a, g) \in Nat
  BY AttentionParams, FfnParams
<1>2. /\ AttnLabel(g) \in Labels /\ FfnLabel(g) \in Labels /\ ScoreFlopsPerKey(g) \in Nat /\ g.cap \in Nat
  BY GroupDims
<1>3. 2 * AttnQoParams(a, g) \in Nat /\ 2 * OwnKvParams(a, g) \in Nat /\ 2 * RouterParams(a, g) \in Nat
  BY <1>1
<1>4. None \in Nat /\ 1 \in Nat
  BY DEF None
<1>5. ASSUME NEW cls \in Classes, NEW type \in Labels, NEW unit \in Nat, NEW cap \in Nat
      PROVE  Piece(cls, type, unit, cap) \in Segments
  BY DEF Piece, Segment, Segments
<1>6. /\ IsFiniteSet(WeightPieces(a, g)) /\ IsFiniteSet(KvPieces(a, g)) /\ IsFiniteSet(FlopPieces(a, g))
  <2>1. \A u, v, w, x, y : {u, v, w, x, y} = {u, v, w, x, y, y}
    OBVIOUS
  <2>2. ASSUME NEW u, NEW v, NEW w, NEW x, NEW y
        PROVE  IsFiniteSet({u, v, w, x, y})
    <3>1. IsFiniteSet({u, v, w, x, y, y})
      BY FewAreFinite
    <3> QED
      BY <2>1, <3>1
  <2>3. \A u : IsFiniteSet({u})
    BY FS_Singleton
  <2> QED
    BY <2>2, <2>3, FewAreFinite DEF WeightPieces, KvPieces, FlopPieces
<1>7. WeightPieces(a, g) \subseteq Segments
  BY <1>1, <1>2, <1>4, <1>5 DEF WeightPieces, Classes
<1>8. KvPieces(a, g) \subseteq Segments
  BY <1>1, <1>2, <1>5 DEF KvPieces, Classes
<1>9. FlopPieces(a, g) \subseteq Segments
  BY <1>1, <1>2, <1>3, <1>4, <1>5 DEF FlopPieces, Classes
<1>10. \A p \in WeightPieces(a, g) : p.cls # "attn_score" /\ p.type \in {AttnLabel(g), FfnLabel(g)}
  BY DEF WeightPieces, Piece, Segment
<1>11. \A p \in KvPieces(a, g) : p.cap = g.cap /\ p.type = AttnLabel(g)
  BY DEF KvPieces, Piece, Segment
<1>12. \A p \in FlopPieces(a, g) : p.type \in {AttnLabel(g), FfnLabel(g)}
  BY DEF FlopPieces, Piece, Segment
<1> QED
  BY <1>6, <1>7, <1>8, <1>9, <1>10, <1>11, <1>12 DEF IsPiecesOf

LEMMA LayersAreNat ==
  ASSUME NEW a, IsArch(a), NEW S \in SUBSET DOMAIN a.groups
  PROVE  Total([i \in S |-> a.groups[i].count]) \in Nat
<1> DEFINE v == [i \in DOMAIN a.groups |-> a.groups[i].count]
<1>1. IsFiniteSet(S)
  BY FS_Subset DEF IsArch
<1>2. \A i \in DOMAIN a.groups : a.groups[i].count \in Nat
  BY GroupDims DEF IsArch
<1>3. \A i \in S : v[i] = a.groups[i].count
  OBVIOUS
<1>4. Summable(v, S)
  BY <1>1, <1>2, <1>3 DEF Summable
<1> HIDE DEF v
<1>5. Total(On(v, S)) \in Nat
  BY <1>4, TotalIsNat
<1>6. On(v, S) = [i \in S |-> a.groups[i].count]
  BY <1>3 DEF On
<1> QED
  BY <1>5, <1>6

\* What is merged comes from some group, but for its layers.
MergedFrom(s, p) ==
  s \in Segments /\ s.cls = p.cls /\ s.type = p.type /\ s.unit = p.unit /\ s.cap = p.cap

LEMMA MergeIs ==
  ASSUME NEW a, IsArch(a), NEW pieces,
         \A i \in DOMAIN a.groups : IsFiniteSet(pieces[i]) /\ pieces[i] \subseteq Segments
  PROVE  /\ IsFiniteSet(Merge(a, pieces)) /\ Merge(a, pieces) \subseteq Segments
         /\ \A s \in Merge(a, pieces) : \E i \in DOMAIN a.groups : \E p \in pieces[i] : MergedFrom(s, p)
<1> DEFINE P == UNION {pieces[i] : i \in DOMAIN a.groups}
           M(p) == [p EXCEPT !.mult = LayersWith(a, pieces, p)]
<1>1. IsFiniteSet(DOMAIN a.groups)
  BY DEF IsArch
<1>2. IsFiniteSet({pieces[i] : i \in DOMAIN a.groups})
  BY <1>1, ImageIsFinite
<1>3. IsFiniteSet(P)
  BY <1>2, FS_UNION
<1>4. IsFiniteSet({M(p) : p \in P})
  <2> DEFINE f == [p \in P |-> M(p)]
  <2>1. {M(p) : p \in P} = {f[p] : p \in P}
    OBVIOUS
  <2> HIDE DEF M, P, f
  <2> QED
    BY <1>3, <2>1, ImageIsFinite
<1>5. Merge(a, pieces) = {M(p) : p \in P}
  BY DEF Merge
<1>6. ASSUME NEW i \in DOMAIN a.groups, NEW p \in pieces[i]
      PROVE  MergedFrom(M(p), p)
  <2>1. p \in Segments
    OBVIOUS
  <2>2. {j \in DOMAIN a.groups : p \in pieces[j]} \in SUBSET DOMAIN a.groups
    OBVIOUS
  <2>3. LayersWith(a, pieces, p) \in Nat
    BY <2>2, LayersAreNat DEF LayersWith
  <2>4. \A n \in Nat : [p EXCEPT !.mult = n] \in Segments
    BY <2>1 DEF Segments
  <2>5. M(p).cls = p.cls /\ M(p).type = p.type /\ M(p).unit = p.unit /\ M(p).cap = p.cap
    BY <2>1 DEF Segments
  <2> QED
    BY <2>3, <2>4, <2>5 DEF MergedFrom
<1>7. ASSUME NEW s \in Merge(a, pieces)
      PROVE  \E i \in DOMAIN a.groups : \E p \in pieces[i] : MergedFrom(s, p)
  <2>1. PICK p \in P : s = M(p)
    BY <1>5
  <2>2. PICK i \in DOMAIN a.groups : p \in pieces[i]
    OBVIOUS
  <2> HIDE DEF M
  <2> QED
    BY <1>6, <2>1, <2>2
<1>8. Merge(a, pieces) \subseteq Segments
  BY <1>7 DEF MergedFrom
<1> QED
  BY <1>4, <1>5, <1>7, <1>8


IsBundle(b) ==
  /\ IsArch(b.arch)
  /\ IsFiniteSet(b.weights) /\ b.weights \subseteq Segments /\ \A s \in b.weights : s.cls # "attn_score"
  /\ IsFiniteSet(b.kvs) /\ b.kvs \subseteq Segments
  /\ IsFiniteSet(b.flops) /\ b.flops \subseteq Segments
  /\ \A type \in Labels : b.meta[type].nkv \in Nat /\ b.meta[type].isMla \in BOOLEAN
  /\ \A s \in b.kvs : \E i, j \in DOMAIN b.arch.groups :
        /\ s.cap = b.arch.groups[i].cap
        /\ b.meta[s.type] = [nkv |-> b.arch.groups[j].nkv, isMla |-> b.arch.groups[j].hasMla]
  /\ \E s \in b.weights : KeyOf(s) = <<"lm_head", "">>

LEMMA MetaIs ==
  ASSUME NEW a, IsArch(a), NEW type
  PROVE  /\ MetaOf(a, type).nkv \in Nat /\ MetaOf(a, type).isMla \in BOOLEAN
         /\ (\E i \in DOMAIN a.groups : AttnLabel(a.groups[i]) = type) =>
              \E j \in DOMAIN a.groups :
                /\ AttnLabel(a.groups[j]) = type
                /\ MetaOf(a, type) = [nkv |-> a.groups[j].nkv, isMla |-> a.groups[j].hasMla]
<1> DEFINE of == {i \in DOMAIN a.groups : AttnLabel(a.groups[i]) = type}
<1>1. CASE of = {}
  <2>1. MetaOf(a, type) = [nkv |-> 0, isMla |-> FALSE]
    BY <1>1 DEF MetaOf
  <2> QED
    BY <1>1, <2>1
<1>2. CASE of # {}
  <2>1. IsFiniteSet(of) /\ of \subseteq Int
    BY FS_Subset DEF IsArch
  <2> DEFINE j == Max(of)
  <2>2. j \in of
    <3> HIDE DEF of
    <3> QED
      BY <1>2, <2>1, MaxIsOne
  <2>3. MetaOf(a, type) = [nkv |-> a.groups[j].nkv, isMla |-> a.groups[j].hasMla]
    BY <1>2 DEF MetaOf
  <2> HIDE DEF j
  <2>4. j \in DOMAIN a.groups /\ AttnLabel(a.groups[j]) = type
    BY <2>2
  <2>5. a.groups[j].nkv \in Nat /\ a.groups[j].hasMla \in BOOLEAN
    BY <2>4, GroupDims DEF IsArch
  <2> QED
    BY <2>3, <2>4, <2>5
<1> QED
  BY <1>1, <1>2

LEMMA BundleIs ==
  ASSUME NEW a, IsArch(a)
  PROVE  IsBundle(BuildBundle(a))
<1> DEFINE b == BuildBundle(a)
           W == [i \in DOMAIN a.groups |-> Positive(WeightPieces(a, a.groups[i]))]
           K == [i \in DOMAIN a.groups |-> KvPieces(a, a.groups[i])]
           F == [i \in DOMAIN a.groups |-> Positive(FlopPieces(a, a.groups[i]))]
           E1 == Segment("embed", "", 1, EmbedParams(a), None)
           E2 == Segment("embed", "", 1, 2 * a.vocab * a.hidden, None)
<1>1. /\ b.arch = a /\ b.weights = Merge(a, W) \cup {E1} /\ b.kvs = Merge(a, K)
      /\ b.flops = Merge(a, F) \cup {E2}
  BY DEF BuildBundle, WeightSegments, KvSegments, FlopSegments
<1>2. \A type \in Labels : b.meta[type] = MetaOf(a, type)
  BY DEF BuildBundle, Labels
<1>3. ASSUME NEW i \in DOMAIN a.groups
      PROVE  /\ IsPiecesOf(WeightPieces(a, a.groups[i]), a.groups[i])
             /\ \A p \in WeightPieces(a, a.groups[i]) : p.cls # "attn_score"
             /\ IsPiecesOf(KvPieces(a, a.groups[i]), a.groups[i])
             /\ \A p \in KvPieces(a, a.groups[i]) : p.cap = a.groups[i].cap /\ p.type = AttnLabel(a.groups[i])
             /\ IsPiecesOf(FlopPieces(a, a.groups[i]), a.groups[i])
  <2>1. IsGroup(a.groups[i])
    BY DEF IsArch
  <2> QED
    BY <2>1, PiecesOfGroup
<1>4. \A pieces : IsFiniteSet(pieces) => IsFiniteSet(Positive(pieces))
  BY FS_Subset DEF Positive
<1>5. \A i \in DOMAIN a.groups :
        /\ IsFiniteSet(W[i]) /\ W[i] \subseteq Segments /\ \A p \in W[i] : p.cls # "attn_score"
        /\ IsFiniteSet(K[i]) /\ K[i] \subseteq Segments
        /\ \A p \in K[i] : p.cap = a.groups[i].cap /\ p.type = AttnLabel(a.groups[i])
        /\ IsFiniteSet(F[i]) /\ F[i] \subseteq Segments
  BY <1>3, <1>4 DEF IsPiecesOf, Positive
<1>6. E1 \in Segments /\ E2 \in Segments /\ E1.cls = "embed" /\ KeyOf(E1) = <<"lm_head", "">>
  <2>1. EmbedParams(a) \in Nat /\ 2 * a.vocab * a.hidden \in Nat
    BY ElementBytes
  <2>2. \A unit \in Nat : Segment("embed", "", 1, unit, None) \in Segments
    BY DEF Segment, Segments, Classes, Labels, None
  <2>3. E1.cls = "embed" /\ E1.type = ""
    BY DEF Segment
  <2>4. KeyOf(E1) = <<"lm_head", "">>
    BY <2>3 DEF KeyOf, ComponentOf, AttentionClasses
  <2> QED
    BY <2>1, <2>2, <2>3, <2>4
<1> HIDE DEF W, K, F, E1, E2
<1>7. /\ IsFiniteSet(Merge(a, W)) /\ Merge(a, W) \subseteq Segments
      /\ \A s \in Merge(a, W) : \E i \in DOMAIN a.groups : \E p \in W[i] : MergedFrom(s, p)
  BY <1>5, MergeIs
<1>8. /\ IsFiniteSet(Merge(a, K)) /\ Merge(a, K) \subseteq Segments
      /\ \A s \in Merge(a, K) : \E i \in DOMAIN a.groups : \E p \in K[i] : MergedFrom(s, p)
  BY <1>5, MergeIs
<1>9. IsFiniteSet(Merge(a, F)) /\ Merge(a, F) \subseteq Segments
  BY <1>5, MergeIs
<1>10. IsFiniteSet(b.weights) /\ b.weights \subseteq Segments /\ \A s \in b.weights : s.cls # "attn_score"
  <2>1. IsFiniteSet(Merge(a, W) \cup {E1})
    BY <1>7, FS_AddElement
  <2>2. \A s \in Merge(a, W) : s.cls # "attn_score"
    BY <1>5, <1>7 DEF MergedFrom
  <2> QED
    BY <1>1, <1>6, <1>7, <2>1, <2>2
<1>11. IsFiniteSet(b.flops) /\ b.flops \subseteq Segments
  <2>1. IsFiniteSet(Merge(a, F) \cup {E2})
    BY <1>9, FS_AddElement
  <2> QED
    BY <1>1, <1>6, <1>9, <2>1
<1>12. ASSUME NEW s \in b.kvs
       PROVE  \E i, j \in DOMAIN a.groups :
                /\ s.cap = a.groups[i].cap
                /\ b.meta[s.type] = [nkv |-> a.groups[j].nkv, isMla |-> a.groups[j].hasMla]
  <2>1. s \in Segments
    BY <1>1, <1>8
  <2>0. PICK i \in DOMAIN a.groups : \E p \in K[i] : MergedFrom(s, p)
    BY <1>1, <1>8
  <2>2. PICK p \in K[i] : MergedFrom(s, p)
    BY <2>0
  <2>3. s.cap = a.groups[i].cap /\ s.type = AttnLabel(a.groups[i])
    BY <1>5, <2>2 DEF MergedFrom
  <2>4. PICK j \in DOMAIN a.groups : MetaOf(a, s.type) = [nkv |-> a.groups[j].nkv, isMla |-> a.groups[j].hasMla]
    BY <2>3, MetaIs
  <2>5. s.type \in Labels
    BY <2>1 DEF Segments
  <2> QED
    BY <1>2, <2>3, <2>4, <2>5
<1>13. \A type \in Labels : b.meta[type].nkv \in Nat /\ b.meta[type].isMla \in BOOLEAN
  BY <1>2, MetaIs
<1> HIDE DEF b
<1>14. IsBundle(b)
  BY <1>1, <1>6, <1>8, <1>10, <1>11, <1>12, <1>13 DEF IsBundle
<1> QED
  BY <1>14 DEF b


-----------------------------------------------------------------------------
(* What a rank holds and does, segment by segment and key by key. *)

LEMMA ContextIs ==
  ASSUME NEW cap \in Nat, NEW len \in Nat
  PROVE  EffCtx(cap, len) \in Nat /\ EffCtx(cap, len) <= len /\ ActiveAttentionPairs(len, cap) \in Nat
<1>1. PICK n \in Nat : n = EffCtx(cap, len) /\ n <= len
  BY DEF EffCtx, Least
<1>2. n * (n + 1) \in Nat /\ (len - n) * n \in Nat
  <2>1. len - n \in Nat /\ n + 1 \in Nat
    BY <1>1
  <2> QED
    BY <1>1, <2>1, NatTimes
<1>3. (n * (n + 1)) \div 2 \in Nat
  BY <1>2, DivNat DEF Sizes
<1>4. ActiveAttentionPairs(len, cap) = (n * (n + 1)) \div 2 + (len - n) * n
  BY <1>1 DEF ActiveAttentionPairs
<1> QED
  BY <1>1, <1>2, <1>3, <1>4, NatPlus

LEMMA TokensAre ==
  ASSUME NEW op, IsPoint(op)
  PROVE  OpTokens(op) \in Nat /\ LmHeadTokens(op) \in Nat /\ LmHeadTokens(op) = op.bs
<1>1. op.s \in Nat /\ op.bs \in Nat
  BY DEF IsPoint
<1>2. op.s * op.bs \in Nat
  BY <1>1, NatTimes
<1> QED
  BY <1>1, <1>2 DEF OpTokens, LmHeadTokens

\* A segment of a bundle has the K/V heads of some group.
LEMMA SegmentIs ==
  ASSUME NEW b, IsBundle(b), NEW s \in Segments
  PROVE  /\ s.cls \in Classes /\ s.type \in Labels /\ s.mult \in Nat /\ s.unit \in Nat /\ s.cap \in Nat
         /\ s.mult * s.unit \in Nat
         /\ b.meta[s.type].nkv \in Nat /\ b.meta[s.type].isMla \in BOOLEAN
<1>1. s.cls \in Classes /\ s.type \in Labels /\ s.mult \in Nat /\ s.unit \in Nat /\ s.cap \in Nat
  BY DEF Segments
<1>2. s.mult * s.unit \in Nat
  BY <1>1, NatTimes
<1>3. b.meta[s.type].nkv \in Nat /\ b.meta[s.type].isMla \in BOOLEAN
  BY <1>1 DEF IsBundle
<1> QED
  BY <1>1, <1>2, <1>3

LEMMA SegmentWork ==
  ASSUME NEW b, IsBundle(b), NEW cfg, IsConfig(cfg), NEW op, IsPoint(op)
  PROVE  /\ \A s \in b.weights : SegmentWeight(b, s, cfg, op) \in Nat
         /\ \A s \in b.kvs : SegmentKv(b, s, cfg, op) \in Nat
         /\ \A s \in b.flops : SegmentFlops(b, s, cfg, op) \in Nat
<1>1. op.s \in Nat /\ op.bs \in Nat /\ OpTokens(op) \in Nat /\ LmHeadTokens(op) \in Nat
  BY TokensAre DEF IsPoint
<1>2. WElemBytes(b.arch) \in Nat /\ VocabTableTwiceBytes(b.arch) \in Nat
  BY ElementBytes DEF IsBundle
<1>3. b.weights \subseteq Segments /\ b.kvs \subseteq Segments /\ b.flops \subseteq Segments
  BY DEF IsBundle
<1>4. ASSUME NEW s \in b.weights
      PROVE  SegmentWeight(b, s, cfg, op) \in Nat
  <2> DEFINE d == WeightDivisor(s.cls, cfg, op.regime, b.meta[s.type].nkv, b.meta[s.type].isMla)
  <2>1. /\ s.cls \in Classes /\ s.mult * s.unit \in Nat
        /\ b.meta[s.type].nkv \in Nat /\ b.meta[s.type].isMla \in BOOLEAN
    BY <1>3, SegmentIs
  <2>2. s.cls # "attn_score"
    BY DEF IsBundle
  <2>3. d \in Sizes
    BY <2>1, <2>2, WorkDivisors
  <2> HIDE DEF d
  <2>4. s.mult * s.unit * WElemBytes(b.arch) \in Nat /\ s.mult * s.unit * VocabTableTwiceBytes(b.arch) \in Nat
    BY <1>2, <2>1, NatTimes
  <2>5. /\ Share(s.mult * s.unit * WElemBytes(b.arch), d) \in Nat
        /\ Share(s.mult * s.unit * VocabTableTwiceBytes(b.arch), d) \in Nat
    BY <2>3, <2>4, ShareIsNat
  <2>6. Share(s.mult * s.unit * VocabTableTwiceBytes(b.arch), d) \div 2 \in Nat
    BY <2>5, DivNat DEF Sizes
  <2> QED
    BY <2>5, <2>6 DEF SegmentWeight, d
<1>5. ASSUME NEW s \in b.kvs
      PROVE  SegmentKv(b, s, cfg, op) \in Nat
  <2> DEFINE d == KvCacheDivisor(cfg, op.regime, s.cap, b.meta[s.type].nkv, b.meta[s.type].isMla)
  <2>1. /\ s.cls \in Classes /\ s.mult * s.unit \in Nat /\ s.cap \in Nat
        /\ b.meta[s.type].nkv \in Nat /\ b.meta[s.type].isMla \in BOOLEAN
    BY <1>3, SegmentIs
  <2>2. d \in Sizes
    BY <2>1, WorkDivisors
  <2> HIDE DEF d
  <2>3. EffCtx(s.cap, op.s) \in Nat
    BY <1>1, <2>1, ContextIs
  <2>4. s.mult * s.unit * EffCtx(s.cap, op.s) \in Nat
    BY <2>1, <2>3, NatTimes
  <2>5. s.mult * s.unit * EffCtx(s.cap, op.s) * op.bs \in Nat
    BY <1>1, <2>4, NatTimes
  <2> QED
    BY <2>2, <2>5, ShareIsNat DEF SegmentKv, d
<1>6. ASSUME NEW s \in b.flops
      PROVE  SegmentFlops(b, s, cfg, op) \in Nat
  <2> DEFINE d == FlopDivisor(s.cls, cfg, op.regime, s.cap, b.meta[s.type].nkv, b.meta[s.type].isMla)
             positions ==
               CASE s.cls = "attn_score" /\ IsPrefill(op.regime) -> ActiveAttentionPairs(op.s, s.cap) * op.bs
                 [] s.cls = "attn_score" /\ ~IsPrefill(op.regime) -> EffCtx(s.cap, op.s) * op.bs
                 [] s.cls = "embed" -> LmHeadTokens(op)
                 [] OTHER -> OpTokens(op)
  <2>1. /\ s.cls \in Classes /\ s.mult * s.unit \in Nat /\ s.cap \in Nat
        /\ b.meta[s.type].nkv \in Nat /\ b.meta[s.type].isMla \in BOOLEAN
    BY <1>3, SegmentIs
  <2>2. d \in Sizes
    BY <2>1, WorkDivisors
  <2>3. ActiveAttentionPairs(op.s, s.cap) * op.bs \in Nat /\ EffCtx(s.cap, op.s) * op.bs \in Nat
    BY <1>1, <2>1, ContextIs, NatTimes
  <2>4. positions \in Nat
    <3>1. CASE s.cls = "attn_score"
      BY <2>3, <3>1
    <3>2. CASE s.cls = "embed"
      BY <1>1, <3>2
    <3>3. CASE s.cls \notin {"attn_score", "embed"}
      BY <1>1, <3>3
    <3> QED
      BY <3>1, <3>2, <3>3
  <2>5. SegmentFlops(b, s, cfg, op) = Share(s.mult * s.unit * positions, d)
    BY DEF SegmentFlops
  <2> HIDE DEF d, positions
  <2>6. s.mult * s.unit * positions \in Nat
    BY <2>1, <2>4, NatTimes
  <2> QED
    BY <2>2, <2>5, <2>6, ShareIsNat
<1> QED
  BY <1>4, <1>5, <1>6

\* A sum over part of a finite set.
LEMMA TotalOfPart ==
  ASSUME NEW S, NEW v, Summable(v, S), NEW T \in SUBSET S
  PROVE  Summable(v, T) /\ Total([x \in T |-> v[x]]) \in Nat /\ [x \in T |-> v[x]] = On(v, T)
<1>1. Summable(v, T)
  BY FS_Subset DEF Summable
<1> QED
  BY <1>1, TotalIsNat DEF On

IsWork(t) == {t.weight, t.kv, t.in, t.out, t.flops, t.layers} \subseteq Nat

\* What is held under a key.
WeightOf(b, cfg, op, key) == Total([s \in Under(b.weights, key) |-> SegmentWeight(b, s, cfg, op)])
KvOf(b, cfg, op, key) == Total([s \in Under(b.kvs, key) |-> SegmentKv(b, s, cfg, op)])
FlopsOf(b, cfg, op, key) == Total([s \in Under(b.flops, key) |-> SegmentFlops(b, s, cfg, op)])
KeysOf(b) == {KeyOf(s) : s \in AllSegments(b)}

LEMMA TotalsUnderKey ==
  ASSUME NEW b, IsBundle(b), NEW cfg, IsConfig(cfg), NEW op, IsPoint(op), NEW key
  PROVE  WeightOf(b, cfg, op, key) \in Nat /\ KvOf(b, cfg, op, key) \in Nat /\ FlopsOf(b, cfg, op, key) \in Nat
<1> DEFINE w == [s \in b.weights |-> SegmentWeight(b, s, cfg, op)]
           k == [s \in b.kvs |-> SegmentKv(b, s, cfg, op)]
           f == [s \in b.flops |-> SegmentFlops(b, s, cfg, op)]
<1>1. Summable(w, b.weights) /\ Summable(k, b.kvs) /\ Summable(f, b.flops)
  BY SegmentWork DEF Summable, IsBundle
<1>2. /\ Under(b.weights, key) \in SUBSET b.weights /\ Under(b.kvs, key) \in SUBSET b.kvs
      /\ Under(b.flops, key) \in SUBSET b.flops
  BY DEF Under
<1>3. /\ [s \in Under(b.weights, key) |-> w[s]] = [s \in Under(b.weights, key) |-> SegmentWeight(b, s, cfg, op)]
      /\ [s \in Under(b.kvs, key) |-> k[s]] = [s \in Under(b.kvs, key) |-> SegmentKv(b, s, cfg, op)]
      /\ [s \in Under(b.flops, key) |-> f[s]] = [s \in Under(b.flops, key) |-> SegmentFlops(b, s, cfg, op)]
  BY <1>2
<1> HIDE DEF w, k, f
<1> QED
  BY <1>1, <1>2, <1>3, TotalOfPart DEF WeightOf, KvOf, FlopsOf

LEMMA SegmentsAreFinite ==
  ASSUME NEW b, IsBundle(b)
  PROVE  /\ IsFiniteSet(AllSegments(b)) /\ AllSegments(b) \subseteq Segments
         /\ IsFiniteSet(KeysOf(b)) /\ <<"lm_head", "">> \in KeysOf(b)
<1>1. IsFiniteSet(b.weights \cup b.kvs)
  BY FS_Union DEF IsBundle
<1>2. IsFiniteSet(AllSegments(b)) /\ AllSegments(b) \subseteq Segments
  BY <1>1, FS_Union DEF IsBundle, AllSegments
<1> DEFINE f == [s \in AllSegments(b) |-> KeyOf(s)]
<1>3. KeysOf(b) = {f[s] : s \in AllSegments(b)}
  BY DEF KeysOf
<1> HIDE DEF f
<1>4. IsFiniteSet(KeysOf(b))
  BY <1>2, <1>3, ImageIsFinite
<1>5. <<"lm_head", "">> \in KeysOf(b)
  BY DEF KeysOf, AllSegments, IsBundle
<1> QED
  BY <1>2, <1>4, <1>5

LEMMA PerTypeTotalsAre ==
  ASSUME NEW b, IsBundle(b), NEW cfg, IsConfig(cfg), NEW op, IsPoint(op)
  PROVE  /\ DOMAIN PerTypeTotals(b, cfg, op) = KeysOf(b)
         /\ \A key \in KeysOf(b) :
              LET t == PerTypeTotals(b, cfg, op)[key]
              IN  /\ IsWork(t) /\ t.weight = WeightOf(b, cfg, op, key) /\ t.kv = KvOf(b, cfg, op, key)
                  /\ t.flops = FlopsOf(b, cfg, op, key) /\ t.in = 0 /\ t.out = 0
                  /\ t.layers = Max({s.mult : s \in Under(AllSegments(b), key)})
<1>1. DOMAIN PerTypeTotals(b, cfg, op) = KeysOf(b)
  BY DEF PerTypeTotals, KeysOf
<1>2. ASSUME NEW key \in KeysOf(b)
      PROVE  LET t == PerTypeTotals(b, cfg, op)[key]
             IN  /\ IsWork(t) /\ t.weight = WeightOf(b, cfg, op, key) /\ t.kv = KvOf(b, cfg, op, key)
                 /\ t.flops = FlopsOf(b, cfg, op, key) /\ t.in = 0 /\ t.out = 0
                 /\ t.layers = Max({s.mult : s \in Under(AllSegments(b), key)})
  <2> DEFINE t == PerTypeTotals(b, cfg, op)[key]
             M == {s.mult : s \in Under(AllSegments(b), key)}
             f == [s \in Under(AllSegments(b), key) |-> s.mult]
  <2>1. t = [NoWork EXCEPT !.weight = WeightOf(b, cfg, op, key), !.kv = KvOf(b, cfg, op, key),
                           !.flops = FlopsOf(b, cfg, op, key), !.layers = Max(M)]
    BY DEF PerTypeTotals, KeysOf, WeightOf, KvOf, FlopsOf
  <2>2. WeightOf(b, cfg, op, key) \in Nat /\ KvOf(b, cfg, op, key) \in Nat /\ FlopsOf(b, cfg, op, key) \in Nat
    BY TotalsUnderKey
  <2>3. Under(AllSegments(b), key) \in SUBSET AllSegments(b) /\ Under(AllSegments(b), key) # {}
    BY DEF Under, KeysOf
  <2>4. IsFiniteSet(Under(AllSegments(b), key)) /\ Under(AllSegments(b), key) \subseteq Segments
    BY <2>3, SegmentsAreFinite, FS_Subset
  <2>5. M = {f[s] : s \in Under(AllSegments(b), key)}
    OBVIOUS
  <2>6. M \subseteq Nat /\ M # {}
    BY <2>3, <2>4 DEF Segments
  <2>7. Max(M) \in Nat
    <3>1. IsFiniteSet(M)
      <4> HIDE DEF M, f
      <4> QED
        BY <2>4, <2>5, ImageIsFinite
    <3> HIDE DEF M
    <3>2. M \subseteq Int
      BY <2>6
    <3>3. Max(M) \in M
      BY <2>6, <3>1, <3>2, MaxIsOne
    <3> QED
      BY <2>6, <3>3
  <2> HIDE DEF t, M
  <2>8. /\ t.weight = WeightOf(b, cfg, op, key) /\ t.kv = KvOf(b, cfg, op, key)
        /\ t.flops = FlopsOf(b, cfg, op, key) /\ t.in = 0 /\ t.out = 0 /\ t.layers = Max(M)
    BY <2>1 DEF NoWork
  <2>9. IsWork(t)
    BY <2>2, <2>7, <2>8 DEF IsWork
  <2> QED
    BY <2>8, <2>9 DEF t, M
<1> QED
  BY <1>1, <1>2


-----------------------------------------------------------------------------
(* The largest batch that fits.  The memory of a rank grows by as much with  *)
(* every sequence, if Scale is a multiple of what TP and the K/V heads       *)
(* divide by, so that two points of the line tell the largest one.           *)

Decoding(len, bs) == [s |-> len, bs |-> bs, regime |-> "decode"]

LEMMA DecodingIs ==
  ASSUME NEW len \in Nat, NEW bs \in Nat
  PROVE  IsPoint(Decoding(len, bs))
BY DEF IsPoint, Decoding, Regimes

SegmentGrowsBy(c, b, s, cfg, len) ==
  \A bs \in Nat : SegmentKv(b, s, cfg, Decoding(len, bs)) = bs * c
KvGrowsBy(c, b, key, cfg, len) ==
  \A bs \in Nat : KvOf(b, cfg, Decoding(len, bs), key) = KvOf(b, cfg, Decoding(len, 0), key) + bs * c
ResidentGrowsBy(c, f, b, cfg, len) ==
  \A bs \in Nat : Resident(PerTypeTotals(b, cfg, Decoding(len, bs))) = f + bs * c
PeakGrowsBy(c, f, b, cfg, len) ==
  \A bs \in Nat : PeakHbm(b, cfg, len, bs, FALSE) = f + bs * c

\* The cache of a segment is that of one sequence, times the batch.
LEMMA SegmentKvIsLinear ==
  ASSUME NEW b, IsBundle(b), NEW cfg, IsConfig(cfg), IsExact(b, cfg), NEW len \in Nat, NEW s \in b.kvs
  PROVE  \E c \in Nat : SegmentGrowsBy(c, b, s, cfg, len)
<1> DEFINE d == KvCacheDivisor(cfg, "decode", s.cap, b.meta[s.type].nkv, b.meta[s.type].isMla)
           n == s.mult * s.unit * EffCtx(s.cap, len)
<1>1. s \in Segments
  BY DEF IsBundle
<1>2. /\ s.cls \in Classes /\ s.mult * s.unit \in Nat /\ s.cap \in Nat
      /\ b.meta[s.type].nkv \in Nat /\ b.meta[s.type].isMla \in BOOLEAN
  BY <1>1, SegmentIs
<1>3. d \in Sizes /\ Scale % d = 0
  BY <1>2, WorkDivisors DEF IsExact
<1>4. n \in Nat
  BY <1>2, ContextIs, NatTimes
<1>5. \A bs \in Nat : SegmentKv(b, s, cfg, Decoding(len, bs)) = Share(n * bs, d)
  BY DEF SegmentKv, Decoding
<1> HIDE DEF d, n
<1>6. PICK q \in Nat : q = Scale \div d
  BY <1>3, DivNat, ScaleAssumption
<1>7. n * q \in Nat
  BY <1>4, <1>6, NatTimes
<1>8. ASSUME NEW bs \in Nat
      PROVE  SegmentKv(b, s, cfg, Decoding(len, bs)) = bs * (n * q)
  <2>1. n * bs \in Nat
    BY <1>4, NatTimes
  <2>2. Share(n * bs, d) = (n * bs) * q
    BY <1>3, <1>6, <2>1, ShareIsExact
  <2>3. (n * bs) * q = bs * (n * q)
    BY <1>4, <1>6
  <2> QED
    BY <1>5, <2>2, <2>3
<1> QED
  BY <1>7, <1>8 DEF SegmentGrowsBy

LEMMA KvIsLinear ==
  ASSUME NEW b, IsBundle(b), NEW cfg, IsConfig(cfg), IsExact(b, cfg), NEW len \in Nat, NEW key
  PROVE  \E c \in Nat : KvGrowsBy(c, b, key, cfg, len)
<1> DEFINE S == Under(b.kvs, key)
           v == [s \in S |-> CHOOSE c \in Nat : SegmentGrowsBy(c, b, s, cfg, len)]
           kv(bs) == [s \in S |-> SegmentKv(b, s, cfg, Decoding(len, bs))]
<1>1. S \subseteq b.kvs /\ IsFiniteSet(S)
  BY FS_Subset DEF Under, IsBundle
<1>2. ASSUME NEW s \in S
      PROVE  \E c \in Nat : SegmentGrowsBy(c, b, s, cfg, len)
  BY <1>1, SegmentKvIsLinear
<1>3. \A s \in S : v[s] \in Nat /\ SegmentGrowsBy(v[s], b, s, cfg, len)
  BY <1>2
<1> HIDE DEF v
<1>4. \A bs \in Nat : \A s \in S : kv(bs)[s] = bs * v[s]
  BY <1>3 DEF SegmentGrowsBy
<1>5. Summable(v, S)
  BY <1>1, <1>3 DEF Summable
<1>6. \A bs \in Nat : Summable(kv(bs), S)
  BY <1>1, <1>3, <1>4, NatTimes DEF Summable
<1>7. \A bs \in Nat : KvOf(b, cfg, Decoding(len, bs), key) = Total(On(kv(bs), S))
  BY DEF KvOf, On
<1>8. \A bs \in Nat : \A s \in S : kv(bs)[s] = kv(0)[s] + bs * v[s]
  <2> SUFFICES ASSUME NEW bs \in Nat, NEW s \in S
               PROVE  kv(bs)[s] = kv(0)[s] + bs * v[s]
    OBVIOUS
  <2>1. v[s] \in Nat
    BY <1>3
  <2>2. kv(0)[s] = 0 * v[s] /\ kv(bs)[s] = bs * v[s]
    BY <1>4
  <2>3. bs * v[s] \in Nat
    BY <2>1, NatTimes
  <2> HIDE DEF kv
  <2> QED
    BY <2>1, <2>2, <2>3
<1> HIDE DEF kv, S
<1>9. ASSUME NEW bs \in Nat
      PROVE  Total(On(kv(bs), S)) = Total(On(kv(0), S)) + bs * Total(On(v, S))
  BY <1>5, <1>6, <1>8, TotalLinear
<1>10. Total(On(v, S)) \in Nat
  BY <1>5, TotalIsNat
<1> QED
  BY <1>7, <1>9, <1>10 DEF KvGrowsBy

LEMMA ResidentIs ==
  ASSUME NEW b, IsBundle(b), NEW cfg, IsConfig(cfg), NEW op, IsPoint(op)
  PROVE  Resident(PerTypeTotals(b, cfg, op))
           = Total([key \in KeysOf(b) |-> WeightOf(b, cfg, op, key) + KvOf(b, cfg, op, key)])
<1>1. DOMAIN PerTypeTotals(b, cfg, op) = KeysOf(b)
  BY PerTypeTotalsAre
<1>2. \A key \in KeysOf(b) :
        PerTypeTotals(b, cfg, op)[key].weight + PerTypeTotals(b, cfg, op)[key].kv
          = WeightOf(b, cfg, op, key) + KvOf(b, cfg, op, key)
  BY PerTypeTotalsAre
<1> DEFINE t == PerTypeTotals(b, cfg, op)
<1>3. Resident(t) = Total([key \in DOMAIN t |-> t[key].weight + t[key].kv])
  BY DEF Resident
<1>4. [key \in DOMAIN t |-> t[key].weight + t[key].kv]
        = [key \in KeysOf(b) |-> WeightOf(b, cfg, op, key) + KvOf(b, cfg, op, key)]
  BY <1>1, <1>2
<1> QED
  BY <1>3, <1>4

LEMMA ResidentIsLinear ==
  ASSUME NEW b, IsBundle(b), NEW cfg, IsConfig(cfg), IsExact(b, cfg), NEW len \in Nat
  PROVE  \E c \in Nat, f \in Nat : ResidentGrowsBy(c, f, b, cfg, len)
<1> DEFINE S == KeysOf(b)
           v == [key \in S |-> CHOOSE c \in Nat : KvGrowsBy(c, b, key, cfg, len)]
           held(bs) == [key \in S |-> WeightOf(b, cfg, Decoding(len, bs), key) + KvOf(b, cfg, Decoding(len, bs), key)]
<1>1. IsFiniteSet(S)
  BY SegmentsAreFinite
<1>2. ASSUME NEW key \in S
      PROVE  \E c \in Nat : KvGrowsBy(c, b, key, cfg, len)
  BY KvIsLinear
<1>3. \A key \in S : v[key] \in Nat /\ KvGrowsBy(v[key], b, key, cfg, len)
  BY <1>2
<1> HIDE DEF v
<1>4. \A bs \in Nat : \A key : WeightOf(b, cfg, Decoding(len, bs), key) = WeightOf(b, cfg, Decoding(len, 0), key)
  BY DEF WeightOf, SegmentWeight, Decoding
<1>5. \A bs \in Nat : \A key : /\ WeightOf(b, cfg, Decoding(len, bs), key) \in Nat
                               /\ KvOf(b, cfg, Decoding(len, bs), key) \in Nat
  BY DecodingIs, TotalsUnderKey
<1>6. \A bs \in Nat : \A key \in S : held(bs)[key] = held(0)[key] + bs * v[key]
  <2> SUFFICES ASSUME NEW bs \in Nat, NEW key \in S
               PROVE  held(bs)[key] = held(0)[key] + bs * v[key]
    OBVIOUS
  <2> DEFINE W == WeightOf(b, cfg, Decoding(len, 0), key)
             K == KvOf(b, cfg, Decoding(len, 0), key)
  <2>1. W \in Nat /\ K \in Nat /\ bs * v[key] \in Nat
    BY <1>3, <1>5, NatTimes
  <2>2. held(0)[key] = W + K
    OBVIOUS
  <2>3. held(bs)[key] = W + (K + bs * v[key])
    BY <1>3, <1>4 DEF KvGrowsBy
  <2> HIDE DEF W, K, held
  <2> QED
    BY <2>1, <2>2, <2>3
<1>7. Summable(v, S)
  BY <1>1, <1>3 DEF Summable
<1>8. \A bs \in Nat : \A key \in S : held(bs)[key] \in Nat
  BY <1>5, NatPlus
<1>9. \A bs \in Nat : Summable(held(bs), S)
  <2> HIDE DEF held
  <2> QED
    BY <1>1, <1>8 DEF Summable
<1>10. \A bs \in Nat : Resident(PerTypeTotals(b, cfg, Decoding(len, bs))) = Total(On(held(bs), S))
  BY DecodingIs, ResidentIs DEF On
<1> HIDE DEF held, S
<1>11. ASSUME NEW bs \in Nat
       PROVE  Total(On(held(bs), S)) = Total(On(held(0), S)) + bs * Total(On(v, S))
  BY <1>6, <1>7, <1>9, TotalLinear
<1>12. Total(On(v, S)) \in Nat /\ Total(On(held(0), S)) \in Nat
  BY <1>7, <1>9, TotalIsNat
<1> QED
  BY <1>10, <1>11, <1>12 DEF ResidentGrowsBy

LEMMA PeakIsLinear ==
  ASSUME NEW b, IsBundle(b), NEW cfg, IsConfig(cfg), IsExact(b, cfg), NEW len \in Nat
  PROVE  \E c \in Nat, f \in Nat : c > 0 /\ PeakGrowsBy(c, f, b, cfg, len)
<1> DEFINE a == b.arch
           L == 4 * a.hidden * a.dtype * (Scale \div cfg.tp)
<1>1. a.hidden \in Nat /\ a.hidden > 0 /\ a.dtype \in Nat /\ a.dtype > 0
  BY ElementBytes DEF IsBundle
<1>2. cfg.tp \in Sizes /\ Scale % cfg.tp = 0
  BY DEF IsConfig, IsExact
<1> HIDE DEF a
<1>3. PICK q \in Nat : q = Scale \div cfg.tp /\ q > 0
  BY <1>2, ShareIsExact DEF Sizes
<1>4. PICK m \in Nat : m = 4 * a.hidden * a.dtype /\ m > 0
  <2>1. 4 * a.hidden \in Nat /\ 4 * a.hidden > 0
    BY <1>1
  <2> QED
    BY <1>1, <2>1, Product2
<1>5. m * q \in Nat /\ m * q > 0
  BY <1>3, <1>4, Product2
<1>6. ASSUME NEW bs \in Nat
      PROVE  LiveActivation(a, len, bs, FALSE, cfg) = bs * (m * q)
  <2>1. 4 * bs * a.hidden * a.dtype = m * bs
    BY <1>1, <1>4
  <2>2. m * bs \in Nat
    BY <1>4, NatTimes
  <2>3. Share(m * bs, cfg.tp) = (m * bs) * q
    BY <1>2, <1>3, <2>2, ShareIsExact
  <2>4. (m * bs) * q = bs * (m * q)
    BY <1>3, <1>4
  <2> QED
    BY <2>1, <2>3, <2>4 DEF LiveActivation
<1>7. PICK c \in Nat, f \in Nat : ResidentGrowsBy(c, f, b, cfg, len)
  BY ResidentIsLinear
<1>8. \A bs \in Nat : PeakHbm(b, cfg, len, bs, FALSE)
        = Resident(PerTypeTotals(b, cfg, Decoding(len, bs))) + LiveActivation(a, len, bs, FALSE, cfg)
  BY DEF PeakHbm, Decoding, Regime, a
<1>9. PICK l \in Nat : l = m * q /\ l > 0
  BY <1>5
<1>10. ASSUME NEW bs \in Nat
       PROVE  PeakHbm(b, cfg, len, bs, FALSE) = f + bs * (c + l)
  <2>1. PeakHbm(b, cfg, len, bs, FALSE) = (f + bs * c) + bs * l
    BY <1>6, <1>7, <1>8, <1>9 DEF ResidentGrowsBy
  <2>2. bs * (c + l) = bs * c + bs * l
    BY TimesSum
  <2>3. PICK x \in Nat, y \in Nat : x = bs * c /\ y = bs * l
    BY NatTimes
  <2>4. (f + x) + y = f + (x + y)
    OBVIOUS
  <2> QED
    BY <2>1, <2>2, <2>3, <2>4
<1>11. c + l \in Nat /\ c + l > 0
  BY <1>9
<1> QED
  BY <1>10, <1>11 DEF PeakGrowsBy

\* The largest batch by extrapolation is one, or even, and the largest that fits.
LEMMA ExtrapolatedFits ==
  ASSUME NEW budget \in Nat, NEW f \in Nat, NEW c \in Nat, c > 0,
         NEW m, m = Extrapolated(budget, f, f + c), m # 0
  PROVE  /\ m \in Nat /\ m > 0 /\ (m = 1 \/ m % 2 = 0)
         /\ f + m * c <= budget /\ f + (m + 2) * c > budget
<1>1. (f + c) - f = c
  OBVIOUS
<1>2. PICK n \in Int : n = (budget - f) \div c
  BY DivMod
<1>3. n * c <= budget - f /\ budget - f < n * c + c
  <2>1. PICK y \in Int : y = budget - f
    OBVIOUS
  <2>2. y = n * c + (y % c) /\ 0 <= y % c /\ y % c < c
    BY <1>2, <2>1, DivMod
  <2>3. PICK z \in Int : z = y % c
    BY <2>1
  <2>4. n * c \in Int
    OBVIOUS
  <2> QED
    BY <2>1, <2>2, <2>3, <2>4
<1>4. m = IF n < 1 THEN 0 ELSE Greatest(n - (n % 2), 1)
  BY <1>1, <1>2 DEF Extrapolated, BsGranularity
<1>5. n >= 1 /\ m = Greatest(n - (n % 2), 1)
  BY <1>4
<1>6. PICK k \in Int : n = 2 * k \/ n = 2 * k + 1
  <2>1. n = 2 * (n \div 2) \/ n = 2 * (n \div 2) + 1
    OBVIOUS
  <2> QED
    BY <2>1
<1>7. m \in Nat /\ m > 0 /\ (m = 1 \/ m % 2 = 0) /\ m <= n /\ n <= m + 1
  BY <1>5, <1>6 DEF Greatest
<1>8. m * c <= n * c
  BY <1>7
<1>9. (m + 2) * c >= (n + 1) * c
  BY <1>7
<1>10. (n + 1) * c = n * c + c
  OBVIOUS
<1>11. m * c \in Int /\ n * c \in Int /\ (m + 2) * c \in Int
  BY <1>7
<1> QED
  BY <1>3, <1>7, <1>8, <1>9, <1>10, <1>11


-----------------------------------------------------------------------------
(* What is read and written, and the records of it. *)

LatentOps == {"q_a_proj", "q_b_proj", "kv_a_proj", "kv_b_proj"}
KnownOps ==
  {"q_proj", "k_proj", "v_proj", "o_proj", "sdpa", "gate_proj", "up_proj", "down_proj", "lm_head", "router"}
OpsOfGroup(g) == IF g.hasMla THEN KnownOps \cup LatentOps ELSE KnownOps
IsWidth(w) == w[1] \in Nat /\ w[2] \in Axes /\ w[3] \in Nat

LEMMA WidthsAre ==
  ASSUME NEW a, IsArch(a), NEW g, IsGroup(g), NEW operator \in OpsOfGroup(g), NEW routed \in BOOLEAN
  PROVE  LET w == ActIoElems(operator, routed, a, g) IN IsWidth(w[1]) /\ IsWidth(w[2])
<1> DEFINE H == Whole(a.hidden)
           Q == <<g.nq * (IF g.hasMla THEN QkHeadDim(g.mla) ELSE g.dim), "heads", g.nq>>
           V == <<g.nq * (IF g.hasMla THEN g.mla.vDim ELSE g.dim), "heads", g.nq>>
           K == <<g.nkv * g.dim, "heads", g.nkv>>
           inter == IF routed THEN <<g.moe, "expert_tensor_parallel", 0>> ELSE <<g.dense, "tensor_parallel", 0>>
           P == <<a.vocab, "vocab", 0>>
           R == Whole(g.experts)
           w == ActIoElems(operator, routed, a, g)
<1>1. a.hidden \in Nat /\ a.vocab \in Nat
  BY ElementBytes
<1>2. /\ g.nq \in Nat /\ g.nkv \in Nat /\ g.dim \in Nat /\ g.dense \in Nat /\ g.moe \in Nat /\ g.experts \in Nat
      /\ g.hasMla \in BOOLEAN
  BY GroupDims
<1>3. \A n \in Nat : IsWidth(Whole(n))
  BY DEF IsWidth, Whole, Axes
<1>4. \A n, heads \in Nat, axis \in Axes : IsWidth(<<n, axis, heads>>)
  BY DEF IsWidth
<1>5. "heads" \in Axes /\ "expert_tensor_parallel" \in Axes /\ "tensor_parallel" \in Axes /\ "vocab" \in Axes /\ 0 \in Nat
  BY DEF Axes
<1>6. IsWidth(H) /\ IsWidth(R) /\ IsWidth(P) /\ IsWidth(inter)
  BY <1>1, <1>2, <1>3, <1>4, <1>5
<1>7. IsWidth(K)
  BY <1>2, <1>4, <1>5, NatTimes
<1>8. IsWidth(Q) /\ IsWidth(V)
  <2>1. (IF g.hasMla THEN QkHeadDim(g.mla) ELSE g.dim) \in Nat /\ (IF g.hasMla THEN g.mla.vDim ELSE g.dim) \in Nat
    BY <1>2, MlaDims
  <2>2. /\ g.nq * (IF g.hasMla THEN QkHeadDim(g.mla) ELSE g.dim) \in Nat
        /\ g.nq * (IF g.hasMla THEN g.mla.vDim ELSE g.dim) \in Nat
    BY <1>2, <2>1, NatTimes
  <2> QED
    BY <1>2, <1>4, <1>5, <2>2
<1>9. CASE operator \in KnownOps
  <2>1. w \in {<<H, Q>>, <<H, K>>, <<V, H>>, <<Q, V>>, <<H, inter>>, <<inter, H>>, <<H, P>>, <<H, R>>}
    BY <1>9 DEF ActIoElems, KnownOps
  <2> HIDE DEF w, H, Q, V, K, inter, P, R
  <2> QED
    BY <1>6, <1>7, <1>8, <2>1 DEF w
<1>10. CASE operator \in LatentOps
  <2> DEFINE A == Whole(g.mla.qRank)
             C == Whole(KvCacheDim(g.mla))
             D == Whole(g.mla.kvRank)
             U == <<g.nq * (g.mla.nope + g.mla.vDim), "heads", g.nq>>
  <2>1. g.hasMla
    BY <1>10 DEF OpsOfGroup, KnownOps, LatentOps
  <2>2. /\ KvCacheDim(g.mla) \in Nat
        /\ g.mla.qRank \in Nat /\ g.mla.kvRank \in Nat /\ g.mla.nope + g.mla.vDim \in Nat
    BY <2>1, MlaDims
  <2>3. IsWidth(A) /\ IsWidth(C) /\ IsWidth(D)
    BY <1>3, <2>2
  <2>4. IsWidth(U)
    BY <1>2, <1>4, <1>5, <2>2, NatTimes
  <2>5. w \in {<<H, A>>, <<A, Q>>, <<H, C>>, <<D, U>>}
    BY <1>10 DEF ActIoElems, LatentOps
  <2> HIDE DEF w, H, Q, A, C, D, U
  <2> QED
    BY <1>6, <1>8, <2>3, <2>4, <2>5 DEF w
<1> QED
  BY <1>9, <1>10 DEF OpsOfGroup

LEMMA OperatorBytesAre ==
  ASSUME NEW a, IsArch(a), NEW g, IsGroup(g), NEW operator \in OpsOfGroup(g), NEW routed \in BOOLEAN,
         NEW side \in {1, 2}, NEW cfg, IsConfig(cfg), NEW op, IsPoint(op)
  PROVE  OperatorBytes(operator, routed, side, a, g, cfg, op) \in Nat
<1> DEFINE w == ActIoElems(operator, routed, a, g)[side]
           tokens == IF operator = "lm_head" THEN LmHeadTokens(op) ELSE LocalTokens(op)
           spread == IF operator = "lm_head" THEN 1 ELSE LocalTokensDivisor(g, cfg, op)
           expert == routed /\ operator # "router"
           n == a.dtype * tokens * w[1] * (IF expert THEN g.active ELSE 1)
           d == ActivationWidthDivisor(w[2], cfg, op.regime, w[3]) * spread * (IF expert THEN RoutedSpread(cfg) ELSE 1)
<1>1. w[1] \in Nat /\ w[2] \in Axes /\ w[3] \in Nat
  <2>1. IsWidth(ActIoElems(operator, routed, a, g)[1]) /\ IsWidth(ActIoElems(operator, routed, a, g)[2])
    BY WidthsAre
  <2> QED
    BY <2>1 DEF IsWidth
<1> HIDE DEF w
<1>2. a.dtype \in Nat /\ tokens \in Nat
  BY ElementBytes, TokensAre DEF LocalTokens
<1>3. g.active \in Nat /\ g.nkv \in Nat /\ g.hasMla \in BOOLEAN
  BY GroupDims
<1>4. 1 \in Sizes
  BY DEF Sizes
<1>5. spread \in Sizes
  <2>1. LocalTokensDivisor(g, cfg, op) \in Sizes
    BY <1>3, <1>4, CpIsSize DEF LocalTokensDivisor
  <2> QED
    BY <1>4, <2>1
<1>6. ActivationWidthDivisor(w[2], cfg, op.regime, w[3]) \in Sizes /\ (IF expert THEN RoutedSpread(cfg) ELSE 1) \in Sizes
  BY <1>1, <1>4, RowDivisors
<1> HIDE DEF tokens, spread
<1>7. d \in Sizes
  BY <1>5, <1>6, TimesIsSize
<1>8. a.dtype * tokens \in Nat
  BY <1>2, NatTimes
<1>9. a.dtype * tokens * w[1] \in Nat
  BY <1>1, <1>8, NatTimes
<1>10. n \in Nat
  BY <1>3, <1>9, NatTimes
<1>11. OperatorBytes(operator, routed, side, a, g, cfg, op) = Share(n, d)
  BY DEF OperatorBytes, w, tokens, spread
<1> HIDE DEF n, d
<1> QED
  BY <1>7, <1>10, <1>11, ShareIsNat

IsInstance(i) == i.in \in Nat /\ i.out \in Nat
MarkedOps(g) == [name : OpsOfGroup(g), routed : BOOLEAN]

LEMMA OpsAre ==
  ASSUME NEW a, NEW g, IsGroup(g)
  PROVE  /\ Marked(Append(AttnOps(a, g), "sdpa"), FALSE) \in Seq(MarkedOps(g))
         /\ FfnOps(g) \in Seq(MarkedOps(g))
         /\ Marked(<<"lm_head">>, FALSE) \in Seq(MarkedOps(g))
<1>1. ASSUME NEW ops \in Seq(OpsOfGroup(g)), NEW routed \in BOOLEAN
      PROVE  Marked(ops, routed) \in Seq(MarkedOps(g))
  <2>1. DOMAIN ops = 1..Len(ops) /\ Len(ops) \in Nat /\ \A i \in DOMAIN ops : ops[i] \in OpsOfGroup(g)
    OBVIOUS
  <2>2. Marked(ops, routed) \in [1..Len(ops) -> MarkedOps(g)]
    BY <2>1 DEF Marked, MarkedOps
  <2> QED
    BY <2>1, <2>2
<1>2. g.hasMla \in BOOLEAN
  BY GroupDims
<1>3. AttnOps(a, g) \in Seq(OpsOfGroup(g)) /\ "sdpa" \in OpsOfGroup(g)
  <2>1. CASE g.hasMla
    BY <2>1 DEF AttnOps, OpsOfGroup, KnownOps, LatentOps
  <2>2. CASE ~g.hasMla
    <3>1. /\ <<"q_proj", "k_proj", "o_proj">> \in Seq(OpsOfGroup(g))
          /\ <<"q_proj", "k_proj", "v_proj", "o_proj">> \in Seq(OpsOfGroup(g))
          /\ "sdpa" \in OpsOfGroup(g)
      BY <2>2 DEF OpsOfGroup, KnownOps
    <3> QED
      BY <2>2, <3>1 DEF AttnOps
  <2> QED
    BY <1>2, <2>1, <2>2
<1>4. Append(AttnOps(a, g), "sdpa") \in Seq(OpsOfGroup(g))
  BY <1>3, AppendProperties
<1>5. MlpOps \in Seq(OpsOfGroup(g)) /\ "router" \in OpsOfGroup(g) /\ <<"lm_head">> \in Seq(OpsOfGroup(g))
  <2>1. \A x \in {"gate_proj", "up_proj", "down_proj", "router", "lm_head"} : x \in OpsOfGroup(g)
    BY DEF OpsOfGroup, KnownOps
  <2>2. MlpOps \in Seq(OpsOfGroup(g))
    BY <2>1 DEF MlpOps
  <2>3. <<"lm_head">> \in Seq(OpsOfGroup(g))
    BY <2>1
  <2> QED
    BY <2>1, <2>2, <2>3
<1>6. Append(MlpOps, "router") \in Seq(OpsOfGroup(g))
  BY <1>5, AppendProperties
<1>7. /\ (IF g.dense > 0 THEN Marked(MlpOps, FALSE) ELSE <<>>) \in Seq(MarkedOps(g))
      /\ (IF g.experts > 0 THEN Marked(Append(MlpOps, "router"), TRUE) ELSE <<>>) \in Seq(MarkedOps(g))
  <2>1. /\ Marked(MlpOps, FALSE) \in Seq(MarkedOps(g)) /\ Marked(Append(MlpOps, "router"), TRUE) \in Seq(MarkedOps(g))
    BY <1>1, <1>5, <1>6
  <2>2. <<>> \in Seq(MarkedOps(g))
    OBVIOUS
  <2> QED
    BY <2>1, <2>2
<1>8. FfnOps(g) \in Seq(MarkedOps(g))
  BY <1>7, ConcatProperties DEF FfnOps
<1> QED
  BY <1>1, <1>4, <1>5, <1>8

LEMMA OperatorsBodyIs ==
  ASSUME NEW a, IsArch(a), NEW g, IsGroup(g), NEW ops \in Seq(MarkedOps(g)), NEW cfg, IsConfig(cfg), NEW op, IsPoint(op),
         NEW component, NEW variant
  PROVE  /\ IsInstance(OperatorsBody(component, variant, ops, a, cfg, op, g))
         /\ \A i \in DOMAIN ops : OperatorsBody(component, variant, ops, a, cfg, op, g).in
                                    >= OperatorBytes(ops[i].name, ops[i].routed, 1, a, g, cfg, op)
<1> DEFINE bytes(side) == [i \in DOMAIN ops |-> OperatorBytes(ops[i].name, ops[i].routed, side, a, g, cfg, op)]
           I == OperatorsBody(component, variant, ops, a, cfg, op, g)
<1>1. IsFiniteSet(DOMAIN ops)
  <2>1. DOMAIN ops = 1..Len(ops) /\ 1 \in Int /\ Len(ops) \in Int
    OBVIOUS
  <2> QED
    BY <2>1, FS_Interval
<1>2. ASSUME NEW i \in DOMAIN ops
      PROVE  ops[i].name \in OpsOfGroup(g) /\ ops[i].routed \in BOOLEAN
  <2>1. ops[i] \in MarkedOps(g)
    OBVIOUS
  <2> QED
    BY <2>1 DEF MarkedOps
<1>3. \A side \in {1, 2} : \A i \in DOMAIN ops : bytes(side)[i] \in Nat
  BY <1>2, OperatorBytesAre
<1>4. I.in = Total(bytes(1)) /\ I.out = Total(bytes(2))
  BY DEF OperatorsBody, Instance
<1>5. \A side : bytes(side) = On(bytes(side), DOMAIN ops)
  BY DEF On
<1>6. \A i \in DOMAIN ops : bytes(1)[i] = OperatorBytes(ops[i].name, ops[i].routed, 1, a, g, cfg, op)
  OBVIOUS
<1> HIDE DEF bytes, I
<1>7. Summable(bytes(1), DOMAIN ops) /\ Summable(bytes(2), DOMAIN ops)
  BY <1>1, <1>3 DEF Summable
<1>8. I.in \in Nat /\ I.out \in Nat
  BY <1>4, <1>5, <1>7, TotalIsNat
<1>9. \A i \in DOMAIN ops : I.in >= bytes(1)[i]
  BY <1>4, <1>5, <1>7, TotalAtLeast
<1> QED
  BY <1>6, <1>8, <1>9 DEF I, IsInstance


IsInstances(I) == IsFiniteSet(I) /\ \A i \in I : IsInstance(i)

LEMMA HiddenBytesAre ==
  ASSUME NEW a, IsArch(a), NEW cfg, IsConfig(cfg), NEW op, IsPoint(op), NEW layout, NEW rows \in Nat
  PROVE  /\ HiddenBytes(a, cfg, op, layout, rows) \in Nat
         /\ layout = "sampled" /\ rows > 0 => HiddenBytes(a, cfg, op, layout, rows) > 0
<1> DEFINE d == ActivationRowDivisor(layout, cfg, op.regime) * ActivationWidthDivisor("hidden", cfg, op.regime, 0)
           n == rows * a.hidden * a.dtype
<1>1. a.hidden \in Nat /\ a.hidden > 0 /\ a.dtype \in Nat /\ a.dtype > 0
  BY ElementBytes
<1>2. rows * a.hidden \in Nat /\ (rows > 0 => rows * a.hidden > 0)
  BY <1>1, Product2
<1>3. n \in Nat /\ (rows > 0 => n > 0)
  BY <1>1, <1>2, Product2
<1>4. "hidden" \in Axes /\ 0 \in Nat
  BY DEF Axes
<1>5. d \in Sizes
  BY <1>4, RowDivisors, TimesIsSize
<1>6. layout = "sampled" => d = 1
  BY DEF ActivationRowDivisor, ActivationWidthDivisor
<1>7. HiddenBytes(a, cfg, op, layout, rows) = Share(n, d)
  BY DEF HiddenBytes
<1> HIDE DEF n, d
<1>8. Share(n, d) \in Nat
  BY <1>3, <1>5, ShareIsNat
<1>9. ASSUME d = 1, n > 0
      PROVE  Share(n, d) > 0
  <2>1. PICK m \in Nat : m = n * Scale /\ m > 0
    BY <1>3, <1>9, Product2, ScaleAssumption
  <2>2. m \div 1 = m
    BY <2>1
  <2> QED
    BY <1>9, <2>1, <2>2 DEF Share
<1> QED
  BY <1>3, <1>6, <1>7, <1>8, <1>9

LEMMA BodiesAre ==
  ASSUME NEW a, IsArch(a), NEW cfg, IsConfig(cfg), NEW op, IsPoint(op), NEW g, IsGroup(g)
  PROVE  IsInstances(BoundaryBodies(a, cfg, op, g)) /\ IsInstances(OperatorBodies(a, cfg, op, g))
<1>1. IsInstances(BoundaryBodies(a, cfg, op, g))
  <2> DEFINE Body(component, variant, layout) ==
               Instance(component, variant, HiddenBytes(a, cfg, op, layout, OpTokens(op)),
                        HiddenBytes(a, cfg, op, layout, OpTokens(op)))
             x == Body("attention", AttnLabel(g), "attention_body")
             y == Body("ffn", FfnLabel(g), "ffn_body")
  <2>1. \A layout : HiddenBytes(a, cfg, op, layout, OpTokens(op)) \in Nat
    BY TokensAre, HiddenBytesAre
  <2>2. IsInstance(x) /\ IsInstance(y)
    BY <2>1 DEF IsInstance, Instance
  <2>3. BoundaryBodies(a, cfg, op, g) = {x} \cup (IF HasFfn(g) THEN {y} ELSE {})
    BY DEF BoundaryBodies
  <2>4. IsFiniteSet({x}) /\ IsFiniteSet({y}) /\ IsFiniteSet({})
    BY FS_Singleton, FS_EmptySet
  <2> HIDE DEF x, y
  <2>5. IsFiniteSet({x} \cup (IF HasFfn(g) THEN {y} ELSE {}))
    <3>1. IsFiniteSet(IF HasFfn(g) THEN {y} ELSE {})
      BY <2>4
    <3> QED
      BY <2>4, <3>1, FS_Union
  <2> QED
    BY <2>2, <2>3, <2>5 DEF IsInstances
<1>2. IsInstances(OperatorBodies(a, cfg, op, g))
  <2> DEFINE x == OperatorsBody("attention", AttnLabel(g), Marked(Append(AttnOps(a, g), "sdpa"), FALSE), a, cfg, op, g)
             y == OperatorsBody("ffn", FfnLabel(g), FfnOps(g), a, cfg, op, g)
  <2>1. IsInstance(x) /\ IsInstance(y)
    BY OpsAre, OperatorsBodyIs
  <2>2. OperatorBodies(a, cfg, op, g) = {x} \cup (IF y.in + y.out > 0 THEN {y} ELSE {})
    BY DEF OperatorBodies
  <2>3. IsFiniteSet({x}) /\ IsFiniteSet({y}) /\ IsFiniteSet({})
    BY FS_Singleton, FS_EmptySet
  <2> HIDE DEF x, y
  <2>4. IsFiniteSet({x} \cup (IF y.in + y.out > 0 THEN {y} ELSE {}))
    <3>1. IsFiniteSet(IF y.in + y.out > 0 THEN {y} ELSE {})
      BY <2>3
    <3> QED
      BY <2>3, <3>1, FS_Union
  <2> QED
    BY <2>1, <2>2, <2>4 DEF IsInstances
<1> QED
  BY <1>1, <1>2

\* The layers are listed, each as a group.
LEMMA LayersAre ==
  ASSUME NEW a, IsArch(a)
  PROVE  LET layers == OrderedLayerGroups(a)
         IN  /\ layers = [l \in DOMAIN a.layers |-> a.groups[a.layers[l]]]
             /\ DOMAIN layers = 1..Len(a.layers) /\ Len(layers) = Len(a.layers) /\ Len(a.layers) \in Nat /\ Len(a.layers) > 0
             /\ \A l \in DOMAIN layers : IsGroup(layers[l])
             /\ IsGroup(Last(layers))
<1> DEFINE layers == OrderedLayerGroups(a)
           n == Len(a.layers)
<1>1. a.layers \in Seq(DOMAIN a.groups) /\ a.layers # <<>>
  BY DEF IsArch
<1>2. n \in Nat /\ n > 0 /\ DOMAIN a.layers = 1..n
  BY <1>1
<1>3. layers = [l \in 1..n |-> a.groups[a.layers[l]]]
  BY <1>1, <1>2 DEF OrderedLayerGroups
<1>4. \A l \in 1..n : a.layers[l] \in DOMAIN a.groups
  BY <1>1
<1>5. \A l \in 1..n : IsGroup(layers[l])
  BY <1>3, <1>4 DEF IsArch
<1> HIDE DEF n, layers
<1>6. DOMAIN layers = 1..n /\ Len(layers) = n
  BY <1>2, <1>3
<1>7. Last(layers) = layers[n]
  BY <1>6 DEF Last
<1>8. n \in 1..n
  BY <1>2
<1> QED
  BY <1>2, <1>3, <1>5, <1>6, <1>7, <1>8 DEF n, layers

\* The sampled logits are read by lm_head.
LEMMA HeadIs ==
  ASSUME NEW a, IsArch(a), NEW cfg, IsConfig(cfg), NEW op, IsPoint(op)
  PROVE  LET i == HeadInstance(a, cfg, op)
         IN  IsInstance(i) /\ <<i.component, i.variant>> = <<"lm_head", "">> /\ (op.bs > 0 => i.in > 0)
<1>1. LmHeadTokens(op) \in Nat /\ LmHeadTokens(op) = op.bs
  BY TokensAre
<1>2. LET i == BoundaryHead(a, cfg, op)
      IN  IsInstance(i) /\ <<i.component, i.variant>> = <<"lm_head", "">> /\ (op.bs > 0 => i.in > 0)
  <2> DEFINE in == HiddenBytes(a, cfg, op, "sampled", LmHeadTokens(op))
             n == LmHeadTokens(op) * a.vocab * a.dtype
             d == ActivationWidthDivisor("vocab", cfg, op.regime, 0)
  <2>1. in \in Nat /\ (op.bs > 0 => in > 0)
    BY <1>1, HiddenBytesAre
  <2>2. a.vocab \in Nat /\ a.dtype \in Nat
    BY ElementBytes
  <2>3. LmHeadTokens(op) * a.vocab \in Nat
    BY <1>1, <2>2, NatTimes
  <2>4. n \in Nat
    BY <2>2, <2>3, NatTimes
  <2>5. d \in Sizes
    BY RowDivisors DEF Axes
  <2>6. BoundaryHead(a, cfg, op) = [component |-> "lm_head", variant |-> "", in |-> in, out |-> Share(n, d)]
    BY DEF BoundaryHead, Instance
  <2> HIDE DEF in, n, d
  <2>7. Share(n, d) \in Nat
    BY <2>4, <2>5, ShareIsNat
  <2>8. ASSUME NEW i, i = [component |-> "lm_head", variant |-> "", in |-> in, out |-> Share(n, d)]
        PROVE  IsInstance(i) /\ <<i.component, i.variant>> = <<"lm_head", "">> /\ (op.bs > 0 => i.in > 0)
    <3>1. i.component = "lm_head" /\ i.variant = "" /\ i.in = in /\ i.out = Share(n, d)
      BY <2>8
    <3> QED
      BY <2>1, <2>7, <3>1 DEF IsInstance
  <2> QED
    BY <2>6, <2>8
<1>3. LET i == OperatorHead(a, cfg, op)
      IN  IsInstance(i) /\ <<i.component, i.variant>> = <<"lm_head", "">> /\ (op.bs > 0 => i.in > 0)
  <2> DEFINE g == Last(OrderedLayerGroups(a))
             ops == Marked(<<"lm_head">>, FALSE)
             i == OperatorsBody("lm_head", "", ops, a, cfg, op, g)
             y == OperatorBytes("lm_head", FALSE, 1, a, g, cfg, op)
  <2>1. IsGroup(g)
    BY LayersAre
  <2>2. ops \in Seq(MarkedOps(g))
    BY <2>1, OpsAre
  <2>3. 1 \in DOMAIN ops /\ ops[1].name = "lm_head" /\ ops[1].routed = FALSE
    BY DEF Marked
  <2>4. OperatorHead(a, cfg, op) = i
    BY DEF OperatorHead
  <2>5. /\ IsInstance(i) /\ i.component = "lm_head" /\ i.variant = ""
        /\ \A k \in DOMAIN ops : i.in >= OperatorBytes(ops[k].name, ops[k].routed, 1, a, g, cfg, op)
    <3> HIDE DEF g, ops
    <3>0. i.component = "lm_head" /\ i.variant = ""
      BY DEF OperatorsBody, Instance
    <3>1. IsInstance(i)
      BY <2>1, <2>2, OperatorsBodyIs
    <3>2. ASSUME NEW k \in DOMAIN ops
          PROVE  i.in >= OperatorBytes(ops[k].name, ops[k].routed, 1, a, g, cfg, op)
      BY <2>1, <2>2, OperatorsBodyIs
    <3> QED
      BY <3>0, <3>1, <3>2
  <2>6. i.in >= y
    <3> HIDE DEF i, ops
    <3> QED
      BY <2>3, <2>5
  <2>7. ASSUME op.bs > 0
        PROVE  y \in Nat /\ y > 0
    <3>1. /\ ActIoElems("lm_head", FALSE, a, g)[1][1] = a.hidden
          /\ ActIoElems("lm_head", FALSE, a, g)[1][2] = "replicated"
          /\ ActIoElems("lm_head", FALSE, a, g)[1][3] = 0
      BY DEF ActIoElems, Whole
    <3>2. ActivationWidthDivisor("replicated", cfg, op.regime, 0) = 1
      BY DEF ActivationWidthDivisor
    <3>3. y = Share(a.dtype * LmHeadTokens(op) * a.hidden * 1, 1 * 1 * 1)
      BY <3>1, <3>2 DEF OperatorBytes
    <3>4. a.hidden \in Nat /\ a.hidden > 0 /\ a.dtype \in Nat /\ a.dtype > 0 /\ op.bs \in Nat
      BY <1>1, ElementBytes
    <3>5. a.dtype * op.bs \in Nat /\ a.dtype * op.bs > 0
      BY <2>7, <3>4, Product2
    <3>6. PICK n \in Nat : n = a.dtype * op.bs * a.hidden /\ n > 0
      BY <3>4, <3>5, Product2
    <3>7. PICK m \in Nat : m = n * Scale /\ m > 0
      BY <3>6, Product2, ScaleAssumption
    <3>8. Share(n * 1, 1 * 1 * 1) = m
      BY <3>6, <3>7 DEF Share
    <3> HIDE DEF y
    <3> QED
      BY <1>1, <3>3, <3>6, <3>7, <3>8
  <2> HIDE DEF i, y
  <2>8. ASSUME op.bs > 0
        PROVE  i.in > 0
    <3>1. i.in \in Nat
      BY <2>5 DEF IsInstance
    <3> QED
      BY <2>6, <2>7, <2>8, <3>1
  <2> QED
    BY <2>4, <2>5, <2>8
<1> QED
  BY <1>2, <1>3 DEF HeadInstance

IsRecord(r) == r.mult \in Nat /\ IsInstance(r.instance)

LEMMA RecordsAre ==
  ASSUME NEW a, IsArch(a), NEW cfg, IsConfig(cfg), NEW op, IsPoint(op)
  PROVE  LET records == ActivationRecords(a, cfg, op)
         IN  /\ IsFiniteSet(records) /\ \A r \in records : IsRecord(r)
             /\ [instance |-> HeadInstance(a, cfg, op), mult |-> 1] \in records
<1> DEFINE layers == OrderedLayerGroups(a)
           bodies == LayerInstances(a, cfg, op)
           D == DOMAIN bodies
           I == UNION {bodies[l] : l \in D}
           R(i) == [instance |-> i, mult |-> Cardinality({l \in D : i \in bodies[l]})]
           head == [instance |-> HeadInstance(a, cfg, op), mult |-> 1]
           f == [i \in I |-> R(i)]
<1>1. D = 1..Len(a.layers) /\ Len(a.layers) \in Nat /\ D = DOMAIN layers
  BY LayersAre DEF LayerInstances
<1>2. IsFiniteSet(D)
  <2>1. 1 \in Int /\ Len(a.layers) \in Int
    BY <1>1
  <2> HIDE DEF D
  <2> QED
    BY <1>1, <2>1, FS_Interval
<1>3. ASSUME NEW l \in D
      PROVE  IsInstances(bodies[l])
  <2>1. IsGroup(layers[l])
    BY <1>1, LayersAre
  <2>2. bodies[l] = BoundaryBodies(a, cfg, op, layers[l]) \/ bodies[l] = OperatorBodies(a, cfg, op, layers[l])
    BY <1>1 DEF LayerInstances
  <2> HIDE DEF layers, bodies, D
  <2> QED
    BY <2>1, <2>2, BodiesAre
<1>4. ActivationRecords(a, cfg, op) = {R(i) : i \in I} \cup {head}
  BY DEF ActivationRecords
<1>5. {R(i) : i \in I} = {f[i] : i \in I}
  OBVIOUS
<1> HIDE DEF bodies, layers, D
<1>6. IsFiniteSet(I)
  <2>1. IsFiniteSet({bodies[l] : l \in D})
    BY <1>2, ImageIsFinite
  <2> QED
    BY <1>3, <2>1, FS_UNION DEF IsInstances
<1>7. \A i \in I : IsInstance(i)
  BY <1>3 DEF IsInstances
<1>8. \A i : Cardinality({l \in D : i \in bodies[l]}) \in Nat
  BY <1>2, FS_Subset, FS_CardinalityType
<1>9. \A i \in I : IsRecord(R(i))
  BY <1>7, <1>8 DEF IsRecord
<1>10. IsRecord(head)
  BY HeadIs DEF IsRecord
<1>11. IsFiniteSet({f[i] : i \in I} \cup {head})
  <2> HIDE DEF f, I, head
  <2>1. IsFiniteSet({f[i] : i \in I})
    BY <1>6, ImageIsFinite
  <2> QED
    BY <2>1, FS_AddElement
<1> HIDE DEF I, R, head, f
<1> QED
  BY <1>4, <1>5, <1>9, <1>10, <1>11 DEF head


-----------------------------------------------------------------------------
(* Ratios, compared by multiplying across. *)

LEMMA TimesLeft ==
  ASSUME NEW k \in Int, k > 0, NEW m \in Int, NEW n \in Int
  PROVE  /\ k * m >= k * n <=> m >= n
         /\ k * m > k * n <=> m > n
OBVIOUS

LEMMA RatioTransitive ==
  ASSUME NEW n1 \in Nat, NEW n2 \in Nat, NEW n3 \in Nat,
         NEW d1 \in Nat, NEW d2 \in Nat, d2 > 0, NEW d3 \in Nat,
         n1 * d2 >= n2 * d1, n2 * d3 >= n3 * d2
  PROVE  n1 * d3 >= n3 * d1
<1>1. (n1 * d2) * d3 >= (n2 * d1) * d3
  OBVIOUS
<1>2. (n2 * d3) * d1 >= (n3 * d2) * d1
  OBVIOUS
<1>3. d2 * (n1 * d3) = (n1 * d2) * d3 /\ (n2 * d1) * d3 = (n2 * d3) * d1 /\ d2 * (n3 * d1) = (n3 * d2) * d1
  OBVIOUS
<1>4. PICK x \in Nat, y \in Nat, p \in Nat, q \in Nat, r \in Nat :
         /\ x = n1 * d3 /\ y = n3 * d1 /\ p = (n1 * d2) * d3 /\ q = (n2 * d1) * d3 /\ r = (n3 * d2) * d1
  <2>1. n1 * d3 \in Nat /\ n3 * d1 \in Nat /\ n1 * d2 \in Nat /\ n2 * d1 \in Nat /\ n3 * d2 \in Nat
    BY NatTimes
  <2> QED
    BY <2>1, NatTimes
<1>5. p >= q /\ q >= r /\ d2 * x = p /\ d2 * y = r
  BY <1>1, <1>2, <1>3, <1>4
<1>6. d2 * x >= d2 * y
  BY <1>5
<1>7. x >= y
  BY <1>6, TimesLeft
<1> QED
  BY <1>4, <1>7

\* A finite set has one with the greatest ratio.
LEMMA RatioMax ==
  ASSUME NEW S, IsFiniteSet(S), S # {}, NEW num, NEW den,
         \A x \in S : num[x] \in Nat /\ den[x] \in Nat /\ den[x] > 0
  PROVE  \E x \in S : \A y \in S : num[x] * den[y] >= num[y] * den[x]
<1> DEFINE Top(x, s) == \A y \in s : num[x] * den[y] >= num[y] * den[x]
           G == {s \in SUBSET S : s = {} \/ \E x \in s : Top(x, s)}
<1>1. ASSUME NEW s \in SUBSET S, \A x \in s : s \ {x} \in G
      PROVE  s \in G
  <2>1. CASE s = {}
    BY <2>1
  <2>2. CASE s # {}
    <3>1. PICK x \in s : TRUE
      BY <2>2
    <3>2. \A y \in s : num[y] \in Nat /\ den[y] \in Nat /\ den[y] > 0
      OBVIOUS
    <3>3. \A y, z \in s : num[y] * den[z] \in Nat
      BY <3>2, NatTimes
    <3>4. num[x] * den[x] >= num[x] * den[x]
      BY <3>3
    <3>5. CASE s \ {x} = {}
      <4>1. s = {x}
        BY <3>5
      <4> QED
        BY <3>4, <4>1
    <3>6. CASE s \ {x} # {}
      <4>1. PICK z \in s \ {x} : Top(z, s \ {x})
        BY <1>1, <3>6
      <4>2. CASE num[z] * den[x] >= num[x] * den[z]
        <5>1. Top(z, s)
          BY <4>1, <4>2
        <5> QED
          BY <5>1
      <4>3. CASE num[x] * den[z] >= num[z] * den[x]
        <5>1. ASSUME NEW y \in s \ {x}
              PROVE  num[x] * den[y] >= num[y] * den[x]
          <6>1. num[z] * den[y] >= num[y] * den[z]
            BY <4>1
          <6> QED
            BY <3>2, <4>3, <6>1, RatioTransitive
        <5>2. Top(x, s)
          BY <3>4, <5>1
        <5> QED
          BY <5>2
      <4>4. num[z] * den[x] \in Nat /\ num[x] * den[z] \in Nat
        BY <3>3
      <4> QED
        BY <4>2, <4>3, <4>4
    <3> QED
      BY <3>5, <3>6
  <2> QED
    BY <2>1, <2>2
<1> HIDE DEF G
<1>2. SUBSET S \subseteq G
  BY <1>1, SubsetInduction
<1>3. S \in G
  BY <1>2
<1> QED
  BY <1>3 DEF G

-----------------------------------------------------------------------------
(* The time of a step. *)

IsHw(hw) == hw.te \in Sizes /\ {hw.bw, hw.capacity, hw.usable} \subseteq Nat

LEMMA CostedIs ==
  ASSUME NEW b, IsBundle(b), NEW cfg, IsConfig(cfg), NEW op, IsPoint(op)
  PROVE  /\ IsFiniteSet(Costed(b, cfg, op)) /\ \A c \in Costed(b, cfg, op) : IsWork(c.work)
         /\ op.bs > 0 => \E c \in Costed(b, cfg, op) : c.work.in > 0
<1> DEFINE a == b.arch
           t == PerTypeTotals(b, cfg, op)
           records == ActivationRecords(a, cfg, op)
           Part(key, r, n) == (n * r.mult) \div Greatest(t[key].layers, 1)
           Split(key, r) ==
             [key |-> key,
              work |-> [weight |-> Part(key, r, t[key].weight), kv |-> Part(key, r, t[key].kv),
                        flops |-> Part(key, r, t[key].flops),
                        in |-> r.mult * r.instance.in, out |-> r.mult * r.instance.out, layers |-> r.mult],
              of |-> r.instance]
           Whole1(key) == [key |-> key, work |-> t[key], of |-> Instance(key[1], key[2], 0, 0)]
           At(key) == IF RecordsOf(records, key) = {} THEN {Whole1(key)}
                      ELSE {Split(key, r) : r \in RecordsOf(records, key)}
           D == DOMAIN t
           f == [key \in D |-> At(key)]
           s(key) == [r \in RecordsOf(records, key) |-> Split(key, r)]
<1>1. Costed(b, cfg, op) = UNION {At(key) : key \in D}
  BY DEF Costed, ApplyActivationRecords
<1>2. D = KeysOf(b) /\ IsFiniteSet(D) /\ <<"lm_head", "">> \in D
  BY PerTypeTotalsAre, SegmentsAreFinite
<1>3. \A key \in D : IsWork(t[key])
  BY <1>2, PerTypeTotalsAre
<1>4. /\ IsFiniteSet(records) /\ \A r \in records : IsRecord(r)
      /\ [instance |-> HeadInstance(a, cfg, op), mult |-> 1] \in records
  BY RecordsAre DEF IsBundle
<1>5. {At(key) : key \in D} = {f[key] : key \in D}
  OBVIOUS
<1>6. \A key : {Split(key, r) : r \in RecordsOf(records, key)} = {s(key)[r] : r \in RecordsOf(records, key)}
  OBVIOUS
<1>7. \A key : IsFiniteSet(RecordsOf(records, key)) /\ RecordsOf(records, key) \subseteq records
  BY <1>4, FS_Subset DEF RecordsOf
<1> HIDE DEF t, D, records
<1>8. ASSUME NEW key \in D
      PROVE  IsFiniteSet(At(key))
  <2>1. IsFiniteSet({s(key)[r] : r \in RecordsOf(records, key)})
    <3> HIDE DEF s
    <3> QED
      BY <1>7, ImageIsFinite
  <2>2. IsFiniteSet({Whole1(key)})
    BY FS_Singleton
  <2> HIDE DEF s, Whole1, Split
  <2> QED
    BY <1>6, <2>1, <2>2
<1>9. IsFiniteSet(UNION {At(key) : key \in D})
  <2>1. IsFiniteSet({f[key] : key \in D})
    <3> HIDE DEF f
    <3> QED
      BY <1>2, ImageIsFinite
  <2> HIDE DEF At, f
  <2>2. IsFiniteSet({At(key) : key \in D})
    BY <1>5, <2>1
  <2> QED
    BY <1>8, <2>2, FS_UNION
<1>10. ASSUME NEW key \in D, NEW r \in records
       PROVE  IsWork(Split(key, r).work)
  <2>1. r.mult \in Nat /\ r.instance.in \in Nat /\ r.instance.out \in Nat
    BY <1>4 DEF IsRecord, IsInstance
  <2>2. t[key].weight \in Nat /\ t[key].kv \in Nat /\ t[key].flops \in Nat /\ t[key].layers \in Nat
    BY <1>3 DEF IsWork
  <2>3. Greatest(t[key].layers, 1) \in Sizes
    BY <2>2, GreatestIsSize DEF Sizes
  <2>4. \A n \in Nat : Part(key, r, n) \in Nat
    <3> SUFFICES ASSUME NEW n \in Nat
                 PROVE  Part(key, r, n) \in Nat
      OBVIOUS
    <3>1. PICK m \in Nat : m = n * r.mult
      BY <2>1, NatTimes
    <3>2. m \div Greatest(t[key].layers, 1) \in Nat
      BY <2>3, DivNat
    <3> QED
      BY <3>1, <3>2
  <2>5. r.mult * r.instance.in \in Nat /\ r.mult * r.instance.out \in Nat
    BY <2>1, NatTimes
  <2>6. Part(key, r, t[key].weight) \in Nat /\ Part(key, r, t[key].kv) \in Nat /\ Part(key, r, t[key].flops) \in Nat
    <3> HIDE DEF Part
    <3> QED
      BY <2>2, <2>4
  <2> HIDE DEF Part
  <2> QED
    BY <2>1, <2>5, <2>6 DEF IsWork
<1>11. ASSUME NEW c \in Costed(b, cfg, op)
       PROVE  IsWork(c.work)
  <2>1. PICK key \in D : c \in At(key)
    <3> HIDE DEF At
    <3> QED
      BY <1>1
  <2>2. CASE RecordsOf(records, key) = {}
    <3>1. c = Whole1(key)
      <4> HIDE DEF Whole1
      <4> QED
        BY <2>1, <2>2
    <3>2. c.work = t[key]
      BY <3>1
    <3> QED
      BY <1>3, <3>2
  <2>3. CASE RecordsOf(records, key) # {}
    <3>1. PICK r \in RecordsOf(records, key) : c = Split(key, r)
      <4> HIDE DEF Split
      <4> QED
        BY <2>1, <2>3
    <3> HIDE DEF Split
    <3> QED
      BY <1>7, <1>10, <3>1
  <2> QED
    BY <2>2, <2>3
<1>12. ASSUME op.bs > 0
       PROVE  \E c \in Costed(b, cfg, op) : c.work.in > 0
  <2> DEFINE key == <<"lm_head", "">>
             i == HeadInstance(a, cfg, op)
             r == [instance |-> i, mult |-> 1]
  <2>1. IsInstance(i) /\ <<i.component, i.variant>> = key /\ i.in > 0
    <3>1. IsArch(a)
      BY DEF IsBundle
    <3> HIDE DEF a
    <3>2. IsInstance(i) /\ <<i.component, i.variant>> = <<"lm_head", "">> /\ (op.bs > 0 => i.in > 0)
      BY <3>1, HeadIs
    <3> QED
      BY <1>12, <3>2
  <2>2. r \in RecordsOf(records, key)
    BY <1>4, <2>1 DEF RecordsOf
  <2>3. Split(key, r).work.in = 1 * i.in
    OBVIOUS
  <2> HIDE DEF i, key, r
  <2>4. Split(key, r) \in At(key)
    <3> HIDE DEF Split
    <3> QED
      BY <2>2
  <2>5. key \in D
    BY <1>2 DEF key
  <2>6. Split(key, r) \in Costed(b, cfg, op)
    <3> HIDE DEF Split, At
    <3> QED
      BY <1>1, <2>4, <2>5
  <2>7. Split(key, r).work.in > 0
    <3>1. i.in \in Nat
      BY <2>1 DEF IsInstance
    <3> HIDE DEF Split
    <3> QED
      BY <2>1, <2>3, <3>1
  <2> HIDE DEF Split
  <2> QED
    BY <2>6, <2>7
<1> HIDE DEF At
<1> QED
  BY <1>1, <1>9, <1>11, <1>12

LEMMA StepTimeIs ==
  ASSUME NEW b, IsBundle(b), NEW cfg, IsConfig(cfg), NEW op, IsPoint(op), NEW hw, IsHw(hw)
  PROVE  /\ StepTime(hw, Costed(b, cfg, op)) \in Nat
         /\ op.bs > 0 => StepTime(hw, Costed(b, cfg, op)) > 0
<1> DEFINE C == Costed(b, cfg, op)
           v == [c \in C |-> RecordTime(hw, c.work)]
<1>1. IsFiniteSet(C) /\ (\A c \in C : IsWork(c.work)) /\ (op.bs > 0 => \E c \in C : c.work.in > 0)
  BY CostedIs
<1>2. hw.te \in Nat /\ hw.te > 0 /\ hw.bw \in Nat
  BY DEF IsHw, Sizes
<1>3. ASSUME NEW w, IsWork(w)
      PROVE  RecordTime(hw, w) \in Nat /\ (w.in > 0 => RecordTime(hw, w) > 0)
  <2>1. w.weight \in Nat /\ w.kv \in Nat /\ w.in \in Nat /\ w.out \in Nat /\ w.flops \in Nat
    BY <1>3 DEF IsWork
  <2>2. PICK n \in Nat : n = HbmBytes(w) /\ (w.in > 0 => n > 0)
    BY <2>1 DEF HbmBytes
  <2>3. n * hw.te \in Nat /\ (n > 0 => n * hw.te > 0)
    BY <1>2, <2>2, Product2
  <2>4. w.flops * hw.bw \in Nat
    BY <1>2, <2>1, NatTimes
  <2>5. RecordTime(hw, w) = Greatest(n * hw.te, w.flops * hw.bw)
    BY <2>2 DEF RecordTime, LoadTime, FlopTime
  <2>6. PICK x \in Nat, y \in Nat : x = n * hw.te /\ y = w.flops * hw.bw
    BY <2>3, <2>4
  <2>7. Greatest(x, y) \in Nat /\ Greatest(x, y) >= x
    BY DEF Greatest
  <2> QED
    BY <2>2, <2>3, <2>5, <2>6, <2>7
<1>4. \A c \in C : v[c] \in Nat /\ (c.work.in > 0 => v[c] > 0)
  BY <1>1, <1>3
<1>5. StepTime(hw, C) = Total(v) /\ v = On(v, C)
  BY DEF StepTime, On
<1> HIDE DEF C, v
<1>6. Summable(v, C)
  BY <1>1, <1>4 DEF Summable
<1>7. Total(v) \in Nat
  BY <1>5, <1>6, TotalIsNat
<1>8. ASSUME op.bs > 0
      PROVE  Total(v) > 0
  <2>1. PICK c \in C : c.work.in > 0
    BY <1>1, <1>8
  <2>2. Total(v) >= v[c]
    BY <1>5, <1>6, TotalAtLeast
  <2> QED
    BY <1>4, <1>7, <2>1, <2>2
<1> QED
  BY <1>5, <1>7, <1>8 DEF C


LEMMA RingIs ==
  ASSUME NEW n \in Nat, NEW bytes \in Nat
  PROVE  RingAllreduce(n, bytes) \in Nat
<1>1. CASE n <= 1
  BY <1>1 DEF RingAllreduce
<1>2. CASE n > 1
  <2>1. WireCost \in Nat /\ HopLatency \in Nat
    BY CommAssumption
  <2>2. WireCost * bytes \in Nat /\ n \in Sizes
    BY <1>2, <2>1, NatTimes DEF Sizes
  <2>3. Share(WireCost * bytes, n) \in Nat
    BY <2>2, ShareIsNat
  <2>4. HopLatency + Share(WireCost * bytes, n) \in Nat /\ 2 * (n - 1) \in Nat
    BY <1>2, <2>1, <2>3
  <2>5. 2 * (n - 1) * (HopLatency + Share(WireCost * bytes, n)) \in Nat
    BY <2>4, NatTimes
  <2> QED
    BY <1>2, <2>5 DEF RingAllreduce
<1> QED
  BY <1>1, <1>2

\* What layers hold, summed over the groups.
LEMMA OverLayersIs ==
  ASSUME NEW a, IsArch(a), NEW per, \A i \in DOMAIN a.groups : per[a.groups[i]] \in Nat
  PROVE  OverLayers(a, per) \in Nat
<1> DEFINE v == [i \in DOMAIN a.groups |-> a.groups[i].count * per[a.groups[i]]]
<1>1. \A i \in DOMAIN a.groups : a.groups[i].count \in Nat
  BY GroupDims DEF IsArch
<1>2. \A i \in DOMAIN a.groups : v[i] \in Nat
  BY <1>1, NatTimes
<1>3. v = On(v, DOMAIN a.groups) /\ OverLayers(a, per) = Total(v)
  BY DEF On, OverLayers
<1> HIDE DEF v
<1>4. Summable(v, DOMAIN a.groups)
  BY <1>2 DEF Summable, IsArch
<1> QED
  BY <1>3, <1>4, TotalIsNat

LEMMA NumLayersIs ==
  ASSUME NEW a, IsArch(a)
  PROVE  NumLayers(a) \in Nat
<1>1. NumLayers(a) = Total([i \in DOMAIN a.groups |-> a.groups[i].count])
  BY DEF NumLayers
<1> QED
  BY <1>1, LayersAreNat

LEMMA CommIs ==
  ASSUME NEW a, IsArch(a), NEW cfg, IsConfig(cfg), NEW op, IsPoint(op)
  PROVE  CommTotal(a, cfg, op) \in Nat
<1>1. /\ a.hidden \in Nat /\ a.dtype \in Nat /\ OpTokens(op) \in Nat /\ NumLayers(a) \in Nat
      /\ cfg.tp \in Sizes /\ cfg.cp \in Sizes /\ cfg.ep \in BOOLEAN /\ World(cfg) \in Sizes
  BY ElementBytes, TokensAre, NumLayersIs, HeadDivisors DEF IsConfig
<1>2. ActBytes(a, op) \in Nat
  <2>1. OpTokens(op) * a.hidden \in Nat
    BY <1>1, NatTimes
  <2> QED
    BY <1>1, <2>1, NatTimes DEF ActBytes
<1>3. CommTp(a, cfg, op) \in Nat
  <2>1. RingAllreduce(cfg.tp, ActBytes(a, op)) \in Nat /\ 2 * NumLayers(a) \in Nat
    <3>1. cfg.tp \in Nat
      BY <1>1 DEF Sizes
    <3>2. 2 * NumLayers(a) \in Nat
      BY <1>1
    <3> QED
      BY <1>2, <3>1, <3>2, RingIs
  <2> QED
    BY <2>1, NatTimes DEF CommTp
<1>4. CommCp(a, cfg, op) \in Nat
  <2> DEFINE S == ToSet(a.groups)
             P(g) == \A h \in S : g.nq * h.nkv >= h.nq * g.nkv
             num == [g \in S |-> g.nq]
             den == [g \in S |-> g.nkv]
             best == CHOOSE g \in S : P(g)
  <2>1. S = {a.groups[i] : i \in DOMAIN a.groups}
    BY DEF ToSet
  <2>2. \A g \in S : IsGroup(g)
    BY <2>1 DEF IsArch
  <2>3. IsFiniteSet(S) /\ S # {}
    <3>1. IsFiniteSet(DOMAIN a.groups) /\ DOMAIN a.groups # {}
      BY DEF IsArch
    <3>2. IsFiniteSet({a.groups[i] : i \in DOMAIN a.groups})
      BY <3>1, ImageIsFinite
    <3> QED
      BY <2>1, <3>1, <3>2
  <2>4. \A g \in S : g.nq \in Nat /\ g.nq > 0 /\ g.nkv \in Nat /\ g.nkv > 0
    BY <2>2, GroupDims
  <2>5. \A g \in S : num[g] = g.nq /\ den[g] = g.nkv
    OBVIOUS
  <2> HIDE DEF S, num, den
  <2>6. \E g \in S : \A h \in S : num[g] * den[h] >= num[h] * den[g]
    BY <2>3, <2>4, <2>5, RatioMax
  <2>7. \E g \in S : P(g)
    BY <2>5, <2>6
  <2> HIDE DEF P
  <2>8. best \in S
    BY <2>7
  <2>9. CommCp(a, cfg, op) = IF cfg.cp <= 1 THEN 0
          ELSE NumLayers(a) * (HopLatency
               + 2 * (cfg.cp - 1) * (Share(WireCost * ActBytes(a, op) * best.nkv, cfg.cp) \div best.nq))
    BY DEF CommCp, best, P, S
  <2> HIDE DEF best
  <2>10. CASE cfg.cp > 1
    <3>1. best.nkv \in Nat /\ best.nq \in Sizes /\ WireCost \in Nat /\ HopLatency \in Nat
      BY <2>4, <2>8, CommAssumption DEF Sizes
    <3>2. WireCost * ActBytes(a, op) \in Nat
      BY <1>2, <3>1, NatTimes
    <3>3. WireCost * ActBytes(a, op) * best.nkv \in Nat
      BY <3>1, <3>2, NatTimes
    <3>4. Share(WireCost * ActBytes(a, op) * best.nkv, cfg.cp) \in Nat
      BY <1>1, <3>3, ShareIsNat
    <3>5. PICK n \in Nat : n = Share(WireCost * ActBytes(a, op) * best.nkv, cfg.cp) \div best.nq
      BY <3>1, <3>4, DivNat
    <3>6. 2 * (cfg.cp - 1) \in Nat
      BY <1>1, <2>10 DEF Sizes
    <3>7. 2 * (cfg.cp - 1) * n \in Nat
      BY <3>6, NatTimes
    <3>8. HopLatency + 2 * (cfg.cp - 1) * n \in Nat
      BY <3>1, <3>7, NatPlus
    <3>9. NumLayers(a) * (HopLatency + 2 * (cfg.cp - 1) * n) \in Nat
      BY <1>1, <3>8, NatTimes
    <3> QED
      BY <1>1, <2>9, <2>10, <3>5, <3>9 DEF Sizes
  <2>11. CASE cfg.cp <= 1
    BY <2>9, <2>11
  <2> QED
    BY <1>1, <2>10, <2>11 DEF Sizes
<1>5. CommEp(a, cfg, op) \in Nat
  <2> DEFINE span == IF cfg.ep THEN World(cfg) ELSE 1
             per == [g \in GroupSet(a) |-> IF g.experts > 1 THEN 1 ELSE 0]
             wider == RingAllreduce(span, ActBytes(a, op)) - RingAllreduce(cfg.tp, ActBytes(a, op))
  <2>1. \A i \in DOMAIN a.groups : per[a.groups[i]] \in Nat
    BY DEF GroupSet, ToSet
  <2>2. CommEp(a, cfg, op) = IF span <= cfg.tp \/ a.experts <= 1 THEN 0 ELSE OverLayers(a, per) * Greatest(wider, 0)
    BY DEF CommEp
  <2>3. span \in Nat /\ cfg.tp \in Nat
    BY <1>1 DEF Sizes
  <2> HIDE DEF per, span
  <2>4. OverLayers(a, per) \in Nat
    BY <2>1, OverLayersIs
  <2>5. RingAllreduce(span, ActBytes(a, op)) \in Nat /\ RingAllreduce(cfg.tp, ActBytes(a, op)) \in Nat
    BY <1>2, <2>3, RingIs
  <2>6. Greatest(wider, 0) \in Nat
    BY <2>5 DEF Greatest
  <2> HIDE DEF wider
  <2>7. OverLayers(a, per) * Greatest(wider, 0) \in Nat
    BY <2>4, <2>6, NatTimes
  <2> QED
    BY <2>2, <2>7
<1> QED
  BY <1>3, <1>4, <1>5 DEF CommTotal

\* A cell is of the configuration and the batch that it is asked for, and a
\* step of it takes some time.
IsCellOf(r, cfg, s, bs) ==
  /\ r.cfg = cfg /\ r.s = s /\ r.bs = bs /\ r.cores = World(cfg) /\ r.cores \in Nat /\ r.cores > 0
  /\ r.step \in Nat /\ (bs > 0 => r.step > 0)

LEMMA CellIs ==
  ASSUME NEW b, IsBundle(b), NEW cfg, IsConfig(cfg), NEW hw, IsHw(hw),
         NEW s \in Nat, NEW bs \in Nat, NEW prefill
  PROVE  IsCellOf(Cell(b, hw, cfg, s, bs, prefill), cfg, s, bs)
<1> DEFINE op == [s |-> s, bs |-> bs, regime |-> Regime(b.arch, prefill)]
           step == StepMs(b.arch, hw, cfg, op, Costed(b, cfg, op))
           r == Cell(b, hw, cfg, s, bs, prefill)
<1>1. IsPoint(op) /\ op.bs = bs
  BY DEF IsPoint, Regime, Regimes
<1>2. r.cfg = cfg /\ r.s = s /\ r.bs = bs /\ r.cores = World(cfg) /\ r.step = step
  BY DEF Cell, CellTotals
<1>3. World(cfg) \in Nat /\ World(cfg) > 0
  <2>1. 0 \in Nat /\ FALSE \in BOOLEAN
    OBVIOUS
  <2>2. World(cfg) \in Sizes
    BY <2>1, HeadDivisors
  <2> QED
    BY <2>2 DEF Sizes
<1> HIDE DEF op, r
<1>4. StepTime(hw, Costed(b, cfg, op)) \in Nat /\ (bs > 0 => StepTime(hw, Costed(b, cfg, op)) > 0)
  BY <1>1, StepTimeIs
<1>5. CommTotal(b.arch, cfg, op) \in Nat
  BY <1>1, CommIs DEF IsBundle
<1>6. step \in Nat /\ (bs > 0 => step > 0)
  BY <1>4, <1>5 DEF StepMs
<1> HIDE DEF step
<1> QED
  BY <1>2, <1>3, <1>6 DEF r, IsCellOf


-----------------------------------------------------------------------------
(* The frontiers and the selection, of any rows. *)

IsRow(r) == /\ r.bs \in Nat /\ r.bs > 0 /\ r.step \in Nat /\ r.step > 0
            /\ r.cores \in Nat /\ r.cores > 0
AreRows(rows) == IsFiniteSet(rows) /\ \A r \in rows : IsRow(r)

\* Tokens per second and node of x, at least those of y.
Serves(x, y) == x.bs * (y.step * y.cores) >= y.bs * (x.step * x.cores)

LEMMA ServesIs ==
  ASSUME NEW x, NEW y, IsRow(x), IsRow(y)
  PROVE  /\ AtLeast(NodeThroughput(x), NodeThroughput(y)) <=> Serves(x, y)
         /\ More(NodeThroughput(x), NodeThroughput(y)) <=> ~Serves(y, x)
         /\ Serves(x, y) \/ Serves(y, x)
         /\ x.bs * y.step * y.cores <= y.bs * x.step * x.cores <=> Serves(y, x)
         /\ x.bs * y.step * y.cores = y.bs * x.step * x.cores <=> Serves(x, y) /\ Serves(y, x)
<1>1. /\ x.bs \in Nat /\ x.step \in Nat /\ x.cores \in Nat
      /\ y.bs \in Nat /\ y.step \in Nat /\ y.cores \in Nat
  BY DEF IsRow
<1>2. PICK m \in Nat, n \in Nat : m = x.bs * (y.step * y.cores) /\ n = y.bs * (x.step * x.cores)
  BY <1>1, NatTimes
<1>3. x.bs * y.step * y.cores = m /\ y.bs * x.step * x.cores = n
  BY <1>1, <1>2
<1> QED
  BY <1>2, <1>3 DEF AtLeast, More, NodeThroughput, Serves

LEMMA ServesTransitive ==
  ASSUME NEW x, NEW y, NEW z, IsRow(x), IsRow(y), IsRow(z), Serves(x, y), Serves(y, z)
  PROVE  Serves(x, z)
<1> DEFINE D(r) == r.step * r.cores
<1>1. x.bs \in Nat /\ y.bs \in Nat /\ z.bs \in Nat
  BY DEF IsRow
<1>2. \A r : IsRow(r) => D(r) \in Nat /\ D(r) > 0
  BY Product2 DEF IsRow
<1>3. D(x) \in Nat /\ D(y) \in Nat /\ D(y) > 0 /\ D(z) \in Nat
  BY <1>2
<1>4. x.bs * D(y) >= y.bs * D(x) /\ y.bs * D(z) >= z.bs * D(y)
  BY DEF Serves
<1> HIDE DEF D
<1>5. x.bs * D(z) >= z.bs * D(x)
  BY <1>1, <1>3, <1>4, RatioTransitive
<1> QED
  BY <1>5 DEF Serves, D

\* The frontier per node is part of the other one.
LEMMA FrontiersNest ==
  ASSUME NEW rows, AreRows(rows)
  PROVE  ParetoPn(rows) \subseteq Pareto(rows)
<1> SUFFICES ASSUME NEW r \in rows, NEW o \in rows, Dominates(o, r)
             PROVE  DominatesPerNode(o, r)
  BY DEF Pareto, ParetoPn
<1>1. IsRow(r) /\ IsRow(o)
  BY DEF AreRows
<1>2. /\ r.bs \in Nat /\ r.bs > 0 /\ r.step \in Nat /\ r.step > 0 /\ r.cores \in Nat /\ r.cores > 0
      /\ o.bs \in Nat /\ o.bs > 0 /\ o.step \in Nat /\ o.step > 0 /\ o.cores \in Nat /\ o.cores > 0
  BY <1>1 DEF IsRow
<1>3. PICK p \in Nat, q \in Nat : p = o.bs * r.step /\ q = r.bs * o.step /\ q > 0
  <2>1. o.bs * r.step \in Nat /\ r.bs * o.step \in Nat /\ r.bs * o.step > 0
    BY <1>2, Product2
  <2> QED
    BY <2>1
<1>4. /\ p >= q /\ o.step <= r.step /\ o.cores <= r.cores
      /\ p > q \/ o.step < r.step \/ o.cores < r.cores
  BY <1>3 DEF Dominates, AtLeast, More, Rate
<1>5. o.bs * (r.step * r.cores) = r.cores * p /\ r.bs * (o.step * o.cores) = o.cores * q
  BY <1>2, <1>3
<1>6. PICK x \in Nat, y \in Nat, z \in Nat : x = r.cores * p /\ y = r.cores * q /\ z = o.cores * q
  BY <1>2, NatTimes
<1>7. x >= y /\ (p > q => x > y)
  BY <1>2, <1>4, <1>6, TimesLeft
<1>8. y >= z /\ (o.cores < r.cores => y > z)
  <2>1. q * r.cores >= q * o.cores /\ (o.cores < r.cores => q * r.cores > q * o.cores)
    BY <1>2, <1>3, <1>4, TimesLeft
  <2>2. q * r.cores = y /\ q * o.cores = z
    BY <1>2, <1>6
  <2> QED
    BY <2>1, <2>2
<1>9. Serves(o, r) /\ (p > q \/ o.cores < r.cores => ~Serves(r, o))
  BY <1>4, <1>5, <1>6, <1>7, <1>8 DEF Serves
<1> QED
  BY <1>1, <1>4, <1>9, ServesIs DEF DominatesPerNode

\* Some row has the least of a measure.
LEMMA LeastRow ==
  ASSUME NEW S, S # {}, NEW f, \A x \in S : f[x] \in Nat
  PROVE  \E x \in S : \A y \in S : f[x] <= f[y]
<1> DEFINE T == {f[x] : x \in S}
<1>1. T \subseteq Nat /\ T # {}
  OBVIOUS
<1>2. PICK t \in T : \A u \in T : t <= u
  <2> HIDE DEF T
  <2> QED
    BY <1>1, LeastNatural
<1> QED
  BY <1>2

LEMMA BestExists ==
  ASSUME NEW valid, AreRows(valid), valid # {}
  PROVE  BestOf(valid) # {}
<1> DEFINE num == [x \in valid |-> x.bs]
           den == [x \in valid |-> x.step * x.cores]
           T == {x \in valid : \A y \in valid : Serves(x, y)}
           f == [x \in T |-> x.cores]
<1>1. IsFiniteSet(valid) /\ \A x \in valid : IsRow(x)
  BY DEF AreRows
<1>2. \A x \in valid : num[x] \in Nat /\ den[x] \in Nat /\ den[x] > 0
  BY <1>1, Product2 DEF IsRow
<1>3. \A x, y \in valid : num[x] * den[y] >= num[y] * den[x] <=> Serves(x, y)
  BY DEF Serves
<1> HIDE DEF num, den
<1>4. \E x \in valid : \A y \in valid : num[x] * den[y] >= num[y] * den[x]
  BY <1>1, <1>2, RatioMax
<1>5. T # {}
  BY <1>3, <1>4
<1>6. \A x \in T : f[x] = x.cores /\ f[x] \in Nat
  BY <1>1 DEF IsRow
<1> HIDE DEF f
<1>7. PICK r \in T : \A y \in T : r.cores <= y.cores
  <2> HIDE DEF T
  <2>1. \E x \in T : \A y \in T : f[x] <= f[y]
    BY <1>5, <1>6, LeastRow
  <2> QED
    BY <1>6, <2>1
<1>8. r \in BestOf(valid)
  <2> SUFFICES ASSUME NEW o \in valid
               PROVE  /\ ~More(NodeThroughput(o), NodeThroughput(r))
                      /\ AtLeast(NodeThroughput(o), NodeThroughput(r)) => r.cores <= o.cores
    BY DEF BestOf
  <2>1. IsRow(o) /\ IsRow(r) /\ Serves(r, o)
    BY <1>1
  <2>2. ~More(NodeThroughput(o), NodeThroughput(r))
    BY <2>1, ServesIs
  <2>3. ASSUME AtLeast(NodeThroughput(o), NodeThroughput(r))
        PROVE  r.cores <= o.cores
    <3>1. Serves(o, r)
      BY <2>1, <2>3, ServesIs
    <3>2. \A y \in valid : Serves(o, y)
      BY <1>1, <2>1, <3>1, ServesTransitive
    <3> QED
      BY <1>7, <3>2
  <2> QED
    BY <2>2, <2>3
<1> QED
  BY <1>8

LEMMA ClosestExists ==
  ASSUME NEW pool, \A r \in pool : r.cores \in Nat, pool # {}, NEW ttft, \A r \in pool : ttft[r.cfg] \in Nat
  PROVE  ClosestOf(pool, ttft) # {}
<1> DEFINE f == [r \in pool |-> ttft[r.cfg]]
<1>1. PICK x \in pool : \A y \in pool : f[x] <= f[y]
  <2>1. \A r \in pool : f[r] \in Nat
    OBVIOUS
  <2> HIDE DEF f
  <2> QED
    BY <2>1, LeastRow
<1> DEFINE T == {r \in pool : ttft[r.cfg] = ttft[x.cfg]}
           g == [r \in T |-> r.cores]
<1>2. PICK r \in T : \A y \in T : g[r] <= g[y]
  <2>1. T # {} /\ \A y \in T : g[y] \in Nat
    OBVIOUS
  <2> HIDE DEF g, T
  <2> QED
    BY <2>1, LeastRow
<1>3. ASSUME NEW o \in pool
      PROVE  ttft[r.cfg] < ttft[o.cfg] \/ (ttft[r.cfg] = ttft[o.cfg] /\ r.cores <= o.cores)
  <2>1. ttft[r.cfg] = ttft[x.cfg] /\ ttft[x.cfg] <= ttft[o.cfg] /\ ttft[x.cfg] \in Nat /\ ttft[o.cfg] \in Nat
    BY <1>1
  <2>2. CASE ttft[o.cfg] = ttft[x.cfg]
    BY <1>2, <2>1, <2>2
  <2>3. CASE ttft[o.cfg] # ttft[x.cfg]
    BY <2>1, <2>3
  <2> QED
    BY <2>2, <2>3
<1> QED
  BY <1>3 DEF ClosestOf

\* What select_colocated picks.
IsSelection(selection, valid, rows) ==
  /\ selection.met = (valid # {})
  /\ selection.picks \subseteq rows
  /\ rows # {} => selection.picks # {}
  /\ selection.met => selection.picks = BestOf(valid)

LEMMA SelectionIs ==
  ASSUME NEW sp, NEW rows, AreRows(rows), NEW ttft, \A r \in rows : ttft[r.cfg] \in Nat
  PROVE  IsSelection(SelectColocated(sp, rows, ttft), Valid(sp, rows, ttft), rows)
<1> DEFINE valid == Valid(sp, rows, ttft)
           itlOk == {r \in rows : ItlOk(sp, r)}
           pool == IF itlOk # {} THEN itlOk ELSE rows
           selection == SelectColocated(sp, rows, ttft)
<1>1. valid \subseteq rows /\ AreRows(valid)
  BY FS_Subset DEF Valid, AreRows
<1>2. pool \subseteq rows /\ (rows # {} => pool # {})
  OBVIOUS
<1>3. CASE valid # {}
  <2>1. selection = [met |-> TRUE, picks |-> BestOf(valid)]
    BY <1>3 DEF SelectColocated
  <2>2. selection.met = TRUE /\ selection.picks = BestOf(valid)
    BY <2>1
  <2> HIDE DEF valid, selection
  <2>3. BestOf(valid) # {} /\ BestOf(valid) \subseteq valid
    BY <1>1, <1>3, BestExists DEF BestOf
  <2> QED
    BY <1>1, <1>3, <2>2, <2>3 DEF selection, valid, IsSelection
<1>4. CASE valid = {}
  <2>1. selection = [met |-> FALSE, picks |-> ClosestOf(pool, ttft)]
    BY <1>4 DEF SelectColocated
  <2>2. selection.met = FALSE /\ selection.picks = ClosestOf(pool, ttft)
    BY <2>1
  <2> HIDE DEF valid, selection, pool
  <2>3. ClosestOf(pool, ttft) \subseteq pool
    BY DEF ClosestOf
  <2>4. ASSUME rows # {}
        PROVE  ClosestOf(pool, ttft) # {}
    <3>1. pool # {} /\ (\A r \in pool : r.cores \in Nat) /\ \A r \in pool : ttft[r.cfg] \in Nat
      BY <1>2, <2>4 DEF AreRows, IsRow
    <3> QED
      BY <3>1, ClosestExists
  <2> QED
    BY <1>2, <1>4, <2>2, <2>3, <2>4 DEF selection, valid, IsSelection
<1> QED
  BY <1>3, <1>4

\* A best row is matched on the frontier per node, if every row prefills in time.
LEMMA BestIsOnFrontier ==
  ASSUME NEW sp, ItlCeiling(sp) \in Int, NEW rows, AreRows(rows), NEW ttft,
         NEW r \in BestOf(Valid(sp, rows, ttft)), \A o \in rows : TtftOk(sp, ttft, o)
  PROVE  \E o \in ParetoPn(rows) : Serves(o, r) /\ Serves(r, o)
<1> DEFINE valid == Valid(sp, rows, ttft)
           T == {x \in rows : Serves(x, r) /\ x.step <= r.step}
           f == [x \in T |-> x.step]
<1>1. r \in valid /\ r \in rows /\ IsRow(r) /\ \A x \in rows : IsRow(x)
  BY DEF BestOf, Valid, AreRows
<1>2. ASSUME NEW x \in rows, x.step <= r.step
      PROVE  Serves(r, x)
  <2>1. r.step <= ItlCeiling(sp) /\ r.step \in Nat /\ x.step \in Nat
    BY <1>1 DEF Valid, ItlOk, IsRow
  <2>2. x.step <= ItlCeiling(sp)
    BY <1>2, <2>1
  <2>3. x \in valid
    BY <2>2 DEF Valid, ItlOk
  <2>4. ~More(NodeThroughput(x), NodeThroughput(r))
    BY <2>3 DEF BestOf
  <2> QED
    BY <1>1, <2>4, ServesIs
<1>3. r \in T
  <2>1. Serves(r, r) /\ r.step <= r.step
    BY <1>1, ServesIs DEF IsRow
  <2> QED
    BY <1>1, <2>1
<1>4. PICK x \in T : \A y \in T : x.step <= y.step
  <2>1. \A y \in T : f[y] = y.step /\ f[y] \in Nat
    BY <1>1 DEF IsRow
  <2>2. T # {}
    BY <1>3
  <2> HIDE DEF f, T
  <2>3. \E y \in T : \A z \in T : f[y] <= f[z]
    BY <2>1, <2>2, LeastRow
  <2> QED
    BY <2>1, <2>3
<1>5. x \in rows /\ Serves(x, r) /\ x.step <= r.step /\ IsRow(x)
  BY <1>1
<1>6. ASSUME NEW o \in rows, DominatesPerNode(o, x)
      PROVE  FALSE
  <2>1. IsRow(o) /\ o.step <= x.step /\ Serves(o, x)
    BY <1>1, <1>5, <1>6, ServesIs DEF DominatesPerNode
  <2>2. Serves(o, r) /\ o.step <= r.step
    BY <1>1, <1>5, <2>1, ServesTransitive DEF IsRow
  <2>3. Serves(r, o)
    BY <1>2, <2>2
  <2>4. Serves(x, o)
    BY <1>1, <1>5, <2>1, <2>3, ServesTransitive
  <2>5. o.step < x.step
    BY <1>5, <1>6, <2>1, <2>4, ServesIs DEF DominatesPerNode
  <2>6. x.step <= o.step
    BY <1>4, <2>2
  <2> QED
    BY <1>5, <2>1, <2>5, <2>6 DEF IsRow
<1>7. x \in ParetoPn(rows)
  BY <1>5, <1>6 DEF ParetoPn
<1> QED
  BY <1>2, <1>5, <1>7


-----------------------------------------------------------------------------
(* The architecture and the machine of a run-spec that is not refused.       *)

IsHfOf(hf) == hf \in HfConfigs /\ hf.firstDense <= hf.numLayers

LEMMA SizesOfHf ==
  ASSUME NEW hf, IsHfOf(hf)
  PROVE  /\ NumExpertsOf(hf) \in Nat /\ MoeInterOf(hf) \in Nat /\ SharedWidthOf(hf) \in Nat
         /\ hf.inter \in Nat /\ hf.inter + SharedWidthOf(hf) \in Nat
         /\ hf.numLayers \in Nat /\ hf.firstDense \in Nat /\ hf.numLayers - hf.firstDense \in Nat
         /\ hf.window \in Nat /\ hf.globalNkv \in Nat /\ hf.globalDim \in Nat
<1>1. /\ hf.nRouted \in Nat /\ hf.numExperts \in Nat /\ hf.moeInter \in Nat /\ hf.inter \in Nat
      /\ hf.sharedWidth \in Nat /\ hf.nShared \in Nat /\ hf.numLayers \in Nat /\ hf.firstDense \in Nat
      /\ hf.window \in Nat /\ hf.globalNkv \in Nat /\ hf.globalDim \in Nat /\ hf.firstDense <= hf.numLayers
  BY DEF IsHfOf, HfConfigs, Sizes
<1>2. MoeInterOf(hf) \in Nat
  BY <1>1 DEF MoeInterOf
<1>3. hf.nShared * MoeInterOf(hf) \in Nat
  BY <1>1, <1>2, NatTimes
<1>4. SharedWidthOf(hf) \in Nat
  BY <1>1, <1>3 DEF SharedWidthOf
<1> QED
  BY <1>1, <1>2, <1>4 DEF NumExpertsOf

LEMMA GroupOfHf ==
  ASSUME NEW hf, IsHfOf(hf), NEW count \in Nat, NEW cap \in Nat, NEW dense \in Nat, NEW routed \in BOOLEAN
  PROVE  IsGroup(Group(hf, count, cap, dense, routed))
<1> DEFINE g == Group(hf, count, cap, dense, routed)
<1>1. /\ hf.nq \in Sizes /\ hf.nkv \in Nat /\ hf.dim \in Nat /\ hf.hidden \in Nat /\ hf.active \in Nat
      /\ hf.mla = <<>> \/ hf.mla \in [qRank : Nat, kvRank : Nat, nope : Nat, rope : Nat, vDim : Nat]
  BY DEF IsHfOf, HfConfigs, Sizes
<1>2. MoeInterOf(hf) \in Nat /\ NumExpertsOf(hf) \in Nat
  BY SizesOfHf
<1>3. hf.hidden \div hf.nq \in Nat
  BY <1>1, DivNat
<1>4. g.nq \in Sizes /\ g.nkv \in Sizes
  BY <1>1 DEF Group, None, Sizes
<1>5. g.count \in Nat /\ g.dim \in Nat /\ g.cap \in Nat /\ g.dense \in Nat
  BY <1>1, <1>3 DEF Group
<1>6. g.moe \in Nat /\ g.experts \in Nat /\ g.active \in Nat
  BY <1>1, <1>2 DEF Group
<1>7. g.hasMla = (hf.mla # <<>>) /\ g.mla = hf.mla
  BY DEF Group
<1>8. hf.mla # <<>> => IsMla(hf.mla)
  BY <1>1 DEF IsMla
<1> HIDE DEF g
<1>9. IsGroup(g)
  BY <1>4, <1>5, <1>6, <1>7, <1>8 DEF IsGroup
<1> QED
  BY <1>9 DEF g

LEMMA MixedGroupsAre ==
  ASSUME NEW hf, IsHfOf(hf)
  PROVE  LET groups == MixedGroups(hf)
         IN  /\ DOMAIN groups \in {{1}, {1, 2}} /\ \A i \in DOMAIN groups : IsGroup(groups[i])
             /\ \A i \in DOMAIN hf.layerTypes : hf.layerTypes[i] = "full" => 2 \in DOMAIN groups
<1> DEFINE Of(kind) == {i \in DOMAIN hf.layerTypes : hf.layerTypes[i] = kind}
           routed == NumExpertsOf(hf) > 0
           plain == [hf EXCEPT !.mla = <<>>]
           width == hf.inter + SharedWidthOf(hf)
           sliding == Group(plain, Cardinality(Of("sliding")), hf.window, width, routed)
           whole == Group(plain, Cardinality(Of("full")), None, width, routed)
           full == [whole EXCEPT !.nkv = IF hf.globalNkv = None THEN @ ELSE hf.globalNkv,
                                 !.dim = IF hf.globalDim = None THEN @ ELSE hf.globalDim]
<1>1. /\ width \in Nat /\ hf.window \in Nat /\ hf.globalNkv \in Nat /\ hf.globalDim \in Nat
      /\ routed \in BOOLEAN /\ None \in Nat
  BY SizesOfHf DEF None
<1>2. IsHfOf(plain)
  BY DEF IsHfOf, HfConfigs
<1>3. \A kind : IsFiniteSet(Of(kind))
  <2>1. hf.layerTypes \in Seq({"sliding", "full"})
    BY DEF IsHfOf, HfConfigs
  <2>2. DOMAIN hf.layerTypes = 1..Len(hf.layerTypes) /\ Len(hf.layerTypes) \in Nat
    BY <2>1
  <2>3. IsFiniteSet(DOMAIN hf.layerTypes)
    BY <2>2, FS_Interval
  <2> QED
    BY <2>3, FS_Subset
<1>4. \A kind : Cardinality(Of(kind)) \in Nat /\ (Cardinality(Of(kind)) = 0 <=> Of(kind) = {})
  BY <1>3, FS_CardinalityType, FS_EmptySet
<1>5. IsGroup(sliding)
  <2> HIDE DEF plain, width, routed, Of
  <2> QED
    BY <1>1, <1>2, <1>4, GroupOfHf
<1>6. IsGroup(whole)
  <2> HIDE DEF plain, width, routed, Of
  <2> QED
    BY <1>1, <1>2, <1>4, GroupOfHf
<1>7. IsGroup(full)
  <2>1. {"count", "nq", "nkv", "dim", "cap", "hasMla", "mla", "dense", "moe", "experts", "active"} = DOMAIN whole
    BY DEF Group
  <2> HIDE DEF whole
  <2>2. /\ full.count = whole.count /\ full.nq = whole.nq /\ full.cap = whole.cap /\ full.hasMla = whole.hasMla
        /\ full.mla = whole.mla /\ full.dense = whole.dense /\ full.moe = whole.moe /\ full.experts = whole.experts
        /\ full.active = whole.active
        /\ full.nkv = IF hf.globalNkv = None THEN whole.nkv ELSE hf.globalNkv
        /\ full.dim = IF hf.globalDim = None THEN whole.dim ELSE hf.globalDim
    BY <2>1
  <2> HIDE DEF full
  <2> QED
    BY <1>1, <1>6, <2>2 DEF IsGroup, Sizes, None
<1>8. MixedGroups(hf) = IF Cardinality(Of("full")) = 0 THEN <<sliding>> ELSE <<sliding, full>>
  BY DEF MixedGroups
<1> HIDE DEF sliding, full
<1>9. CASE Cardinality(Of("full")) = 0
  <2>1. MixedGroups(hf) = <<sliding>>
    BY <1>8, <1>9
  <2>2. Of("full") = {}
    BY <1>4, <1>9
  <2> QED
    BY <1>5, <2>1, <2>2
<1>10. CASE Cardinality(Of("full")) # 0
  <2>1. MixedGroups(hf) = <<sliding, full>>
    BY <1>8, <1>10
  <2>2. DOMAIN MixedGroups(hf) = {1, 2} /\ MixedGroups(hf)[1] = sliding /\ MixedGroups(hf)[2] = full
    BY <2>1
  <2> QED
    BY <1>5, <1>7, <2>2
<1> QED
  BY <1>9, <1>10

LEMMA GroupsAndLayersAre ==
  ASSUME NEW hf, IsHfOf(hf)
  PROVE  LET groups == GroupsOf(hf)
         IN  /\ IsFiniteSet(DOMAIN groups) /\ DOMAIN groups \subseteq Nat /\ DOMAIN groups # {}
             /\ \A i \in DOMAIN groups : IsGroup(groups[i])
             /\ LayersOf(hf) \in Seq(DOMAIN groups) /\ LayersOf(hf) # <<>>
<1> DEFINE groups == GroupsOf(hf)
<1>1. /\ hf.numLayers \in Nat /\ hf.numLayers > 0 /\ hf.firstDense \in Nat /\ hf.numLayers - hf.firstDense \in Nat
      /\ hf.inter \in Nat /\ SharedWidthOf(hf) \in Nat /\ hf.inter + SharedWidthOf(hf) \in Nat
      /\ hf.window \in Nat /\ None \in Nat
  <2>1. hf.numLayers \in Sizes
    BY DEF IsHfOf, HfConfigs
  <2>2. hf.numLayers > 0
    BY <2>1 DEF Sizes
  <2> QED
    BY <2>2, SizesOfHf DEF None
<1>2. IsFiniteSet({1}) /\ IsFiniteSet({1, 2})
  <2>1. IsFiniteSet({1}) /\ IsFiniteSet({2}) /\ {1, 2} = {1} \cup {2}
    BY FS_Singleton
  <2> QED
    BY <2>1, FS_Union
<1>3. CASE SplitsFfn(hf)
  <2> DEFINE dense == Group(hf, hf.firstDense, None, hf.inter, FALSE)
             moe == Group(hf, hf.numLayers - hf.firstDense, None, SharedWidthOf(hf), TRUE)
             layers == [i \in 1..hf.numLayers |-> IF i <= hf.firstDense \/ hf.firstDense = 0 THEN 1 ELSE 2]
  <2>1. IsGroup(dense) /\ IsGroup(moe)
    BY <1>1, GroupOfHf
  <2>2. groups = IF hf.firstDense = 0 THEN <<moe>> ELSE <<dense, moe>>
    BY <1>3 DEF GroupsOf, SplitFfnGroups
  <2>3. LayersOf(hf) = layers
    BY <1>3 DEF LayersOf
  <2> HIDE DEF dense, moe, groups
  <2>4. CASE hf.firstDense = 0
    <3>1. DOMAIN groups = {1} /\ groups[1] = moe
      BY <2>2, <2>4
    <3>2. layers \in Seq({1}) /\ layers # <<>>
      BY <1>1, <2>4
    <3> QED
      BY <1>2, <2>1, <2>3, <3>1, <3>2 DEF groups
  <2>5. CASE hf.firstDense # 0
    <3>1. DOMAIN groups = {1, 2} /\ groups[1] = dense /\ groups[2] = moe
      BY <2>2, <2>5
    <3>2. layers \in Seq({1, 2}) /\ layers # <<>>
      BY <1>1, <2>5
    <3> QED
      BY <1>2, <2>1, <2>3, <3>1, <3>2 DEF groups
  <2> QED
    BY <2>4, <2>5
<1>4. CASE ~SplitsFfn(hf) /\ MixesAttention(hf)
  <2> DEFINE layers == [i \in DOMAIN hf.layerTypes |-> IF hf.layerTypes[i] = "sliding" THEN 1 ELSE 2]
  <2>1. groups = MixedGroups(hf) /\ LayersOf(hf) = layers
    BY <1>4 DEF GroupsOf, LayersOf
  <2>2. /\ DOMAIN groups \in {{1}, {1, 2}} /\ \A i \in DOMAIN groups : IsGroup(groups[i])
        /\ \A i \in DOMAIN hf.layerTypes : hf.layerTypes[i] = "full" => 2 \in DOMAIN groups
    BY <2>1, MixedGroupsAre
  <2>3. hf.layerTypes \in Seq({"sliding", "full"})
    BY DEF IsHfOf, HfConfigs
  <2>4. Len(hf.layerTypes) \in Nat /\ DOMAIN hf.layerTypes = 1..Len(hf.layerTypes)
        /\ \A i \in DOMAIN hf.layerTypes : hf.layerTypes[i] \in {"sliding", "full"}
    BY <2>3
  <2>5. DOMAIN hf.layerTypes # {}
    BY <1>4 DEF MixesAttention, ToSet
  <2> HIDE DEF groups
  <2>6. 1 \in DOMAIN groups
    BY <2>2
  <2>7. \A i \in DOMAIN layers : layers[i] \in DOMAIN groups
    BY <2>2, <2>4, <2>6
  <2>8. layers \in Seq(DOMAIN groups) /\ layers # <<>>
    <3>1. PICK n \in Nat : n = Len(hf.layerTypes)
      BY <2>4
    <3>2. DOMAIN layers = 1..n /\ n # 0 /\ layers = [i \in 1..n |-> layers[i]]
      BY <2>4, <2>5, <3>1
    <3> HIDE DEF layers
    <3>3. layers \in Seq(DOMAIN groups)
      BY <2>7, <3>2
    <3> QED
      BY <3>2, <3>3
  <2>9. IsFiniteSet(DOMAIN groups) /\ DOMAIN groups \subseteq Nat /\ DOMAIN groups # {}
    BY <1>2, <2>2
  <2> QED
    BY <2>1, <2>2, <2>8, <2>9 DEF groups
<1>5. CASE ~SplitsFfn(hf) /\ ~MixesAttention(hf)
  <2> DEFINE only == Group(hf, hf.numLayers, hf.window, hf.inter + SharedWidthOf(hf), NumExpertsOf(hf) > 0)
             layers == [i \in 1..hf.numLayers |-> 1]
  <2>1. groups = <<only>> /\ LayersOf(hf) = layers
    BY <1>5 DEF GroupsOf, LayersOf, UniformGroups
  <2>2. IsGroup(only)
    <3>1. (NumExpertsOf(hf) > 0) \in BOOLEAN
      OBVIOUS
    <3> QED
      BY <1>1, <3>1, GroupOfHf
  <2> HIDE DEF only, groups
  <2>3. DOMAIN groups = {1} /\ groups[1] = only
    BY <2>1
  <2>4. layers \in Seq({1}) /\ layers # <<>>
    BY <1>1
  <2> QED
    BY <1>2, <2>1, <2>2, <2>3, <2>4 DEF groups
<1> QED
  BY <1>3, <1>4, <1>5

\* What main builds of a run-spec is an architecture, and a machine.
LEMMA ArchOfIs ==
  ASSUME NEW sp \in Specs
  PROVE  IsArch(ArchOf(sp)) /\ IsHw(HwOf(sp)) /\ UsableHbm(HwOf(sp)) \in Nat /\ ItlCeiling(sp) \in Int
<1>1. /\ IsHfOf(sp.hf) /\ {sp.raw.kvBytes, sp.raw.weightBytes, sp.raw.headBytes, sp.raw.usable} \subseteq Nat
      /\ sp.hw \in [te : Sizes, bw : Nat, usable : Nat, capacity : Nat, cores : Nat, lnc : Nat]
      /\ {sp.sla.itl, sp.cli.itl, sp.cli.usable} \subseteq Nat
  BY SpecsAssumption DEF IsHfOf
<1>2. IsArch(ArchOf(sp))
  <2> DEFINE a == ArchOf(sp)
  <2>1. /\ a.hidden = sp.hf.hidden /\ a.vocab = sp.hf.vocab /\ a.dtype = 2 /\ a.experts = NumExpertsOf(sp.hf)
        /\ a.kvBytes = sp.raw.kvBytes /\ a.weightBytes = sp.raw.weightBytes /\ a.headBytes = sp.raw.headBytes
        /\ a.groups = GroupsOf(sp.hf) /\ a.layers = LayersOf(sp.hf)
    BY DEF ArchOf, WithKnobs, ArchFromHf
  <2>2. sp.hf.hidden \in Sizes /\ sp.hf.vocab \in Sizes /\ 2 \in Sizes /\ NumExpertsOf(sp.hf) \in Nat
    <3>1. sp.hf.hidden \in Sizes /\ sp.hf.vocab \in Sizes
      BY <1>1 DEF IsHfOf, HfConfigs
    <3>2. 2 \in Sizes
      BY DEF Sizes
    <3> QED
      BY <1>1, <3>1, <3>2, SizesOfHf
  <2> HIDE DEF a
  <2>3. IsArch(a)
    BY <1>1, <2>1, <2>2, GroupsAndLayersAre DEF IsArch
  <2> QED
    BY <2>3 DEF a
<1>3. IsHw(HwOf(sp))
  BY <1>1 DEF IsHw, HwOf, HwWithKnobs, Sizes
<1>4. UsableHbm(HwOf(sp)) \in Nat
  <2> DEFINE hw == HwOf(sp)
  <2>1. hw.capacity \in Nat /\ hw.usable \in Nat /\ 100 \in Sizes
    BY <1>3 DEF IsHw, Sizes
  <2> HIDE DEF hw
  <2>2. hw.capacity * hw.usable \in Nat
    BY <2>1, NatTimes
  <2>3. UsableHbm(hw) \in Nat
    BY <2>1, <2>2, ShareIsNat DEF UsableHbm
  <2> QED
    BY <2>3 DEF hw
<1>5. ItlCeiling(sp) \in Int
  BY <1>1 DEF ItlCeiling
<1> QED
  BY <1>2, <1>3, <1>4, <1>5


-----------------------------------------------------------------------------
(* The grid of a run-spec, its rows and its sweep.                           *)

\* A bundle, a machine and configurations the rows can be costed for.
IsProblem(b, hw, configs) ==
  /\ IsBundle(b) /\ IsHw(hw) /\ UsableHbm(hw) \in Nat /\ IsFiniteSet(configs)
  /\ \A cfg \in configs : IsConfig(cfg) /\ IsExact(b, cfg)

LEMMA ChoicesAre ==
  ASSUME NEW sp, NEW axis, NEW full, IsFiniteSet(full), full \subseteq Sizes
  PROVE  IsFiniteSet(AxisChoices(sp, axis, full)) /\ AxisChoices(sp, axis, full) \subseteq Sizes
<1>1. IsFiniteSet({1}) /\ {1} \subseteq Sizes
  BY FS_Singleton DEF Sizes
<1> QED
  BY <1>1 DEF AxisChoices

LEMMA GridIs ==
  ASSUME NEW sp \in Specs, ~Refused(sp)
  PROVE  IsProblem(BuildBundle(ArchOf(sp)), HwOf(sp), Grid(sp, BuildBundle(ArchOf(sp)), HwOf(sp)))
<1> DEFINE b == BuildBundle(ArchOf(sp))
           hw == HwOf(sp)
           A == AxisChoices(sp, "TP", TpChoices)
           B == AxisChoices(sp, "CP", CpChoices)
           C == DpChoicesOf(sp, b.arch)
           e == EpEnabled(sp, b.arch)
           P == A \X (B \X C)
           f == [x \in P |-> [tp |-> x[1], cp |-> x[2][1], dp |-> x[2][2], ep |-> e, degree |-> None]]
           R == [tp : A, cp : B, dp : C, ep : {e}, degree : {None}]
<1>1. IsBundle(b) /\ IsHw(hw) /\ UsableHbm(hw) \in Nat
  BY ArchOfIs, BundleIs
<1>2. IsFiniteSet(A) /\ A \subseteq Sizes /\ IsFiniteSet(B) /\ B \subseteq Sizes
  BY GridAssumption, ChoicesAre DEF Sizes
<1>3. IsFiniteSet(C) /\ C \subseteq Sizes
  <2>1. IsFiniteSet({1}) /\ {1} \subseteq Sizes
    BY FS_Singleton DEF Sizes
  <2>2. IsFiniteSet(DpChoices) /\ DpChoices \subseteq Sizes
    BY GridAssumption DEF Sizes
  <2> QED
    BY <2>1, <2>2, ChoicesAre DEF DpChoicesOf
<1>4. e \in BOOLEAN
  BY DEF EpEnabled, EpDefaultEnabled
<1> HIDE DEF A, B, C, e
<1>5. IsFiniteSet(P)
  <2>1. IsFiniteSet(B \X C)
    BY <1>2, <1>3, FS_Product
  <2> QED
    BY <1>2, <2>1, FS_Product
<1>6. R \subseteq {f[x] : x \in P}
  <2> SUFFICES ASSUME NEW cfg \in R
               PROVE  \E x \in P : cfg = f[x]
    OBVIOUS
  <2>1. cfg.tp \in A /\ cfg.cp \in B /\ cfg.dp \in C /\ cfg.ep = e /\ cfg.degree = None
        /\ cfg = [tp |-> cfg.tp, cp |-> cfg.cp, dp |-> cfg.dp, ep |-> cfg.ep, degree |-> cfg.degree]
    OBVIOUS
  <2>2. <<cfg.tp, <<cfg.cp, cfg.dp>>>> \in P
    BY <2>1
  <2>3. f[<<cfg.tp, <<cfg.cp, cfg.dp>>>>] = cfg
    BY <2>1, <2>2
  <2> QED
    BY <2>2, <2>3
<1>7. IsFiniteSet(R)
  <2> HIDE DEF P, f, R
  <2>1. IsFiniteSet({f[x] : x \in P})
    BY <1>5, ImageIsFinite
  <2> QED
    BY <1>6, <2>1, FS_Subset
<1>8. Grid(sp, b, hw) \subseteq R
  BY DEF Grid, A, B, C, e
<1>9. IsFiniteSet(Grid(sp, b, hw))
  BY <1>7, <1>8, FS_Subset
<1>10. \A cfg \in R : IsConfig(cfg)
  BY <1>2, <1>3, <1>4 DEF IsConfig
<1>11. \A cfg \in Grid(sp, b, hw) : IsExact(b, cfg)
  BY ScaleIsExact
<1> HIDE DEF b, hw, R
<1>12. IsProblem(b, hw, Grid(sp, b, hw))
  BY <1>1, <1>8, <1>9, <1>10, <1>11 DEF IsProblem
<1> QED
  BY <1>12 DEF b, hw

\* The largest batch of a configuration fits, and no larger even one does.
LEMMA MaxBatchIs ==
  ASSUME NEW b, NEW hw, NEW configs, IsProblem(b, hw, configs), NEW cfg \in configs, NEW s \in Nat,
         NEW m, m = MaxFeasibleBs(b, hw, cfg, s, FALSE), m # 0
  PROVE  /\ m \in Nat /\ m > 0 /\ (m = 1 \/ m % 2 = 0)
         /\ PeakHbm(b, cfg, s, m, FALSE) <= UsableHbm(hw)
         /\ PeakHbm(b, cfg, s, m + 2, FALSE) > UsableHbm(hw)
<1> DEFINE budget == UsableHbm(hw)
<1>1. IsBundle(b) /\ IsConfig(cfg) /\ IsExact(b, cfg) /\ budget \in Nat
  BY DEF IsProblem
<1>2. PICK c \in Nat, f \in Nat : c > 0 /\ PeakGrowsBy(c, f, b, cfg, s)
  BY <1>1, PeakIsLinear
<1>3. \A bs \in Nat : PeakHbm(b, cfg, s, bs, FALSE) = f + bs * c
  BY <1>2 DEF PeakGrowsBy
<1>4. PeakHbm(b, cfg, s, 0, FALSE) = f /\ PeakHbm(b, cfg, s, 1, FALSE) = f + c
  <2>1. PeakHbm(b, cfg, s, 0, FALSE) = f + 0 * c /\ PeakHbm(b, cfg, s, 1, FALSE) = f + 1 * c
    BY ONLY <1>3
  <2>2. f + 0 * c = f /\ f + 1 * c = f + c
    OBVIOUS
  <2> QED
    BY ONLY <2>1, <2>2
<1>5. m = Extrapolated(budget, f, f + c)
  BY <1>4 DEF MaxFeasibleBs
<1> HIDE DEF budget
<1>6. /\ m \in Nat /\ m > 0 /\ (m = 1 \/ m % 2 = 0)
      /\ f + m * c <= budget /\ f + (m + 2) * c > budget
  BY <1>1, <1>2, <1>5, ExtrapolatedFits
<1>7. PeakHbm(b, cfg, s, m, FALSE) = f + m * c /\ PeakHbm(b, cfg, s, m + 2, FALSE) = f + (m + 2) * c
  <2>1. m + 2 \in Nat
    BY ONLY <1>6
  <2> QED
    BY ONLY <1>3, <1>6, <2>1
<1> QED
  BY <1>6, <1>7 DEF budget

\* The rows of a context: one per configuration with a batch that fits.
DecodeRows(b, hw, configs, s) == RowsAtMaxBs(b, hw, configs, s, FALSE)
IsRowOf(r, b, hw, configs, s) ==
  /\ r.cfg \in configs /\ r.s = s /\ r.bs = MaxFeasibleBs(b, hw, r.cfg, s, FALSE) /\ r.bs # 0
  /\ r = Cell(b, hw, r.cfg, s, r.bs, FALSE)

LEMMA RowsAre ==
  ASSUME NEW b, NEW hw, NEW configs, IsProblem(b, hw, configs), NEW s \in Nat
  PROVE  /\ AreRows(DecodeRows(b, hw, configs, s))
         /\ \A r \in DecodeRows(b, hw, configs, s) : IsRowOf(r, b, hw, configs, s)
<1> DEFINE rows == DecodeRows(b, hw, configs, s)
           Most(cfg) == MaxFeasibleBs(b, hw, cfg, s, FALSE)
           S == {c \in configs : Most(c) # 0}
           f == [cfg \in S |-> Cell(b, hw, cfg, s, Most(cfg), FALSE)]
<1>1. rows = {f[cfg] : cfg \in S}
  BY DEF RowsAtMaxBs, DecodeRows
<1>2. IsFiniteSet(S) /\ S \subseteq configs
  BY FS_Subset DEF IsProblem
<1>3. ASSUME NEW cfg \in S
      PROVE  /\ f[cfg] = Cell(b, hw, cfg, s, Most(cfg), FALSE)
             /\ f[cfg].cfg = cfg /\ f[cfg].s = s /\ f[cfg].bs = Most(cfg) /\ Most(cfg) # 0 /\ IsRow(f[cfg])
  <2>1. Most(cfg) \in Nat /\ Most(cfg) > 0 /\ Most(cfg) # 0
    BY MaxBatchIs
  <2>2. f[cfg] = Cell(b, hw, cfg, s, Most(cfg), FALSE)
    OBVIOUS
  <2>3. IsBundle(b) /\ IsConfig(cfg) /\ IsHw(hw)
    BY <1>2 DEF IsProblem
  <2> HIDE DEF f, S, Most
  <2>4. /\ f[cfg].cfg = cfg /\ f[cfg].s = s /\ f[cfg].bs = Most(cfg) /\ f[cfg].cores \in Nat /\ f[cfg].cores > 0
        /\ f[cfg].step \in Nat /\ f[cfg].step > 0
    <3>1. IsCellOf(f[cfg], cfg, s, Most(cfg))
      BY <2>1, <2>2, <2>3, CellIs, Zenon
    <3> QED
      BY <2>1, <3>1 DEF IsCellOf
  <2> QED
    BY <2>1, <2>2, <2>4 DEF IsRow
<1> HIDE DEF rows, f, S
<1>4. IsFiniteSet(rows)
  BY <1>1, <1>2, ImageIsFinite
<1>5. AreRows(rows)
  BY <1>1, <1>3, <1>4 DEF AreRows
<1>6. ASSUME NEW r \in rows
      PROVE  IsRowOf(r, b, hw, configs, s)
  <2>1. PICK cfg \in S : r = f[cfg]
    BY <1>1
  <2>2. /\ r.cfg = cfg /\ r.s = s /\ r.bs = Most(cfg) /\ r.bs # 0
        /\ r = Cell(b, hw, cfg, s, Most(cfg), FALSE)
    BY <1>3, <2>1
  <2> QED
    BY <1>2, <2>2 DEF IsRowOf
<1> QED
  BY <1>5, <1>6 DEF rows

\* The ladder of a batch climbs to it and never past it.
LEMMA LadderIs ==
  ASSUME NEW m \in Nat, m > 0, m = 1 \/ m % 2 = 0
  PROVE  m \in BsLadder(m) /\ \A bs \in BsLadder(m) : bs \in Nat /\ bs > 0 /\ bs <= m
<1> DEFINE X == {1, m} \cup {y \in 2..m : \E k \in 1..8 : y = 2 ^ k}
           Even(x) == IF x = 1 THEN 1 ELSE x - (x % BsGranularity)
<1>1. BsLadder(m) = {Even(x) : x \in X}
  BY DEF BsLadder
<1>2. \A x \in X : x \in Nat /\ 1 <= x /\ x <= m
  OBVIOUS
<1>3. m \in X
  OBVIOUS
<1> HIDE DEF X
<1>4. ASSUME NEW x \in X
      PROVE  Even(x) \in Nat /\ Even(x) > 0 /\ Even(x) <= m
  <2>1. x \in Nat /\ 1 <= x /\ x <= m
    BY <1>2
  <2>2. x % 2 \in Nat /\ x % 2 < 2
    BY <2>1
  <2> QED
    BY <2>1, <2>2 DEF BsGranularity
<1>5. Even(m) = m
  BY DEF BsGranularity
<1> QED
  BY <1>1, <1>3, <1>4, <1>5

\* The sweep of a context tops out at its rows.
LEMMA SweepIs ==
  ASSUME NEW b, NEW hw, NEW configs, IsProblem(b, hw, configs), NEW s \in Nat
  PROVE  LET rows == DecodeRows(b, hw, configs, s)
             sweep == DecodeBsSweep(b, hw, configs, s)
         IN  rows = {r \in sweep : \A o \in sweep : o.cfg = r.cfg => o.bs <= r.bs}
<1> DEFINE rows == DecodeRows(b, hw, configs, s)
           sweep == DecodeBsSweep(b, hw, configs, s)
           Most(cfg) == MaxFeasibleBs(b, hw, cfg, s, FALSE)
           S == {c \in configs : Most(c) # 0}
           Row(cfg, bs) == Cell(b, hw, cfg, s, bs, FALSE)
<1>1. sweep = UNION {{Row(cfg, bs) : bs \in BsLadder(Most(cfg))} : cfg \in S}
  BY DEF DecodeBsSweep
<1>2. rows = {Row(cfg, Most(cfg)) : cfg \in S}
  BY DEF RowsAtMaxBs, DecodeRows
<1>3. ASSUME NEW cfg \in S
      PROVE  /\ Most(cfg) \in Nat /\ Most(cfg) \in BsLadder(Most(cfg))
             /\ \A bs \in BsLadder(Most(cfg)) : bs \in Nat /\ bs <= Most(cfg)
             /\ \A bs \in BsLadder(Most(cfg)) : Row(cfg, bs).cfg = cfg /\ Row(cfg, bs).bs = bs
  <2>1. Most(cfg) \in Nat /\ Most(cfg) > 0 /\ (Most(cfg) = 1 \/ Most(cfg) % 2 = 0)
    BY MaxBatchIs
  <2>2. IsBundle(b) /\ IsConfig(cfg) /\ IsHw(hw)
    BY DEF IsProblem
  <2> HIDE DEF S, Most, Row
  <2>3. Most(cfg) \in BsLadder(Most(cfg)) /\ \A bs \in BsLadder(Most(cfg)) : bs \in Nat /\ bs > 0 /\ bs <= Most(cfg)
    BY <2>1, LadderIs
  <2>4. ASSUME NEW bs \in Nat
        PROVE  Row(cfg, bs).cfg = cfg /\ Row(cfg, bs).bs = bs
    <3>1. IsCellOf(Row(cfg, bs), cfg, s, bs)
      BY <2>2, CellIs, Zenon DEF Row
    <3> QED
      BY <3>1 DEF IsCellOf
  <2> QED
    BY <2>1, <2>3, <2>4
<1> HIDE DEF S, Most, Row, rows, sweep
<1>4. \A cfg \in S : \A bs \in BsLadder(Most(cfg)) : Row(cfg, bs) \in sweep
  BY <1>1
<1>5. ASSUME NEW r \in sweep
      PROVE  r.cfg \in S /\ r.bs \in BsLadder(Most(r.cfg)) /\ r = Row(r.cfg, r.bs)
  <2>1. PICK cfg \in S : r \in {Row(cfg, bs) : bs \in BsLadder(Most(cfg))}
    BY <1>1
  <2>2. PICK bs \in BsLadder(Most(cfg)) : r = Row(cfg, bs)
    BY <2>1
  <2> QED
    BY <1>3, <2>2
<1>6. ASSUME NEW r \in rows
      PROVE  r \in sweep /\ \A o \in sweep : o.cfg = r.cfg => o.bs <= r.bs
  <2>1. PICK cfg \in S : r = Row(cfg, Most(cfg))
    BY <1>2
  <2>2. r \in sweep /\ r.cfg = cfg /\ r.bs = Most(cfg)
    BY <1>3, <1>4, <2>1
  <2>3. \A o \in sweep : o.cfg = cfg => o.bs <= Most(cfg)
    BY <1>3, <1>5
  <2> QED
    BY <2>2, <2>3
<1>7. ASSUME NEW r \in sweep, \A o \in sweep : o.cfg = r.cfg => o.bs <= r.bs
      PROVE  r \in rows
  <2>1. r.cfg \in S /\ r.bs \in BsLadder(Most(r.cfg)) /\ r = Row(r.cfg, r.bs)
    BY <1>5
  <2>2. Row(r.cfg, Most(r.cfg)) \in sweep
    BY <1>3, <1>4, <2>1
  <2>3. Row(r.cfg, Most(r.cfg)).cfg = r.cfg /\ Row(r.cfg, Most(r.cfg)).bs = Most(r.cfg)
    BY <1>3, <2>1
  <2>4. Most(r.cfg) <= r.bs
    BY <1>7, <2>2, <2>3
  <2>5. r.bs = Most(r.cfg)
    BY <1>3, <2>1, <2>4
  <2> QED
    BY <1>2, <2>1, <2>5
<1>8. rows = {r \in sweep : \A o \in sweep : o.cfg = r.cfg => o.bs <= r.bs}
  BY <1>6, <1>7
<1> QED
  BY <1>8 DEF rows, sweep

LEMMA TtftIs ==
  ASSUME NEW b, NEW hw, NEW configs, IsProblem(b, hw, configs), NEW s \in Nat
  PROVE  \A cfg \in configs : TtftByConfig(b, hw, configs, s)[cfg] \in Nat
<1> SUFFICES ASSUME NEW cfg \in configs
             PROVE  Cell(b, hw, cfg, s, 1, TRUE).step \in Nat
  BY DEF TtftByConfig
<1>1. IsBundle(b) /\ IsConfig(cfg) /\ IsHw(hw)
  BY DEF IsProblem
<1>2. 1 \in Nat
  OBVIOUS
<1>3. IsCellOf(Cell(b, hw, cfg, s, 1, TRUE), cfg, s, 1)
  BY <1>1, <1>2, CellIs, Zenon
<1> QED
  BY <1>3 DEF IsCellOf


-----------------------------------------------------------------------------
(* The plan.                                                                 *)

LEMMA ContextsAreSizes ==
  ASSUME NEW sp \in Specs, NEW S \in BucketChoices(ArchOf(sp))
  PROVE  S \subseteq Sizes
<1> DEFINE a == ArchOf(sp)
<1>1. a.maxContext = sp.hf.maxContext
  BY DEF ArchOf, WithKnobs, ArchFromHf
<1>2. sp.hf.maxContext \in Nat
  BY SpecsAssumption DEF HfConfigs
<1>3. FullContext(a) \in Nat
  <2>1. BucketStep \in Sizes /\ BucketStep \in Nat
    BY GridAssumption DEF Sizes
  <2>2. a.maxContext \div BucketStep \in Nat
    BY <1>1, <1>2, <2>1, DivNat
  <2> QED
    BY <2>1, <2>2, NatTimes DEF FullContext
<1> HIDE DEF a
<1>4. Candidates(a) \subseteq Sizes /\ \A s \in Candidates(a) : s <= FullContext(a)
  <2>1. 2 * BucketStep \in Nat /\ 2 * BucketStep > 0
    BY GridAssumption
  <2> QED
    BY <1>3, <2>1 DEF Candidates, Sizes
<1>5. ASSUME NEW picked \in Picks(a)
      PROVE  picked \subseteq Candidates(a)
  <2> DEFINE bins == 1..NBuckets - 1
             Left(pick, i) == Bin(a, i) \ {pick[j] : j \in 1..i - 1}
             inTurn == {pick \in [bins -> Candidates(a) \cup {None}] :
                          \A i \in bins : IF Left(pick, i) = {} THEN pick[i] = None ELSE pick[i] \in Left(pick, i)}
  <2>1. Picks(a) = {ToSet(pick) \ {None} : pick \in inTurn}
    BY DEF Picks
  <2>2. inTurn \subseteq [bins -> Candidates(a) \cup {None}]
    OBVIOUS
  <2> HIDE DEF inTurn, bins
  <2>3. PICK pick \in inTurn : picked = ToSet(pick) \ {None}
    BY <1>5, <2>1
  <2>4. ToSet(pick) \subseteq Candidates(a) \cup {None}
    BY <2>2 DEF ToSet
  <2> QED
    BY <2>3, <2>4
<1>6. CASE Cardinality(Candidates(a)) <= NBuckets
  <2>1. S = Candidates(a)
    BY <1>6 DEF BucketChoices, a
  <2> QED
    BY <1>4, <2>1
<1>7. CASE ~(Cardinality(Candidates(a)) <= NBuckets)
  <2>1. PICK picked \in Picks(a) : S = picked \cup {FullContext(a)}
    BY <1>7 DEF BucketChoices, a
  <2>2. Candidates(a) # {}
    <3>1. Cardinality({}) = 0 /\ 0 <= NBuckets
      BY FS_EmptySet, GridAssumption
    <3> QED
      BY <1>7, <3>1
  <2>3. FullContext(a) \in Sizes
    BY <1>3, <1>4, <2>2 DEF Sizes
  <2> QED
    BY <1>4, <1>5, <2>1, <2>3
<1> QED
  BY <1>6, <1>7

BucketIsPlanned(s) ==
  plan[s] = BucketPlan(DecodeRows(bundle, HwOf(spec), grid, s), TtftByConfig(bundle, HwOf(spec), grid, s))

\* What main has worked out is what it works out of the run-spec, stage by
\* stage, and what is planned already is not disturbed.
PlanInv ==
  /\ spec \in Specs
  /\ stage \notin {"plan", "done"} => plan = <<>>
  /\ stage \in {"plan", "done"} =>
       /\ ~Refused(spec) /\ bundle = BuildBundle(ArchOf(spec)) /\ grid = Grid(spec, bundle, HwOf(spec))
       /\ buckets \subseteq Sizes /\ DOMAIN plan \subseteq buckets
       /\ \A s \in DOMAIN plan : BucketIsPlanned(s)
  /\ stage = "done" =>
       /\ DOMAIN plan = buckets
       /\ \A s \in buckets : frontier[s].decode = DecodeBsSweep(bundle, HwOf(spec), grid, s)

LEMMA PlanInvHolds == PlanSpec => []PlanInv
<1>1. PlanInit => PlanInv
  BY DEF PlanInit, PlanInv
<1>2. PlanInv /\ [PlanNext]_planVars => PlanInv'
  <2> SUFFICES ASSUME PlanInv, [PlanNext]_planVars
               PROVE  PlanInv'
    OBVIOUS
  <2>1. CASE Refuse
    <3>1. stage' = "refused" /\ plan' = <<>> /\ spec' \in Specs
      BY <2>1 DEF Refuse, PlanInv
    <3> QED
      BY <3>1 DEF PlanInv
  <2>2. CASE Load
    <3>1. /\ stage = "start" /\ ~Refused(spec) /\ stage' = "plan" /\ spec' = spec /\ plan' = plan
          /\ bundle' = BuildBundle(ArchOf(spec)) /\ grid' = Grid(spec, bundle', HwOf(spec))
          /\ buckets' \in BucketChoices(bundle'.arch)
      BY <2>2 DEF Load
    <3>2. spec \in Specs /\ plan = <<>>
      BY <3>1 DEF PlanInv
    <3>3. bundle'.arch = ArchOf(spec)
      BY <3>1 DEF BuildBundle
    <3>4. buckets' \subseteq Sizes
      BY <3>1, <3>2, <3>3, ContextsAreSizes
    <3>5. DOMAIN plan' = {}
      BY <3>1, <3>2
    <3> QED
      BY <3>1, <3>2, <3>4, <3>5 DEF PlanInv
  <2>3. CASE PlanBucket
    <3>1. /\ stage = "plan" /\ stage' = "plan" /\ spec' = spec /\ bundle' = bundle /\ grid' = grid
          /\ buckets' = buckets
      BY <2>3 DEF PlanBucket
    <3>2. PICK s \in buckets :
            plan' = [t \in DOMAIN plan \cup {s} |->
                       IF t # s THEN plan[t]
                       ELSE BucketPlan(DecodeRows(bundle, HwOf(spec), grid, s),
                                       TtftByConfig(bundle, HwOf(spec), grid, s))]
      BY <2>3 DEF PlanBucket, DecodeRows
    <3>3. /\ spec \in Specs /\ ~Refused(spec) /\ bundle = BuildBundle(ArchOf(spec))
          /\ grid = Grid(spec, bundle, HwOf(spec)) /\ buckets \subseteq Sizes /\ DOMAIN plan \subseteq buckets
          /\ \A t \in DOMAIN plan : BucketIsPlanned(t)
      BY <3>1 DEF PlanInv
    <3>4. DOMAIN plan' \subseteq buckets
      BY <3>2, <3>3
    <3>5. ASSUME NEW t \in DOMAIN plan'
          PROVE  BucketIsPlanned(t)'
      <4>1. BucketIsPlanned(t)' <=>
              plan'[t] = BucketPlan(DecodeRows(bundle, HwOf(spec), grid, t), TtftByConfig(bundle, HwOf(spec), grid, t))
        BY <3>1 DEF BucketIsPlanned, BucketPlan
      <4>2. CASE t = s
        <5>1. plan'[t] = BucketPlan(DecodeRows(bundle, HwOf(spec), grid, s), TtftByConfig(bundle, HwOf(spec), grid, s))
          BY <3>2, <4>2
        <5> QED
          BY <4>1, <4>2, <5>1
      <4>3. CASE t # s
        <5>1. plan'[t] = plan[t] /\ t \in DOMAIN plan
          BY <3>2, <4>3
        <5> QED
          BY <3>3, <4>1, <5>1 DEF BucketIsPlanned
      <4> QED
        BY <4>2, <4>3
    <3> QED
      BY <3>1, <3>3, <3>4, <3>5 DEF PlanInv
  <2>4. CASE Sweep
    <3>1. /\ stage = "plan" /\ stage' = "done" /\ spec' = spec /\ bundle' = bundle /\ grid' = grid
          /\ buckets' = buckets /\ plan' = plan /\ DOMAIN plan = buckets
          /\ frontier' = [s \in buckets |->
                            [decode |-> DecodeBsSweep(bundle, HwOf(spec), grid, s),
                             prefill |-> RowsAtMaxBs(bundle, HwOf(spec), grid, s, TRUE)]]
      BY <2>4 DEF Sweep
    <3>2. /\ spec \in Specs /\ ~Refused(spec) /\ bundle = BuildBundle(ArchOf(spec))
          /\ grid = Grid(spec, bundle, HwOf(spec)) /\ buckets \subseteq Sizes /\ DOMAIN plan \subseteq buckets
          /\ \A t \in DOMAIN plan : BucketIsPlanned(t)
      BY <3>1 DEF PlanInv
    <3>3. \A t \in DOMAIN plan : BucketIsPlanned(t)'
      BY <3>1, <3>2 DEF BucketIsPlanned, BucketPlan
    <3>4. \A s \in buckets : frontier'[s].decode = DecodeBsSweep(bundle, HwOf(spec), grid, s)
      BY <3>1
    <3> QED
      BY <3>1, <3>2, <3>3, <3>4 DEF PlanInv
  <2>5. CASE UNCHANGED planVars
    BY <2>5 DEF planVars, PlanInv, BucketIsPlanned, BucketPlan
  <2> QED
    BY <2>1, <2>2, <2>3, <2>4, <2>5 DEF PlanNext
<1> QED
  BY <1>1, <1>2, PTL DEF PlanSpec

\* What is planned for a context, and the problem that it is planned of.
LEMMA PlannedIs ==
  ASSUME PlanInv, NEW s \in DOMAIN plan
  PROVE  LET rows == DecodeRows(bundle, HwOf(spec), grid, s)
             ttft == TtftByConfig(bundle, HwOf(spec), grid, s)
             selection == SelectColocated(spec, rows, ttft)
         IN  /\ spec \in Specs /\ stage \in {"plan", "done"} /\ s \in Nat
             /\ IsProblem(bundle, HwOf(spec), grid) /\ bundle = BuildBundle(ArchOf(spec))
             /\ grid = Grid(spec, bundle, HwOf(spec))
             /\ plan[s].decode = rows /\ plan[s].ttft = ttft
             /\ plan[s].pareto = Pareto(rows) /\ plan[s].paretoPn = ParetoPn(rows)
             /\ plan[s].met = selection.met /\ plan[s].selected = selection.picks
<1>1. stage \in {"plan", "done"}
  BY DEF PlanInv
<1>2. /\ spec \in Specs /\ ~Refused(spec) /\ bundle = BuildBundle(ArchOf(spec))
      /\ grid = Grid(spec, bundle, HwOf(spec)) /\ s \in Nat /\ BucketIsPlanned(s)
  BY <1>1 DEF PlanInv
<1>3. IsProblem(bundle, HwOf(spec), grid)
  BY <1>2, GridIs
<1> QED
  BY <1>1, <1>2, <1>3 DEF BucketIsPlanned, BucketPlan, Chosen

\* RowFits, of a state that main is in.
LEMMA RowsFit ==
  ASSUME PlanInv
  PROVE  RowFits
<1> SUFFICES ASSUME NEW s \in DOMAIN plan, NEW r \in plan[s].decode
             PROVE  /\ PeakHbm(bundle, r.cfg, s, r.bs, FALSE) <= UsableHbm(HwOf(spec))
                    /\ PeakHbm(bundle, r.cfg, s, r.bs + 2, FALSE) > UsableHbm(HwOf(spec))
  BY DEF RowFits, BsGranularity
<1>1. /\ s \in Nat /\ IsProblem(bundle, HwOf(spec), grid)
      /\ plan[s].decode = DecodeRows(bundle, HwOf(spec), grid, s)
  BY PlannedIs
<1>2. /\ r.cfg \in grid /\ r.bs = MaxFeasibleBs(bundle, HwOf(spec), r.cfg, s, FALSE) /\ r.bs # 0
  <2>1. r \in DecodeRows(bundle, HwOf(spec), grid, s)
    BY <1>1
  <2>2. IsRowOf(r, bundle, HwOf(spec), grid, s)
    BY <1>1, <2>1, RowsAre
  <2> QED
    BY <2>2 DEF IsRowOf
<1> QED
  BY <1>1, <1>2, MaxBatchIs

LEMMA SweepsTopOut ==
  ASSUME PlanInv
  PROVE  SweepTopsOutAtGrid
<1> SUFFICES ASSUME stage = "done", NEW s \in buckets
             PROVE  /\ plan[s].decode = {r \in frontier[s].decode :
                                           \A o \in frontier[s].decode : o.cfg = r.cfg => o.bs <= r.bs}
                    /\ plan[s].selected \subseteq frontier[s].decode
  BY DEF SweepTopsOutAtGrid
<1> DEFINE rows == DecodeRows(bundle, HwOf(spec), grid, s)
           ttft == TtftByConfig(bundle, HwOf(spec), grid, s)
           sweep == DecodeBsSweep(bundle, HwOf(spec), grid, s)
           selection == SelectColocated(spec, rows, ttft)
<1>1. s \in DOMAIN plan /\ frontier[s].decode = sweep
  BY DEF PlanInv
<1>2. /\ s \in Nat /\ IsProblem(bundle, HwOf(spec), grid)
      /\ plan[s].decode = rows /\ plan[s].selected = selection.picks
  BY <1>1, PlannedIs
<1>3. rows = {r \in sweep : \A o \in sweep : o.cfg = r.cfg => o.bs <= r.bs}
  BY <1>2, SweepIs
<1>4. AreRows(rows) /\ \A r \in rows : ttft[r.cfg] \in Nat
  BY <1>2, RowsAre, TtftIs DEF IsRowOf
<1> HIDE DEF rows, ttft, sweep
<1>5. selection.picks \subseteq rows
  BY <1>4, SelectionIs DEF IsSelection
<1> QED
  BY <1>1, <1>2, <1>3, <1>5

LEMMA SelectionsAreBest ==
  ASSUME PlanInv
  PROVE  SelectionIsBest
<1> SUFFICES ASSUME NEW s \in DOMAIN plan
             PROVE  LET rows == plan[s].decode
                        serves == {r \in rows : plan[s].ttft[r.cfg] <= TtftCeiling(spec, s) /\ r.step <= ItlCeiling(spec)}
                    IN  /\ plan[s].met = (serves # {})
                        /\ rows # {} => plan[s].selected # {}
                        /\ plan[s].paretoPn \subseteq plan[s].pareto
                        /\ \A r \in plan[s].selected :
                              plan[s].met =>
                                /\ r \in serves /\ \A o \in serves : o.bs * r.step * r.cores <= r.bs * o.step * o.cores
                                /\ (\A o \in rows : TtftOk(spec, plan[s].ttft, o)) =>
                                     \E o \in plan[s].paretoPn : o.bs * r.step * r.cores = r.bs * o.step * o.cores
  BY DEF SelectionIsBest
<1> DEFINE rows == plan[s].decode
           ttft == plan[s].ttft
           serves == {r \in rows : ttft[r.cfg] <= TtftCeiling(spec, s) /\ r.step <= ItlCeiling(spec)}
           selection == SelectColocated(spec, rows, ttft)
<1>1. /\ s \in Nat /\ IsProblem(bundle, HwOf(spec), grid) /\ spec \in Specs
      /\ rows = DecodeRows(bundle, HwOf(spec), grid, s) /\ ttft = TtftByConfig(bundle, HwOf(spec), grid, s)
  BY PlannedIs
<1>2. /\ plan[s].met = selection.met /\ plan[s].selected = selection.picks
      /\ plan[s].pareto = Pareto(rows) /\ plan[s].paretoPn = ParetoPn(rows)
  BY PlannedIs
<1>3. AreRows(rows) /\ (\A r \in rows : ttft[r.cfg] \in Nat /\ r.s = s) /\ ItlCeiling(spec) \in Int
  <2>1. AreRows(rows) /\ \A r \in rows : IsRowOf(r, bundle, HwOf(spec), grid, s)
    BY <1>1, RowsAre
  <2>2. \A r \in rows : r.cfg \in grid /\ r.s = s
    BY <2>1 DEF IsRowOf
  <2>3. \A cfg \in grid : ttft[cfg] \in Nat
    BY <1>1, TtftIs
  <2>4. ItlCeiling(spec) \in Int
    BY <1>1, ArchOfIs
  <2> QED
    BY ONLY <2>1, <2>2, <2>3, <2>4
<1>4. serves = Valid(spec, rows, ttft)
  BY <1>3 DEF Valid, TtftOk, ItlOk
<1> HIDE DEF rows, ttft, serves
<1>5. /\ selection.met = (serves # {}) /\ (rows # {} => selection.picks # {})
      /\ selection.met => selection.picks = BestOf(serves)
  <2>1. IsSelection(selection, serves, rows)
    BY <1>3, <1>4, SelectionIs
  <2> QED
    BY <2>1 DEF IsSelection
<1>6. ParetoPn(rows) \subseteq Pareto(rows)
  BY <1>3, FrontiersNest
<1>7. serves \subseteq rows
  BY DEF serves
<1>8. ASSUME NEW r \in BestOf(serves)
      PROVE  /\ r \in serves /\ \A o \in serves : o.bs * r.step * r.cores <= r.bs * o.step * o.cores
             /\ (\A o \in rows : TtftOk(spec, ttft, o)) =>
                  \E o \in ParetoPn(rows) : o.bs * r.step * r.cores = r.bs * o.step * o.cores
  <2>1. r \in serves /\ \A o \in serves : ~More(NodeThroughput(o), NodeThroughput(r))
    BY DEF BestOf
  <2>2. ASSUME NEW x \in rows, NEW y \in rows
        PROVE  /\ Serves(x, y) <=> x.bs * y.step * y.cores >= y.bs * x.step * x.cores
               /\ x.bs * y.step * y.cores \in Nat /\ y.bs * x.step * x.cores \in Nat
    <3>1. /\ x.bs \in Nat /\ y.bs \in Nat /\ x.step \in Nat /\ y.step \in Nat /\ x.cores \in Nat /\ y.cores \in Nat
      BY <1>3 DEF AreRows, IsRow
    <3>2. x.bs * y.step * y.cores = x.bs * (y.step * y.cores) /\ y.bs * x.step * x.cores = y.bs * (x.step * x.cores)
      BY <3>1
    <3>3. x.bs * y.step \in Nat /\ y.bs * x.step \in Nat
      BY <3>1, NatTimes
    <3> QED
      BY <3>1, <3>2, <3>3, NatTimes DEF Serves
  <2>3. \A o \in serves : Serves(r, o)
    BY <1>3, <1>7, <2>1, ServesIs DEF AreRows
  <2>4. \A o \in serves : o.bs * r.step * r.cores <= r.bs * o.step * o.cores
    BY <1>7, <2>1, <2>2, <2>3
  <2>5. ASSUME \A o \in rows : TtftOk(spec, ttft, o)
        PROVE  \E o \in ParetoPn(rows) : o.bs * r.step * r.cores = r.bs * o.step * o.cores
    <3>1. PICK o \in ParetoPn(rows) : Serves(o, r) /\ Serves(r, o)
      BY <1>3, <1>4, <2>5, BestIsOnFrontier
    <3>2. o \in rows /\ r \in rows
      BY <1>7, <2>1 DEF ParetoPn
    <3> QED
      BY <2>2, <3>1, <3>2
  <2> QED
    BY <2>1, <2>4, <2>5
<1> QED
  BY <1>2, <1>5, <1>6, <1>8 DEF rows, ttft, serves

\* A plan that is announced can be served, and none that fits serves better.
THEOREM PlannerSound == PlanSpec => []PlanIsSound
<1>1. PlanInv => PlanIsSound
  BY RowsFit, SweepsTopOut, SelectionsAreBest DEF PlanIsSound, BatchFits
<1> QED
  BY <1>1, PlanInvHolds, PTL
-----------------------------------------------------------------------------
(* More on sums: a part, an order, a regrouping. *)

LEMMA TotalMonotone ==
  ASSUME NEW S, NEW u, NEW v, Summable(u, S), Summable(v, S), \A x \in S : u[x] <= v[x]
  PROVE  Total(On(u, S)) <= Total(On(v, S))
<1> DEFINE w == [x \in S |-> v[x] - u[x]]
<1>1. \A x \in S : u[x] \in Nat /\ v[x] \in Nat
  BY DEF Summable
<1>2. \A x \in S : w[x] \in Nat /\ v[x] = u[x] + 1 * w[x]
  BY <1>1
<1> HIDE DEF w
<1>3. Summable(w, S)
  BY <1>2 DEF Summable
<1>4. Total(On(v, S)) = Total(On(u, S)) + 1 * Total(On(w, S))
  BY <1>2, <1>3, TotalLinear
<1>5. Total(On(u, S)) \in Nat /\ Total(On(w, S)) \in Nat
  BY <1>3, TotalIsNat
<1> QED
  BY <1>4, <1>5

LEMMA TotalOfZeros ==
  ASSUME NEW S, IsFiniteSet(S), NEW v, \A x \in S : v[x] = 0
  PROVE  Total(On(v, S)) = 0
<1>1. Summable(v, S)
  BY DEF Summable
<1>2. \A x \in S : v[x] = v[x] + 1 * v[x]
  OBVIOUS
<1>3. Total(On(v, S)) = Total(On(v, S)) + 1 * Total(On(v, S))
  BY <1>1, <1>2, TotalLinear
<1>4. Total(On(v, S)) \in Nat
  BY <1>1, TotalIsNat
<1>5. \A n \in Nat : n = n + 1 * n => n = 0
  OBVIOUS
<1> QED
  BY <1>3, <1>4, <1>5

LEMMA TotalScaled ==
  ASSUME NEW S, NEW v, NEW w, NEW k \in Nat, Summable(v, S), \A x \in S : w[x] = k * v[x]
  PROVE  Summable(w, S) /\ Total(On(w, S)) = k * Total(On(v, S))
<1> DEFINE z == [x \in S |-> 0]
<1>1. Summable(z, S)
  BY DEF Summable
<1>2. Total(On(z, S)) = 0
  BY TotalOfZeros DEF Summable
<1>3. \A x \in S : z[x] = 0
  OBVIOUS
<1> HIDE DEF z
<1>4. \A x \in S : w[x] = z[x] + k * v[x]
  <2>1. \A n \in Nat : k * n = 0 + k * n
    OBVIOUS
  <2> QED
    BY <1>3, <2>1 DEF Summable
<1>5. Summable(w, S) /\ Total(On(w, S)) = Total(On(z, S)) + k * Total(On(v, S))
  BY <1>1, <1>4, TotalLinear
<1>6. Total(On(v, S)) \in Nat
  BY TotalIsNat
<1> QED
  BY <1>2, <1>5, <1>6

LEMMA TotalOfOne ==
  ASSUME NEW v, NEW x, v[x] \in Nat
  PROVE  Summable(v, {x}) /\ Total(On(v, {x})) = v[x]
<1>1. Summable(v, {x})
  BY FS_Singleton DEF Summable
<1>2. {x} \ {x} = {}
  OBVIOUS
<1>3. Total(On(v, {x})) = v[x] + Total(On(v, {x} \ {x}))
  BY <1>1, TotalStep
<1> QED
  BY <1>1, <1>2, <1>3, TotalOfNone

\* The sums of v within the classes of h.
Within(v, S, h, K) == [k \in K |-> Total(On(v, {x \in S : h[x] = k}))]

LEMMA WithinIs ==
  ASSUME NEW S, NEW v, Summable(v, S), NEW h, NEW K, IsFiniteSet(K)
  PROVE  Summable(Within(v, S, h, K), K)
<1> SUFFICES ASSUME NEW k \in K PROVE Within(v, S, h, K)[k] \in Nat
  BY DEF Summable
<1>1. Summable(v, {x \in S : h[x] = k})
  BY FS_Subset DEF Summable
<1> QED
  BY <1>1, TotalIsNat DEF Within

LEMMA Regrouped ==
  ASSUME NEW S, NEW v, Summable(v, S), NEW h, NEW K, IsFiniteSet(K), \A x \in S : h[x] \in K
  PROVE  Total(On(v, S)) = Total(On(Within(v, S, h, K), K))
<1> DEFINE G == {s \in SUBSET S : Total(On(v, s)) = Total(On(Within(v, s, h, K), K))}
<1>1. ASSUME NEW s \in SUBSET S, \A x \in s : s \ {x} \in G
      PROVE  s \in G
  <2>1. IsFiniteSet(s)
    BY FS_Subset DEF Summable
  <2>2. Summable(v, s)
    BY <2>1 DEF Summable
  <2>3. CASE s = {}
    <3> DEFINE z == Within(v, s, h, K)
    <3>1. \A k \in K : z[k] = 0
      <4>1. \A k : {x \in {} : h[x] = k} = {}
        OBVIOUS
      <4> QED
        BY <2>3, <4>1, TotalOfNone DEF Within
    <3> HIDE DEF z
    <3>2. Total(On(z, K)) = 0
      BY <3>1, TotalOfZeros
    <3> QED
      BY <2>3, <3>2, TotalOfNone DEF z
  <2>4. CASE s # {}
    <3>1. PICK x \in s : TRUE
      BY <2>4
    <3> DEFINE t == s \ {x}
               j == h[x]
               A == Within(v, s, h, K)
               B == Within(v, t, h, K)
    <3>2. Total(On(v, t)) = Total(On(B, K))
      BY <1>1
    <3>3. Summable(v, t) /\ Total(On(v, s)) = v[x] + Total(On(v, t))
      BY <2>2, TotalStep
    <3>4. j \in K
      OBVIOUS
    <3>5. Summable(A, K) /\ Summable(B, K)
      BY <2>2, <3>3, WithinIs
    <3>6. A[j] = v[x] + B[j]
      <4> DEFINE c == {y \in s : h[y] = j}
      <4>1. x \in c /\ {y \in t : h[y] = j} = c \ {x}
        OBVIOUS
      <4>2. Summable(v, c)
        BY <2>2, FS_Subset DEF Summable
      <4> HIDE DEF c
      <4>3. Total(On(v, c)) = v[x] + Total(On(v, c \ {x}))
        BY <4>1, <4>2, TotalStep
      <4> QED
        BY <3>4, <4>1, <4>3 DEF Within, c
    <3>7. \A k \in K \ {j} : A[k] = B[k]
      <4> TAKE k \in K \ {j}
      <4>1. {y \in s : h[y] = k} = {y \in t : h[y] = k}
        OBVIOUS
      <4> QED
        BY <4>1 DEF Within
    <3> HIDE DEF A, B, j, t
    <3>8. On(A, K \ {j}) = On(B, K \ {j})
      BY <3>7 DEF On
    <3>9. /\ Total(On(A, K)) = A[j] + Total(On(A, K \ {j}))
          /\ Total(On(B, K)) = B[j] + Total(On(B, K \ {j}))
          /\ Summable(B, K \ {j})
      BY <3>4, <3>5, TotalStep
    <3>10. /\ v[x] \in Nat /\ B[j] \in Nat /\ Total(On(B, K \ {j})) \in Nat
           /\ Total(On(v, s)) \in Nat
      BY <2>2, <3>4, <3>5, <3>9, TotalIsNat DEF Summable
    <3>11. Total(On(v, s)) = Total(On(A, K))
      BY <3>2, <3>3, <3>6, <3>8, <3>9, <3>10
    <3> QED
      BY <3>11 DEF A
  <2> QED
    BY <2>3, <2>4
<1> HIDE DEF G
<1>2. SUBSET S \subseteq G
  BY <1>1, SubsetInduction DEF Summable
<1>3. S \in G
  BY <1>2
<1> QED
  BY <1>3 DEF G

\* A sum does not depend on the names of what is summed.
LEMMA TotalRenamed ==
  ASSUME NEW S, NEW v, Summable(v, S), NEW f, \A x, y \in S : f[x] = f[y] => x = y,
         NEW T, T = {f[x] : x \in S}, NEW w, \A x \in S : w[f[x]] = v[x]
  PROVE  Summable(w, T) /\ Total(On(w, T)) = Total(On(v, S))
<1>1. IsFiniteSet(T)
  BY ImageIsFinite DEF Summable
<1>2. Summable(w, T)
  BY <1>1 DEF Summable
<1> DEFINE W == Within(v, S, f, T)
<1>3. ASSUME NEW k \in T PROVE W[k] = w[k]
  <2>1. PICK x \in S : k = f[x]
    OBVIOUS
  <2>2. {y \in S : f[y] = k} = {x}
    BY <2>1
  <2>3. v[x] \in Nat
    BY DEF Summable
  <2>4. Total(On(v, {x})) = v[x]
    BY <2>3, TotalOfOne
  <2> QED
    BY <2>1, <2>2, <2>4 DEF Within
<1>4. Total(On(v, S)) = Total(On(W, T))
  BY <1>1, Regrouped
<1> HIDE DEF W
<1>5. On(W, T) = On(w, T)
  BY <1>3 DEF On
<1> QED
  BY <1>2, <1>4, <1>5

\* What is 0 outside of T.
LEMMA TotalOnPart ==
  ASSUME NEW S, NEW v, Summable(v, S), NEW T \in SUBSET S, \A x \in S \ T : v[x] = 0
  PROVE  Summable(v, T) /\ Total(On(v, T)) = Total(On(v, S))
<1> DEFINE h == [x \in S |-> IF x \in T THEN 1 ELSE 2]
           K == {1, 2}
           W == Within(v, S, h, K)
<1>1. IsFiniteSet(K)
  <2> HIDE DEF W, h
  <2>1. IsFiniteSet({1}) /\ K = {1} \cup {2}
    BY FS_Singleton
  <2> HIDE DEF K
  <2> QED
    BY <2>1, FS_AddElement
<1>2. Total(On(v, S)) = Total(On(W, K)) /\ Summable(W, K)
  BY <1>1, Regrouped, WithinIs
<1>3. Summable(v, T)
  BY TotalOfPart
<1>4. W[1] = Total(On(v, T))
  <2>1. {x \in S : h[x] = 1} = T
    OBVIOUS
  <2> QED
    BY <2>1 DEF Within
<1>5. W[2] = 0
  <2>1. {x \in S : h[x] = 2} = S \ T
    OBVIOUS
  <2>2. IsFiniteSet(S \ T)
    BY FS_Subset DEF Summable
  <2>3. Total(On(v, S \ T)) = 0
    BY <2>2, TotalOfZeros
  <2> QED
    BY <2>1, <2>3 DEF Within
<1> HIDE DEF W
<1>6. K \ {1} = {2}
  OBVIOUS
<1>7. Total(On(W, K)) = W[1] + Total(On(W, {2}))
  BY <1>2, <1>6, TotalStep
<1>8. Total(On(W, {2})) = W[2]
  BY <1>5, TotalOfOne
<1>9. Total(On(v, T)) \in Nat
  BY <1>3, TotalIsNat
<1> QED
  BY <1>2, <1>3, <1>4, <1>5, <1>7, <1>8, <1>9

LEMMA TotalOfOnes ==
  ASSUME NEW S, IsFiniteSet(S), NEW v, \A x \in S : v[x] = 1
  PROVE  Summable(v, S) /\ Total(On(v, S)) = Cardinality(S)
<1> DEFINE G == {s \in SUBSET S : Total(On(v, s)) = Cardinality(s)}
<1>1. ASSUME NEW s \in SUBSET S, \A x \in s : s \ {x} \in G
      PROVE  s \in G
  <2>1. IsFiniteSet(s)
    BY FS_Subset
  <2>2. CASE s = {}
    BY <2>2, TotalOfNone, FS_EmptySet
  <2>3. CASE s # {}
    <3>1. PICK x \in s : TRUE
      BY <2>3
    <3>2. Summable(v, s)
      BY <2>1 DEF Summable
    <3>3. Total(On(v, s)) = 1 + Total(On(v, s \ {x}))
      BY <3>2, TotalStep
    <3>4. Cardinality(s \ {x}) = Cardinality(s) - 1 /\ Cardinality(s) \in Nat
      BY <2>1, FS_RemoveElement, FS_CardinalityType
    <3>5. Total(On(v, s \ {x})) = Cardinality(s \ {x})
      BY <1>1
    <3> QED
      BY <3>3, <3>4, <3>5
  <2> QED
    BY <2>2, <2>3
<1> HIDE DEF G
<1>2. S \in G
  BY <1>1, SubsetInduction
<1> QED
  BY <1>2 DEF G, Summable

\* A sum over the pairs of a relation, by its first or by its second members.
ByFirst(v, R, P, i) == Total(On([p \in P |-> v[<<i, p>>]], {p \in P : <<i, p>> \in R}))
BySecond(v, R, D, p) == Total(On([i \in D |-> v[<<i, p>>]], {i \in D : <<i, p>> \in R}))

IsExchange(D, P, R, v, byD, byP) ==
  /\ IsFiniteSet(D) /\ IsFiniteSet(P) /\ R \in SUBSET (D \X P) /\ \A e \in R : v[e] \in Nat
  /\ \A i \in D : byD[i] = ByFirst(v, R, P, i)
  /\ \A p \in P : byP[p] = BySecond(v, R, D, p)
SumAlike(u, S, v, T) == Summable(u, S) /\ Summable(v, T) /\ Total(On(u, S)) = Total(On(v, T))

LEMMA TotalExchanged ==
  ASSUME NEW D, NEW P, NEW R, NEW v, NEW byD, NEW byP, IsExchange(D, P, R, v, byD, byP)
  PROVE  SumAlike(byD, D, byP, P)
<1>0. /\ IsFiniteSet(D) /\ IsFiniteSet(P) /\ R \in SUBSET (D \X P) /\ \A e \in R : v[e] \in Nat
      /\ \A i \in D : byD[i] = ByFirst(v, R, P, i)
      /\ \A p \in P : byP[p] = BySecond(v, R, D, p)
  BY DEF IsExchange
<1>1. IsFiniteSet(R)
  BY <1>0, FS_Product, FS_Subset
<1>2. Summable(v, R)
  BY <1>0, <1>1 DEF Summable
<1> DEFINE first == [e \in R |-> e[1]]
           second == [e \in R |-> e[2]]
<1>3. (\A e \in R : first[e] \in D) /\ (\A e \in R : second[e] \in P)
  BY <1>0
<1>4. ASSUME NEW i \in D PROVE Within(v, R, first, D)[i] = byD[i]
  <2> DEFINE T == {p \in P : <<i, p>> \in R}
             w == [p \in P |-> v[<<i, p>>]]
             f == [p \in T |-> <<i, p>>]
             E == {e \in R : first[e] = i}
  <2>0. \A p \in T : w[p] = v[<<i, p>>] /\ v[<<i, p>>] \in Nat
    BY <1>0
  <2>1. Summable(w, T)
    <3>1. IsFiniteSet(T)
      BY <1>0, FS_Subset
    <3> QED
      BY <2>0, <3>1 DEF Summable
  <2>2. E = {f[p] : p \in T}
    <3>1. \A e \in E : e = <<i, e[2]>> /\ e[2] \in T
      BY <1>0
    <3>2. \A p \in T : <<i, p>> \in E
      OBVIOUS
    <3> HIDE DEF E, T
    <3> QED
      BY <3>1, <3>2
  <2>3. \A x, y \in T : f[x] = f[y] => x = y
    OBVIOUS
  <2>4. \A x \in T : v[f[x]] = w[x]
    OBVIOUS
  <2>5. Total(On(v, E)) = Total(On(w, T))
    <3> HIDE DEF T, w, f, E
    <3> QED
      BY <2>1, <2>2, <2>3, <2>4, TotalRenamed
  <2>6. byD[i] = Total(On(w, T))
    BY <1>0 DEF ByFirst
  <2> QED
    BY <2>5, <2>6 DEF Within
<1>5. ASSUME NEW p \in P PROVE Within(v, R, second, P)[p] = byP[p]
  <2> DEFINE T == {i \in D : <<i, p>> \in R}
             w == [i \in D |-> v[<<i, p>>]]
             f == [i \in T |-> <<i, p>>]
             E == {e \in R : second[e] = p}
  <2>0. \A i \in T : w[i] = v[<<i, p>>] /\ v[<<i, p>>] \in Nat
    BY <1>0
  <2>1. Summable(w, T)
    <3>1. IsFiniteSet(T)
      BY <1>0, FS_Subset
    <3> QED
      BY <2>0, <3>1 DEF Summable
  <2>2. E = {f[i] : i \in T}
    <3>1. \A e \in E : e = <<e[1], p>> /\ e[1] \in T
      BY <1>0
    <3>2. \A i \in T : <<i, p>> \in E
      OBVIOUS
    <3> HIDE DEF E, T
    <3> QED
      BY <3>1, <3>2
  <2>3. \A x, y \in T : f[x] = f[y] => x = y
    OBVIOUS
  <2>4. \A x \in T : v[f[x]] = w[x]
    OBVIOUS
  <2>5. Total(On(v, E)) = Total(On(w, T))
    <3> HIDE DEF T, w, f, E
    <3> QED
      BY <2>1, <2>2, <2>3, <2>4, TotalRenamed
  <2>6. byP[p] = Total(On(w, T))
    BY <1>0 DEF BySecond
  <2> QED
    BY <2>5, <2>6 DEF Within
<1>6. Total(On(v, R)) = Total(On(Within(v, R, first, D), D))
  BY <1>0, <1>2, <1>3, Regrouped
<1>7. Total(On(v, R)) = Total(On(Within(v, R, second, P), P))
  BY <1>0, <1>2, <1>3, Regrouped
<1>8. Summable(Within(v, R, first, D), D) /\ Summable(Within(v, R, second, P), P)
  BY <1>0, <1>2, WithinIs
<1>9. On(Within(v, R, first, D), D) = On(byD, D)
  BY <1>4 DEF On
<1>10. On(Within(v, R, second, P), P) = On(byP, P)
  BY <1>5 DEF On
<1> QED
  BY <1>4, <1>5, <1>6, <1>7, <1>8, <1>9, <1>10 DEF Summable, SumAlike


-----------------------------------------------------------------------------
(* Groups under one label do not differ in what the label is about, and each *)
(* group has as many layers as it says.                                      *)

AttnAlike(g, h) ==
  g.nq = h.nq /\ g.nkv = h.nkv /\ g.dim = h.dim /\ g.cap = h.cap /\ g.hasMla = h.hasMla /\ g.mla = h.mla
FfnAlike(g, h) == g.dense = h.dense /\ g.moe = h.moe /\ g.experts = h.experts /\ g.active = h.active
LabelsTell(g, h) ==
  /\ AttnLabel(g) = AttnLabel(h) => AttnAlike(g, h)
  /\ FfnLabel(g) = FfnLabel(h) => FfnAlike(g, h)
LayersOfGroup(a, i) == {l \in DOMAIN a.layers : a.layers[l] = i}
IsRegular(a) ==
  /\ \A i, j \in DOMAIN a.groups : LabelsTell(a.groups[i], a.groups[j])
  /\ \A i \in DOMAIN a.groups : Cardinality(LayersOfGroup(a, i)) = a.groups[i].count

LEMMA OneGroupIsAlike ==
  ASSUME NEW g
  PROVE  LabelsTell(g, g)
BY DEF LabelsTell, AttnAlike, FfnAlike

LEMMA SplitIsRegular ==
  ASSUME NEW hf, IsHfOf(hf), SplitsFfn(hf)
  PROVE  LET groups == GroupsOf(hf)
             layers == LayersOf(hf)
         IN  /\ \A i, j \in DOMAIN groups : LabelsTell(groups[i], groups[j])
             /\ \A i \in DOMAIN groups : Cardinality({l \in DOMAIN layers : layers[l] = i}) = groups[i].count
<1> DEFINE groups == GroupsOf(hf)
           dense == Group(hf, hf.firstDense, None, hf.inter, FALSE)
           moe == Group(hf, hf.numLayers - hf.firstDense, None, SharedWidthOf(hf), TRUE)
           layers == [i \in 1..hf.numLayers |-> IF i <= hf.firstDense \/ hf.firstDense = 0 THEN 1 ELSE 2]
<1>1. groups = IF hf.firstDense = 0 THEN <<moe>> ELSE <<dense, moe>>
  BY DEF GroupsOf, SplitFfnGroups
<1>2. LayersOf(hf) = layers
  BY DEF LayersOf
<1>3. /\ hf.numLayers \in Nat /\ hf.firstDense \in Nat /\ hf.firstDense <= hf.numLayers
  BY SizesOfHf DEF IsHfOf
<1>4. dense.count = hf.firstDense /\ moe.count = hf.numLayers - hf.firstDense
  BY DEF Group
<1>5. LabelsTell(dense, moe) /\ LabelsTell(moe, dense)
  <2>1. AttnAlike(dense, moe) /\ AttnAlike(moe, dense)
    BY DEF AttnAlike, Group
  <2>2. dense.experts = 0 /\ moe.experts = NumExpertsOf(hf)
    BY DEF Group
  <2>3. NumExpertsOf(hf) \in Nat /\ NumExpertsOf(hf) # 0
    BY SizesOfHf DEF SplitsFfn, NumExpertsOf, None
  <2> HIDE DEF dense, moe
  <2>4. FfnLabel(dense) = "dense" /\ FfnLabel(moe) \in {"moe", "dense+moe"}
    BY <2>2, <2>3 DEF FfnLabel
  <2>5. FfnLabel(dense) # FfnLabel(moe)
    BY <2>4
  <2> QED
    BY <2>1, <2>5 DEF LabelsTell
<1>6. LabelsTell(dense, dense) /\ LabelsTell(moe, moe)
  BY OneGroupIsAlike
<1> HIDE DEF dense, moe
<1>7. CASE hf.firstDense = 0
  <2>1. groups = <<moe>>
    BY <1>1, <1>7
  <2> HIDE DEF groups
  <2>2. DOMAIN groups = {1} /\ groups[1] = moe
    BY <2>1
  <2>3. {l \in DOMAIN layers : layers[l] = 1} = 1..hf.numLayers
    <3>1. DOMAIN layers = 1..hf.numLayers
      OBVIOUS
    <3>2. \A l \in 1..hf.numLayers : layers[l] = 1
      BY <1>7
    <3> HIDE DEF layers
    <3> QED
      BY <3>1, <3>2
  <2>4. Cardinality(1..hf.numLayers) = hf.numLayers
    <3>1. ASSUME NEW n \in Nat PROVE Cardinality(1..n) = n
      BY FS_Interval
    <3> QED
      BY <1>3, <3>1
  <2>5. moe.count = hf.numLayers
    BY <1>3, <1>4, <1>7
  <2> HIDE DEF layers
  <2>6. \A i \in DOMAIN groups : Cardinality({l \in DOMAIN layers : layers[l] = i}) = groups[i].count
    BY <2>2, <2>3, <2>4, <2>5
  <2>7. \A i, j \in DOMAIN groups : LabelsTell(groups[i], groups[j])
    BY <1>6, <2>2
  <2> QED
    BY <1>2, <2>6, <2>7 DEF groups
<1>8. CASE hf.firstDense # 0
  <2>1. groups = <<dense, moe>>
    BY <1>1, <1>8
  <2> HIDE DEF groups
  <2>2. DOMAIN groups = {1, 2} /\ groups[1] = dense /\ groups[2] = moe
    BY <2>1
  <2>3. {l \in DOMAIN layers : layers[l] = 1} = 1..hf.firstDense
    BY <1>3, <1>8
  <2>4. {l \in DOMAIN layers : layers[l] = 2} = (hf.firstDense + 1)..hf.numLayers
    BY <1>3, <1>8
  <2>5. Cardinality(1..hf.firstDense) = hf.firstDense
    BY <1>3, FS_Interval
  <2>6. Cardinality((hf.firstDense + 1)..hf.numLayers) = hf.numLayers - hf.firstDense
    <3>1. hf.firstDense + 1 \in Int /\ hf.numLayers \in Int
      BY <1>3
    <3>2. Cardinality((hf.firstDense + 1)..hf.numLayers)
            = IF hf.firstDense + 1 > hf.numLayers THEN 0 ELSE hf.numLayers - (hf.firstDense + 1) + 1
      BY <3>1, FS_Interval
    <3> QED
      BY <1>3, <3>2
  <2> HIDE DEF layers
  <2>7. \A i \in DOMAIN groups : Cardinality({l \in DOMAIN layers : layers[l] = i}) = groups[i].count
    BY <1>4, <2>2, <2>3, <2>4, <2>5, <2>6
  <2>8. \A i, j \in DOMAIN groups : LabelsTell(groups[i], groups[j])
    BY <1>5, <1>6, <2>2
  <2> QED
    BY <1>2, <2>7, <2>8 DEF groups
<1> QED
  BY <1>7, <1>8

LEMMA MixIsRegular ==
  ASSUME NEW hf, IsHfOf(hf), ~SplitsFfn(hf), MixesAttention(hf), hf.window > 0
  PROVE  LET groups == GroupsOf(hf)
             layers == LayersOf(hf)
         IN  /\ \A i, j \in DOMAIN groups : LabelsTell(groups[i], groups[j])
             /\ \A i \in DOMAIN groups : Cardinality({l \in DOMAIN layers : layers[l] = i}) = groups[i].count
<1> DEFINE groups == GroupsOf(hf)
           Of(kind) == {i \in DOMAIN hf.layerTypes : hf.layerTypes[i] = kind}
           routed == NumExpertsOf(hf) > 0
           plain == [hf EXCEPT !.mla = <<>>]
           width == hf.inter + SharedWidthOf(hf)
           sliding == Group(plain, Cardinality(Of("sliding")), hf.window, width, routed)
           whole == Group(plain, Cardinality(Of("full")), None, width, routed)
           full == [whole EXCEPT !.nkv = IF hf.globalNkv = None THEN @ ELSE hf.globalNkv,
                                 !.dim = IF hf.globalDim = None THEN @ ELSE hf.globalDim]
           layers == [i \in DOMAIN hf.layerTypes |-> IF hf.layerTypes[i] = "sliding" THEN 1 ELSE 2]
<1>1. groups = IF Cardinality(Of("full")) = 0 THEN <<sliding>> ELSE <<sliding, full>>
  BY DEF GroupsOf, MixedGroups
<1>2. LayersOf(hf) = layers
  BY DEF LayersOf
<1>3. plain.mla = <<>>
  BY DEF IsHfOf, HfConfigs
<1>4. /\ full.count = whole.count /\ full.cap = whole.cap /\ full.hasMla = whole.hasMla
      /\ full.dense = whole.dense /\ full.moe = whole.moe /\ full.experts = whole.experts /\ full.active = whole.active
  <2>1. {"count", "nq", "nkv", "dim", "cap", "hasMla", "mla", "dense", "moe", "experts", "active"} = DOMAIN whole
    BY DEF Group
  <2> HIDE DEF whole
  <2> QED
    BY <2>1
<1> HIDE DEF full, plain, width, routed
<1>5. /\ sliding.count = Cardinality(Of("sliding")) /\ sliding.cap = hf.window /\ sliding.hasMla = FALSE
      /\ whole.count = Cardinality(Of("full")) /\ whole.cap = None /\ whole.hasMla = FALSE
      /\ FfnAlike(sliding, whole)
  BY <1>3 DEF Group, FfnAlike
<1> HIDE DEF sliding, whole
<1>6. LabelsTell(sliding, full) /\ LabelsTell(full, sliding)
  <2>1. AttnLabel(sliding) = "sliding" /\ AttnLabel(full) = "global"
    BY <1>4, <1>5, SizesOfHf DEF AttnLabel, None
  <2>2. FfnAlike(sliding, full) /\ FfnAlike(full, sliding)
    BY <1>4, <1>5 DEF FfnAlike
  <2> QED
    BY <2>1, <2>2 DEF LabelsTell
<1>7. LabelsTell(sliding, sliding) /\ LabelsTell(full, full)
  BY OneGroupIsAlike
<1>8. \A i \in DOMAIN hf.layerTypes : hf.layerTypes[i] \in {"sliding", "full"}
  BY DEF IsHfOf, HfConfigs
<1>9. {l \in DOMAIN layers : layers[l] = 1} = Of("sliding") /\ {l \in DOMAIN layers : layers[l] = 2} = Of("full")
  BY <1>8
<1> HIDE DEF layers, Of
<1>10. DOMAIN groups \subseteq {1, 2} /\ groups[1] = sliding /\ (2 \in DOMAIN groups => groups[2] = full)
  <2>1. CASE Cardinality(Of("full")) = 0
    <3>1. groups = <<sliding>>
      BY <1>1, <2>1
    <3> QED
      BY <3>1
  <2>2. CASE Cardinality(Of("full")) # 0
    <3>1. groups = <<sliding, full>>
      BY <1>1, <2>2
    <3> QED
      BY <3>1
  <2> QED
    BY <2>1, <2>2
<1> HIDE DEF groups
<1>11. \A i \in DOMAIN groups : Cardinality({l \in DOMAIN layers : layers[l] = i}) = groups[i].count
  BY <1>4, <1>5, <1>9, <1>10
<1>12. \A i, j \in DOMAIN groups : LabelsTell(groups[i], groups[j])
  BY <1>6, <1>7, <1>10
<1> QED
  BY <1>2, <1>11, <1>12 DEF groups

LEMMA UniformIsRegular ==
  ASSUME NEW hf, IsHfOf(hf), ~SplitsFfn(hf), ~MixesAttention(hf)
  PROVE  LET groups == GroupsOf(hf)
             layers == LayersOf(hf)
         IN  /\ \A i, j \in DOMAIN groups : LabelsTell(groups[i], groups[j])
             /\ \A i \in DOMAIN groups : Cardinality({l \in DOMAIN layers : layers[l] = i}) = groups[i].count
<1> DEFINE groups == GroupsOf(hf)
           only == Group(hf, hf.numLayers, hf.window, hf.inter + SharedWidthOf(hf), NumExpertsOf(hf) > 0)
           layers == [i \in 1..hf.numLayers |-> 1]
<1>1. groups = <<only>> /\ LayersOf(hf) = layers
  BY DEF GroupsOf, LayersOf, UniformGroups
<1>2. only.count = hf.numLayers /\ hf.numLayers \in Nat
  BY SizesOfHf DEF Group
<1> HIDE DEF only, groups
<1>3. DOMAIN groups = {1} /\ groups[1] = only
  BY <1>1
<1>4. {l \in DOMAIN layers : layers[l] = 1} = 1..hf.numLayers
  OBVIOUS
<1>5. Cardinality(1..hf.numLayers) = hf.numLayers
  BY <1>2, FS_Interval
<1> HIDE DEF layers
<1>6. \A i \in DOMAIN groups : Cardinality({l \in DOMAIN layers : layers[l] = i}) = groups[i].count
  BY <1>2, <1>3, <1>4, <1>5
<1>7. \A i, j \in DOMAIN groups : LabelsTell(groups[i], groups[j])
  BY <1>3, OneGroupIsAlike
<1> QED
  BY <1>1, <1>6, <1>7 DEF groups

LEMMA ArchIsRegular ==
  ASSUME NEW sp \in Specs
  PROVE  IsRegular(ArchOf(sp))
<1> DEFINE a == ArchOf(sp)
           groups == GroupsOf(sp.hf)
           layers == LayersOf(sp.hf)
<1>1. IsHfOf(sp.hf) /\ (MixesAttention(sp.hf) => sp.hf.window > 0)
  BY SpecsAssumption DEF IsHfOf
<1>2. a.groups = groups /\ a.layers = layers
  BY DEF ArchOf, WithKnobs, ArchFromHf
<1>3. /\ \A i, j \in DOMAIN groups : LabelsTell(groups[i], groups[j])
      /\ \A i \in DOMAIN groups : Cardinality({l \in DOMAIN layers : layers[l] = i}) = groups[i].count
  <2>1. CASE SplitsFfn(sp.hf)
    BY <1>1, <2>1, SplitIsRegular
  <2>2. CASE ~SplitsFfn(sp.hf) /\ MixesAttention(sp.hf)
    BY <1>1, <2>2, MixIsRegular
  <2>3. CASE ~SplitsFfn(sp.hf) /\ ~MixesAttention(sp.hf)
    BY <1>1, <2>3, UniformIsRegular
  <2> QED
    BY <2>1, <2>2, <2>3
<1> HIDE DEF a, groups, layers
<1>4. IsRegular(a)
  BY <1>2, <1>3 DEF IsRegular, LayersOfGroup
<1> QED
  BY <1>4 DEF a


-----------------------------------------------------------------------------
(* How many layers a segment spans, and those of a key at most. *)

LEMMA TotalOfLess ==
  ASSUME NEW S, NEW v, Summable(v, S), NEW T \in SUBSET S
  PROVE  Total(On(v, T)) \in Nat /\ Total(On(v, S)) \in Nat /\ Total(On(v, T)) <= Total(On(v, S))
<1> DEFINE w == [x \in S |-> IF x \in T THEN v[x] ELSE 0]
<1>1. \A x \in S : v[x] \in Nat
  BY DEF Summable
<1>2. \A x \in S : w[x] \in Nat /\ w[x] <= v[x]
  BY <1>1
<1>3. (\A x \in S \ T : w[x] = 0) /\ (\A x \in T : w[x] = v[x])
  OBVIOUS
<1> HIDE DEF w
<1>4. Summable(w, S)
  BY <1>2 DEF Summable
<1>5. Total(On(w, T)) = Total(On(w, S)) /\ Summable(w, T)
  BY <1>3, <1>4, TotalOnPart
<1>6. On(w, T) = On(v, T)
  BY <1>3, OnSame
<1>7. Total(On(w, S)) <= Total(On(v, S))
  BY <1>2, <1>4, TotalMonotone
<1> QED
  BY <1>4, <1>5, <1>6, <1>7, TotalIsNat

CountOf(a) == [i \in DOMAIN a.groups |-> a.groups[i].count]
Spanned(a, S) == Total(On(CountOf(a), S))
AttnGroups(a, label) == {i \in DOMAIN a.groups : AttnLabel(a.groups[i]) = label}
FfnGroups(a, label) == {i \in DOMAIN a.groups : FfnLabel(a.groups[i]) = label}

LEMMA CountsAreSummable ==
  ASSUME NEW a, IsArch(a), NEW S \in SUBSET DOMAIN a.groups
  PROVE  Summable(CountOf(a), S) /\ Spanned(a, S) \in Nat
<1>1. IsFiniteSet(S)
  BY FS_Subset DEF IsArch
<1>2. \A i \in S : CountOf(a)[i] \in Nat
  BY GroupDims DEF IsArch, CountOf
<1>3. Summable(CountOf(a), S)
  BY <1>1, <1>2 DEF Summable
<1> QED
  BY <1>3, TotalIsNat DEF Spanned

LEMMA SpannedAtMost ==
  ASSUME NEW a, IsArch(a), NEW S \in SUBSET DOMAIN a.groups, NEW T \in SUBSET S
  PROVE  Spanned(a, T) <= Spanned(a, S)
BY CountsAreSummable, TotalOfLess DEF Spanned

LEMMA LayersWithIs ==
  ASSUME NEW a, NEW pieces, NEW p
  PROVE  LayersWith(a, pieces, p) = Spanned(a, {j \in DOMAIN a.groups : p \in pieces[j]})
<1> DEFINE S == {j \in DOMAIN a.groups : p \in pieces[j]}
<1>1. On(CountOf(a), S) = [i \in S |-> a.groups[i].count]
  BY DEF On, CountOf
<1> QED
  BY <1>1 DEF LayersWith, Spanned

\* The layers of some groups, counted and added up.
LEMMA LayersSpanned ==
  ASSUME NEW a, IsArch(a), IsRegular(a), NEW S \in SUBSET DOMAIN a.groups
  PROVE  Cardinality({l \in DOMAIN a.layers : a.layers[l] \in S}) = Spanned(a, S)
<1> DEFINE D == {l \in DOMAIN a.layers : a.layers[l] \in S}
           one == [l \in D |-> 1]
           W == Within(one, D, a.layers, S)
<1>1. IsFiniteSet(D)
  <2>1. DOMAIN a.layers = 1..Len(a.layers) /\ Len(a.layers) \in Nat
    BY DEF IsArch
  <2>2. IsFiniteSet(DOMAIN a.layers)
    BY <2>1, FS_Interval
  <2> QED
    BY <2>2, FS_Subset
<1>2. Summable(one, D) /\ Total(On(one, D)) = Cardinality(D)
  <2>1. \A l \in D : one[l] = 1
    OBVIOUS
  <2> HIDE DEF one, D
  <2> QED
    BY <1>1, <2>1, TotalOfOnes
<1>3. IsFiniteSet(S)
  BY FS_Subset DEF IsArch
<1>4. \A l \in D : a.layers[l] \in S
  OBVIOUS
<1>5. ASSUME NEW i \in S PROVE W[i] = CountOf(a)[i]
  <2> DEFINE E == {l \in D : a.layers[l] = i}
  <2>1. E = LayersOfGroup(a, i)
    BY DEF LayersOfGroup
  <2>2. IsFiniteSet(E) /\ \A l \in E : one[l] = 1
    BY <1>1, FS_Subset
  <2>3. Total(On(one, E)) = Cardinality(E)
    <3> HIDE DEF E, one
    <3> QED
      BY <2>2, TotalOfOnes
  <2>4. W[i] = Cardinality(E)
    BY <2>3 DEF Within
  <2> QED
    BY <2>1, <2>4 DEF IsRegular, CountOf
<1> HIDE DEF W, one, D
<1>6. Total(On(one, D)) = Total(On(W, S))
  BY <1>2, <1>3, <1>4, Regrouped DEF W
<1>7. On(W, S) = On(CountOf(a), S)
  BY <1>5, OnSame
<1> QED
  BY <1>2, <1>6, <1>7 DEF Spanned, D

FfnClasses == {"dense_mlp", "routed_experts", "router"}
\* The groups a piece may come from.
Owners(a, p) ==
  IF p.cls \in AttentionClasses THEN AttnGroups(a, p.type)
  ELSE IF p.cls \in FfnClasses THEN FfnGroups(a, p.type) ELSE {}

LEMMA PiecesBelong ==
  ASSUME NEW a, NEW i \in DOMAIN a.groups, NEW g, g = a.groups[i],
         NEW p \in WeightPieces(a, g) \cup KvPieces(a, g) \cup FlopPieces(a, g)
  PROVE  i \in Owners(a, p)
<1>1. \/ p.cls \in AttentionClasses /\ p.type = AttnLabel(g)
      \/ p.cls \in FfnClasses /\ p.type = FfnLabel(g)
  BY DEF WeightPieces, KvPieces, FlopPieces, Piece, Segment, AttentionClasses, FfnClasses
<1>2. \A cls : ~(cls \in AttentionClasses /\ cls \in FfnClasses)
  BY DEF AttentionClasses, FfnClasses
<1> QED
  BY <1>1, <1>2 DEF Owners, AttnGroups, FfnGroups

\* What a segment of a merge says of its layers.
SpansOwners(a, s) ==
  /\ s.cls \in AttentionClasses \cup FfnClasses
  /\ \E S \in SUBSET Owners(a, s) : s.mult = Spanned(a, S)

LEMMA MergedSpans ==
  ASSUME NEW a, IsArch(a), NEW pieces,
         \A i \in DOMAIN a.groups : \A p \in pieces[i] : p \in Segments /\ i \in Owners(a, p),
         NEW s \in Merge(a, pieces)
  PROVE  SpansOwners(a, s)
<1>1. PICK p \in UNION {pieces[i] : i \in DOMAIN a.groups} : s = [p EXCEPT !.mult = LayersWith(a, pieces, p)]
  BY DEF Merge
<1> DEFINE S == {j \in DOMAIN a.groups : p \in pieces[j]}
<1>2. PICK i \in DOMAIN a.groups : p \in pieces[i]
  OBVIOUS
<1>3. p \in Segments /\ i \in Owners(a, p)
  BY <1>2
<1>4. s.mult = LayersWith(a, pieces, p) /\ s.cls = p.cls /\ s.type = p.type
  BY <1>1, <1>3 DEF Segments
<1>5. s.mult = Spanned(a, S)
  BY <1>4, LayersWithIs
<1>6. S \in SUBSET Owners(a, s)
  BY <1>4 DEF Owners
<1>7. s.cls \in AttentionClasses \cup FfnClasses
  BY <1>3, <1>4 DEF Owners
<1> QED
  BY <1>5, <1>6, <1>7 DEF SpansOwners

IsEmbedding(s) == s.cls = "embed" /\ s.type = "" /\ s.mult = 1

LEMMA SegmentsSpan ==
  ASSUME NEW a, IsArch(a), NEW s \in AllSegments(BuildBundle(a))
  PROVE  IsEmbedding(s) \/ SpansOwners(a, s)
<1> DEFINE W == [i \in DOMAIN a.groups |-> Positive(WeightPieces(a, a.groups[i]))]
           K == [i \in DOMAIN a.groups |-> KvPieces(a, a.groups[i])]
           F == [i \in DOMAIN a.groups |-> Positive(FlopPieces(a, a.groups[i]))]
           E1 == Segment("embed", "", 1, EmbedParams(a), None)
           E2 == Segment("embed", "", 1, 2 * a.vocab * a.hidden, None)
<1>1. s \in Merge(a, W) \cup Merge(a, K) \cup Merge(a, F) \cup {E1, E2}
  BY DEF AllSegments, BuildBundle, WeightSegments, KvSegments, FlopSegments
<1>2. IsEmbedding(E1) /\ IsEmbedding(E2)
  BY DEF IsEmbedding, Segment
<1>3. ASSUME NEW i \in DOMAIN a.groups
      PROVE  /\ \A p \in W[i] : p \in Segments /\ i \in Owners(a, p)
             /\ \A p \in K[i] : p \in Segments /\ i \in Owners(a, p)
             /\ \A p \in F[i] : p \in Segments /\ i \in Owners(a, p)
  <2> DEFINE g == a.groups[i]
  <2>1. IsGroup(g)
    BY DEF IsArch
  <2>2. WeightPieces(a, g) \subseteq Segments /\ KvPieces(a, g) \subseteq Segments /\ FlopPieces(a, g) \subseteq Segments
    BY <2>1, PiecesOfGroup DEF IsPiecesOf
  <2>3. \A p \in WeightPieces(a, g) \cup KvPieces(a, g) \cup FlopPieces(a, g) : i \in Owners(a, p)
    BY PiecesBelong
  <2> QED
    BY <2>2, <2>3 DEF Positive
<1> HIDE DEF W, K, F, E1, E2
<1>4. CASE s \in Merge(a, W)
  BY <1>3, <1>4, MergedSpans
<1>5. CASE s \in Merge(a, K)
  BY <1>3, <1>5, MergedSpans
<1>6. CASE s \in Merge(a, F)
  BY <1>3, <1>6, MergedSpans
<1> QED
  BY <1>1, <1>2, <1>4, <1>5, <1>6


LEMMA MostIs ==
  ASSUME NEW M, IsFiniteSet(M), M \subseteq Nat, NEW n \in M, \A m \in M : m <= n
  PROVE  Max(M) = n
<1>1. M \subseteq Int /\ M # {}
  OBVIOUS
<1>2. Max(M) \in M /\ \A y \in M : Max(M) >= y
  BY <1>1, MaxIsOne
<1>3. PICK k \in Nat : k = Max(M) /\ k <= n /\ k >= n
  BY <1>2
<1> QED
  BY <1>3

LayersUnder(b, key) == {s.mult : s \in Under(AllSegments(b), key)}

LEMMA MostUnder ==
  ASSUME NEW b, IsBundle(b), NEW key, NEW n, NEW s \in Under(AllSegments(b), key), s.mult = n,
         \A t \in Under(AllSegments(b), key) : t.mult <= n
  PROVE  key \in KeysOf(b) /\ Max(LayersUnder(b, key)) = n
<1> DEFINE U == Under(AllSegments(b), key)
           f == [t \in U |-> t.mult]
<1>1. IsFiniteSet(AllSegments(b)) /\ AllSegments(b) \subseteq Segments
  BY SegmentsAreFinite
<1>2. IsFiniteSet(U) /\ U \subseteq Segments
  BY <1>1, FS_Subset DEF Under
<1>3. LayersUnder(b, key) = {f[t] : t \in U}
  BY DEF LayersUnder
<1>4. IsFiniteSet(LayersUnder(b, key))
  <2> HIDE DEF U, f
  <2> QED
    BY <1>2, <1>3, ImageIsFinite
<1>5. LayersUnder(b, key) \subseteq Nat
  BY <1>2 DEF LayersUnder, Segments
<1>6. n \in LayersUnder(b, key) /\ \A m \in LayersUnder(b, key) : m <= n
  BY DEF LayersUnder
<1>7. key \in KeysOf(b)
  BY DEF KeysOf, Under
<1> QED
  BY <1>4, <1>5, <1>6, <1>7, MostIs

\* A piece that a set of groups has, and no other group, spans that set.
LEMMA MergeHas ==
  ASSUME NEW a, NEW pieces, NEW p \in Segments, NEW S, S = {j \in DOMAIN a.groups : p \in pieces[j]}, S # {}
  PROVE  \E s \in Merge(a, pieces) : s.cls = p.cls /\ s.type = p.type /\ s.mult = Spanned(a, S)
<1> DEFINE s == [p EXCEPT !.mult = LayersWith(a, pieces, p)]
<1>1. s \in Merge(a, pieces)
  BY DEF Merge
<1>2. s.cls = p.cls /\ s.type = p.type /\ s.mult = LayersWith(a, pieces, p)
  BY DEF Segments
<1>3. LayersWith(a, pieces, p) = Spanned(a, S)
  BY LayersWithIs
<1> HIDE DEF s
<1> QED
  BY <1>1, <1>2, <1>3

AttentionKey(g) == <<"attention", AttnLabel(g)>>
FfnKey(g) == <<"ffn", FfnLabel(g)>>
HeadKey == <<"lm_head", "">>

LEMMA KeysTell ==
  ASSUME NEW s, s.cls \in Classes
  PROVE  /\ ComponentOf(s.cls) = "attention" <=> s.cls \in AttentionClasses
         /\ ComponentOf(s.cls) = "ffn" <=> s.cls \in FfnClasses
         /\ ComponentOf(s.cls) = "lm_head" <=> s.cls = "embed"
         /\ KeyOf(s)[1] = ComponentOf(s.cls) /\ KeyOf(s)[2] = s.type
BY DEF Classes, ComponentOf, AttentionClasses, FfnClasses, KeyOf

LEMMA AttentionLayers ==
  ASSUME NEW a, IsArch(a), IsRegular(a), NEW i \in DOMAIN a.groups, NEW g, g = a.groups[i],
         NEW b, b = BuildBundle(a)
  PROVE  /\ AttentionKey(g) \in KeysOf(b)
         /\ Max(LayersUnder(b, AttentionKey(g))) = Spanned(a, AttnGroups(a, AttnLabel(g)))
<1> DEFINE S == AttnGroups(a, AttnLabel(g))
           key == AttentionKey(g)
           K == [j \in DOMAIN a.groups |-> KvPieces(a, a.groups[j])]
           p == Piece("attn_kv", AttnLabel(g), KvUnitPerToken(a, g), g.cap)
<1>0. IsGroup(g) /\ IsBundle(b)
  BY BundleIs DEF IsArch
<1>1. p \in Segments /\ p.cls = "attn_kv" /\ p.type = AttnLabel(g) /\ KvPieces(a, g) = {p}
  <2>1. KvPieces(a, g) \subseteq Segments
    BY <1>0, PiecesOfGroup DEF IsPiecesOf
  <2>2. KvPieces(a, g) = {p} /\ p.cls = "attn_kv" /\ p.type = AttnLabel(g)
    BY DEF KvPieces, Piece, Segment
  <2> QED
    BY <2>1, <2>2
<1>2. ASSUME NEW j \in DOMAIN a.groups
      PROVE  p \in K[j] <=> j \in S
  <2> DEFINE h == a.groups[j]
  <2>1. CASE AttnLabel(h) = AttnLabel(g)
    <3>1. LabelsTell(h, g)
      BY DEF IsRegular
    <3>2. AttnAlike(h, g)
      BY <2>1, <3>1 DEF LabelsTell
    <3>3. KvUnitPerToken(a, h) = KvUnitPerToken(a, g) /\ h.cap = g.cap
      BY <3>2 DEF KvUnitPerToken, AttnAlike
    <3>4. KvPieces(a, h) = KvPieces(a, g)
      BY <2>1, <3>3 DEF KvPieces
    <3> QED
      BY <1>1, <2>1, <3>4 DEF AttnGroups
  <2>2. CASE AttnLabel(h) # AttnLabel(g)
    <3>1. \A q \in KvPieces(a, h) : q.type = AttnLabel(h)
      BY DEF KvPieces, Piece, Segment
    <3> QED
      BY <1>1, <2>2, <3>1 DEF AttnGroups
  <2> QED
    BY <2>1, <2>2
<1> HIDE DEF p, K
<1>3. S = {j \in DOMAIN a.groups : p \in K[j]} /\ S # {}
  BY <1>2 DEF AttnGroups
<1> HIDE DEF S
<1>4. PICK s \in Merge(a, K) : s.cls = p.cls /\ s.type = p.type /\ s.mult = Spanned(a, S)
  BY <1>1, <1>3, MergeHas
<1>5. s \in AllSegments(b)
  BY <1>4 DEF AllSegments, BuildBundle, KvSegments, K
<1>6. KeyOf(s) = key
  BY <1>1, <1>4 DEF KeyOf, ComponentOf, AttentionClasses, AttentionKey
<1>7. s \in Under(AllSegments(b), key)
  BY <1>5, <1>6 DEF Under
<1>8. ASSUME NEW t \in Under(AllSegments(b), key)
      PROVE  t.mult <= Spanned(a, S)
  <2>1. t \in AllSegments(b) /\ KeyOf(t) = key
    BY DEF Under
  <2>0. t \in Segments
    BY <1>0, <2>1, SegmentsAreFinite
  <2>2. t.cls \in Classes
    BY <2>0 DEF Segments
  <2>3. t.cls \in AttentionClasses /\ t.type = AttnLabel(g)
    BY <2>1, <2>2, KeysTell DEF AttentionKey
  <2>4. ~IsEmbedding(t)
    BY <2>3 DEF IsEmbedding, AttentionClasses
  <2>5. SpansOwners(a, t)
    BY <2>1, <2>4, SegmentsSpan
  <2>6. PICK T \in SUBSET Owners(a, t) : t.mult = Spanned(a, T)
    BY <2>5 DEF SpansOwners
  <2>7. Owners(a, t) = S
    BY <2>3 DEF Owners, S
  <2>8. S \in SUBSET DOMAIN a.groups
    BY DEF S, AttnGroups
  <2> QED
    BY <2>6, <2>7, <2>8, SpannedAtMost
<1>9. key \in KeysOf(b) /\ Max(LayersUnder(b, key)) = Spanned(a, S)
  <2> HIDE DEF key
  <2> QED
    BY <1>0, <1>4, <1>7, <1>8, MostUnder
<1> QED
  BY <1>9 DEF S

LEMMA FfnLayers ==
  ASSUME NEW a, IsArch(a), IsRegular(a), NEW i \in DOMAIN a.groups, NEW g, g = a.groups[i], HasFfn(g),
         NEW b, b = BuildBundle(a)
  PROVE  /\ FfnKey(g) \in KeysOf(b)
         /\ Max(LayersUnder(b, FfnKey(g))) = Spanned(a, FfnGroups(a, FfnLabel(g)))
<1> DEFINE S == FfnGroups(a, FfnLabel(g))
           key == FfnKey(g)
           W == [j \in DOMAIN a.groups |-> Positive(WeightPieces(a, a.groups[j]))]
           dense == Piece("dense_mlp", FfnLabel(g), MlpBlockParams(a, g.dense), None)
           router == Piece("router", FfnLabel(g), RouterParams(a, g), None)
<1>0. IsGroup(g) /\ IsBundle(b)
  BY BundleIs DEF IsArch
<1>1. PICK p \in WeightPieces(a, g) : p \in {dense, router} /\ p.unit > 0
  <2>0. dense \in WeightPieces(a, g) /\ router \in WeightPieces(a, g)
    BY DEF WeightPieces
  <2>1. a.hidden \in Nat /\ a.hidden > 0 /\ g.dense \in Nat /\ g.experts \in Nat
    BY <1>0, ElementBytes, GroupDims
  <2>2. dense.unit = 3 * a.hidden * g.dense /\ router.unit = a.hidden * g.experts
    BY DEF Piece, Segment, MlpBlockParams, RouterParams
  <2> HIDE DEF dense, router
  <2>3. CASE g.dense > 0
    <3>1. 3 * a.hidden \in Nat /\ 3 * a.hidden > 0
      BY <2>1
    <3>2. dense.unit > 0
      BY <2>1, <2>2, <2>3, <3>1, Product2
    <3> QED
      BY <2>0, <3>2
  <2>4. CASE g.experts > 0
    <3>1. router.unit > 0
      BY <2>1, <2>2, <2>4, Product2
    <3> QED
      BY <2>0, <3>1
  <2> QED
    BY <2>3, <2>4 DEF HasFfn
<1>2. p \in Segments /\ p.cls \in {"dense_mlp", "router"} /\ p.type = FfnLabel(g)
  <2>1. WeightPieces(a, g) \subseteq Segments
    BY <1>0, PiecesOfGroup DEF IsPiecesOf
  <2>2. p.cls \in {"dense_mlp", "router"} /\ p.type = FfnLabel(g)
    BY <1>1 DEF Piece, Segment
  <2> QED
    BY <1>1, <2>1, <2>2
<1>3. ASSUME NEW j \in DOMAIN a.groups
      PROVE  p \in W[j] <=> j \in S
  <2> DEFINE h == a.groups[j]
  <2>1. CASE FfnLabel(h) = FfnLabel(g)
    <3>1. LabelsTell(h, g)
      BY DEF IsRegular
    <3>2. FfnAlike(h, g)
      BY <2>1, <3>1 DEF LabelsTell
    <3>3. MlpBlockParams(a, h.dense) = MlpBlockParams(a, g.dense) /\ RouterParams(a, h) = RouterParams(a, g)
      BY <3>2 DEF FfnAlike, RouterParams
    <3>4. dense \in WeightPieces(a, h) /\ router \in WeightPieces(a, h)
      BY <2>1, <3>3 DEF WeightPieces
    <3> QED
      BY <1>1, <2>1, <3>4 DEF FfnGroups, Positive
  <2>2. CASE FfnLabel(h) # FfnLabel(g)
    <3>1. \A q \in WeightPieces(a, h) : q.cls \in {"dense_mlp", "router"} => q.type = FfnLabel(h)
      BY DEF WeightPieces, Piece, Segment
    <3> QED
      BY <1>2, <2>2, <3>1 DEF FfnGroups, Positive
  <2> QED
    BY <2>1, <2>2
<1> HIDE DEF dense, router, W
<1>4. S = {j \in DOMAIN a.groups : p \in W[j]} /\ S # {}
  BY <1>3 DEF FfnGroups
<1> HIDE DEF S
<1>5. PICK s \in Merge(a, W) : s.cls = p.cls /\ s.type = p.type /\ s.mult = Spanned(a, S)
  BY <1>2, <1>4, MergeHas
<1>6. s \in AllSegments(b)
  BY <1>5 DEF AllSegments, BuildBundle, WeightSegments, W
<1>7. KeyOf(s) = key
  BY <1>2, <1>5 DEF KeyOf, ComponentOf, AttentionClasses, FfnKey
<1>8. s \in Under(AllSegments(b), key)
  BY <1>6, <1>7 DEF Under
<1>9. ASSUME NEW t \in Under(AllSegments(b), key)
      PROVE  t.mult <= Spanned(a, S)
  <2>1. t \in AllSegments(b) /\ KeyOf(t) = key
    BY DEF Under
  <2>0. t \in Segments
    BY <1>0, <2>1, SegmentsAreFinite
  <2>2. t.cls \in Classes
    BY <2>0 DEF Segments
  <2>3. t.cls \in FfnClasses /\ t.type = FfnLabel(g)
    BY <2>1, <2>2, KeysTell DEF FfnKey
  <2>4. ~IsEmbedding(t) /\ t.cls \notin AttentionClasses
    BY <2>3 DEF IsEmbedding, FfnClasses, AttentionClasses
  <2>5. SpansOwners(a, t)
    BY <2>1, <2>4, SegmentsSpan
  <2>6. PICK T \in SUBSET Owners(a, t) : t.mult = Spanned(a, T)
    BY <2>5 DEF SpansOwners
  <2>7. Owners(a, t) = S
    BY <2>3, <2>4 DEF Owners, S
  <2>8. S \in SUBSET DOMAIN a.groups
    BY DEF S, FfnGroups
  <2> QED
    BY <2>6, <2>7, <2>8, SpannedAtMost
<1>10. key \in KeysOf(b) /\ Max(LayersUnder(b, key)) = Spanned(a, S)
  <2> HIDE DEF key
  <2> QED
    BY <1>0, <1>5, <1>8, <1>9, MostUnder
<1> QED
  BY <1>10 DEF S

LEMMA HeadLayers ==
  ASSUME NEW a, IsArch(a), NEW b, b = BuildBundle(a)
  PROVE  HeadKey \in KeysOf(b) /\ Max(LayersUnder(b, HeadKey)) = 1
<1> DEFINE s == Segment("embed", "", 1, EmbedParams(a), None)
<1>0. IsBundle(b)
  BY BundleIs
<1>1. s \in AllSegments(b)
  BY DEF AllSegments, BuildBundle, WeightSegments
<1>2. KeyOf(s) = HeadKey /\ s.mult = 1
  BY DEF Segment, KeyOf, ComponentOf, AttentionClasses, HeadKey
<1>3. s \in Under(AllSegments(b), HeadKey)
  BY <1>1, <1>2 DEF Under
<1>4. ASSUME NEW t \in Under(AllSegments(b), HeadKey)
      PROVE  t.mult <= 1
  <2>1. t \in AllSegments(b) /\ KeyOf(t) = HeadKey
    BY DEF Under
  <2>0. t \in Segments
    BY <1>0, <2>1, SegmentsAreFinite
  <2>2. t.cls \in Classes
    BY <2>0 DEF Segments
  <2>3. t.cls = "embed"
    <3>1. HeadKey[1] = "lm_head"
      BY DEF HeadKey
    <3>2. KeyOf(t)[1] = "lm_head"
      BY <2>1, <3>1
    <3> QED
      BY <2>2, <3>2, KeysTell
  <2>4. ~SpansOwners(a, t)
    BY <2>3 DEF SpansOwners, AttentionClasses, FfnClasses
  <2>5. IsEmbedding(t)
    BY <2>1, <2>4, SegmentsSpan
  <2>6. t.mult = 1
    BY <2>5 DEF IsEmbedding
  <2> QED
    BY <2>6
<1> HIDE DEF s
<1> QED
  BY <1>0, <1>2, <1>3, <1>4, MostUnder


-----------------------------------------------------------------------------
(* The bodies of a layer, and the layers the records of a key represent.     *)

InstKey(x) == <<x.component, x.variant>>
IsBody(B, g) ==
  /\ \E x \in B : InstKey(x) = AttentionKey(g)
  /\ HasFfn(g) => \E x \in B : InstKey(x) = FfnKey(g)
  /\ \A x \in B : InstKey(x) = AttentionKey(g) \/ (HasFfn(g) /\ InstKey(x) = FfnKey(g))
  /\ \A x, y \in B : InstKey(x) = InstKey(y) => x = y

LEMMA KeysDiffer ==
  ASSUME NEW g, NEW h
  PROVE  AttentionKey(g) # FfnKey(h) /\ AttentionKey(g) # HeadKey /\ FfnKey(g) # HeadKey
<1>1. AttentionKey(g)[1] = "attention" /\ FfnKey(h)[1] = "ffn" /\ FfnKey(g)[1] = "ffn" /\ HeadKey[1] = "lm_head"
  BY DEF AttentionKey, FfnKey, HeadKey
<1> QED
  BY <1>1

LEMMA BodyOf ==
  ASSUME NEW g, NEW x, InstKey(x) = AttentionKey(g), NEW y, InstKey(y) = FfnKey(g),
         NEW B, B = IF HasFfn(g) THEN {x, y} ELSE {x}
  PROVE  IsBody(B, g)
BY KeysDiffer DEF IsBody

LEMMA BoundaryBodyIs ==
  ASSUME NEW a, NEW cfg, NEW op, NEW g
  PROVE  IsBody(BoundaryBodies(a, cfg, op, g), g)
<1> DEFINE Body(component, variant, layout) ==
               Instance(component, variant, HiddenBytes(a, cfg, op, layout, OpTokens(op)),
                        HiddenBytes(a, cfg, op, layout, OpTokens(op)))
           x == Body("attention", AttnLabel(g), "attention_body")
           y == Body("ffn", FfnLabel(g), "ffn_body")
<1>1. InstKey(x) = AttentionKey(g) /\ InstKey(y) = FfnKey(g)
  BY DEF Instance, InstKey, AttentionKey, FfnKey
<1>2. BoundaryBodies(a, cfg, op, g) = {x} \cup (IF HasFfn(g) THEN {y} ELSE {})
  BY DEF BoundaryBodies
<1> HIDE DEF x, y
<1>3. BoundaryBodies(a, cfg, op, g) = IF HasFfn(g) THEN {x, y} ELSE {x}
  BY <1>2
<1> QED
  BY <1>1, <1>3, BodyOf

\* Context parallelism never spreads a sequence over more ranks than TP has.
LEMMA CpIsAtMostTp ==
  ASSUME NEW cfg, IsConfig(cfg), NEW regime, NEW cap, NEW nkv \in Nat, NEW isMla \in BOOLEAN
  PROVE  CpG(cfg, regime, cap, nkv, isMla) \in Sizes /\ CpG(cfg, regime, cap, nkv, isMla) <= cfg.tp
<1>1. cfg.tp \in Nat /\ cfg.tp > 0 /\ cfg.cp \in Nat /\ cfg.cp > 0
  BY DEF IsConfig, Sizes
<1>2. PICK d \in Nat : d = KvHeads(nkv, isMla) /\ d > 0
  BY HeadDivisors DEF Sizes
<1>3. PICK q \in Nat : q = cfg.tp \div d /\ q <= cfg.tp
  <2>1. PICK t \in Nat : t = cfg.tp
    BY <1>1
  <2>2. t \div d \in Int /\ t % d \in Int /\ 0 <= t % d /\ t = (t \div d) * d + (t % d)
    <3>1. t \in Int /\ d \in Nat \ {0}
      BY <1>2, <2>1
    <3> QED
      BY <3>1, DivMod
  <2>3. t \div d \in Nat
    BY <1>2, <2>1, DivNat DEF Sizes
  <2>4. PICK q \in Nat : q = t \div d
    BY <2>3
  <2>5. q <= q * d /\ q * d \in Int
    BY <1>2, <2>4
  <2>6. q * d <= t
    BY <2>1, <2>2, <2>4, <2>5
  <2> QED
    BY <2>1, <2>4, <2>5, <2>6
<1>4. Least(cfg.cp, Greatest(q, 1)) <= cfg.tp
  BY <1>1, <1>3 DEF Least, Greatest
<1>5. CpG(cfg, regime, cap, nkv, isMla) <= cfg.tp
  BY <1>1, <1>2, <1>3, <1>4 DEF CpG
<1> QED
  BY <1>5, CpIsSize

LEMMA ScaleIsAtLeast ==
  ASSUME NEW d \in Sizes, Scale % d = 0
  PROVE  d <= Scale
<1>1. Scale \div d \in Sizes /\ (Scale \div d) * d = Scale
  BY ShareIsExact
<1>2. PICK q \in Nat : q = Scale \div d /\ q > 0
  BY <1>1 DEF Sizes
<1>3. d \in Nat
  BY DEF Sizes
<1>4. d <= q * d
  BY <1>2, <1>3
<1> QED
  BY <1>1, <1>2, <1>4

LEMMA ShareIsPositive ==
  ASSUME NEW n \in Nat, n > 0, NEW d \in Sizes, d <= Scale
  PROVE  Share(n, d) > 0
<1>1. Scale \in Nat /\ d \in Nat /\ d > 0
  BY ScaleAssumption DEF Sizes
<1>2. PICK m \in Nat : m = n * Scale /\ m >= d
  <2>1. n * Scale \in Nat
    BY <1>1, NatTimes
  <2>2. n * Scale >= Scale
    BY <1>1
  <2> QED
    BY <1>1, <2>1, <2>2
<1>3. PICK q \in Int, r \in Int : q = m \div d /\ 0 <= r /\ r < d /\ m = q * d + r
  BY <1>1, <1>2, DivMod
<1>4. q > 0
  <2> SUFFICES ASSUME ~(q > 0) PROVE FALSE
    OBVIOUS
  <2>1. q \in Nat
    BY <1>1, <1>2, <1>3, DivNat DEF Sizes
  <2>2. q = 0
    BY <2>1
  <2>3. m = r
    BY <1>1, <1>3, <2>2
  <2> QED
    BY <1>1, <1>2, <1>3, <2>3
<1> QED
  BY <1>2, <1>3, <1>4 DEF Share

\* A point at which there is something to do.
IsBusy(op) == IsPoint(op) /\ op.s > 0 /\ op.bs > 0

LEMMA BusyTokens ==
  ASSUME NEW op, IsBusy(op)
  PROVE  OpTokens(op) \in Nat /\ OpTokens(op) > 0
<1>1. op.s \in Nat /\ op.s > 0 /\ op.bs \in Nat /\ op.bs > 0
  BY DEF IsBusy, IsPoint
<1>2. op.s * op.bs \in Nat /\ op.s * op.bs > 0
  BY <1>1, Product2
<1> QED
  BY <1>1, <1>2 DEF OpTokens

\* An operator that reads the hidden state, and reads it whole.
ReadsHidden(o) == (o.name = "gate_proj" /\ o.routed = FALSE) \/ (o.name = "router" /\ o.routed = TRUE)

\* Whoever reads the hidden state of its tokens, reads something.
LEMMA HiddenIsRead ==
  ASSUME NEW a, IsArch(a), NEW g, IsGroup(g), NEW cfg, IsConfig(cfg), Scale % cfg.tp = 0, NEW op, IsBusy(op),
         NEW o, ReadsHidden(o), NEW operator, operator = o.name, NEW routed, routed = o.routed
  PROVE  OperatorBytes(operator, routed, 1, a, g, cfg, op) > 0
<1> DEFINE spread == LocalTokensDivisor(g, cfg, op)
           n == a.dtype * OpTokens(op) * a.hidden
<1>1. operator \in {"gate_proj", "router"} /\ operator # "lm_head" /\ ~(routed /\ operator # "router")
  BY DEF ReadsHidden
<1>2. ActIoElems(operator, routed, a, g)[1] = <<a.hidden, "replicated", 0>>
  <2>1. CASE operator = "gate_proj"
    BY <2>1 DEF ActIoElems, Whole
  <2>2. CASE operator = "router"
    BY <2>2 DEF ActIoElems, Whole
  <2> QED
    BY <1>1, <2>1, <2>2
<1>3. ActivationWidthDivisor("replicated", cfg, op.regime, 0) = 1
  BY DEF ActivationWidthDivisor
<1>4. spread \in Sizes /\ spread <= cfg.tp
  <2>1. g.nkv \in Nat /\ g.hasMla \in BOOLEAN /\ 1 \in Sizes /\ 1 <= cfg.tp
    BY GroupDims DEF IsConfig, Sizes
  <2> QED
    BY <2>1, CpIsAtMostTp DEF LocalTokensDivisor
<1>5. cfg.tp \in Sizes /\ cfg.tp <= Scale
  BY ScaleIsAtLeast DEF IsConfig
<1>6. n \in Nat /\ n > 0
  <2>1. a.dtype \in Nat /\ a.dtype > 0 /\ a.hidden \in Nat /\ a.hidden > 0
    BY ElementBytes
  <2>2. a.dtype * OpTokens(op) \in Nat /\ a.dtype * OpTokens(op) > 0
    BY <2>1, BusyTokens, Product2
  <2> QED
    BY <2>1, <2>2, Product2
<1>7. OperatorBytes(operator, routed, 1, a, g, cfg, op) = Share(n * 1, 1 * spread * 1)
  BY <1>1, <1>2, <1>3 DEF OperatorBytes, LocalTokens
<1> HIDE DEF n, spread
<1>8. n * 1 = n /\ 1 * spread * 1 = spread /\ spread <= Scale
  BY <1>4, <1>5, <1>6, ScaleAssumption DEF Sizes
<1> QED
  BY <1>4, <1>6, <1>7, <1>8, ShareIsPositive

LEMMA OpsParts ==
  ASSUME NEW g, NEW ops, NEW n \in Nat, NEW routed \in BOOLEAN,
         DOMAIN ops = 1..n, \A k \in 1..n : ops[k] \in OpsOfGroup(g)
  PROVE  /\ Marked(ops, routed) \in Seq(MarkedOps(g)) /\ Len(Marked(ops, routed)) = n
         /\ \A k \in 1..n : Marked(ops, routed)[k].name = ops[k] /\ Marked(ops, routed)[k].routed = routed
<1>1. Marked(ops, routed) \in [1..n -> MarkedOps(g)]
  BY DEF Marked, MarkedOps
<1> QED
  BY <1>1 DEF Marked

LEMMA FfnOpsAre ==
  ASSUME NEW g, IsGroup(g)
  PROVE  /\ HasFfn(g) => \E k \in DOMAIN FfnOps(g) : ReadsHidden(FfnOps(g)[k])
         /\ ~HasFfn(g) => DOMAIN FfnOps(g) = {}
<1> DEFINE dense == IF g.dense > 0 THEN Marked(MlpOps, FALSE) ELSE <<>>
           routed == IF g.experts > 0 THEN Marked(Append(MlpOps, "router"), TRUE) ELSE <<>>
<1>1. FfnOps(g) = dense \o routed
  BY DEF FfnOps
<1>2. {"gate_proj", "up_proj", "down_proj", "router"} \subseteq OpsOfGroup(g)
  BY DEF OpsOfGroup, KnownOps
<1>3. /\ DOMAIN MlpOps = 1..3 /\ MlpOps[1] = "gate_proj" /\ MlpOps[2] = "up_proj" /\ MlpOps[3] = "down_proj"
  BY DEF MlpOps
<1>4. PICK router : router = Append(MlpOps, "router")
  OBVIOUS
<1>5. /\ DOMAIN router = 1..4 /\ router[1] = "gate_proj" /\ router[2] = "up_proj" /\ router[3] = "down_proj"
      /\ router[4] = "router"
  BY <1>4 DEF MlpOps
<1> PICK no \in BOOLEAN : no = FALSE
  OBVIOUS
<1> PICK yes \in BOOLEAN : yes = TRUE
  OBVIOUS
<1>6. PICK d : d = Marked(MlpOps, no)
  OBVIOUS
<1>7. PICK t : t = Marked(router, yes)
  OBVIOUS
<1>8. d \in Seq(MarkedOps(g)) /\ Len(d) = 3 /\ ReadsHidden(d[1])
  <2>1. \A k \in 1..3 : k = 1 \/ k = 2 \/ k = 3
    OBVIOUS
  <2>2. \A k \in 1..3 : MlpOps[k] \in OpsOfGroup(g)
    BY <1>2, <1>3, <2>1
  <2>3. PICK n \in Nat : n = 3
    OBVIOUS
  <2>4. DOMAIN MlpOps = 1..n /\ \A k \in 1..n : MlpOps[k] \in OpsOfGroup(g)
    BY <1>3, <2>2, <2>3
  <2>5. d \in Seq(MarkedOps(g)) /\ Len(d) = n /\ \A k \in 1..n : d[k].name = MlpOps[k] /\ d[k].routed = no
    BY <1>6, <2>4, OpsParts
  <2> QED
    BY <1>3, <2>3, <2>5 DEF ReadsHidden
<1>9. t \in Seq(MarkedOps(g)) /\ Len(t) = 4 /\ ReadsHidden(t[4])
  <2>1. \A k \in 1..4 : k = 1 \/ k = 2 \/ k = 3 \/ k = 4
    OBVIOUS
  <2>2. \A k \in 1..4 : router[k] \in OpsOfGroup(g)
    BY <1>2, <1>5, <2>1
  <2>3. PICK n \in Nat : n = 4
    OBVIOUS
  <2>4. DOMAIN router = 1..n /\ \A k \in 1..n : router[k] \in OpsOfGroup(g)
    BY <1>5, <2>2, <2>3
  <2>5. t \in Seq(MarkedOps(g)) /\ Len(t) = n /\ \A k \in 1..n : t[k].name = router[k] /\ t[k].routed = yes
    <3>1. t \in [1..n -> MarkedOps(g)]
      BY <1>7, <2>4 DEF Marked, MarkedOps
    <3>2. DOMAIN t = 1..n /\ \A k \in 1..n : t[k] = [name |-> router[k], routed |-> yes]
      BY <1>7, <2>4 DEF Marked
    <3>3. t \in Seq(MarkedOps(g)) /\ Len(t) = n
      BY <3>1
    <3>4. ASSUME NEW k \in 1..n PROVE t[k].name = router[k] /\ t[k].routed = yes
      <4>1. t[k] = [name |-> router[k], routed |-> yes]
        BY <3>2
      <4> QED
        BY <4>1
    <3> QED
      BY <3>3, <3>4
  <2>6. t[4].name = "router" /\ t[4].routed = yes
    <3>1. 4 \in 1..n
      BY <2>3
    <3> QED
      BY <1>5, <2>5, <3>1
  <2> QED
    BY <2>3, <2>5, <2>6 DEF ReadsHidden
<1>10. g.dense \in Nat /\ g.experts \in Nat
  BY GroupDims
<1>11. CASE g.dense > 0
  <2>1. PICK rest : rest = routed
    OBVIOUS
  <2>2. rest \in Seq(MarkedOps(g))
    <3>1. CASE g.experts > 0
      <4>1. rest = t
        BY <1>4, <1>7, <2>1, <3>1
      <4> QED
        BY <1>9, <4>1
    <3>2. CASE ~(g.experts > 0)
      <4>1. rest = <<>>
        BY <2>1, <3>2
      <4>2. <<>> \in Seq(MarkedOps(g))
        OBVIOUS
      <4> QED
        BY <4>1, <4>2
    <3> QED
      BY <3>1, <3>2
  <2>3. FfnOps(g) = d \o rest
    BY <1>1, <1>6, <1>11, <2>1
  <2>4. Len(d \o rest) = Len(d) + Len(rest) /\ (d \o rest)[1] = d[1] /\ d \o rest \in Seq(MarkedOps(g))
    <3>1. 1 \in 1..Len(d) /\ DOMAIN d = 1..Len(d) /\ Len(rest) \in Nat
      BY <1>8, <2>2
    <3>2. /\ d \o rest \in Seq(MarkedOps(g)) /\ Len(d \o rest) = Len(d) + Len(rest)
          /\ \A k \in 1..Len(d) + Len(rest) : (d \o rest)[k] = IF k <= Len(d) THEN d[k] ELSE rest[k - Len(d)]
      BY <1>8, <2>2, ConcatProperties
    <3>3. 1 \in 1..Len(d) + Len(rest) /\ 1 <= Len(d)
      BY <1>8, <3>1
    <3> QED
      BY <3>2, <3>3
  <2>5. 1 \in DOMAIN (d \o rest)
    BY <1>8, <2>2, <2>4
  <2> QED
    BY <1>8, <1>11, <2>3, <2>4, <2>5 DEF HasFfn
<1>12. CASE ~(g.dense > 0) /\ g.experts > 0
  <2>1. FfnOps(g) = <<>> \o t
    BY <1>1, <1>4, <1>7, <1>12
  <2>2. <<>> \o t = t
    BY <1>9
  <2>3. 4 \in DOMAIN t
    BY <1>9
  <2> QED
    BY <1>9, <1>12, <2>1, <2>2, <2>3 DEF HasFfn
<1>13. CASE ~(g.dense > 0) /\ ~(g.experts > 0)
  <2>1. FfnOps(g) = <<>> \o <<>>
    BY <1>1, <1>13
  <2>2. FfnOps(g) = <<>>
    BY <2>1
  <2> QED
    BY <1>13, <2>2 DEF HasFfn
<1> QED
  BY <1>11, <1>12, <1>13

LEMMA FfnIsRead ==
  ASSUME NEW a, IsArch(a), NEW g, IsGroup(g), NEW cfg, IsConfig(cfg), Scale % cfg.tp = 0, NEW op, IsBusy(op),
         NEW i, i = OperatorsBody("ffn", FfnLabel(g), FfnOps(g), a, cfg, op, g)
  PROVE  i.in + i.out > 0 <=> HasFfn(g)
<1> DEFINE ops == FfnOps(g)
           read(k) == OperatorBytes(ops[k].name, ops[k].routed, 1, a, g, cfg, op)
<1>1. ops \in Seq(MarkedOps(g)) /\ IsPoint(op)
  BY OpsAre DEF IsBusy
<1>2. IsInstance(i) /\ \A k \in DOMAIN ops : i.in >= read(k)
  <2> HIDE DEF ops
  <2>1. IsInstance(OperatorsBody("ffn", FfnLabel(g), ops, a, cfg, op, g))
    BY <1>1, OperatorsBodyIs
  <2>2. ASSUME NEW k \in DOMAIN ops
        PROVE  OperatorsBody("ffn", FfnLabel(g), ops, a, cfg, op, g).in >= read(k)
    BY <1>1, OperatorsBodyIs
  <2> QED
    BY <2>1, <2>2 DEF ops
<1>3. i.in \in Nat /\ i.out \in Nat
  BY <1>2 DEF IsInstance
<1>4. ASSUME HasFfn(g) PROVE i.in > 0
  <2>1. PICK k \in DOMAIN ops : ReadsHidden(ops[k])
    BY <1>4, FfnOpsAre
  <2> HIDE DEF ops
  <2>2. ops[k] \in MarkedOps(g)
    BY <1>1
  <2>3. PICK operator, routed : operator = ops[k].name /\ routed = ops[k].routed
    OBVIOUS
  <2>4. operator \in OpsOfGroup(g) /\ routed \in BOOLEAN
    BY <2>2, <2>3 DEF MarkedOps
  <2>6. PICK bytes : bytes = OperatorBytes(operator, routed, 1, a, g, cfg, op)
    OBVIOUS
  <2>7. bytes > 0
    BY <2>1, <2>3, <2>6, HiddenIsRead
  <2>8. bytes \in Nat
    BY <1>1, <2>4, <2>6, OperatorBytesAre
  <2>9. i.in >= bytes
    BY <1>2, <2>3, <2>6
  <2> QED
    BY <1>3, <2>7, <2>8, <2>9
<1>5. ASSUME ~HasFfn(g) PROVE i.in + i.out = 0
  <2>1. DOMAIN ops = {}
    BY <1>5, FfnOpsAre
  <2> DEFINE Bytes(side) == [k \in DOMAIN ops |-> OperatorBytes(ops[k].name, ops[k].routed, side, a, g, cfg, op)]
  <2>2. i.in = Total(Bytes(1)) /\ i.out = Total(Bytes(2))
    BY DEF OperatorsBody, Instance
  <2>3. Bytes(1) = On(Bytes(1), {}) /\ Bytes(2) = On(Bytes(2), {})
    BY <2>1 DEF On
  <2> HIDE DEF Bytes
  <2>4. Total(Bytes(1)) = 0 /\ Total(Bytes(2)) = 0
    BY <2>3, TotalOfNone
  <2> QED
    BY <2>2, <2>4
<1> QED
  BY <1>3, <1>4, <1>5

LEMMA OperatorBodyIs ==
  ASSUME NEW a, IsArch(a), NEW g, IsGroup(g), NEW cfg, IsConfig(cfg), Scale % cfg.tp = 0, NEW op, IsBusy(op)
  PROVE  IsBody(OperatorBodies(a, cfg, op, g), g)
<1> DEFINE x == OperatorsBody("attention", AttnLabel(g), Marked(Append(AttnOps(a, g), "sdpa"), FALSE), a, cfg, op, g)
           y == OperatorsBody("ffn", FfnLabel(g), FfnOps(g), a, cfg, op, g)
<1>1. InstKey(x) = AttentionKey(g) /\ InstKey(y) = FfnKey(g)
  BY DEF OperatorsBody, Instance, InstKey, AttentionKey, FfnKey
<1>2. OperatorBodies(a, cfg, op, g) = {x} \cup (IF y.in + y.out > 0 THEN {y} ELSE {})
  BY DEF OperatorBodies
<1>3. y.in + y.out > 0 <=> HasFfn(g)
  BY FfnIsRead
<1> HIDE DEF x, y
<1>4. OperatorBodies(a, cfg, op, g) = IF HasFfn(g) THEN {x, y} ELSE {x}
  BY <1>2, <1>3
<1> QED
  BY <1>1, <1>4, BodyOf


-----------------------------------------------------------------------------
(* The layers that the records of a key represent.                           *)

\* The record of an instance, and the layers of D whose bodies have it.
LayersHaving(D, B, i) == {l \in D : i \in B[l]}
RecordOf(D, B, i) == [instance |-> i, mult |-> Cardinality(LayersHaving(D, B, i))]
InstancesOf(D, B, key) == {i \in UNION {B[l] : l \in D} : InstKey(i) = key}
LayersOfKey(D, B, key) == {l \in D : \E i \in B[l] : InstKey(i) = key}
MultOf(R) == [r \in R |-> r.mult]

\* Every layer has one instance under a key at most: the records of the key
\* represent each of its layers once.
LEMMA LayersCounted ==
  ASSUME NEW D, IsFiniteSet(D), NEW B, NEW key,
         \A l \in D : \A x, y \in B[l] : InstKey(x) = InstKey(y) => x = y,
         NEW R, R = {RecordOf(D, B, i) : i \in InstancesOf(D, B, key)}
  PROVE  /\ IsFiniteSet(InstancesOf(D, B, key))
         /\ Summable(MultOf(R), R) /\ Total(MultOf(R)) = Cardinality(LayersOfKey(D, B, key))
<1> DEFINE S == LayersOfKey(D, B, key)
           U == InstancesOf(D, B, key)
           h == [l \in S |-> CHOOSE i \in B[l] : InstKey(i) = key]
           ones == [l \in S |-> 1]
           n == Within(ones, S, h, U)
           f == [i \in U |-> RecordOf(D, B, i)]
           w == MultOf(R)
<1>1. \A l \in S : h[l] \in B[l] /\ InstKey(h[l]) = key
  BY DEF LayersOfKey
<1>2. S \subseteq D /\ \A l \in S : h[l] \in U
  BY <1>1 DEF LayersOfKey, InstancesOf
<1>3. ASSUME NEW i \in U
      PROVE  {l \in S : h[l] = i} = LayersHaving(D, B, i)
  <2>1. InstKey(i) = key
    BY DEF InstancesOf
  <2>2. \A l \in LayersHaving(D, B, i) : l \in S /\ i \in B[l]
    BY <2>1 DEF LayersHaving, LayersOfKey
  <2>3. \A l \in LayersHaving(D, B, i) : h[l] = i
    BY <1>1, <1>2, <2>1, <2>2
  <2>4. \A l \in S : h[l] = i => l \in LayersHaving(D, B, i)
    BY <1>1, <1>2 DEF LayersHaving
  <2> QED
    BY <2>2, <2>3, <2>4
<1>4. \A i \in U : \E l \in S : h[l] = i
  <2>1. ASSUME NEW i \in U
        PROVE  \E l \in S : h[l] = i
    <3>1. \E l \in D : i \in B[l]
      BY DEF InstancesOf
    <3>2. \E l \in D : l \in LayersHaving(D, B, i)
      BY <3>1 DEF LayersHaving
    <3> QED
      BY <1>3, <3>2
  <2> QED
    BY <2>1
<1> HIDE DEF S, U, h
<1>5. IsFiniteSet(S)
  BY <1>2, FS_Subset
<1>6. IsFiniteSet(U)
  <2>1. IsFiniteSet({h[l] : l \in S})
    BY <1>5, ImageIsFinite
  <2>2. U = {h[l] : l \in S}
    BY <1>2, <1>4
  <2> QED
    BY <2>1, <2>2
<1>7. Summable(ones, S) /\ Total(On(ones, S)) = Cardinality(S)
  <2>1. \A l \in S : ones[l] = 1
    OBVIOUS
  <2> HIDE DEF ones
  <2> QED
    BY <1>5, <2>1, TotalOfOnes
<1>8. Summable(n, U) /\ Total(On(n, U)) = Cardinality(S)
  <2> HIDE DEF ones
  <2>1. Summable(Within(ones, S, h, U), U)
    BY <1>6, <1>7, WithinIs
  <2>2. Total(On(ones, S)) = Total(On(Within(ones, S, h, U), U))
    BY <1>2, <1>6, <1>7, Regrouped
  <2> QED
    BY <1>7, <2>1, <2>2
<1>9. \A i \in U : w[f[i]] = n[i]
  <2>1. ASSUME NEW i \in U
        PROVE  w[f[i]] = n[i]
    <3>1. f[i] = RecordOf(D, B, i) /\ f[i] \in R
      BY DEF U
    <3>2. w[f[i]] = f[i].mult
      BY <3>1 DEF MultOf
    <3>3. f[i].mult = Cardinality(LayersHaving(D, B, i))
      BY <3>1 DEF RecordOf
    <3>4. n[i] = Total(On(ones, {l \in S : h[l] = i}))
      BY DEF Within
    <3>5. {l \in S : h[l] = i} = LayersHaving(D, B, i) /\ LayersHaving(D, B, i) \subseteq S
      BY <1>3
    <3>6. IsFiniteSet(LayersHaving(D, B, i)) /\ \A l \in LayersHaving(D, B, i) : ones[l] = 1
      BY <1>5, <3>5, FS_Subset
    <3> HIDE DEF ones
    <3>7. Total(On(ones, LayersHaving(D, B, i))) = Cardinality(LayersHaving(D, B, i))
      BY <3>6, TotalOfOnes
    <3> QED
      BY <3>2, <3>3, <3>4, <3>5, <3>7
  <2> QED
    BY <2>1
<1>10. R = {f[i] : i \in U}
  BY DEF U
<1>11. \A i, j \in U : f[i] = f[j] => i = j
  <2>1. \A i \in U : f[i].instance = i
    BY DEF RecordOf
  <2> QED
    BY <2>1
<1>12. Summable(w, R) /\ Total(On(w, R)) = Total(On(n, U))
  <2> HIDE DEF w, f, n
  <2> QED
    BY <1>8, <1>9, <1>10, <1>11, TotalRenamed
<1>13. On(w, R) = w
  BY DEF On, MultOf
<1> QED
  BY <1>6, <1>8, <1>12, <1>13 DEF S, U

\* What the bodies of the layers are.
LEMMA LayerBodiesAre ==
  ASSUME NEW a, IsArch(a), NEW cfg, IsConfig(cfg), Scale % cfg.tp = 0, NEW op, IsBusy(op),
         NEW B, B = LayerInstances(a, cfg, op)
  PROVE  /\ DOMAIN B = DOMAIN a.layers /\ IsFiniteSet(DOMAIN B)
         /\ \A l \in DOMAIN B : a.layers[l] \in DOMAIN a.groups /\ IsGroup(a.groups[a.layers[l]])
         /\ \A l \in DOMAIN B : IsBody(B[l], a.groups[a.layers[l]])
<1> DEFINE layers == OrderedLayerGroups(a)
<1>1. /\ layers = [l \in DOMAIN a.layers |-> a.groups[a.layers[l]]]
      /\ DOMAIN layers = 1..Len(a.layers) /\ Len(a.layers) \in Nat
      /\ \A l \in DOMAIN layers : IsGroup(layers[l])
  BY LayersAre
<1>2. a.layers \in Seq(DOMAIN a.groups)
  BY DEF IsArch
<1>3. DOMAIN B = DOMAIN layers
  BY DEF LayerInstances
<1> HIDE DEF layers
<1>4. DOMAIN a.layers = DOMAIN layers /\ \A l \in DOMAIN layers : layers[l] = a.groups[a.layers[l]]
  BY <1>1
<1>5. IsFiniteSet(DOMAIN B)
  <2>1. 1 \in Int /\ Len(a.layers) \in Int
    BY <1>1
  <2> QED
    BY <1>1, <1>3, <2>1, FS_Interval
<1>6. ASSUME NEW l \in DOMAIN B
      PROVE  IsBody(B[l], layers[l])
  <2>1. B[l] = BoundaryBodies(a, cfg, op, layers[l]) \/ B[l] = OperatorBodies(a, cfg, op, layers[l])
    BY <1>3 DEF LayerInstances, layers
  <2>2. IsGroup(layers[l])
    BY <1>1, <1>3
  <2> QED
    BY <2>1, <2>2, BoundaryBodyIs, OperatorBodyIs
<1>7. ASSUME NEW l \in DOMAIN B
      PROVE  a.layers[l] \in DOMAIN a.groups
  <2>1. l \in DOMAIN a.layers
    BY <1>3, <1>4
  <2> QED
    BY <1>2, <2>1
<1>8. DOMAIN B = DOMAIN a.layers
  BY <1>3, <1>4
<1>9. ASSUME NEW l \in DOMAIN B
      PROVE  layers[l] = a.groups[a.layers[l]] /\ IsGroup(layers[l])
  BY <1>1, <1>3, <1>4
<1> QED
  BY <1>5, <1>6, <1>7, <1>8, <1>9

\* The layers that have an instance under a key.
LEMMA LayersOfKeyAre ==
  ASSUME NEW a, IsArch(a), IsRegular(a), NEW D, NEW B, D = DOMAIN a.layers,
         \A l \in D : a.layers[l] \in DOMAIN a.groups, \A l \in D : IsBody(B[l], a.groups[a.layers[l]]),
         NEW l \in D, NEW g, g = a.groups[a.layers[l]]
  PROVE  /\ LayersOfKey(D, B, AttentionKey(g)) = {m \in D : a.layers[m] \in AttnGroups(a, AttnLabel(g))}
         /\ HasFfn(g) => LayersOfKey(D, B, FfnKey(g)) = {m \in D : a.layers[m] \in FfnGroups(a, FfnLabel(g))}
<1> DEFINE G(m) == a.groups[a.layers[m]]
<1>1. ASSUME NEW m \in D
      PROVE  (\E i \in B[m] : InstKey(i) = AttentionKey(g)) <=> AttnLabel(G(m)) = AttnLabel(g)
  <2>1. IsBody(B[m], G(m))
    OBVIOUS
  <2>2. AttentionKey(g) = <<"attention", AttnLabel(g)>> /\ AttentionKey(G(m)) = <<"attention", AttnLabel(G(m))>>
    BY DEF AttentionKey
  <2>3. AttentionKey(g) = AttentionKey(G(m)) <=> AttnLabel(G(m)) = AttnLabel(g)
    BY <2>2
  <2>4. AttentionKey(g) # FfnKey(G(m))
    BY KeysDiffer
  <2> QED
    BY <2>1, <2>3, <2>4 DEF IsBody
<1>2. ASSUME NEW m \in D, HasFfn(g)
      PROVE  (\E i \in B[m] : InstKey(i) = FfnKey(g)) <=> FfnLabel(G(m)) = FfnLabel(g)
  <2>1. IsBody(B[m], G(m))
    OBVIOUS
  <2>2. FfnKey(g) = <<"ffn", FfnLabel(g)>> /\ FfnKey(G(m)) = <<"ffn", FfnLabel(G(m))>>
    BY DEF FfnKey
  <2>3. FfnKey(g) = FfnKey(G(m)) <=> FfnLabel(G(m)) = FfnLabel(g)
    BY <2>2
  <2>4. FfnKey(g) # AttentionKey(G(m))
    BY KeysDiffer
  <2>5. FfnLabel(G(m)) = FfnLabel(g) => HasFfn(G(m))
    <3>1. LabelsTell(a.groups[a.layers[m]], a.groups[a.layers[l]])
      BY DEF IsRegular
    <3> QED
      BY <1>2, <3>1 DEF LabelsTell, FfnAlike, HasFfn
  <2> QED
    BY <2>1, <2>3, <2>4, <2>5 DEF IsBody
<1> QED
  BY <1>1, <1>2 DEF LayersOfKey, AttnGroups, FfnGroups

LEMMA RecordsUnder ==
  ASSUME NEW a, IsArch(a), NEW cfg, IsConfig(cfg), Scale % cfg.tp = 0, NEW op, IsBusy(op),
         NEW B, B = LayerInstances(a, cfg, op), NEW D, D = DOMAIN B,
         NEW records, records = ActivationRecords(a, cfg, op), NEW key
  PROVE  /\ key # HeadKey => RecordsOf(records, key) = {RecordOf(D, B, i) : i \in InstancesOf(D, B, key)}
         /\ RecordsOf(records, HeadKey) = {[instance |-> HeadInstance(a, cfg, op), mult |-> 1]}
<1> DEFINE head == [instance |-> HeadInstance(a, cfg, op), mult |-> 1]
           I == UNION {B[l] : l \in D}
<1>1. records = {RecordOf(D, B, i) : i \in I} \cup {head}
  BY DEF ActivationRecords, RecordOf, LayersHaving
<1>2. InstKey(head.instance) = HeadKey
  BY HeadIs DEF InstKey, HeadKey, IsBusy
<1>3. \A k : RecordsOf(records, k) = {r \in records : InstKey(r.instance) = k}
  BY DEF RecordsOf, InstKey
<1>4. \A i \in I : RecordOf(D, B, i).instance = i /\ InstKey(i) # HeadKey
  <2>1. ASSUME NEW l \in D, NEW i \in B[l]
        PROVE  InstKey(i) # HeadKey
    <3>1. IsBody(B[l], a.groups[a.layers[l]])
      BY LayerBodiesAre
    <3> QED
      BY <3>1, KeysDiffer DEF IsBody
  <2> QED
    BY <2>1 DEF RecordOf
<1> HIDE DEF head
<1>5. RecordsOf(records, HeadKey) = {head}
  BY <1>1, <1>2, <1>3, <1>4
<1>6. ASSUME key # HeadKey
      PROVE  RecordsOf(records, key) = {RecordOf(D, B, i) : i \in InstancesOf(D, B, key)}
  <2>1. \A r \in RecordsOf(records, key) : \E i \in InstancesOf(D, B, key) : r = RecordOf(D, B, i)
    BY <1>1, <1>2, <1>3, <1>4, <1>6 DEF InstancesOf
  <2>2. \A i \in InstancesOf(D, B, key) : RecordOf(D, B, i) \in RecordsOf(records, key)
    BY <1>1, <1>3, <1>4 DEF InstancesOf
  <2> QED
    BY <2>1, <2>2
<1> QED
  BY <1>5, <1>6 DEF head

\* Whatever key the records have, the segments have it, for as many layers.
LEMMA KeyIsRepresented ==
  ASSUME NEW a, IsArch(a), IsRegular(a), NEW b, b = BuildBundle(a),
         NEW cfg, IsConfig(cfg), Scale % cfg.tp = 0, NEW op, IsBusy(op),
         NEW records, records = ActivationRecords(a, cfg, op), NEW key, RecordsOf(records, key) # {}
  PROVE  /\ key \in KeysOf(b) /\ Represented(records, key) = Max(LayersUnder(b, key))
         /\ Max(LayersUnder(b, key)) \in Nat /\ Max(LayersUnder(b, key)) >= 1
<1> DEFINE B == LayerInstances(a, cfg, op)
           D == DOMAIN B
<1>1. Represented(records, key) = Total(MultOf(RecordsOf(records, key)))
  BY DEF Represented, MultOf
<1>2. CASE key = HeadKey
  <2> DEFINE head == [instance |-> HeadInstance(a, cfg, op), mult |-> 1]
  <2>1. RecordsOf(records, key) = {head}
    BY <1>2, RecordsUnder
  <2>2. MultOf({head}) = On(MultOf({head}), {head}) /\ MultOf({head})[head] = 1
    BY DEF On, MultOf
  <2> HIDE DEF head
  <2>3. Total(MultOf({head})) = 1
    BY <2>2, TotalOfOne
  <2>4. HeadKey \in KeysOf(b) /\ Max(LayersUnder(b, HeadKey)) = 1
    BY HeadLayers
  <2> QED
    BY <1>1, <1>2, <2>1, <2>3, <2>4
<1>3. CASE key # HeadKey
  <2>1. RecordsOf(records, key) = {RecordOf(D, B, i) : i \in InstancesOf(D, B, key)}
    BY <1>3, RecordsUnder
  <2>2. /\ D = DOMAIN a.layers /\ IsFiniteSet(D)
        /\ \A l \in D : a.layers[l] \in DOMAIN a.groups /\ IsGroup(a.groups[a.layers[l]])
        /\ \A l \in D : IsBody(B[l], a.groups[a.layers[l]])
    BY LayerBodiesAre
  <2> HIDE DEF B, D
  <2>3. PICK i : i \in InstancesOf(D, B, key)
    BY <2>1
  <2>4. PICK l \in D : i \in B[l] /\ InstKey(i) = key
    BY <2>3 DEF InstancesOf
  <2>5. PICK g : g = a.groups[a.layers[l]]
    OBVIOUS
  <2>6. PICK n : n = Cardinality(LayersOfKey(D, B, key))
    OBVIOUS
  <2>7. Total(MultOf(RecordsOf(records, key))) = n
    <3>1. \A m \in D : \A x, y \in B[m] : InstKey(x) = InstKey(y) => x = y
      BY <2>2 DEF IsBody
    <3> QED
      BY <2>1, <2>2, <2>6, <3>1, LayersCounted
  <2>8. n \in Nat /\ n >= 1
    <3>1. l \in LayersOfKey(D, B, key) /\ IsFiniteSet(LayersOfKey(D, B, key))
      BY <2>2, <2>4, FS_Subset DEF LayersOfKey
    <3>2. n \in Nat /\ n # 0
      BY <2>6, <3>1, FS_CardinalityType, FS_EmptySet
    <3> QED
      BY <3>2
  <2>9. key = AttentionKey(g) \/ (HasFfn(g) /\ key = FfnKey(g))
    BY <2>2, <2>4, <2>5 DEF IsBody
  <2>10. key \in KeysOf(b) /\ Max(LayersUnder(b, key)) = n
    <3> DEFINE j == a.layers[l]
    <3>1. j \in DOMAIN a.groups /\ g = a.groups[j]
      BY <2>2, <2>5
    <3>2. CASE key = AttentionKey(g)
      <4> DEFINE S == AttnGroups(a, AttnLabel(g))
      <4>1. LayersOfKey(D, B, key) = {m \in DOMAIN a.layers : a.layers[m] \in S}
        BY <2>2, <2>5, <3>2, LayersOfKeyAre
      <4>2. S \in SUBSET DOMAIN a.groups
        BY DEF AttnGroups
      <4>3. n = Spanned(a, S)
        BY <2>6, <4>1, <4>2, LayersSpanned
      <4> QED
        BY <3>1, <3>2, <4>3, AttentionLayers
    <3>3. CASE HasFfn(g) /\ key = FfnKey(g)
      <4> DEFINE S == FfnGroups(a, FfnLabel(g))
      <4>1. LayersOfKey(D, B, key) = {m \in DOMAIN a.layers : a.layers[m] \in S}
        BY <2>2, <2>5, <3>3, LayersOfKeyAre
      <4>2. S \in SUBSET DOMAIN a.groups
        BY DEF FfnGroups
      <4>3. n = Spanned(a, S)
        BY <2>6, <4>1, <4>2, LayersSpanned
      <4> QED
        BY <3>1, <3>3, <4>3, FfnLayers
    <3> QED
      BY <2>9, <3>2, <3>3
  <2> QED
    BY <1>1, <2>7, <2>8, <2>10
<1> QED
  BY <1>2, <1>3

\* So a cell can be costed.
LEMMA CellCanBe ==
  ASSUME NEW a, IsArch(a), IsRegular(a), NEW b, b = BuildBundle(a),
         NEW cfg, IsConfig(cfg), Scale % cfg.tp = 0, NEW op, IsBusy(op)
  PROVE  CanApply(PerTypeTotals(b, cfg, op), ActivationRecords(a, cfg, op))
<1> DEFINE perType == PerTypeTotals(b, cfg, op)
           records == ActivationRecords(a, cfg, op)
<1>1. IsBundle(b) /\ IsPoint(op)
  BY BundleIs DEF IsBusy
<1>2. DOMAIN perType = KeysOf(b) /\ \A key \in KeysOf(b) : perType[key].layers = Max(LayersUnder(b, key))
  BY <1>1, PerTypeTotalsAre DEF LayersUnder
<1> HIDE DEF perType, records
<1>3. ASSUME NEW r \in records
      PROVE  <<r.instance.component, r.instance.variant>> \in DOMAIN perType
  <2>1. PICK key : key = <<r.instance.component, r.instance.variant>>
    OBVIOUS
  <2>2. RecordsOf(records, key) # {}
    BY <2>1 DEF RecordsOf
  <2>3. key \in KeysOf(b)
    BY <2>2, KeyIsRepresented DEF records
  <2> QED
    BY <1>2, <2>1, <2>3
<1>4. ASSUME NEW key \in DOMAIN perType, RecordsOf(records, key) # {}
      PROVE  Represented(records, key) = Greatest(perType[key].layers, 1)
  <2>1. PICK n : n = Max(LayersUnder(b, key))
    OBVIOUS
  <2>2. n \in Nat /\ n >= 1 /\ Represented(records, key) = n
    BY <1>4, <2>1, KeyIsRepresented DEF records
  <2>3. Greatest(n, 1) = n
    BY <2>2 DEF Greatest
  <2> QED
    BY <1>2, <2>1, <2>2, <2>3
<1> QED
  BY <1>3, <1>4 DEF CanApply, perType, records


LEMMA SweepCanRun ==
  ASSUME PlanInv
  PROVE  SweepNeverRaises
<1> SUFFICES ASSUME stage \in {"plan", "done"}, NEW cfg \in grid, NEW s \in buckets, NEW prefill \in BOOLEAN
             PROVE  CanCell(bundle, cfg, s, 1, prefill)
  BY DEF SweepNeverRaises
<1> DEFINE a == ArchOf(spec)
           op == [s |-> s, bs |-> 1, regime |-> Regime(bundle.arch, prefill)]
<1>1. /\ spec \in Specs /\ ~Refused(spec) /\ bundle = BuildBundle(a) /\ grid = Grid(spec, BuildBundle(a), HwOf(spec))
      /\ buckets \subseteq Sizes
  BY DEF PlanInv
<1>2. IsArch(a) /\ IsRegular(a) /\ bundle.arch = a
  <2>1. IsArch(a) /\ IsRegular(a)
    BY <1>1, ArchOfIs, ArchIsRegular
  <2>2. bundle.arch = a
    BY <1>1 DEF BuildBundle
  <2> QED
    BY <2>1, <2>2
<1> HIDE DEF a
<1>3. IsConfig(cfg) /\ Scale % cfg.tp = 0
  <2>1. IsProblem(BuildBundle(a), HwOf(spec), Grid(spec, BuildBundle(a), HwOf(spec)))
    BY <1>1, GridIs DEF a
  <2>2. IsConfig(cfg) /\ IsExact(BuildBundle(a), cfg)
    BY <1>1, <2>1 DEF IsProblem
  <2> QED
    BY <2>2 DEF IsExact
<1>4. IsBusy(op)
  BY <1>1 DEF IsBusy, IsPoint, Regime, Regimes, Sizes
<1> HIDE DEF op
<1>5. CanApply(PerTypeTotals(bundle, cfg, op), ActivationRecords(a, cfg, op))
  BY <1>1, <1>2, <1>3, <1>4, CellCanBe
<1> QED
  BY <1>2, <1>5 DEF CanCell, op

\* No run-spec that is not refused makes a sweep raise in its middle: the
\* records of the bodies have the keys of the segments, and represent each
\* layer of a key once.
THEOREM SweepsRun == PlanSpec => []SweepNeverRaises
<1>1. PlanInv => SweepNeverRaises
  BY SweepCanRun
<1> QED
  BY <1>1, PlanInvHolds, PTL

-----------------------------------------------------------------------------
(* While it decodes, the layers under a label have the same bodies, and so   *)
(* every key has one record, which has all of the work of the key.           *)

AttnNames ==
  {"q_proj", "k_proj", "v_proj", "o_proj", "sdpa", "q_a_proj", "q_b_proj", "kv_a_proj", "kv_b_proj"}
FfnNames == {"gate_proj", "up_proj", "down_proj", "router"}

LEMMA AttentionWidthsAlike ==
  ASSUME NEW a, NEW g, NEW h, AttnAlike(g, h), NEW operator \in AttnNames, NEW routed
  PROVE  ActIoElems(operator, routed, a, g) = ActIoElems(operator, routed, a, h)
<1>1. CASE operator \in {"k_proj", "v_proj"}
  BY <1>1 DEF ActIoElems, AttnAlike
<1>2. CASE operator = "q_proj"
  BY <1>2 DEF ActIoElems, AttnAlike
<1>3. CASE operator = "o_proj"
  BY <1>3 DEF ActIoElems, AttnAlike
<1>4. CASE operator = "sdpa"
  BY <1>4 DEF ActIoElems, AttnAlike
<1>5. CASE operator = "q_a_proj"
  BY <1>5 DEF ActIoElems, AttnAlike
<1>6. CASE operator = "q_b_proj"
  BY <1>6 DEF ActIoElems, AttnAlike
<1>7. CASE operator = "kv_a_proj"
  BY <1>7 DEF ActIoElems, AttnAlike
<1>8. CASE operator = "kv_b_proj"
  BY <1>8 DEF ActIoElems, AttnAlike
<1> QED
  BY <1>1, <1>2, <1>3, <1>4, <1>5, <1>6, <1>7, <1>8 DEF AttnNames

LEMMA FfnWidthsAlike ==
  ASSUME NEW a, NEW g, NEW h, FfnAlike(g, h), NEW operator \in FfnNames, NEW routed
  PROVE  ActIoElems(operator, routed, a, g) = ActIoElems(operator, routed, a, h)
<1>1. CASE operator \in {"gate_proj", "up_proj"}
  BY <1>1 DEF ActIoElems, FfnAlike
<1>2. CASE operator = "down_proj"
  BY <1>2 DEF ActIoElems, FfnAlike
<1>3. CASE operator = "router"
  BY <1>3 DEF ActIoElems, FfnAlike
<1> QED
  BY <1>1, <1>2, <1>3 DEF FfnNames

\* Operators with the same widths in two groups.
OpsAlike(ops, a, g, h) ==
  \A k \in DOMAIN ops :
    /\ ActIoElems(ops[k].name, ops[k].routed, a, g) = ActIoElems(ops[k].name, ops[k].routed, a, h)
    /\ ~ops[k].routed \/ g.active = h.active

LEMMA BodyAlike ==
  ASSUME NEW a, NEW g, NEW h, NEW cfg, NEW op, ~IsPrefill(op.regime), NEW ops, OpsAlike(ops, a, g, h),
         NEW component, NEW variant
  PROVE  OperatorsBody(component, variant, ops, a, cfg, op, g) = OperatorsBody(component, variant, ops, a, cfg, op, h)
<1> DEFINE Bytes(side, o) == [k \in DOMAIN ops |-> OperatorBytes(ops[k].name, ops[k].routed, side, a, o, cfg, op)]
<1>1. LocalTokensDivisor(g, cfg, op) = 1 /\ LocalTokensDivisor(h, cfg, op) = 1
  BY DEF LocalTokensDivisor
<1>2. ASSUME NEW k \in DOMAIN ops, NEW side
      PROVE  OperatorBytes(ops[k].name, ops[k].routed, side, a, g, cfg, op)
               = OperatorBytes(ops[k].name, ops[k].routed, side, a, h, cfg, op)
  <2>1. /\ ActIoElems(ops[k].name, ops[k].routed, a, g) = ActIoElems(ops[k].name, ops[k].routed, a, h)
        /\ ~ops[k].routed \/ g.active = h.active
    BY DEF OpsAlike
  <2> QED
    BY <1>1, <2>1 DEF OperatorBytes
<1>3. \A side : Bytes(side, g) = Bytes(side, h)
  BY <1>2
<1>4. \A o : OperatorsBody(component, variant, ops, a, cfg, op, o)
               = Instance(component, variant, Total(Bytes(1, o)), Total(Bytes(2, o)))
  BY DEF OperatorsBody
<1> HIDE DEF Bytes
<1> QED
  BY <1>3, <1>4

LEMMA AttentionOpsAlike ==
  ASSUME NEW a, NEW g, NEW h, AttnAlike(g, h)
  PROVE  /\ AttnOps(a, g) = AttnOps(a, h)
         /\ OpsAlike(Marked(Append(AttnOps(a, g), "sdpa"), FALSE), a, g, h)
<1>1. AttnOps(a, g) = AttnOps(a, h)
  BY DEF AttnOps, AliasesV, AttnAlike
<1>2. AttnOps(a, g) \in Seq(AttnNames) /\ "sdpa" \in AttnNames
  <2>1. /\ <<"q_a_proj", "q_b_proj", "kv_a_proj", "kv_b_proj", "o_proj">> \in Seq(AttnNames)
        /\ <<"q_proj", "k_proj", "o_proj">> \in Seq(AttnNames)
        /\ <<"q_proj", "k_proj", "v_proj", "o_proj">> \in Seq(AttnNames)
        /\ "sdpa" \in AttnNames
    BY DEF AttnNames
  <2> QED
    BY <2>1 DEF AttnOps
<1>3. PICK s : s = Append(AttnOps(a, g), "sdpa")
  OBVIOUS
<1>4. s \in Seq(AttnNames)
  BY <1>2, <1>3, AppendProperties
<1>5. \A k \in DOMAIN s : s[k] \in AttnNames
  BY <1>4
<1> PICK no \in BOOLEAN : no = FALSE
  OBVIOUS
<1>6. PICK m : m = Marked(s, no)
  OBVIOUS
<1>7. DOMAIN m = DOMAIN s /\ \A k \in DOMAIN s : m[k] = [name |-> s[k], routed |-> no]
  BY <1>6 DEF Marked
<1>8. \A k \in DOMAIN s : m[k].name = s[k]
  BY <1>7
<1>9. \A k \in DOMAIN s : m[k].routed = no
  BY <1>7
<1>10. ASSUME NEW k \in DOMAIN m
       PROVE  ActIoElems(m[k].name, m[k].routed, a, g) = ActIoElems(m[k].name, m[k].routed, a, h)
  <2>1. m[k].name \in AttnNames
    BY <1>5, <1>7, <1>8
  <2> QED
    BY <2>1, AttentionWidthsAlike
<1>11. \A k \in DOMAIN m : ~m[k].routed
  BY <1>7, <1>9
<1>12. OpsAlike(m, a, g, h)
  BY <1>10, <1>11 DEF OpsAlike
<1> QED
  BY <1>1, <1>3, <1>6, <1>12

LEMMA FfnOpsAlike ==
  ASSUME NEW a, NEW g, NEW h, FfnAlike(g, h)
  PROVE  FfnOps(g) = FfnOps(h) /\ OpsAlike(FfnOps(g), a, g, h)
<1> DEFINE marks == [name : FfnNames, routed : BOOLEAN]
<1>1. FfnOps(g) = FfnOps(h)
  BY DEF FfnOps, FfnAlike
<1>2. /\ DOMAIN MlpOps = 1..3 /\ MlpOps[1] = "gate_proj" /\ MlpOps[2] = "up_proj" /\ MlpOps[3] = "down_proj"
  BY DEF MlpOps
<1>3. PICK router : router = Append(MlpOps, "router")
  OBVIOUS
<1>4. /\ DOMAIN router = 1..4 /\ router[1] = "gate_proj" /\ router[2] = "up_proj" /\ router[3] = "down_proj"
      /\ router[4] = "router"
  BY <1>3 DEF MlpOps
<1>5. Marked(MlpOps, FALSE) \in Seq(marks)
  <2>1. \A k \in 1..3 : k = 1 \/ k = 2 \/ k = 3
    OBVIOUS
  <2>2. \A k \in 1..3 : MlpOps[k] \in FfnNames
    BY <1>2, <2>1 DEF FfnNames
  <2>3. Marked(MlpOps, FALSE) \in [1..3 -> marks]
    BY <1>2, <2>2 DEF Marked
  <2>4. PICK m : m = Marked(MlpOps, FALSE)
    OBVIOUS
  <2>5. m \in Seq(marks)
    <3>1. PICK n \in Nat : n = 3
      OBVIOUS
    <3>2. m \in [1..n -> marks]
      BY <2>3, <2>4, <3>1
    <3> HIDE DEF marks
    <3> QED
      BY <3>2
  <2> QED
    BY <2>4, <2>5
<1>6. Marked(router, TRUE) \in Seq(marks)
  <2>1. \A k \in 1..4 : k = 1 \/ k = 2 \/ k = 3 \/ k = 4
    OBVIOUS
  <2>2. \A k \in 1..4 : router[k] \in FfnNames
    BY <1>4, <2>1 DEF FfnNames
  <2>3. Marked(router, TRUE) \in [1..4 -> marks]
    BY <1>4, <2>2 DEF Marked
  <2>4. PICK m : m = Marked(router, TRUE)
    OBVIOUS
  <2>5. m \in Seq(marks)
    <3>1. PICK n \in Nat : n = 4
      OBVIOUS
    <3>2. m \in [1..n -> marks]
      BY <2>3, <2>4, <3>1
    <3> HIDE DEF marks
    <3> QED
      BY <3>2
  <2> QED
    BY <2>4, <2>5
<1>7. FfnOps(g) \in Seq(marks)
  <2>1. <<>> \in Seq(marks)
    OBVIOUS
  <2>2. /\ (IF g.dense > 0 THEN Marked(MlpOps, FALSE) ELSE <<>>) \in Seq(marks)
        /\ (IF g.experts > 0 THEN Marked(router, TRUE) ELSE <<>>) \in Seq(marks)
    BY <1>5, <1>6, <2>1
  <2>3. PICK s, t : /\ s = IF g.dense > 0 THEN Marked(MlpOps, FALSE) ELSE <<>>
                    /\ t = IF g.experts > 0 THEN Marked(router, TRUE) ELSE <<>>
    OBVIOUS
  <2>4. s \in Seq(marks) /\ t \in Seq(marks)
    BY <2>2, <2>3
  <2>5. FfnOps(g) = s \o t
    BY <1>3, <2>3 DEF FfnOps
  <2> HIDE DEF marks
  <2> QED
    BY <2>4, <2>5, ConcatProperties
<1>8. \A k \in DOMAIN FfnOps(g) : FfnOps(g)[k] \in marks
  <2> HIDE DEF marks
  <2> QED
    BY <1>7
<1>9. \A k \in DOMAIN FfnOps(g) : FfnOps(g)[k].name \in FfnNames
  BY <1>8
<1>10. g.active = h.active
  BY DEF FfnAlike
<1>11. OpsAlike(FfnOps(g), a, g, h)
  BY <1>9, <1>10, FfnWidthsAlike DEF OpsAlike
<1> QED
  BY <1>1, <1>11

\* The bodies of a layer of a group.
BodiesOf(a, cfg, op, g) ==
  IF a.policy = "component_boundary" THEN BoundaryBodies(a, cfg, op, g) ELSE OperatorBodies(a, cfg, op, g)

LEMMA BodiesAlike ==
  ASSUME NEW a, NEW g, NEW h, LabelsTell(g, h), NEW cfg, NEW op, ~IsPrefill(op.regime),
         NEW x \in BodiesOf(a, cfg, op, g), NEW y \in BodiesOf(a, cfg, op, h), InstKey(x) = InstKey(y)
  PROVE  x = y
<1>1. /\ AttentionKey(g) = AttentionKey(h) => AttnAlike(g, h) /\ AttnLabel(g) = AttnLabel(h)
      /\ FfnKey(g) = FfnKey(h) => FfnAlike(g, h) /\ FfnLabel(g) = FfnLabel(h)
  <2>1. /\ AttentionKey(g)[2] = AttnLabel(g) /\ AttentionKey(h)[2] = AttnLabel(h)
        /\ FfnKey(g)[2] = FfnLabel(g) /\ FfnKey(h)[2] = FfnLabel(h)
    BY DEF AttentionKey, FfnKey
  <2> QED
    BY <2>1 DEF LabelsTell
<1>2. AttentionKey(g) # FfnKey(h) /\ FfnKey(g) # AttentionKey(h)
  BY KeysDiffer
<1>3. CASE a.policy = "component_boundary"
  <2> DEFINE Body(component, variant, layout) ==
                 Instance(component, variant, HiddenBytes(a, cfg, op, layout, OpTokens(op)),
                          HiddenBytes(a, cfg, op, layout, OpTokens(op)))
             A(o) == Body("attention", AttnLabel(o), "attention_body")
             F(o) == Body("ffn", FfnLabel(o), "ffn_body")
  <2>1. x \in {A(g), F(g)} /\ y \in {A(h), F(h)}
    BY <1>3 DEF BodiesOf, BoundaryBodies
  <2>2. \A o : InstKey(A(o)) = AttentionKey(o) /\ InstKey(F(o)) = FfnKey(o)
    BY DEF Instance, InstKey, AttentionKey, FfnKey
  <2>3. (AttnLabel(g) = AttnLabel(h) => A(g) = A(h)) /\ (FfnLabel(g) = FfnLabel(h) => F(g) = F(h))
    OBVIOUS
  <2> HIDE DEF A, F
  <2> QED
    BY <1>1, <1>2, <2>1, <2>2, <2>3
<1>4. CASE a.policy # "component_boundary"
  <2> DEFINE A(o) == OperatorsBody("attention", AttnLabel(o), Marked(Append(AttnOps(a, o), "sdpa"), FALSE), a, cfg, op, o)
             F(o) == OperatorsBody("ffn", FfnLabel(o), FfnOps(o), a, cfg, op, o)
  <2>1. x \in {A(g), F(g)} /\ y \in {A(h), F(h)}
    BY <1>4 DEF BodiesOf, OperatorBodies
  <2>2. \A o : InstKey(A(o)) = AttentionKey(o) /\ InstKey(F(o)) = FfnKey(o)
    BY DEF OperatorsBody, Instance, InstKey, AttentionKey, FfnKey
  <2>3. ASSUME AttnAlike(g, h), AttnLabel(g) = AttnLabel(h)
        PROVE  A(g) = A(h)
    <3>1. PICK ops : ops = Marked(Append(AttnOps(a, g), "sdpa"), FALSE)
      OBVIOUS
    <3>2. ops = Marked(Append(AttnOps(a, h), "sdpa"), FALSE)
      BY <2>3, <3>1, AttentionOpsAlike
    <3>4. OpsAlike(ops, a, g, h)
      BY <2>3, <3>1, AttentionOpsAlike
    <3>3. OperatorsBody("attention", AttnLabel(g), ops, a, cfg, op, g)
            = OperatorsBody("attention", AttnLabel(g), ops, a, cfg, op, h)
      BY <3>4, BodyAlike
    <3> QED
      BY <2>3, <3>1, <3>2, <3>3
  <2>4. ASSUME FfnAlike(g, h), FfnLabel(g) = FfnLabel(h)
        PROVE  F(g) = F(h)
    <3>1. FfnOps(g) = FfnOps(h) /\ OpsAlike(FfnOps(g), a, g, h)
      BY <2>4, FfnOpsAlike
    <3>2. OperatorsBody("ffn", FfnLabel(g), FfnOps(g), a, cfg, op, g)
            = OperatorsBody("ffn", FfnLabel(g), FfnOps(g), a, cfg, op, h)
      BY <3>1, BodyAlike
    <3> QED
      BY <2>4, <3>1, <3>2
  <2> HIDE DEF A, F
  <2> QED
    BY <1>1, <1>2, <2>1, <2>2, <2>3, <2>4
<1> QED
  BY <1>3, <1>4

LEMMA OneRecord ==
  ASSUME NEW a, IsArch(a), IsRegular(a), NEW b, b = BuildBundle(a),
         NEW cfg, IsConfig(cfg), Scale % cfg.tp = 0, NEW op, IsBusy(op), ~IsPrefill(op.regime),
         NEW records, records = ActivationRecords(a, cfg, op), NEW key, RecordsOf(records, key) # {}
  PROVE  \E r : RecordsOf(records, key) = {r} /\ r.mult = Max(LayersUnder(b, key))
<1> DEFINE B == LayerInstances(a, cfg, op)
           D == DOMAIN B
<1>1. /\ D = DOMAIN a.layers /\ \A l \in D : a.layers[l] \in DOMAIN a.groups
      /\ \A l \in D : B[l] = BodiesOf(a, cfg, op, a.groups[a.layers[l]])
  <2>1. D = DOMAIN a.layers /\ \A l \in D : a.layers[l] \in DOMAIN a.groups
    BY LayerBodiesAre
  <2>2. DOMAIN B = DOMAIN OrderedLayerGroups(a) /\ OrderedLayerGroups(a) = [l \in DOMAIN a.layers |-> a.groups[a.layers[l]]]
    BY LayersAre DEF LayerInstances
  <2>3. \A l \in DOMAIN B : B[l] = BodiesOf(a, cfg, op, OrderedLayerGroups(a)[l])
    BY DEF LayerInstances, BodiesOf
  <2> HIDE DEF B
  <2> QED
    BY <2>1, <2>2, <2>3
<1>2. IsPoint(op)
  BY DEF IsBusy
<1> HIDE DEF B, D
<1>3. PICK r : RecordsOf(records, key) = {r}
  <2>1. CASE key = HeadKey
    <3>1. RecordsOf(records, HeadKey) = {[instance |-> HeadInstance(a, cfg, op), mult |-> 1]}
      BY RecordsUnder
    <3> QED
      BY <2>1, <3>1
  <2>2. CASE key # HeadKey
    <3>1. RecordsOf(records, key) = {RecordOf(D, B, i) : i \in InstancesOf(D, B, key)}
      BY <2>2, RecordsUnder DEF B, D
    <3>2. PICK i : i \in InstancesOf(D, B, key)
      BY <3>1
    <3>3. ASSUME NEW j \in InstancesOf(D, B, key)
          PROVE  j = i
      <4>1. PICK l \in D : i \in B[l] /\ InstKey(i) = key
        BY <3>2 DEF InstancesOf
      <4>2. PICK m \in D : j \in B[m] /\ InstKey(j) = key
        BY DEF InstancesOf
      <4>3. PICK g, h : g = a.groups[a.layers[l]] /\ h = a.groups[a.layers[m]]
        OBVIOUS
      <4>4. LabelsTell(g, h)
        BY <1>1, <4>3 DEF IsRegular
      <4>5. i \in BodiesOf(a, cfg, op, g) /\ j \in BodiesOf(a, cfg, op, h)
        BY <1>1, <4>1, <4>2, <4>3
      <4> QED
        BY <4>1, <4>2, <4>4, <4>5, BodiesAlike
    <3>4. InstancesOf(D, B, key) = {i}
      BY <3>2, <3>3
    <3>5. RecordsOf(records, key) = {RecordOf(D, B, i)}
      BY <3>1, <3>4
    <3> QED
      BY <3>5
  <2> QED
    BY <2>1, <2>2
<1>4. r.mult \in Nat
  <2>1. r \in records
    BY <1>3 DEF RecordsOf
  <2> QED
    BY <1>2, <2>1, RecordsAre DEF IsRecord
<1>5. Represented(records, key) = r.mult
  <2>1. Represented(records, key) = Total(MultOf({r}))
    BY <1>3 DEF Represented, MultOf
  <2>2. MultOf({r}) = On(MultOf({r}), {r}) /\ MultOf({r})[r] = r.mult
    BY DEF On, MultOf
  <2>3. Total(On(MultOf({r}), {r})) = MultOf({r})[r]
    BY <1>4, <2>2, TotalOfOne
  <2> QED
    BY <2>1, <2>2, <2>3
<1>6. Represented(records, key) = Max(LayersUnder(b, key))
  BY KeyIsRepresented
<1> QED
  BY <1>3, <1>5, <1>6

\* A costed row of a key, with all that is held under it.
HoldsKey(c, b, cfg, op, key) ==
  /\ c.key = key
  /\ c.work.weight = WeightOf(b, cfg, op, key) /\ c.work.kv = KvOf(b, cfg, op, key)
  /\ c.work.flops = FlopsOf(b, cfg, op, key)

LEMMA WholePart ==
  ASSUME NEW n \in Nat, NEW m \in Nat, m >= 1
  PROVE  (n * m) \div Greatest(m, 1) = n
<1>1. Greatest(m, 1) = m
  BY DEF Greatest
<1>2. n * m \in Int /\ n * m < n * m + m
  BY NatTimes
<1>3. (n * m) \div m = n
  BY <1>2, QuotientIs
<1> QED
  BY <1>1, <1>3

LEMMA CostedByKey ==
  ASSUME NEW a, IsArch(a), IsRegular(a), NEW b, b = BuildBundle(a),
         NEW cfg, IsConfig(cfg), Scale % cfg.tp = 0, NEW op, IsBusy(op), ~IsPrefill(op.regime)
  PROVE  \E F : /\ Costed(b, cfg, op) = {F[key] : key \in KeysOf(b)}
                /\ \A key \in KeysOf(b) : HoldsKey(F[key], b, cfg, op, key)
<1> DEFINE perType == PerTypeTotals(b, cfg, op)
           records == ActivationRecords(a, cfg, op)
           Split(key, r) ==
             LET t == perType[key]
                 Part(n) == (n * r.mult) \div Greatest(t.layers, 1)
             IN  [key |-> key,
                  work |-> [weight |-> Part(t.weight), kv |-> Part(t.kv), flops |-> Part(t.flops),
                            in |-> r.mult * r.instance.in, out |-> r.mult * r.instance.out,
                            layers |-> r.mult],
                  of |-> r.instance]
           Undivided(key) == [key |-> key, work |-> perType[key], of |-> Instance(key[1], key[2], 0, 0)]
           Rows(key) == IF RecordsOf(records, key) = {} THEN {Undivided(key)}
                        ELSE {Split(key, r) : r \in RecordsOf(records, key)}
           F == [key \in KeysOf(b) |-> IF RecordsOf(records, key) = {} THEN Undivided(key)
                                       ELSE Split(key, CHOOSE r : RecordsOf(records, key) = {r})]
<1>1. IsBundle(b) /\ IsPoint(op) /\ b.arch = a
  BY BundleIs DEF IsBusy, BuildBundle
<1>2. /\ DOMAIN perType = KeysOf(b)
      /\ \A key \in KeysOf(b) :
           /\ IsWork(perType[key]) /\ perType[key].weight = WeightOf(b, cfg, op, key)
           /\ perType[key].kv = KvOf(b, cfg, op, key) /\ perType[key].flops = FlopsOf(b, cfg, op, key)
           /\ perType[key].layers = Max(LayersUnder(b, key))
  BY <1>1, PerTypeTotalsAre DEF LayersUnder
<1>3. Costed(b, cfg, op) = UNION {Rows(key) : key \in KeysOf(b)}
  BY <1>1, <1>2 DEF Costed, ApplyActivationRecords
<1>4. ASSUME NEW key \in KeysOf(b)
      PROVE  Rows(key) = {F[key]} /\ HoldsKey(F[key], b, cfg, op, key)
  <2>1. CASE RecordsOf(records, key) = {}
    <3>1. Rows(key) = {F[key]} /\ F[key] = Undivided(key)
      BY <2>1
    <3>2. Undivided(key).key = key /\ Undivided(key).work = perType[key]
      OBVIOUS
    <3> HIDE DEF F, Rows, Undivided
    <3>3. F[key].key = key /\ F[key].work = perType[key]
      BY <3>1, <3>2
    <3> HIDE DEF perType
    <3> QED
      BY <1>2, <3>1, <3>3 DEF HoldsKey
  <2>2. CASE RecordsOf(records, key) # {}
    <3>1. \E r : RecordsOf(records, key) = {r} /\ r.mult = Max(LayersUnder(b, key))
      BY <2>2, OneRecord
    <3>2. PICK r : r = CHOOSE x : RecordsOf(records, key) = {x}
      OBVIOUS
    <3>3. RecordsOf(records, key) = {r}
      BY <3>1, <3>2
    <3>4. r.mult = Max(LayersUnder(b, key))
      BY <3>1, <3>3
    <3>5. r.mult \in Nat /\ r.mult >= 1
      BY <2>2, <3>4, KeyIsRepresented
    <3>6. F[key] = Split(key, r)
      BY <2>2, <3>2
    <3>7. Rows(key) = {Split(key, r)}
      BY <2>2, <3>3
    <3>8. PICK t : t = perType[key]
      OBVIOUS
    <3>9. /\ t.weight \in Nat /\ t.kv \in Nat /\ t.flops \in Nat /\ t.layers = r.mult
      BY <1>2, <3>4, <3>8 DEF IsWork
    <3>10. /\ (t.weight * r.mult) \div Greatest(t.layers, 1) = t.weight
           /\ (t.kv * r.mult) \div Greatest(t.layers, 1) = t.kv
           /\ (t.flops * r.mult) \div Greatest(t.layers, 1) = t.flops
      BY <3>5, <3>9, WholePart
    <3>11. PICK c : c = Split(key, r)
      OBVIOUS
    <3>12. /\ c.key = key /\ c.work.weight = (t.weight * r.mult) \div Greatest(t.layers, 1)
           /\ c.work.kv = (t.kv * r.mult) \div Greatest(t.layers, 1)
           /\ c.work.flops = (t.flops * r.mult) \div Greatest(t.layers, 1)
      BY <3>8, <3>11
    <3> HIDE DEF F, Rows, Split, perType
    <3>13. HoldsKey(c, b, cfg, op, key)
      BY <1>2, <3>8, <3>10, <3>12 DEF HoldsKey
    <3> QED
      BY <3>6, <3>7, <3>11, <3>13
  <2> QED
    BY <2>1, <2>2
<1> HIDE DEF F, Rows
<1>5. Costed(b, cfg, op) = {F[key] : key \in KeysOf(b)}
  BY <1>3, <1>4
<1> QED
  BY <1>4, <1>5

LEMMA SumOverKeys ==
  ASSUME NEW S, NEW v, Summable(v, S), NEW K, IsFiniteSet(K), \A s \in S : KeyOf(s) \in K,
         NEW F, \A k, l \in K : F[k] = F[l] => k = l, NEW C, C = {F[k] : k \in K},
         NEW w, \A k \in K : w[F[k]] = Total(On(v, Under(S, k)))
  PROVE  Total(On(w, C)) = Total(On(v, S))
<1> DEFINE h == [s \in S |-> KeyOf(s)]
           n == Within(v, S, h, K)
<1>1. \A s \in S : h[s] \in K
  OBVIOUS
<1>2. \A k \in K : n[k] = Total(On(v, Under(S, k)))
  <2>1. ASSUME NEW k \in K
        PROVE  n[k] = Total(On(v, Under(S, k)))
    <3>1. Under(S, k) = {s \in S : h[s] = k}
      BY DEF Under
    <3>2. n[k] = Total(On(v, {s \in S : h[s] = k}))
      BY DEF Within
    <3> QED
      BY <3>1, <3>2
  <2> QED
    BY <2>1
<1> HIDE DEF h
<1>3. Summable(n, K) /\ Total(On(v, S)) = Total(On(n, K))
  <2>1. Summable(Within(v, S, h, K), K)
    BY WithinIs
  <2>2. Total(On(v, S)) = Total(On(Within(v, S, h, K), K))
    BY <1>1, Regrouped
  <2> QED
    BY <2>1, <2>2
<1>4. \A k \in K : w[F[k]] = n[k]
  BY <1>2
<1> HIDE DEF n
<1>5. Total(On(w, C)) = Total(On(n, K))
  BY <1>3, <1>4, TotalRenamed
<1> QED
  BY <1>3, <1>5

\* What each segment holds of a kind, on one rank.
WeightsHeld(b, cfg, op) == [s \in b.weights |-> SegmentWeight(b, s, cfg, op)]
KvHeld(b, cfg, op) == [s \in b.kvs |-> SegmentKv(b, s, cfg, op)]
FlopsHeld(b, cfg, op) == [s \in b.flops |-> SegmentFlops(b, s, cfg, op)]

\* A row that decodes adds up what the segments hold, once each.
IsDecodeCell(r, b, hw, cfg, s, bs) == r = Cell(b, hw, cfg, s, bs, FALSE)

LEMMA RowHolds ==
  ASSUME NEW a, IsArch(a), IsRegular(a), NEW b, b = BuildBundle(a), NEW hw,
         NEW cfg, IsConfig(cfg), Scale % cfg.tp = 0, NEW s \in Nat, s > 0, NEW bs \in Nat, bs > 0,
         NEW r, IsDecodeCell(r, b, hw, cfg, s, bs), NEW op, op = Decoding(s, bs)
  PROVE  /\ r.kv = Total(KvHeld(b, cfg, op)) /\ Summable(KvHeld(b, cfg, op), b.kvs)
         /\ r.weight = Total(WeightsHeld(b, cfg, op)) /\ Summable(WeightsHeld(b, cfg, op), b.weights)
         /\ r.flops = Total(FlopsHeld(b, cfg, op)) /\ Summable(FlopsHeld(b, cfg, op), b.flops)
<1>1. op = [s |-> s, bs |-> bs, regime |-> Regime(b.arch, FALSE)]
  BY DEF Decoding, Regime
<1>2. IsBusy(op) /\ ~IsPrefill(op.regime) /\ IsPoint(op)
  <2>1. op.s = s /\ op.bs = bs /\ op.regime = "decode"
    BY DEF Decoding
  <2> QED
    BY <2>1, DecodingIs DEF IsBusy, IsPrefill
<1>3. PICK costed : costed = Costed(b, cfg, op)
  OBVIOUS
<1> DEFINE kv == [c \in costed |-> c.work.kv]
           weight == [c \in costed |-> c.work.weight]
           flops == [c \in costed |-> c.work.flops]
<1>4. r.kv = Total(kv) /\ r.weight = Total(weight) /\ r.flops = Total(flops)
  BY <1>1, <1>3 DEF IsDecodeCell, Cell, CellTotals
<1>5. IsBundle(b)
  BY BundleIs
<1>6. /\ Summable(KvHeld(b, cfg, op), b.kvs) /\ Summable(WeightsHeld(b, cfg, op), b.weights)
      /\ Summable(FlopsHeld(b, cfg, op), b.flops)
  <2>1. /\ \A x \in b.weights : SegmentWeight(b, x, cfg, op) \in Nat
        /\ \A x \in b.kvs : SegmentKv(b, x, cfg, op) \in Nat
        /\ \A x \in b.flops : SegmentFlops(b, x, cfg, op) \in Nat
    BY <1>2, <1>5, SegmentWork
  <2>2. IsFiniteSet(b.weights) /\ IsFiniteSet(b.kvs) /\ IsFiniteSet(b.flops)
    BY <1>5 DEF IsBundle
  <2> QED
    BY <2>1, <2>2 DEF Summable, KvHeld, WeightsHeld, FlopsHeld
<1>7. PICK F : costed = {F[key] : key \in KeysOf(b)} /\ \A key \in KeysOf(b) : HoldsKey(F[key], b, cfg, op, key)
  BY <1>2, <1>3, CostedByKey
<1>8. \A k, l \in KeysOf(b) : F[k] = F[l] => k = l
  BY <1>7 DEF HoldsKey
<1>9. IsFiniteSet(KeysOf(b))
  BY <1>5, SegmentsAreFinite
<1>10. /\ \A s1 \in b.kvs : KeyOf(s1) \in KeysOf(b)
       /\ \A s1 \in b.weights : KeyOf(s1) \in KeysOf(b)
       /\ \A s1 \in b.flops : KeyOf(s1) \in KeysOf(b)
  BY DEF KeysOf, AllSegments
<1>11. \A k \in KeysOf(b) :
         /\ kv[F[k]] = Total(On(KvHeld(b, cfg, op), Under(b.kvs, k)))
         /\ weight[F[k]] = Total(On(WeightsHeld(b, cfg, op), Under(b.weights, k)))
         /\ flops[F[k]] = Total(On(FlopsHeld(b, cfg, op), Under(b.flops, k)))
  <2>1. ASSUME NEW k \in KeysOf(b)
        PROVE  /\ kv[F[k]] = KvOf(b, cfg, op, k) /\ weight[F[k]] = WeightOf(b, cfg, op, k)
               /\ flops[F[k]] = FlopsOf(b, cfg, op, k)
    <3>1. F[k] \in costed /\ HoldsKey(F[k], b, cfg, op, k)
      BY <1>7
    <3> QED
      BY <3>1 DEF HoldsKey
  <2>2. ASSUME NEW k \in KeysOf(b)
        PROVE  /\ KvOf(b, cfg, op, k) = Total(On(KvHeld(b, cfg, op), Under(b.kvs, k)))
               /\ WeightOf(b, cfg, op, k) = Total(On(WeightsHeld(b, cfg, op), Under(b.weights, k)))
               /\ FlopsOf(b, cfg, op, k) = Total(On(FlopsHeld(b, cfg, op), Under(b.flops, k)))
    <3>1. /\ [s1 \in Under(b.kvs, k) |-> SegmentKv(b, s1, cfg, op)] = On(KvHeld(b, cfg, op), Under(b.kvs, k))
          /\ [s1 \in Under(b.weights, k) |-> SegmentWeight(b, s1, cfg, op)]
               = On(WeightsHeld(b, cfg, op), Under(b.weights, k))
          /\ [s1 \in Under(b.flops, k) |-> SegmentFlops(b, s1, cfg, op)] = On(FlopsHeld(b, cfg, op), Under(b.flops, k))
      BY DEF Under, KvHeld, WeightsHeld, FlopsHeld, On
    <3> QED
      BY <3>1 DEF KvOf, WeightOf, FlopsOf
  <2> QED
    BY <2>1, <2>2
<1>12. kv = On(kv, costed) /\ weight = On(weight, costed) /\ flops = On(flops, costed)
  BY DEF On
<1>13. /\ KvHeld(b, cfg, op) = On(KvHeld(b, cfg, op), b.kvs)
       /\ WeightsHeld(b, cfg, op) = On(WeightsHeld(b, cfg, op), b.weights)
       /\ FlopsHeld(b, cfg, op) = On(FlopsHeld(b, cfg, op), b.flops)
  BY DEF On, KvHeld, WeightsHeld, FlopsHeld
<1> HIDE DEF kv, weight, flops
<1>14. Total(On(kv, costed)) = Total(On(KvHeld(b, cfg, op), b.kvs))
  <2>1. PICK v, S : v = KvHeld(b, cfg, op) /\ S = b.kvs
    OBVIOUS
  <2>2. Summable(v, S) /\ \A s1 \in S : KeyOf(s1) \in KeysOf(b)
    BY <1>6, <1>10, <2>1
  <2>3. \A k \in KeysOf(b) : kv[F[k]] = Total(On(v, Under(S, k)))
    BY <1>11, <2>1
  <2>4. Total(On(kv, costed)) = Total(On(v, S))
    BY <1>7, <1>8, <1>9, <2>2, <2>3, SumOverKeys
  <2> QED
    BY <2>1, <2>4
<1>15. Total(On(weight, costed)) = Total(On(WeightsHeld(b, cfg, op), b.weights))
  <2>1. PICK v, S : v = WeightsHeld(b, cfg, op) /\ S = b.weights
    OBVIOUS
  <2>2. Summable(v, S) /\ \A s1 \in S : KeyOf(s1) \in KeysOf(b)
    BY <1>6, <1>10, <2>1
  <2>3. \A k \in KeysOf(b) : weight[F[k]] = Total(On(v, Under(S, k)))
    BY <1>11, <2>1
  <2>4. Total(On(weight, costed)) = Total(On(v, S))
    BY <1>7, <1>8, <1>9, <2>2, <2>3, SumOverKeys
  <2> QED
    BY <2>1, <2>4
<1>16. Total(On(flops, costed)) = Total(On(FlopsHeld(b, cfg, op), b.flops))
  <2>1. PICK v, S : v = FlopsHeld(b, cfg, op) /\ S = b.flops
    OBVIOUS
  <2>2. Summable(v, S) /\ \A s1 \in S : KeyOf(s1) \in KeysOf(b)
    BY <1>6, <1>10, <2>1
  <2>3. \A k \in KeysOf(b) : flops[F[k]] = Total(On(v, Under(S, k)))
    BY <1>11, <2>1
  <2>4. Total(On(flops, costed)) = Total(On(v, S))
    BY <1>7, <1>8, <1>9, <2>2, <2>3, SumOverKeys
  <2> QED
    BY <2>1, <2>4
<1> QED
  BY <1>4, <1>6, <1>12, <1>13, <1>14, <1>15, <1>16

-----------------------------------------------------------------------------
(* What the segments of a merge hold, the groups hold, layer by layer.       *)

Merged(a, pieces, p) == [p EXCEPT !.mult = LayersWith(a, pieces, p)]
ArePieces(P) == IsFiniteSet(P) /\ P \subseteq Segments /\ \A p \in P : p.mult = 1

\* Each of the pieces holds w of a layer, each merged one v, and group i holds n[i].
Merges(a, pieces, w, v, n) ==
  \A i \in DOMAIN a.groups :
    /\ ArePieces(pieces[i])
    /\ \A p \in pieces[i] : w[p] \in Nat /\ v[Merged(a, pieces, p)] = LayersWith(a, pieces, p) * w[p]
    /\ n[i] = CountOf(a)[i] * Total(On(w, pieces[i]))

LEMMA MergeHolds ==
  ASSUME NEW a, IsArch(a), NEW pieces, NEW w, NEW v, NEW n, Merges(a, pieces, w, v, n)
  PROVE  SumAlike(v, Merge(a, pieces), n, DOMAIN a.groups)
<1>0. \A i \in DOMAIN a.groups :
        /\ ArePieces(pieces[i])
        /\ \A p \in pieces[i] : w[p] \in Nat /\ v[Merged(a, pieces, p)] = LayersWith(a, pieces, p) * w[p]
        /\ n[i] = CountOf(a)[i] * Total(On(w, pieces[i]))
  BY DEF Merges
<1> DEFINE D == DOMAIN a.groups
           P == UNION {pieces[i] : i \in D}
           R == {e \in D \X P : e[2] \in pieces[e[1]]}
           c == CountOf(a)
           u == [e \in R |-> c[e[1]] * w[e[2]]]
           byP == [p \in P |-> LayersWith(a, pieces, p) * w[p]]
           f == [p \in P |-> Merged(a, pieces, p)]
<1>1. Summable(c, D) /\ IsFiniteSet(D) /\ \A i \in D : c[i] \in Nat
  <2>1. D \in SUBSET D
    OBVIOUS
  <2>2. Summable(CountOf(a), D)
    BY <2>1, CountsAreSummable
  <2> QED
    BY <2>2 DEF Summable
<1>2. IsFiniteSet(P) /\ \A p \in P : w[p] \in Nat /\ p.mult = 1 /\ p \in Segments
  <2>1. IsFiniteSet({pieces[i] : i \in D})
    BY <1>1, ImageIsFinite
  <2>2. IsFiniteSet(P)
    <3>1. \A x \in {pieces[i] : i \in D} : IsFiniteSet(x)
      BY <1>0 DEF ArePieces
    <3> QED
      BY <2>1, <3>1, FS_UNION
  <2> QED
    BY <1>0, <2>2 DEF ArePieces
<1>3. R \in SUBSET (D \X P)
  OBVIOUS
<1>4. \A i \in D, p \in P : <<i, p>> \in R <=> p \in pieces[i]
  OBVIOUS
<1>5. \A i \in D, p \in P : p \in pieces[i] => u[<<i, p>>] = c[i] * w[p]
  OBVIOUS
<1>6. \A e \in R : u[e] \in Nat
  BY <1>1, <1>2, NatTimes
<1> HIDE DEF R, u, c
<1>7. ASSUME NEW i \in D
      PROVE  n[i] = ByFirst(u, R, P, i)
  <2>1. {p \in P : <<i, p>> \in R} = pieces[i]
    BY <1>4
  <2>2. PICK y : y = [p \in P |-> u[<<i, p>>]]
    OBVIOUS
  <2>3. \A p \in pieces[i] : y[p] = c[i] * w[p]
    BY <1>5, <2>2
  <2>4. Summable(w, pieces[i]) /\ c[i] \in Nat
    BY <1>0, <1>1, <1>2 DEF Summable, ArePieces
  <2>5. Total(On(y, pieces[i])) = c[i] * Total(On(w, pieces[i]))
    BY <2>3, <2>4, TotalScaled
  <2> QED
    BY <1>0, <2>1, <2>2, <2>5 DEF c, ByFirst
<1>8. ASSUME NEW p \in P
      PROVE  byP[p] = BySecond(u, R, D, p)
  <2>1. PICK S : S = {i \in D : <<i, p>> \in R}
    OBVIOUS
  <2>2. S = {j \in DOMAIN a.groups : p \in pieces[j]} /\ S \in SUBSET D
    BY <1>4, <2>1
  <2>3. PICK y : y = [i \in D |-> u[<<i, p>>]]
    OBVIOUS
  <2>4. w[p] \in Nat /\ Summable(c, S) /\ Spanned(a, S) \in Nat
    BY <1>2, <2>2, CountsAreSummable DEF c
  <2>5. \A i \in S : y[i] = w[p] * c[i]
    <3>1. ASSUME NEW i \in S PROVE y[i] = w[p] * c[i]
      <4>1. c[i] \in Nat /\ p \in pieces[i] /\ i \in D
        BY <1>1, <2>2
      <4>2. y[i] = c[i] * w[p]
        BY <1>5, <2>3, <4>1
      <4> QED
        BY <2>4, <4>1, <4>2
    <3> QED
      BY <3>1
  <2>6. Total(On(y, S)) = w[p] * Total(On(c, S))
    BY <2>4, <2>5, TotalScaled
  <2>7. LayersWith(a, pieces, p) = Spanned(a, S)
    BY <2>2, LayersWithIs
  <2>8. Total(On(c, S)) = Spanned(a, S)
    BY DEF Spanned, c
  <2>9. byP[p] = Spanned(a, S) * w[p]
    BY <2>7
  <2> HIDE DEF byP
  <2> QED
    BY <2>1, <2>3, <2>4, <2>6, <2>8, <2>9 DEF BySecond
<1>9. Summable(n, D) /\ Summable(byP, P) /\ Total(On(n, D)) = Total(On(byP, P))
  <2> HIDE DEF byP, P, D
  <2>1. IsFiniteSet(D) /\ IsFiniteSet(P)
    BY <1>1, <1>2
  <2>2. IsExchange(D, P, R, u, n, byP)
    BY <1>3, <1>6, <1>7, <1>8, <2>1 DEF IsExchange
  <2>3. SumAlike(n, D, byP, P)
    BY <2>2, TotalExchanged
  <2> QED
    BY <2>3 DEF SumAlike
<1>10. Merge(a, pieces) = {f[p] : p \in P}
  BY DEF Merge, Merged
<1>11. \A p, q \in P : f[p] = f[q] => p = q
  <2>1. ASSUME NEW p \in P
        PROVE  [f[p] EXCEPT !.mult = 1] = p
    BY <1>2 DEF Merged, Segments
  <2> QED
    BY <2>1
<1>12. \A p \in P : v[f[p]] = byP[p]
  BY <1>0
<1> HIDE DEF f, byP, P, D
<1>13. Summable(v, Merge(a, pieces)) /\ Total(On(v, Merge(a, pieces))) = Total(On(byP, P))
  BY <1>9, <1>10, <1>11, <1>12, TotalRenamed
<1> QED
  BY <1>9, <1>13 DEF D, SumAlike

\* One summand more.
LEMMA TotalWith ==
  ASSUME NEW S, NEW v, Summable(v, S), NEW x, x \notin S, v[x] \in Nat
  PROVE  Summable(v, S \cup {x}) /\ Total(On(v, S \cup {x})) = v[x] + Total(On(v, S))
<1>1. Summable(v, S \cup {x})
  BY FS_AddElement DEF Summable
<1>2. x \in S \cup {x} /\ (S \cup {x}) \ {x} = S
  OBVIOUS
<1> QED
  BY <1>1, <1>2, TotalStep

\* Five or six of them.
AreFive(v, S, p1, p2, p3, p4, p5) ==
  /\ S = {p1, p2, p3, p4, p5} /\ \A p \in S : v[p] \in Nat
  /\ p2 # p1 /\ p3 \notin {p1, p2} /\ p4 \notin {p1, p2, p3} /\ p5 \notin {p1, p2, p3, p4}

LEMMA TotalOfFive ==
  ASSUME NEW v, NEW S, NEW p1, NEW p2, NEW p3, NEW p4, NEW p5, AreFive(v, S, p1, p2, p3, p4, p5)
  PROVE  Summable(v, S) /\ Total(On(v, S)) = v[p1] + v[p2] + v[p3] + v[p4] + v[p5]
<1>1. /\ v[p1] \in Nat /\ v[p2] \in Nat /\ v[p3] \in Nat /\ v[p4] \in Nat /\ v[p5] \in Nat
      /\ p2 # p1 /\ p3 \notin {p1, p2} /\ p4 \notin {p1, p2, p3} /\ p5 \notin {p1, p2, p3, p4}
      /\ S = {p1, p2, p3, p4} \cup {p5}
  BY DEF AreFive
<1>2. PICK S2, S3, S4 : S2 = {p1} \cup {p2} /\ S3 = S2 \cup {p3} /\ S4 = S3 \cup {p4}
  OBVIOUS
<1>3. p2 \notin {p1} /\ p3 \notin S2 /\ p4 \notin S3 /\ p5 \notin S4 /\ S = S4 \cup {p5}
  BY <1>1, <1>2
<1>4. Summable(v, {p1}) /\ Total(On(v, {p1})) = v[p1]
  BY <1>1, TotalOfOne
<1>5. Summable(v, S2) /\ Total(On(v, S2)) = v[p2] + Total(On(v, {p1}))
  BY <1>1, <1>2, <1>3, <1>4, TotalWith
<1>6. Summable(v, S3) /\ Total(On(v, S3)) = v[p3] + Total(On(v, S2))
  BY <1>1, <1>2, <1>3, <1>5, TotalWith
<1>7. Summable(v, S4) /\ Total(On(v, S4)) = v[p4] + Total(On(v, S3))
  BY <1>1, <1>2, <1>3, <1>6, TotalWith
<1>8. Summable(v, S) /\ Total(On(v, S)) = v[p5] + Total(On(v, S4))
  BY <1>1, <1>3, <1>7, TotalWith
<1> QED
  BY <1>1, <1>4, <1>5, <1>6, <1>7, <1>8

LEMMA TotalOfSix ==
  ASSUME NEW v, NEW T, NEW S, NEW p1, NEW p2, NEW p3, NEW p4, NEW p5, NEW p6,
         AreFive(v, T, p1, p2, p3, p4, p5), S = T \cup {p6}, p6 \notin T, v[p6] \in Nat
  PROVE  Summable(v, S) /\ Total(On(v, S)) = v[p1] + v[p2] + v[p3] + v[p4] + v[p5] + v[p6]
<1>1. v[p1] \in Nat /\ v[p2] \in Nat /\ v[p3] \in Nat /\ v[p4] \in Nat /\ v[p5] \in Nat
  BY DEF AreFive
<1>2. Summable(v, T) /\ Total(On(v, T)) = v[p1] + v[p2] + v[p3] + v[p4] + v[p5]
  BY TotalOfFive
<1>3. Summable(v, S) /\ Total(On(v, S)) = v[p6] + Total(On(v, T))
  BY <1>2, TotalWith
<1> QED
  BY <1>1, <1>2, <1>3

-----------------------------------------------------------------------------
(* What all ranks hold between them, of a share that is exact. *)

LEMMA OrderTimes ==
  ASSUME NEW m \in Int, NEW n \in Int, m <= n, NEW k \in Nat
  PROVE  m * k <= n * k
<1>1. (n - m) * k >= 0
  <2>1. PICK d \in Nat : d = n - m
    OBVIOUS
  <2>2. d * k \in Nat
    BY <2>1, NatTimes
  <2> QED
    BY <2>1, <2>2
<1>2. (n - m) * k = n * k - m * k
  OBVIOUS
<1> QED
  BY <1>1, <1>2

LEMMA SharesAddUp ==
  ASSUME NEW n \in Nat, NEW d \in Sizes, Scale % d = 0, NEW ranks \in Nat, d <= ranks
  PROVE  Share(n, d) * ranks >= n * Scale /\ (d = ranks => Share(n, d) * ranks = n * Scale)
<1>1. PICK q \in Sizes : q = Scale \div d /\ q * d = Scale /\ Share(n, d) = n * q
  BY ShareIsExact
<1>2. q \in Nat /\ d \in Nat
  BY DEF Sizes
<1>3. PICK p \in Nat : p = n * q
  BY <1>2, NatTimes
<1>4. p * d = n * Scale
  BY <1>1, <1>2, <1>3
<1>5. d * p <= ranks * p
  BY <1>2, OrderTimes
<1>6. d * p = p * d /\ ranks * p = p * ranks
  BY <1>2
<1> QED
  BY <1>1, <1>3, <1>4, <1>5, <1>6

\* Summed up: `held` on one rank, `all` there is.
HoldsAll(held, all, S, ranks) ==
  Summable(held, S) /\ Summable(all, S) /\ \A x \in S : held[x] * ranks >= all[x] * Scale
HoldsOnce(held, all, S, ranks) == \A x \in S : held[x] * ranks = all[x] * Scale

LEMMA TotalsAddUp ==
  ASSUME NEW held, NEW all, NEW S, NEW ranks \in Nat, HoldsAll(held, all, S, ranks)
  PROVE  /\ Total(On(held, S)) * ranks >= Total(On(all, S)) * Scale
         /\ HoldsOnce(held, all, S, ranks) => Total(On(held, S)) * ranks = Total(On(all, S)) * Scale
<1> DEFINE u == [x \in S |-> ranks * held[x]]
           w == [x \in S |-> Scale * all[x]]
<1>1. Summable(held, S) /\ Summable(all, S) /\ Scale \in Nat
  BY ScaleAssumption DEF HoldsAll
<1>2. \A x \in S : held[x] \in Nat /\ all[x] \in Nat
  BY <1>1 DEF Summable
<1>3. (\A x \in S : u[x] = ranks * held[x]) /\ (\A x \in S : w[x] = Scale * all[x])
  OBVIOUS
<1>4. \A x \in S : ranks * held[x] = held[x] * ranks /\ Scale * all[x] = all[x] * Scale
  BY <1>1, <1>2
<1> HIDE DEF u, w
<1>5. Summable(u, S) /\ Total(On(u, S)) = ranks * Total(On(held, S))
  BY <1>1, <1>3, TotalScaled
<1>6. Summable(w, S) /\ Total(On(w, S)) = Scale * Total(On(all, S))
  BY <1>1, <1>3, TotalScaled
<1>7. \A x \in S : w[x] <= u[x]
  BY <1>2, <1>3, <1>4, <1>5, <1>6 DEF HoldsAll, Summable
<1>8. Total(On(w, S)) <= Total(On(u, S))
  BY <1>5, <1>6, <1>7, TotalMonotone
<1>9. Total(On(held, S)) \in Nat /\ Total(On(all, S)) \in Nat
  BY <1>1, TotalIsNat
<1>10. ASSUME HoldsOnce(held, all, S, ranks)
       PROVE  Total(On(w, S)) = Total(On(u, S))
  <2>1. \A x \in S : w[x] = u[x]
    BY <1>3, <1>4, <1>10 DEF HoldsOnce
  <2>2. On(w, S) = On(u, S)
    BY <2>1, OnSame
  <2> QED
    BY <2>2
<1>11. /\ ranks * Total(On(held, S)) = Total(On(held, S)) * ranks
       /\ Scale * Total(On(all, S)) = Total(On(all, S)) * Scale
  BY <1>1, <1>9
<1>12. Total(On(held, S)) * ranks >= Total(On(all, S)) * Scale
  BY <1>5, <1>6, <1>8, <1>9, <1>11
<1>13. HoldsOnce(held, all, S, ranks) => Total(On(held, S)) * ranks = Total(On(all, S)) * Scale
  BY <1>5, <1>6, <1>10, <1>11
<1> QED
  BY <1>12, <1>13

-----------------------------------------------------------------------------
(* What is divided, is divided over no more ranks than there are. *)

LEMMA QuotientTimes ==
  ASSUME NEW n \in Nat, NEW d \in Sizes
  PROVE  (n \div d) * d <= n /\ n \div d \in Nat
<1>1. d \in Nat \ {0} /\ n \in Int
  BY DEF Sizes
<1>2. n = (n \div d) * d + (n % d) /\ n % d >= 0 /\ n \div d \in Int /\ n % d \in Int
  BY <1>1, DivMod
<1>3. (n \div d) * d \in Int
  BY <1>1, <1>2
<1>4. n \div d \in Nat
  BY DivNat
<1> QED
  BY <1>2, <1>3, <1>4

LEMMA DecodingHeads ==
  ASSUME NEW cfg, IsConfig(cfg), NEW nkv \in Nat, NEW isMla \in BOOLEAN
  PROVE  HeadDivisor(cfg, "decode", KvHeads(nkv, isMla)) = Least(cfg.tp, KvHeads(nkv, isMla))
<1>1. cfg.tp \in Nat /\ cfg.tp >= 1
  BY DEF IsConfig, Sizes
<1>2. PICK k \in Nat : k = KvHeads(nkv, isMla) /\ k >= 1
  BY HeadDivisors DEF Sizes
<1>3. HeadTp(cfg, "decode") = cfg.tp
  BY DEF HeadTp
<1> QED
  BY <1>1, <1>2, <1>3 DEF HeadDivisor, Greatest, Least

LEMMA CacheDivisor ==
  ASSUME NEW cfg, IsConfig(cfg), NEW cap, NEW nkv \in Nat, NEW isMla \in BOOLEAN
  PROVE  /\ KvCacheDivisor(cfg, "decode", cap, nkv, isMla) <= cfg.tp
         /\ cfg.tp <= KvHeads(nkv, isMla) => KvCacheDivisor(cfg, "decode", cap, nkv, isMla) = cfg.tp
<1>1. PICK tp \in Nat : tp = cfg.tp /\ tp >= 1
  BY DEF IsConfig, Sizes
<1>2. PICK cp \in Nat : cp = cfg.cp /\ cp >= 1
  BY DEF IsConfig, Sizes
<1>3. PICK k \in Nat : k = KvHeads(nkv, isMla) /\ k >= 1 /\ k \in Sizes
  BY HeadDivisors DEF Sizes
<1>4. PICK q \in Nat : q = tp \div k
  BY <1>3, QuotientTimes
<1>5. q * k <= tp
  BY <1>3, <1>4, QuotientTimes
<1>6. PICK c : c = CpG(cfg, "decode", cap, nkv, isMla)
  OBVIOUS
<1>7. c = 1 \/ c = Least(cp, Greatest(q, 1))
  BY <1>1, <1>2, <1>3, <1>4, <1>6 DEF CpG
<1>8. c \in Nat /\ c >= 1 /\ (c = 1 \/ c <= q)
  BY <1>2, <1>4, <1>7 DEF Least, Greatest
<1>9. KvCacheDivisor(cfg, "decode", cap, nkv, isMla) = Least(tp, k) * c
  BY <1>1, <1>3, <1>6, DecodingHeads DEF KvCacheDivisor
<1>10. CASE tp <= k
  <2>1. Least(tp, k) = tp
    BY <1>10, <1>1, <1>3 DEF Least
  <2>2. q <= 1
    <3> SUFFICES ASSUME q >= 2
                 PROVE  FALSE
      BY <1>4
    <3>1. 2 * k <= q * k
      BY <1>3, OrderTimes
    <3> QED
      BY <1>1, <1>3, <1>4, <1>5, <1>10, <3>1
  <2>3. c = 1
    BY <1>4, <1>8, <2>2
  <2>4. tp * 1 = tp
    BY <1>1
  <2> QED
    BY <1>1, <1>9, <2>1, <2>3, <2>4
<1>11. CASE ~(tp <= k)
  <2>1. Least(tp, k) = k
    BY <1>11, <1>1, <1>3 DEF Least
  <2>2. k * c <= tp
    <3>1. CASE c = 1
      BY <1>1, <1>3, <1>11, <3>1
    <3>2. CASE c <= q
      <4>1. c * k <= q * k
        BY <1>3, <1>4, <1>8, <3>2, OrderTimes
      <4>2. c * k = k * c
        BY <1>3, <1>8
      <4>3. q * k \in Nat /\ c * k \in Nat
        BY <1>3, <1>4, <1>8, NatTimes
      <4> QED
        BY <1>1, <1>5, <4>1, <4>2, <4>3
    <3> QED
      BY <1>8, <3>1, <3>2
  <2> QED
    BY <1>1, <1>3, <1>9, <1>11, <2>1, <2>2
<1> QED
  BY <1>10, <1>11

LEMMA WeightsDivisor ==
  ASSUME NEW cfg, IsConfig(cfg), NEW nkv \in Nat, NEW isMla \in BOOLEAN, NEW cls \in Classes \ {"attn_score"}
  PROVE  WeightDivisor(cls, cfg, "decode", nkv, isMla) <= World(cfg)
<1>1. PICK tp \in Nat : tp = cfg.tp /\ tp >= 1
  BY DEF IsConfig, Sizes
<1>2. PICK dp \in Nat : dp = cfg.dp /\ dp >= 1
  BY DEF IsConfig, Sizes
<1>3. PICK w \in Nat : w = World(cfg) /\ w = tp * dp
  BY <1>1, <1>2, NatTimes DEF World
<1>4. tp <= w
  <2>1. 1 * tp <= dp * tp
    BY <1>1, <1>2, OrderTimes
  <2>2. dp * tp = tp * dp /\ 1 * tp = tp
    BY <1>1, <1>2
  <2> QED
    BY <1>3, <2>1, <2>2
<1>5. PICK k \in Nat : k = KvHeads(nkv, isMla)
  BY HeadDivisors DEF Sizes
<1>6. HeadDivisor(cfg, "decode", k) <= tp
  BY <1>1, <1>5, DecodingHeads DEF Least
<1>7. HeadDivisor(cfg, "decode", k) \in Nat
  BY <1>5, HeadDivisors DEF Sizes
<1>8. HeadTp(cfg, "decode") = tp /\ cfg.ep \in BOOLEAN
  BY <1>1 DEF HeadTp, IsConfig
<1>9. PICK d : d = WeightDivisor(cls, cfg, "decode", nkv, isMla)
  OBVIOUS
<1>10. d \in {tp, HeadDivisor(cfg, "decode", k), w, 1}
  BY <1>1, <1>3, <1>5, <1>8, <1>9 DEF WeightDivisor, Classes
<1> QED
  BY <1>1, <1>3, <1>4, <1>6, <1>7, <1>9, <1>10

-----------------------------------------------------------------------------
(* The cache. *)

LEMMA MinIsLeast ==
  ASSUME NEW S, IsFiniteSet(S), S \subseteq Int, NEW y \in S
  PROVE  Min(S) \in S /\ Min(S) <= y
<1> DEFINE f == [x \in S |-> 0 - x]
           T == {f[x] : x \in S}
<1>1. \A x \in S : f[x] \in T /\ f[x] = 0 - x /\ x \in Int
  OBVIOUS
<1>2. T \subseteq Int /\ T # {}
  BY <1>1
<1>3. \A t \in T : \E x \in S : t = f[x]
  OBVIOUS
<1>4. IsFiniteSet(T)
  <2> HIDE DEF f
  <2> QED
    BY ImageIsFinite
<1> HIDE DEF f, T
<1>5. Max(T) \in T /\ \A t \in T : Max(T) >= t
  BY <1>2, <1>4, MaxIsOne
<1>6. PICK x \in S : Max(T) = 0 - x
  BY <1>1, <1>3, <1>5
<1>7. \A z \in S : x <= z
  <2>1. ASSUME NEW z \in S PROVE x <= z
    <3>1. 0 - x >= 0 - z /\ x \in Int /\ z \in Int
      BY <1>1, <1>5, <1>6
    <3> QED
      BY <3>1
  <2> QED
    BY <2>1
<1>8. \E z \in S : \A t \in S : z <= t
  BY <1>7
<1> QED
  BY <1>8 DEF Min

\* A merged piece spans its layers; in all else it is the piece.
LEMMA MergedIs ==
  ASSUME NEW a, IsArch(a), NEW pieces, NEW p \in Segments, NEW m, m = Merged(a, pieces, p)
  PROVE  /\ m \in Segments /\ m.mult = LayersWith(a, pieces, p) /\ LayersWith(a, pieces, p) \in Nat
         /\ m.cls = p.cls /\ m.unit = p.unit /\ m.cap = p.cap
<1>1. {j \in DOMAIN a.groups : p \in pieces[j]} \in SUBSET DOMAIN a.groups
  OBVIOUS
<1>2. LayersWith(a, pieces, p) \in Nat
  BY <1>1, LayersAreNat DEF LayersWith
<1>3. PICK n \in Nat : n = LayersWith(a, pieces, p)
  BY <1>2
<1>4. m = [p EXCEPT !.mult = n]
  BY <1>3 DEF Merged
<1> QED
  BY <1>2, <1>3, <1>4 DEF Segments

LEMMA TimesThree ==
  ASSUME NEW k \in Nat, NEW m \in Nat, NEW n \in Nat, NEW j \in Nat
  PROVE  k * m * n * j = k * (m * n * j) /\ m * n * j \in Nat
<1>1. PICK p \in Nat : p = m * n
  BY NatTimes
<1>2. k * m * n = k * p
  BY <1>1
<1>3. PICK q \in Nat : q = p * j
  BY <1>1, NatTimes
<1>4. k * p * j = k * q
  BY <1>1, <1>3
<1> QED
  BY <1>1, <1>2, <1>3, <1>4

\* The cache of a layer's piece, and of a segment.
LayerCache(s, bs) == [p \in Segments |-> p.unit * EffCtx(p.cap, s) * bs]
CacheOf(s, bs) == [x \in Segments |-> x.mult * x.unit * EffCtx(x.cap, s) * bs]

LEMMA CacheIs ==
  ASSUME NEW s \in Nat, NEW bs \in Nat, NEW x \in Segments
  PROVE  /\ LayerCache(s, bs)[x] \in Nat /\ CacheOf(s, bs)[x] \in Nat
         /\ CacheOf(s, bs)[x] = x.mult * LayerCache(s, bs)[x]
<1>1. PICK e \in Nat : e = EffCtx(x.cap, s)
  BY ContextIs DEF Segments
<1>2. x.mult \in Nat /\ x.unit \in Nat
  BY DEF Segments
<1>3. /\ x.mult * x.unit * e * bs = x.mult * (x.unit * e * bs) /\ x.unit * e * bs \in Nat
  BY <1>1, <1>2, TimesThree
<1>4. LayerCache(s, bs)[x] = x.unit * e * bs /\ CacheOf(s, bs)[x] = x.mult * x.unit * e * bs
  BY <1>1 DEF LayerCache, CacheOf
<1>5. PICK l \in Nat : l = x.unit * e * bs
  BY <1>3
<1> QED
  BY <1>2, <1>3, <1>4, <1>5, NatTimes

LEMMA OverLayersSum ==
  ASSUME NEW a, NEW per, NEW n, \A i \in DOMAIN a.groups : n[i] = a.groups[i].count * per[a.groups[i]]
  PROVE  OverLayers(a, per) = Total(On(n, DOMAIN a.groups))
<1>1. On(n, DOMAIN a.groups) = [i \in DOMAIN a.groups |-> a.groups[i].count * per[a.groups[i]]]
  BY DEF On
<1> QED
  BY <1>1 DEF OverLayers

LEMMA CacheCounted ==
  ASSUME NEW a, IsArch(a), NEW s \in Nat, NEW bs \in Nat
  PROVE  /\ Summable(CacheOf(s, bs), KvSegments(a))
         /\ Total(On(CacheOf(s, bs), KvSegments(a))) = KvBytesTotal(a, s, bs)
<1>1. PICK w, v : w = LayerCache(s, bs) /\ v = CacheOf(s, bs)
  OBVIOUS
<1>2. \A x \in Segments : w[x] \in Nat /\ v[x] = x.mult * w[x]
  BY <1>1, CacheIs
<1>3. PICK pieces : pieces = [i \in DOMAIN a.groups |-> KvPieces(a, a.groups[i])]
  OBVIOUS
<1> DEFINE per == [g \in GroupSet(a) |->
                     (IF g.hasMla THEN KvCacheDim(g.mla) ELSE 2 * g.nkv * g.dim)
                     * KvElemBytes(a) * EffCtx(g.cap, s) * bs]
           n == [i \in DOMAIN a.groups |-> a.groups[i].count * per[a.groups[i]]]
<1>4. KvSegments(a) = Merge(a, pieces)
  BY <1>3 DEF KvSegments
<1>5. KvBytesTotal(a, s, bs) = OverLayers(a, per)
  BY DEF KvBytesTotal
<1>6. \A i \in DOMAIN a.groups : n[i] = a.groups[i].count * per[a.groups[i]]
  OBVIOUS
<1>7. ASSUME NEW i \in DOMAIN a.groups
      PROVE  /\ ArePieces(pieces[i])
             /\ \A p \in pieces[i] : w[p] \in Nat /\ v[Merged(a, pieces, p)] = LayersWith(a, pieces, p) * w[p]
             /\ n[i] = CountOf(a)[i] * Total(On(w, pieces[i]))
  <2>1. PICK g : g = a.groups[i]
    OBVIOUS
  <2>2. IsGroup(g) /\ g \in GroupSet(a)
    BY <2>1 DEF IsArch, GroupSet, ToSet
  <2>3. PICK p : p = Piece("attn_kv", AttnLabel(g), KvUnitPerToken(a, g), g.cap)
    OBVIOUS
  <2>4. pieces[i] = {p}
    BY <1>3, <2>1, <2>3 DEF KvPieces
  <2>5. IsPiecesOf(pieces[i], g)
    BY <1>3, <2>1, <2>2, PiecesOfGroup
  <2>6. p \in Segments /\ p.mult = 1 /\ p.unit = KvUnitPerToken(a, g) /\ p.cap = g.cap
    BY <2>3, <2>4, <2>5 DEF IsPiecesOf, Piece, Segment
  <2>7. ArePieces(pieces[i])
    BY <2>4, <2>5, <2>6 DEF ArePieces, IsPiecesOf
  <2>8. w[p] \in Nat /\ v[Merged(a, pieces, p)] = LayersWith(a, pieces, p) * w[p]
    <3>1. PICK m : m = Merged(a, pieces, p)
      OBVIOUS
    <3>2. /\ m \in Segments /\ m.mult = LayersWith(a, pieces, p) /\ m.unit = p.unit /\ m.cap = p.cap
      BY <2>6, <3>1, MergedIs
    <3>3. w[m] = w[p]
      BY <1>1, <2>6, <3>2 DEF LayerCache
    <3> QED
      BY <1>2, <2>6, <3>1, <3>2, <3>3
  <2>9. Total(On(w, pieces[i])) = w[p]
    BY <2>4, <2>8, TotalOfOne
  <2>10. w[p] = per[g]
    <3>1. w[p] = KvUnitPerToken(a, g) * EffCtx(g.cap, s) * bs
      BY <1>1, <2>6 DEF LayerCache
    <3>2. per[g] = (IF g.hasMla THEN KvCacheDim(g.mla) ELSE 2 * g.nkv * g.dim) * KvElemBytes(a) * EffCtx(g.cap, s) * bs
      BY <2>2
    <3> QED
      BY <3>1, <3>2 DEF KvUnitPerToken
  <2>11. n[i] = a.groups[i].count * per[g] /\ CountOf(a)[i] = a.groups[i].count
    BY <2>1 DEF CountOf
  <2> HIDE DEF n, per
  <2> QED
    BY <2>4, <2>7, <2>8, <2>9, <2>10, <2>11
<1> HIDE DEF n, per
<1>8. Merges(a, pieces, w, v, n)
  BY <1>7 DEF Merges
<1>9. SumAlike(v, Merge(a, pieces), n, DOMAIN a.groups)
  BY <1>8, MergeHolds
<1>10. OverLayers(a, per) = Total(On(n, DOMAIN a.groups))
  BY <1>6, OverLayersSum
<1> QED
  BY <1>1, <1>4, <1>5, <1>9, <1>10 DEF SumAlike

\* A segment's share of the cache, on all ranks of TP.
LEMMA SegmentCache ==
  ASSUME NEW b, IsBundle(b), NEW cfg, IsConfig(cfg), IsExact(b, cfg), NEW s \in Nat, NEW bs \in Nat,
         NEW op, op = Decoding(s, bs), NEW x \in b.kvs
  PROVE  /\ SegmentKv(b, x, cfg, op) * cfg.tp >= CacheOf(s, bs)[x] * Scale
         /\ cfg.tp <= KvHeads(b.meta[x.type].nkv, b.meta[x.type].isMla) =>
              SegmentKv(b, x, cfg, op) * cfg.tp = CacheOf(s, bs)[x] * Scale
<1>1. x \in Segments
  BY DEF IsBundle
<1>2. PICK nkv \in Nat, mla \in BOOLEAN : nkv = b.meta[x.type].nkv /\ mla = b.meta[x.type].isMla
  BY <1>1, SegmentIs
<1>3. PICK d : d = KvCacheDivisor(cfg, "decode", x.cap, nkv, mla)
  OBVIOUS
<1>4. Scale % d = 0
  BY <1>2, <1>3 DEF IsExact
<1>5. d \in Sizes
  <2>1. "embed" \in Classes
    BY DEF Classes
  <2> QED
    BY <1>3, <2>1, WorkDivisors
<1>6. d <= cfg.tp /\ (cfg.tp <= KvHeads(nkv, mla) => d = cfg.tp)
  BY <1>3, CacheDivisor
<1>7. PICK n \in Nat : n = CacheOf(s, bs)[x]
  BY <1>1, CacheIs
<1>8. SegmentKv(b, x, cfg, op) = Share(n, d)
  <2>1. op.s = s /\ op.bs = bs /\ op.regime = "decode"
    BY DEF Decoding
  <2>2. n = x.mult * x.unit * EffCtx(x.cap, s) * bs
    BY <1>1, <1>7 DEF CacheOf
  <2> QED
    BY <1>2, <1>3, <2>1, <2>2 DEF SegmentKv
<1>9. cfg.tp \in Nat
  BY DEF IsConfig, Sizes
<1>10. Share(n, d) * cfg.tp >= n * Scale /\ (d = cfg.tp => Share(n, d) * cfg.tp = n * Scale)
  BY <1>4, <1>5, <1>6, <1>9, SharesAddUp
<1> QED
  BY <1>2, <1>6, <1>7, <1>8, <1>10

\* TP ranks hold the cache; while none has more than a head to itself, once.
KeepsCache(r, a, cfg, s, bs) ==
  /\ r.kv * cfg.tp >= KvBytesTotal(a, s, bs) * Scale
  /\ cfg.tp <= MinKvHeads(a) /\ (\A i \in DOMAIN a.groups : ~a.groups[i].hasMla) =>
       r.kv * cfg.tp = KvBytesTotal(a, s, bs) * Scale

LEMMA CacheIsKept ==
  ASSUME NEW a, IsArch(a), IsRegular(a), NEW b, b = BuildBundle(a), NEW hw,
         NEW cfg, IsConfig(cfg), Scale % cfg.tp = 0, IsExact(b, cfg), NEW s \in Nat, s > 0, NEW bs \in Nat, bs > 0,
         NEW r, IsDecodeCell(r, b, hw, cfg, s, bs)
  PROVE  KeepsCache(r, a, cfg, s, bs)
<1>1. PICK op : op = Decoding(s, bs)
  OBVIOUS
<1>2. r.kv = Total(KvHeld(b, cfg, op)) /\ Summable(KvHeld(b, cfg, op), b.kvs)
  BY <1>1, RowHolds
<1>3. PICK S : S = b.kvs /\ S = KvSegments(a)
  BY DEF BuildBundle
<1>4. PICK held, all : held = KvHeld(b, cfg, op) /\ all = CacheOf(s, bs)
  OBVIOUS
<1>5. Summable(held, S) /\ r.kv = Total(On(held, S))
  <2>1. On(held, S) = held
    BY <1>3, <1>4 DEF On, KvHeld
  <2> QED
    BY <1>2, <1>3, <1>4, <2>1
<1>6. Summable(all, S) /\ Total(On(all, S)) = KvBytesTotal(a, s, bs)
  BY <1>3, <1>4, CacheCounted
<1>7. IsBundle(b)
  BY BundleIs
<1>8. ASSUME NEW x \in S
      PROVE  /\ held[x] * cfg.tp >= all[x] * Scale
             /\ cfg.tp <= KvHeads(b.meta[x.type].nkv, b.meta[x.type].isMla) => held[x] * cfg.tp = all[x] * Scale
  <2>1. held[x] = SegmentKv(b, x, cfg, op)
    BY <1>3, <1>4 DEF KvHeld
  <2>2. x \in b.kvs
    BY <1>3
  <2> QED
    BY <1>1, <1>4, <1>7, <2>1, <2>2, SegmentCache
<1>9. HoldsAll(held, all, S, cfg.tp)
  BY <1>5, <1>6, <1>8 DEF HoldsAll
<1>10. cfg.tp \in Nat
  BY DEF IsConfig, Sizes
<1>11. /\ Total(On(held, S)) * cfg.tp >= Total(On(all, S)) * Scale
       /\ HoldsOnce(held, all, S, cfg.tp) => Total(On(held, S)) * cfg.tp = Total(On(all, S)) * Scale
  BY <1>9, <1>10, TotalsAddUp
<1>12. ASSUME cfg.tp <= MinKvHeads(a), \A i \in DOMAIN a.groups : ~a.groups[i].hasMla
       PROVE  HoldsOnce(held, all, S, cfg.tp)
  <2>1. PICK heads : heads = [i \in DOMAIN a.groups |-> a.groups[i].nkv]
    OBVIOUS
  <2>2. \A i \in DOMAIN a.groups : heads[i] \in Nat /\ heads[i] > 0
    BY <2>1, GroupDims DEF IsArch
  <2>3. PICK H : H = {heads[i] : i \in DOMAIN a.groups}
    OBVIOUS
  <2>4. IsFiniteSet(H) /\ H \subseteq Int
    <3>1. PICK D : D = DOMAIN a.groups
      OBVIOUS
    <3>2. IsFiniteSet(D) /\ H = {heads[i] : i \in D}
      BY <2>3, <3>1 DEF IsArch
    <3>3. IsFiniteSet(H)
      BY <3>2, ImageIsFinite
    <3> QED
      BY <2>2, <2>3, <3>3
  <2>5. MinKvHeads(a) = Min(H)
    BY <2>1, <2>3 DEF MinKvHeads, MinOver
  <2>6. ASSUME NEW i \in DOMAIN a.groups
        PROVE  cfg.tp <= a.groups[i].nkv
    <3>1. heads[i] \in H
      BY <2>3
    <3>2. Min(H) \in H /\ Min(H) <= heads[i]
      BY <2>4, <3>1, MinIsLeast
    <3>3. PICK m \in Int : m = Min(H)
      BY <2>4, <3>2
    <3>4. cfg.tp <= m /\ m <= heads[i] /\ heads[i] = a.groups[i].nkv /\ heads[i] \in Nat
      BY <1>12, <2>1, <2>2, <2>5, <3>2, <3>3
    <3> QED
      BY <1>10, <3>4
  <2>7. ASSUME NEW x \in S
        PROVE  cfg.tp <= KvHeads(b.meta[x.type].nkv, b.meta[x.type].isMla)
    <3>1. b.arch = a
      BY DEF BuildBundle
    <3>2. PICK j \in DOMAIN a.groups : b.meta[x.type] = [nkv |-> a.groups[j].nkv, isMla |-> a.groups[j].hasMla]
      <4>1. \A y \in b.kvs : \E i, j \in DOMAIN b.arch.groups :
               /\ y.cap = b.arch.groups[i].cap
               /\ b.meta[y.type] = [nkv |-> b.arch.groups[j].nkv, isMla |-> b.arch.groups[j].hasMla]
        BY <1>7 DEF IsBundle
      <4> QED
        BY <1>3, <3>1, <4>1
    <3>3. a.groups[j].hasMla = FALSE /\ a.groups[j].nkv = heads[j] /\ heads[j] \in Nat /\ heads[j] > 0
      BY <1>12, <2>1, <2>2, GroupDims DEF IsArch
    <3>4. KvHeads(b.meta[x.type].nkv, b.meta[x.type].isMla) = heads[j]
      BY <3>2, <3>3 DEF KvHeads, Greatest
    <3> QED
      BY <2>6, <3>3, <3>4
  <2> QED
    BY <1>8, <2>7 DEF HoldsOnce
<1> QED
  BY <1>5, <1>6, <1>11, <1>12 DEF KeepsCache

-----------------------------------------------------------------------------
(* What all layers have of something of which a layer of group i has x[i].   *)

Layered(a, x) == [i \in DOMAIN a.groups |-> a.groups[i].count * x[i]]
InLayers(a, x) == Total(On(Layered(a, x), DOMAIN a.groups))
PerGroup(a, per) == [i \in DOMAIN a.groups |-> per[a.groups[i]]]

LEMMA InLayersIs ==
  ASSUME NEW a, IsArch(a), NEW x, \A i \in DOMAIN a.groups : x[i] \in Nat
  PROVE  Summable(Layered(a, x), DOMAIN a.groups) /\ InLayers(a, x) \in Nat
<1>1. \A i \in DOMAIN a.groups : a.groups[i].count \in Nat
  BY GroupDims DEF IsArch
<1>2. \A i \in DOMAIN a.groups : Layered(a, x)[i] \in Nat
  BY <1>1, NatTimes DEF Layered
<1>3. Summable(Layered(a, x), DOMAIN a.groups)
  BY <1>2 DEF Summable, IsArch
<1> QED
  BY <1>3, TotalIsNat DEF InLayers

LEMMA OverLayersAre ==
  ASSUME NEW a, NEW per
  PROVE  OverLayers(a, per) = InLayers(a, PerGroup(a, per))
<1>1. PICK n : n = Layered(a, PerGroup(a, per))
  OBVIOUS
<1>2. \A i \in DOMAIN a.groups : n[i] = a.groups[i].count * per[a.groups[i]]
  BY <1>1 DEF Layered, PerGroup
<1>3. OverLayers(a, per) = Total(On(n, DOMAIN a.groups))
  BY <1>2, OverLayersSum
<1> QED
  BY <1>1, <1>3 DEF InLayers

\* Where a layer has, with what it lacks, as much as another, so have all.
Suffices(a, x, y, z) ==
  \A i \in DOMAIN a.groups : x[i] \in Nat /\ y[i] \in Nat /\ z[i] \in Nat /\ x[i] + y[i] >= z[i]

LEMMA LayersSuffice ==
  ASSUME NEW a, IsArch(a), NEW x, NEW y, NEW z, Suffices(a, x, y, z)
  PROVE  /\ InLayers(a, x) \in Nat /\ InLayers(a, y) \in Nat /\ InLayers(a, z) \in Nat
         /\ InLayers(a, x) + InLayers(a, y) >= InLayers(a, z)
<1>1. PICK D : D = DOMAIN a.groups
  OBVIOUS
<1>2. PICK X, Y, Z : X = Layered(a, x) /\ Y = Layered(a, y) /\ Z = Layered(a, z)
  OBVIOUS
<1>3. \A i \in D : x[i] \in Nat /\ y[i] \in Nat /\ z[i] \in Nat /\ x[i] + y[i] >= z[i]
  BY <1>1 DEF Suffices
<1>4. /\ Summable(X, D) /\ InLayers(a, x) \in Nat /\ InLayers(a, x) = Total(On(X, D))
  BY <1>1, <1>2, <1>3, InLayersIs DEF InLayers
<1>5. /\ Summable(Y, D) /\ InLayers(a, y) \in Nat /\ InLayers(a, y) = Total(On(Y, D))
  BY <1>1, <1>2, <1>3, InLayersIs DEF InLayers
<1>6. /\ Summable(Z, D) /\ InLayers(a, z) \in Nat /\ InLayers(a, z) = Total(On(Z, D))
  BY <1>1, <1>2, <1>3, InLayersIs DEF InLayers
<1>7. PICK U : U = [i \in D |-> X[i] + 1 * Y[i]]
  OBVIOUS
<1>8. \A i \in D : U[i] = X[i] + 1 * Y[i]
  BY <1>7
<1>9. Summable(U, D) /\ Total(On(U, D)) = Total(On(X, D)) + 1 * Total(On(Y, D))
  <2>1. Summable(X, D) /\ Summable(Y, D)
    BY <1>4, <1>5
  <2>2. PICK k \in Nat : k = 1
    OBVIOUS
  <2>3. \A i \in D : U[i] = X[i] + k * Y[i]
    BY <1>8, <2>2
  <2>4. Summable(U, D) /\ Total(On(U, D)) = Total(On(X, D)) + k * Total(On(Y, D))
    BY <2>1, <2>3, TotalLinear
  <2> QED
    BY <2>2, <2>4
<1>10. ASSUME NEW i \in D
       PROVE  Z[i] <= U[i]
  <2>1. PICK c \in Nat : c = a.groups[i].count
    BY <1>1, GroupDims DEF IsArch
  <2>2. X[i] = c * x[i] /\ Y[i] = c * y[i] /\ Z[i] = c * z[i]
    BY <1>1, <1>2, <2>1 DEF Layered
  <2>3. PICK m \in Nat, n \in Nat, k \in Nat : m = x[i] /\ n = y[i] /\ k = z[i] /\ k <= m + n
    BY <1>3
  <2>4. k * c <= (m + n) * c
    BY <2>1, <2>3, OrderTimes
  <2>5. k * c = c * k /\ (m + n) * c = c * m + 1 * (c * n)
    BY <2>1, <2>3
  <2> QED
    BY <1>8, <2>2, <2>3, <2>4, <2>5
<1>11. Total(On(Z, D)) <= Total(On(U, D))
  BY <1>6, <1>9, <1>10, TotalMonotone
<1> QED
  BY <1>4, <1>5, <1>6, <1>9, <1>11

\* A multiple of what each layer has.
LEMMA LayersScaled ==
  ASSUME NEW a, IsArch(a), NEW x, \A i \in DOMAIN a.groups : x[i] \in Nat, NEW k \in Nat,
         NEW n, \A i \in DOMAIN a.groups : n[i] = a.groups[i].count * (x[i] * k)
  PROVE  Total(On(n, DOMAIN a.groups)) = k * InLayers(a, x)
<1>1. Summable(Layered(a, x), DOMAIN a.groups)
  BY InLayersIs
<1>2. PICK X, D : X = Layered(a, x) /\ D = DOMAIN a.groups
  OBVIOUS
<1>3. ASSUME NEW i \in D
      PROVE  n[i] = k * X[i]
  <2>1. a.groups[i].count \in Nat
    BY <1>2, GroupDims DEF IsArch
  <2>2. PICK c \in Nat, y \in Nat : c = a.groups[i].count /\ y = x[i]
    BY <1>2, <2>1
  <2>3. n[i] = c * (y * k) /\ X[i] = c * y
    BY <1>2, <2>2 DEF Layered
  <2> QED
    BY <2>2, <2>3
<1>4. Total(On(n, D)) = k * Total(On(X, D))
  BY <1>1, <1>2, <1>3, TotalScaled
<1> QED
  BY <1>2, <1>4 DEF InLayers

\* Pieces of nothing add nothing.
LEMMA PositiveTotal ==
  ASSUME NEW S, NEW w, Summable(w, S), \A p \in S : p.unit \in Nat /\ (p.unit = 0 => w[p] = 0)
  PROVE  Total(On(w, Positive(S))) = Total(On(w, S))
<1>1. PICK T : T = Positive(S)
  OBVIOUS
<1>2. T \in SUBSET S /\ \A p \in S \ T : w[p] = 0
  BY <1>1 DEF Positive
<1> QED
  BY <1>1, <1>2, TotalOnPart

\* The projection of V that a global layer with k_eq_v has no need of.
PhantomOf(a) == [i \in DOMAIN a.groups |->
  IF a.kEqV /\ a.groups[i].cap = None THEN a.hidden * a.groups[i].nkv * a.groups[i].dim ELSE 0]

LEMMA PhantomIs ==
  ASSUME NEW a, IsArch(a)
  PROVE  /\ \A i \in DOMAIN a.groups : PhantomOf(a)[i] \in Nat
         /\ PhantomGlobalVprojParams(a) = InLayers(a, PhantomOf(a)) /\ InLayers(a, PhantomOf(a)) \in Nat
<1>1. ASSUME NEW i \in DOMAIN a.groups
      PROVE  PhantomOf(a)[i] \in Nat
  <2>1. PICK g : g = a.groups[i]
    OBVIOUS
  <2>2. g.nkv \in Nat /\ g.dim \in Nat /\ a.hidden \in Nat
    BY <2>1, GroupDims, ElementBytes DEF IsArch
  <2>3. a.hidden * g.nkv \in Nat
    BY <2>2, NatTimes
  <2>4. a.hidden * g.nkv * g.dim \in Nat
    BY <2>2, <2>3, NatTimes
  <2> QED
    BY <2>1, <2>4 DEF PhantomOf
<1>2. InLayers(a, PhantomOf(a)) \in Nat
  BY <1>1, InLayersIs
<1>3. CASE a.kEqV
  <2>1. PICK per : per = [g \in GroupSet(a) |-> IF g.cap = None THEN a.hidden * g.nkv * g.dim ELSE 0]
    OBVIOUS
  <2>2. PhantomGlobalVprojParams(a) = InLayers(a, PerGroup(a, per))
    BY <1>3, <2>1, OverLayersAre DEF PhantomGlobalVprojParams
  <2>3. \A i \in DOMAIN a.groups : a.groups[i] \in GroupSet(a)
    BY DEF GroupSet, ToSet
  <2>4. PerGroup(a, per) = PhantomOf(a)
    BY <1>3, <2>1, <2>3 DEF PerGroup, PhantomOf
  <2> QED
    BY <1>1, <1>2, <2>2, <2>4
<1>4. CASE ~a.kEqV
  <2>1. PhantomGlobalVprojParams(a) = 0
    BY <1>4 DEF PhantomGlobalVprojParams
  <2>2. PICK n, D : n = Layered(a, PhantomOf(a)) /\ D = DOMAIN a.groups
    OBVIOUS
  <2>3. ASSUME NEW i \in D
        PROVE  n[i] = 0
    <3>1. a.groups[i].count \in Nat
      BY <2>2, GroupDims DEF IsArch
    <3>2. PhantomOf(a)[i] = 0
      BY <1>4, <2>2 DEF PhantomOf
    <3> QED
      BY <2>2, <3>1, <3>2 DEF Layered
  <2>4. IsFiniteSet(D)
    BY <2>2 DEF IsArch
  <2>5. Total(On(n, D)) = 0
    BY <2>3, <2>4, TotalOfZeros
  <2> QED
    BY <1>1, <1>2, <2>1, <2>2, <2>5 DEF InLayers
<1> QED
  BY <1>3, <1>4

\* Of the parameters of an attention layer, the pieces lack the phantom alone.
LEMMA AttentionPieces ==
  ASSUME NEW a, IsArch(a), NEW i \in DOMAIN a.groups, NEW g, g = a.groups[i]
  PROVE  WeightsAttn(a, g) \in Nat /\ AttnQoParams(a, g) + OwnKvParams(a, g) + PhantomOf(a)[i] >= WeightsAttn(a, g)
<1>1. IsGroup(g)
  BY DEF IsArch
<1>2. AttnQoParams(a, g) \in Nat /\ OwnKvParams(a, g) \in Nat /\ PhantomOf(a)[i] \in Nat
  BY <1>1, AttentionParams, PhantomIs
<1>3. CASE g.hasMla
  <2>1. WeightsAttn(a, g) = AttnQoParams(a, g)
    BY <1>3 DEF AttnQoParams
  <2> QED
    BY <1>2, <2>1
<1>4. CASE ~g.hasMla
  <2>1. a.hidden \in Nat /\ g.nq \in Nat /\ g.nkv \in Nat /\ g.dim \in Nat
    BY <1>1, GroupDims, ElementBytes
  <2>2. a.hidden * g.nkv \in Nat
    BY <2>1, NatTimes
  <2>3. PICK n \in Nat : n = a.hidden * g.nkv * g.dim
    BY <2>1, <2>2, NatTimes
  <2>4. 2 * a.hidden * g.nkv * g.dim = 2 * n
    BY <2>1, <2>3
  <2>5. WeightsAttn(a, g) = AttnQoParams(a, g) + 2 * n
    BY <1>4, <2>4 DEF WeightsAttn, AttnQoParams
  <2>6. AttnKvParams(a, g) = 2 * n
    BY <1>4, <2>4 DEF AttnKvParams
  <2>7. CASE AliasesV(a, g)
    <3>1. OwnKvParams(a, g) = 2 * n - n
      BY <2>3, <2>6, <2>7 DEF OwnKvParams
    <3>2. PhantomOf(a)[i] = n
      BY <2>3, <2>7 DEF AliasesV, PhantomOf
    <3> QED
      BY <1>2, <2>3, <2>5, <3>1, <3>2
  <2>8. CASE ~AliasesV(a, g)
    <3>1. OwnKvParams(a, g) = 2 * n
      BY <2>3, <2>6, <2>8 DEF OwnKvParams
    <3> QED
      BY <1>2, <2>3, <2>5, <3>1
  <2> QED
    BY <2>7, <2>8
<1>5. g.hasMla \in BOOLEAN
  BY <1>1, GroupDims
<1> QED
  BY <1>3, <1>4, <1>5

-----------------------------------------------------------------------------
(* The weights. *)

LayerParams(a, g) ==
  AttnQoParams(a, g) + OwnKvParams(a, g) + MlpBlockParams(a, g.dense) + MlpBlockParams(a, g.moe) * g.experts
  + RouterParams(a, g)
LayerWeight(a) == [p \in Segments |-> p.unit * WElemBytes(a)]
WeightsOf(a) ==
  [x \in Segments |-> IF x.cls = "embed" THEN EmbedTableBytes(a) ELSE x.mult * x.unit * WElemBytes(a)]

LEMMA FiveTimes ==
  ASSUME NEW k \in Nat, NEW v \in Nat, NEW w \in Nat, NEW x \in Nat, NEW y \in Nat, NEW z \in Nat
  PROVE  v * k + w * k + x * k + y * k + z * k = (v + w + x + y + z) * k
OBVIOUS

LEMMA WeightIs ==
  ASSUME NEW a, IsArch(a), NEW x \in Segments
  PROVE  /\ LayerWeight(a)[x] \in Nat /\ LayerWeight(a)[x] = x.unit * WElemBytes(a)
         /\ x.cls # "embed" => WeightsOf(a)[x] = x.mult * LayerWeight(a)[x]
<1>1. x.mult \in Nat /\ x.unit \in Nat /\ WElemBytes(a) \in Nat
  BY ElementBytes DEF Segments
<1>2. PICK k \in Nat : k = WElemBytes(a)
  BY <1>1
<1>3. x.mult * x.unit * k = x.mult * (x.unit * k) /\ x.unit * k \in Nat
  BY <1>1, <1>2
<1> QED
  BY <1>2, <1>3 DEF LayerWeight, WeightsOf

LEMMA LayerWeights ==
  ASSUME NEW a, IsArch(a), NEW g, IsGroup(g), NEW P, P = Positive(WeightPieces(a, g))
  PROVE  /\ ArePieces(P) /\ \A p \in P : p.cls # "embed"
         /\ LayerParams(a, g) \in Nat /\ Total(On(LayerWeight(a), P)) = LayerParams(a, g) * WElemBytes(a)
<1>1. PICK v \in Nat, w \in Nat, x \in Nat, y \in Nat, z \in Nat :
        /\ v = AttnQoParams(a, g) /\ w = OwnKvParams(a, g) /\ x = MlpBlockParams(a, g.dense)
        /\ y = MlpBlockParams(a, g.moe) * g.experts /\ z = RouterParams(a, g)
  BY AttentionParams, FfnParams
<1>2. LayerParams(a, g) = v + w + x + y + z
  BY <1>1 DEF LayerParams
<1>3. PICK p1, p2, p3, p4, p5 :
        /\ p1 = Piece("attn_qo", AttnLabel(g), v, None) /\ p2 = Piece("attn_kv", AttnLabel(g), w, None)
        /\ p3 = Piece("dense_mlp", FfnLabel(g), x, None) /\ p4 = Piece("routed_experts", FfnLabel(g), y, None)
        /\ p5 = Piece("router", FfnLabel(g), z, None)
  OBVIOUS
<1>4. /\ p1.cls = "attn_qo" /\ p2.cls = "attn_kv" /\ p3.cls = "dense_mlp" /\ p4.cls = "routed_experts" /\ p5.cls = "router"
      /\ p1.unit = v /\ p2.unit = w /\ p3.unit = x /\ p4.unit = y /\ p5.unit = z
      /\ p1.mult = 1 /\ p2.mult = 1 /\ p3.mult = 1 /\ p4.mult = 1 /\ p5.mult = 1
  BY <1>3 DEF Piece, Segment
<1>5. PICK S : S = WeightPieces(a, g)
  OBVIOUS
<1>6. S = {p1, p2, p3, p4, p5}
  BY <1>1, <1>3, <1>5 DEF WeightPieces
<1>7. IsFiniteSet(S) /\ S \subseteq Segments
  BY <1>5, PiecesOfGroup DEF IsPiecesOf
<1>8. PICK W, k : W = LayerWeight(a) /\ k = WElemBytes(a) /\ k \in Nat
  BY ElementBytes
<1>9. \A p \in S : W[p] \in Nat /\ W[p] = p.unit * k
  BY <1>7, <1>8, WeightIs
<1>10. p2 # p1 /\ p3 \notin {p1, p2} /\ p4 \notin {p1, p2, p3} /\ p5 \notin {p1, p2, p3, p4}
  BY <1>4
<1>11. AreFive(W, S, p1, p2, p3, p4, p5)
  BY <1>6, <1>9, <1>10 DEF AreFive
<1>12. Summable(W, S) /\ Total(On(W, S)) = W[p1] + W[p2] + W[p3] + W[p4] + W[p5]
  BY <1>11, TotalOfFive
<1>13. W[p1] = v * k /\ W[p2] = w * k /\ W[p3] = x * k /\ W[p4] = y * k /\ W[p5] = z * k
  BY <1>4, <1>6, <1>9
<1>14. Total(On(W, S)) = (v + w + x + y + z) * k
  BY <1>8, <1>12, <1>13, FiveTimes
<1>15. \A p \in S : p.unit \in Nat /\ (p.unit = 0 => W[p] = 0)
  BY <1>4, <1>6, <1>8, <1>9
<1>16. Total(On(W, P)) = Total(On(W, S))
  BY <1>5, <1>12, <1>15, PositiveTotal
<1>17. P \subseteq S
  BY <1>5 DEF Positive
<1>18. \A p \in S : p.mult = 1 /\ p.cls # "embed"
  BY <1>4, <1>6
<1>19. ArePieces(P)
  BY <1>7, <1>17, <1>18, FS_Subset DEF ArePieces
<1> QED
  BY <1>1, <1>2, <1>8, <1>14, <1>16, <1>17, <1>18, <1>19

\* What a merge of pieces other than the embedding is of.
LEMMA MergeHasNo ==
  ASSUME NEW a, IsArch(a), NEW pieces,
         \A i \in DOMAIN a.groups : pieces[i] \subseteq Segments /\ \A p \in pieces[i] : p.cls # "embed",
         NEW x \in Merge(a, pieces)
  PROVE  x \in Segments /\ x.cls # "embed"
<1>1. PICK p \in UNION {pieces[i] : i \in DOMAIN a.groups} : x = [p EXCEPT !.mult = LayersWith(a, pieces, p)]
  BY DEF Merge
<1>2. x = Merged(a, pieces, p) /\ p \in Segments /\ p.cls # "embed"
  BY <1>1 DEF Merged
<1> QED
  BY <1>2, MergedIs

LEMMA EmbedBytes ==
  ASSUME NEW a, IsArch(a)
  PROVE  /\ EmbedTableBytes(a) \in Nat /\ EmbedParams(a) \in Nat
         /\ EmbedParams(a) * VocabTableTwiceBytes(a) = 2 * EmbedTableBytes(a)
<1>1. a.hidden \in Nat /\ a.vocab \in Nat /\ WElemBytes(a) \in Nat
  BY ElementBytes
<1>2. LmHeadElemBytes(a) \in Nat
  BY <1>1 DEF LmHeadElemBytes, IsArch
<1>3. PICK k \in Nat, l \in Nat, n \in Nat : k = WElemBytes(a) /\ l = LmHeadElemBytes(a) /\ n = a.vocab * a.hidden
  BY <1>1, <1>2, NatTimes
<1>4. 1 * a.vocab * a.hidden = n /\ 2 * a.vocab * a.hidden = 2 * n
  BY <1>1, <1>3
<1>5. CASE a.tie
  <2>1. EmbedTableBytes(a) = n * k /\ EmbedParams(a) = n /\ VocabTableTwiceBytes(a) = 2 * k
    BY <1>3, <1>4, <1>5 DEF EmbedTableBytes, EmbedParams, VocabTableTwiceBytes
  <2>2. n * (2 * k) = 2 * (n * k) /\ n * k \in Nat
    BY <1>3
  <2> QED
    BY <2>1, <2>2
<1>6. CASE ~a.tie
  <2>1. EmbedTableBytes(a) = n * (k + l) /\ EmbedParams(a) = 2 * n /\ VocabTableTwiceBytes(a) = k + l
    BY <1>3, <1>4, <1>6 DEF EmbedTableBytes, EmbedParams, VocabTableTwiceBytes
  <2>2. PICK m \in Nat : m = k + l
    BY <1>3
  <2>3. (2 * n) * m = 2 * (n * m) /\ n * m \in Nat
    BY <1>3, <2>2
  <2> QED
    BY <1>3, <2>1, <2>2, <2>3
<1> QED
  BY <1>5, <1>6

LEMMA WeightsCounted ==
  ASSUME NEW a, IsArch(a)
  PROVE  /\ Summable(WeightsOf(a), WeightSegments(a)) /\ CorrectedWeightBytes(a) \in Int
         /\ Total(On(WeightsOf(a), WeightSegments(a))) >= CorrectedWeightBytes(a)
<1>1. PICK w, v : w = LayerWeight(a) /\ v = WeightsOf(a)
  OBVIOUS
<1>2. PICK pieces : pieces = [i \in DOMAIN a.groups |-> Positive(WeightPieces(a, a.groups[i]))]
  OBVIOUS
<1>3. PICK E : E = Segment("embed", "", 1, EmbedParams(a), None)
  OBVIOUS
<1>4. PICK M : M = Merge(a, pieces)
  OBVIOUS
<1>5. WeightSegments(a) = M \cup {E}
  BY <1>2, <1>3, <1>4 DEF WeightSegments
<1>6. PICK x, y, z :
        /\ x = [i \in DOMAIN a.groups |-> LayerParams(a, a.groups[i])] /\ y = PhantomOf(a)
        /\ z = [i \in DOMAIN a.groups |-> WeightsAttn(a, a.groups[i]) + MlpResidentParams(a, a.groups[i])]
  OBVIOUS
<1>7. PICK n : n = [i \in DOMAIN a.groups |-> a.groups[i].count * (x[i] * WElemBytes(a))]
  OBVIOUS
<1>8. ASSUME NEW i \in DOMAIN a.groups
      PROVE  /\ ArePieces(pieces[i]) /\ \A p \in pieces[i] : p.cls # "embed"
             /\ \A p \in pieces[i] : w[p] \in Nat /\ v[Merged(a, pieces, p)] = LayersWith(a, pieces, p) * w[p]
             /\ n[i] = CountOf(a)[i] * Total(On(w, pieces[i])) /\ x[i] \in Nat
  <2>1. PICK g : g = a.groups[i]
    OBVIOUS
  <2>2. IsGroup(g)
    BY <2>1 DEF IsArch
  <2>3. PICK P : P = Positive(WeightPieces(a, g))
    OBVIOUS
  <2>4. pieces[i] = P
    BY <1>2, <2>1, <2>3
  <2>5. /\ ArePieces(P) /\ \A p \in P : p.cls # "embed"
        /\ LayerParams(a, g) \in Nat /\ Total(On(LayerWeight(a), P)) = LayerParams(a, g) * WElemBytes(a)
    BY <2>2, <2>3, LayerWeights
  <2>6. ASSUME NEW p \in P
        PROVE  w[p] \in Nat /\ v[Merged(a, pieces, p)] = LayersWith(a, pieces, p) * w[p]
    <3>1. p \in Segments /\ p.cls # "embed"
      BY <2>5 DEF ArePieces
    <3>2. PICK m : m = Merged(a, pieces, p)
      OBVIOUS
    <3>3. m \in Segments /\ m.mult = LayersWith(a, pieces, p) /\ m.cls = p.cls /\ m.unit = p.unit
      BY <3>1, <3>2, MergedIs
    <3>4. w[p] \in Nat /\ w[p] = p.unit * WElemBytes(a)
      BY <1>1, <3>1, WeightIs
    <3>5. w[m] = m.unit * WElemBytes(a) /\ v[m] = m.mult * w[m]
      BY <1>1, <3>1, <3>3, WeightIs
    <3> QED
      BY <3>2, <3>3, <3>4, <3>5
  <2>7. x[i] = LayerParams(a, g) /\ n[i] = a.groups[i].count * (x[i] * WElemBytes(a)) /\ CountOf(a)[i] = a.groups[i].count
    BY <1>6, <1>7, <2>1 DEF CountOf
  <2> QED
    BY <1>1, <2>4, <2>5, <2>6, <2>7
<1>9. Merges(a, pieces, w, v, n)
  BY <1>8 DEF Merges
<1>10. SumAlike(v, M, n, DOMAIN a.groups)
  BY <1>4, <1>9, MergeHolds
<1>11. PICK k \in Nat : k = WElemBytes(a)
  BY ElementBytes
<1>12. Total(On(n, DOMAIN a.groups)) = k * InLayers(a, x)
  <2>1. \A i \in DOMAIN a.groups : x[i] \in Nat /\ n[i] = a.groups[i].count * (x[i] * k)
    BY <1>7, <1>8, <1>11
  <2> QED
    BY <2>1, LayersScaled
<1>13. ASSUME NEW i \in DOMAIN a.groups
       PROVE  x[i] \in Nat /\ y[i] \in Nat /\ z[i] \in Nat /\ x[i] + y[i] >= z[i]
  <2>1. PICK g : g = a.groups[i]
    OBVIOUS
  <2>2. IsGroup(g)
    BY <2>1 DEF IsArch
  <2>3. WeightsAttn(a, g) \in Nat /\ AttnQoParams(a, g) + OwnKvParams(a, g) + y[i] >= WeightsAttn(a, g)
    BY <1>6, <2>1, AttentionPieces
  <2>4. /\ AttnQoParams(a, g) \in Nat /\ OwnKvParams(a, g) \in Nat /\ MlpBlockParams(a, g.dense) \in Nat
        /\ MlpBlockParams(a, g.moe) * g.experts \in Nat /\ RouterParams(a, g) \in Nat
    BY <2>2, AttentionParams, FfnParams
  <2>5. y[i] \in Nat
    BY <1>6, PhantomIs
  <2>6. /\ x[i] = AttnQoParams(a, g) + OwnKvParams(a, g) + MlpBlockParams(a, g.dense)
                  + MlpBlockParams(a, g.moe) * g.experts + RouterParams(a, g)
        /\ z[i] = WeightsAttn(a, g) + (MlpBlockParams(a, g.dense) + MlpBlockParams(a, g.moe) * g.experts
                                       + RouterParams(a, g))
    BY <1>6, <2>1 DEF LayerParams, MlpResidentParams
  <2> QED
    BY <2>3, <2>4, <2>5, <2>6
<1>14. /\ InLayers(a, x) \in Nat /\ InLayers(a, y) \in Nat /\ InLayers(a, z) \in Nat
       /\ InLayers(a, x) + InLayers(a, y) >= InLayers(a, z)
  <2>1. Suffices(a, x, y, z)
    BY <1>13 DEF Suffices
  <2> QED
    BY <2>1, LayersSuffice
<1>15. PhantomGlobalVprojParams(a) = InLayers(a, y)
  BY <1>6, PhantomIs
<1>16. WeightsTotal(a) = InLayers(a, z)
  <2>1. PICK per : per = [g \in GroupSet(a) |-> WeightsAttn(a, g) + MlpResidentParams(a, g)]
    OBVIOUS
  <2>2. WeightsTotal(a) = InLayers(a, PerGroup(a, per))
    BY <2>1, OverLayersAre DEF WeightsTotal
  <2>3. \A i \in DOMAIN a.groups : a.groups[i] \in GroupSet(a)
    BY DEF GroupSet, ToSet
  <2>4. PerGroup(a, per) = z
    BY <1>6, <2>1, <2>3 DEF PerGroup
  <2> QED
    BY <2>2, <2>4
<1>17. E \in Segments /\ E.cls = "embed" /\ v[E] = EmbedTableBytes(a) /\ v[E] \in Nat
  <2>1. EmbedParams(a) \in Nat /\ EmbedTableBytes(a) \in Nat
    BY EmbedBytes
  <2>2. E \in Segments /\ E.cls = "embed"
    BY <1>3, <2>1 DEF Segment, Segments, Classes, Labels, None
  <2> QED
    BY <1>1, <2>1, <2>2 DEF WeightsOf
<1>18. E \notin M
  <2>1. \A i \in DOMAIN a.groups : pieces[i] \subseteq Segments /\ \A p \in pieces[i] : p.cls # "embed"
    BY <1>8 DEF ArePieces
  <2>2. \A m \in M : m.cls # "embed"
    BY <1>4, <2>1, MergeHasNo
  <2> QED
    BY <1>17, <2>2
<1>19. Summable(v, M) /\ Total(On(v, M)) = k * InLayers(a, x)
  BY <1>10, <1>12 DEF SumAlike
<1>20. Summable(v, M \cup {E}) /\ Total(On(v, M \cup {E})) = v[E] + Total(On(v, M))
  BY <1>17, <1>18, <1>19, TotalWith
<1>21. CorrectedWeightBytes(a) = InLayers(a, z) * k + EmbedTableBytes(a) - InLayers(a, y) * k
  BY <1>11, <1>15, <1>16 DEF CorrectedWeightBytes
<1>22. k * InLayers(a, x) + InLayers(a, y) * k >= InLayers(a, z) * k
  <2>1. PICK p \in Nat, q \in Nat, r \in Nat : p = InLayers(a, x) /\ q = InLayers(a, y) /\ r = InLayers(a, z)
    BY <1>14
  <2>2. r * k <= (p + q) * k
    BY <1>11, <1>14, <2>1, OrderTimes
  <2>3. (p + q) * k = k * p + q * k
    BY <1>11, <2>1
  <2> QED
    BY <2>1, <2>2, <2>3
<1>23. InLayers(a, z) * k \in Nat /\ InLayers(a, y) * k \in Nat /\ k * InLayers(a, x) \in Nat
  BY <1>11, <1>14, NatTimes
<1>24. v[E] + Total(On(v, M)) >= CorrectedWeightBytes(a) /\ CorrectedWeightBytes(a) \in Int
  BY <1>17, <1>19, <1>21, <1>22, <1>23
<1> QED
  BY <1>1, <1>5, <1>20, <1>24

\* What the weights and the FLOPs of a decode step are divided by.
LEMMA StepDivisor ==
  ASSUME NEW b, IsBundle(b), NEW cfg, IsConfig(cfg), IsExact(b, cfg), NEW x \in b.weights \cup b.flops,
         NEW d, d = FlopDivisor(x.cls, cfg, "decode", x.cap, b.meta[x.type].nkv, b.meta[x.type].isMla)
  PROVE  /\ x \in Segments /\ d \in Sizes /\ Scale % d = 0 /\ d <= World(cfg)
         /\ x.cls # "attn_score" => d = WeightDivisor(x.cls, cfg, "decode", b.meta[x.type].nkv, b.meta[x.type].isMla)
<1>1. x \in Segments
  BY DEF IsBundle
<1>2. PICK nkv \in Nat, mla \in BOOLEAN : nkv = b.meta[x.type].nkv /\ mla = b.meta[x.type].isMla
  BY <1>1, SegmentIs
<1>3. d = FlopDivisor(x.cls, cfg, "decode", x.cap, nkv, mla)
  BY <1>2
<1>4. Scale % d = 0
  BY DEF IsExact
<1>5. PICK cls \in Classes \ {"attn_score"} : cls = IF x.cls = "attn_score" THEN "attn_qo" ELSE x.cls
  BY <1>1 DEF Segments, Classes
<1>6. PICK e \in Sizes : e = WeightDivisor(cls, cfg, "decode", nkv, mla)
  BY WorkDivisors
<1>7. ~IsPrefill("decode")
  BY DEF IsPrefill
<1>8. d = e
  <2>1. d = WeightDivisor(cls, cfg, "decode", nkv, mla) * 1
    BY <1>3, <1>5, <1>7 DEF FlopDivisor
  <2> QED
    BY <1>6, <2>1 DEF Sizes
<1>9. e <= World(cfg)
  BY <1>6, WeightsDivisor
<1> QED
  BY <1>1, <1>2, <1>4, <1>5, <1>6, <1>8, <1>9

LEMMA HalfOfTwice ==
  ASSUME NEW n \in Nat
  PROVE  (2 * n) \div 2 = n
OBVIOUS

LEMMA SegmentWeights ==
  ASSUME NEW a, IsArch(a), NEW b, b = BuildBundle(a), NEW cfg, IsConfig(cfg), IsExact(b, cfg),
         NEW op, op.regime = "decode", NEW x \in b.weights
  PROVE  SegmentWeight(b, x, cfg, op) * World(cfg) >= WeightsOf(a)[x] * Scale
<1>1. IsBundle(b) /\ b.arch = a
  BY BundleIs DEF BuildBundle
<1>2. PICK d : d = FlopDivisor(x.cls, cfg, "decode", x.cap, b.meta[x.type].nkv, b.meta[x.type].isMla)
  OBVIOUS
<1>3. x \in b.weights \cup b.flops
  OBVIOUS
<1>4. /\ x \in Segments /\ d \in Sizes /\ Scale % d = 0 /\ d <= World(cfg)
      /\ x.cls # "attn_score" => d = WeightDivisor(x.cls, cfg, "decode", b.meta[x.type].nkv, b.meta[x.type].isMla)
  BY <1>1, <1>2, <1>3, StepDivisor
<1>5. x.cls # "attn_score"
  BY <1>1 DEF IsBundle
<1>6. World(cfg) \in Nat
  <2>1. 0 \in Nat
    OBVIOUS
  <2> QED
    BY <2>1, HeadDivisors DEF Sizes
<1>7. CASE x.cls # "embed"
  <2>1. LayerWeight(a)[x] \in Nat /\ LayerWeight(a)[x] = x.unit * WElemBytes(a) /\ WeightsOf(a)[x] = x.mult * LayerWeight(a)[x]
    BY <1>4, <1>7, WeightIs
  <2>2. PICK n \in Nat : n = WeightsOf(a)[x]
    BY <1>4, <2>1, NatTimes DEF Segments
  <2>3. SegmentWeight(b, x, cfg, op) = Share(n, d)
    <3>1. n = x.mult * x.unit * WElemBytes(a)
      BY <1>4, <1>7, <2>2 DEF WeightsOf
    <3> QED
      BY <1>1, <1>4, <1>5, <1>7, <3>1 DEF SegmentWeight
  <2>4. Share(n, d) * World(cfg) >= n * Scale
    BY <1>4, <1>6, SharesAddUp
  <2> QED
    BY <2>2, <2>3, <2>4
<1>8. CASE x.cls = "embed"
  <2>1. x.mult = 1 /\ x.unit = EmbedParams(a)
    <3>1. PICK pieces : pieces = [i \in DOMAIN a.groups |-> Positive(WeightPieces(a, a.groups[i]))]
      OBVIOUS
    <3>2. PICK E : E = Segment("embed", "", 1, EmbedParams(a), None)
      OBVIOUS
    <3>3. x \in Merge(a, pieces) \cup {E}
      BY <3>1, <3>2 DEF BuildBundle, WeightSegments
    <3>4. \A i \in DOMAIN a.groups : pieces[i] \subseteq Segments /\ \A p \in pieces[i] : p.cls # "embed"
      <4>1. ASSUME NEW i \in DOMAIN a.groups
            PROVE  pieces[i] \subseteq Segments /\ \A p \in pieces[i] : p.cls # "embed"
        <5>1. PICK g, P : g = a.groups[i] /\ P = Positive(WeightPieces(a, g))
          OBVIOUS
        <5>2. IsGroup(g) /\ pieces[i] = P
          BY <3>1, <5>1 DEF IsArch
        <5>3. ArePieces(P) /\ \A p \in P : p.cls # "embed"
          BY <5>1, <5>2, LayerWeights
        <5> QED
          BY <5>2, <5>3 DEF ArePieces
      <4> QED
        BY <4>1
    <3>5. x = E
      BY <1>8, <3>3, <3>4, MergeHasNo
    <3> QED
      BY <3>2, <3>5 DEF Segment
  <2>2. PICK n \in Nat, e \in Nat : n = EmbedTableBytes(a) /\ e = EmbedParams(a) /\ e * VocabTableTwiceBytes(a) = 2 * n
    BY EmbedBytes
  <2>3. x.mult * x.unit * VocabTableTwiceBytes(a) = 2 * n
    <3>1. 1 * e = e
      BY <2>2
    <3> QED
      BY <2>1, <2>2, <3>1
  <2>4. SegmentWeight(b, x, cfg, op) = Share(2 * n, d) \div 2
    BY <1>1, <1>4, <1>8, <2>3 DEF SegmentWeight
  <2>5. PICK q \in Nat : q = Scale \div d
    BY <1>4, ShareIsExact DEF Sizes
  <2>6. PICK t \in Nat : t = 2 * n
    OBVIOUS
  <2>7. Share(t, d) = t * q /\ Share(n, d) = n * q
    BY <1>4, <2>5, ShareIsExact
  <2>8. PICK m \in Nat : m = n * q
    BY <2>5, NatTimes
  <2>9. t * q = 2 * m
    BY <2>5, <2>6, <2>8
  <2>10. SegmentWeight(b, x, cfg, op) = Share(n, d)
    BY <2>4, <2>6, <2>7, <2>8, <2>9, HalfOfTwice
  <2>11. Share(n, d) * World(cfg) >= n * Scale
    BY <1>4, <1>6, SharesAddUp
  <2>12. WeightsOf(a)[x] = n
    BY <1>4, <1>8, <2>2 DEF WeightsOf
  <2> QED
    BY <2>10, <2>11, <2>12
<1> QED
  BY <1>7, <1>8

LEMMA WeightsAreKept ==
  ASSUME NEW a, IsArch(a), IsRegular(a), NEW b, b = BuildBundle(a), NEW hw,
         NEW cfg, IsConfig(cfg), Scale % cfg.tp = 0, IsExact(b, cfg), NEW s \in Nat, s > 0, NEW bs \in Nat, bs > 0,
         NEW r, IsDecodeCell(r, b, hw, cfg, s, bs)
  PROVE  r.weight * World(cfg) >= CorrectedWeightBytes(a) * Scale
<1>1. PICK op : op = Decoding(s, bs)
  OBVIOUS
<1>2. r.weight = Total(WeightsHeld(b, cfg, op)) /\ Summable(WeightsHeld(b, cfg, op), b.weights)
  BY <1>1, RowHolds
<1>3. PICK S : S = b.weights /\ S = WeightSegments(a)
  BY DEF BuildBundle
<1>4. PICK held, all : held = WeightsHeld(b, cfg, op) /\ all = WeightsOf(a)
  OBVIOUS
<1>5. Summable(held, S) /\ r.weight = Total(On(held, S))
  <2>1. On(held, S) = held
    BY <1>3, <1>4 DEF On, WeightsHeld
  <2> QED
    BY <1>2, <1>3, <1>4, <2>1
<1>6. Summable(all, S) /\ Total(On(all, S)) >= CorrectedWeightBytes(a)
  BY <1>3, <1>4, WeightsCounted
<1>7. op.regime = "decode"
  BY <1>1 DEF Decoding
<1>8. ASSUME NEW x \in S
      PROVE  held[x] * World(cfg) >= all[x] * Scale
  <2>1. held[x] = SegmentWeight(b, x, cfg, op) /\ x \in b.weights
    BY <1>3, <1>4 DEF WeightsHeld
  <2> QED
    BY <1>4, <1>7, <2>1, SegmentWeights
<1>9. PICK ranks \in Nat : ranks = World(cfg)
  <2>1. 0 \in Nat
    OBVIOUS
  <2> QED
    BY <2>1, HeadDivisors DEF Sizes
<1>10. HoldsAll(held, all, S, ranks)
  BY <1>5, <1>6, <1>8, <1>9 DEF HoldsAll
<1>11. Total(On(held, S)) * ranks >= Total(On(all, S)) * Scale
  BY <1>10, TotalsAddUp
<1>12. CorrectedWeightBytes(a) \in Int
  BY WeightsCounted
<1>13. Total(On(all, S)) \in Nat /\ Scale \in Nat /\ r.weight \in Nat
  BY <1>5, <1>6, TotalIsNat, ScaleAssumption
<1>14. CorrectedWeightBytes(a) * Scale <= Total(On(all, S)) * Scale
  BY <1>6, <1>12, <1>13, OrderTimes
<1>15. CorrectedWeightBytes(a) * Scale \in Int /\ Total(On(all, S)) * Scale \in Int /\ r.weight * ranks \in Int
  BY <1>12, <1>13
<1> QED
  BY <1>5, <1>9, <1>11, <1>14, <1>15

-----------------------------------------------------------------------------
(* The FLOPs. *)

LayerFlops(a, g, s) ==
  2 * AttnQoParams(a, g) + 2 * OwnKvParams(a, g) + DenseMlpFlops(a, g) + MoeFlops(a, g) + 2 * RouterParams(a, g)
  + AttnScoreFlops(g, s)
\* What one position of a unit is: a token, or a key that it attends to.
Positions(x, s, bs) == IF x.cls = "attn_score" THEN EffCtx(x.cap, s) * bs ELSE bs
LayerWork(s, bs) == [p \in Segments |-> p.unit * Positions(p, s, bs)]
WorkOf(s, bs) == [x \in Segments |-> x.mult * x.unit * Positions(x, s, bs)]

LEMMA SixTimes ==
  ASSUME NEW k \in Nat, NEW u \in Nat, NEW v \in Nat, NEW w \in Nat, NEW x \in Nat, NEW y \in Nat, NEW z \in Nat
  PROVE  u * k + v * k + w * k + x * k + y * k + z * k = (u + v + w + x + y + z) * k
OBVIOUS

LEMMA WorkIs ==
  ASSUME NEW s \in Nat, NEW bs \in Nat, NEW x \in Segments
  PROVE  /\ LayerWork(s, bs)[x] \in Nat /\ LayerWork(s, bs)[x] = x.unit * Positions(x, s, bs)
         /\ WorkOf(s, bs)[x] \in Nat /\ WorkOf(s, bs)[x] = x.mult * LayerWork(s, bs)[x]
<1>1. x.mult \in Nat /\ x.unit \in Nat /\ x.cap \in Nat
  BY DEF Segments
<1>2. EffCtx(x.cap, s) * bs \in Nat
  BY <1>1, ContextIs, NatTimes
<1>3. PICK k \in Nat : k = Positions(x, s, bs)
  BY <1>2 DEF Positions
<1>4. PICK l \in Nat : l = x.unit * k
  BY <1>1, <1>3, NatTimes
<1>5. x.mult * x.unit * k = x.mult * l /\ x.mult * l \in Nat
  BY <1>1, <1>3, <1>4
<1> QED
  BY <1>3, <1>4, <1>5 DEF LayerWork, WorkOf

LEMMA LayerWorks ==
  ASSUME NEW a, IsArch(a), NEW g, IsGroup(g), NEW P, P = Positive(FlopPieces(a, g)), NEW s \in Nat, NEW bs \in Nat
  PROVE  /\ ArePieces(P) /\ \A p \in P : p.cls # "embed"
         /\ LayerFlops(a, g, s) \in Nat /\ Total(On(LayerWork(s, bs), P)) = LayerFlops(a, g, s) * bs
         /\ AttnScoreFlops(g, s) \in Nat
<1>1. PICK v \in Nat, w \in Nat, x \in Nat, y \in Nat, z \in Nat :
        /\ v = 2 * AttnQoParams(a, g) /\ w = 2 * OwnKvParams(a, g) /\ x = DenseMlpFlops(a, g)
        /\ y = MoeFlops(a, g) /\ z = 2 * RouterParams(a, g)
  <2>1. AttnQoParams(a, g) \in Nat /\ OwnKvParams(a, g) \in Nat
    BY AttentionParams
  <2>2. DenseMlpFlops(a, g) \in Nat /\ MoeFlops(a, g) \in Nat /\ RouterParams(a, g) \in Nat
    BY FfnParams
  <2>3. 2 * AttnQoParams(a, g) \in Nat /\ 2 * OwnKvParams(a, g) \in Nat /\ 2 * RouterParams(a, g) \in Nat
    BY <2>1, <2>2
  <2> QED
    BY <2>2, <2>3
<1>2. PICK c \in Nat, e \in Nat, h \in Nat : c = ScoreFlopsPerKey(g) /\ e = EffCtx(g.cap, s) /\ h = c * e
  <2>1. ScoreFlopsPerKey(g) \in Nat /\ g.cap \in Nat
    BY GroupDims
  <2>2. EffCtx(g.cap, s) \in Nat
    BY <2>1, ContextIs
  <2> QED
    BY <2>1, <2>2, NatTimes
<1>3. AttnScoreFlops(g, s) = h /\ LayerFlops(a, g, s) = v + w + x + y + z + h
  BY <1>1, <1>2 DEF AttnScoreFlops, LayerFlops
<1>4. PICK p1, p2, p3, p4, p5, p6 :
        /\ p1 = Piece("attn_qo", AttnLabel(g), v, None) /\ p2 = Piece("attn_kv", AttnLabel(g), w, None)
        /\ p3 = Piece("dense_mlp", FfnLabel(g), x, None) /\ p4 = Piece("routed_experts", FfnLabel(g), y, None)
        /\ p5 = Piece("router", FfnLabel(g), z, None) /\ p6 = Piece("attn_score", AttnLabel(g), c, g.cap)
  OBVIOUS
<1>5. /\ p1.cls = "attn_qo" /\ p2.cls = "attn_kv" /\ p3.cls = "dense_mlp" /\ p4.cls = "routed_experts" /\ p5.cls = "router"
      /\ p1.unit = v /\ p2.unit = w /\ p3.unit = x /\ p4.unit = y /\ p5.unit = z
      /\ p1.mult = 1 /\ p2.mult = 1 /\ p3.mult = 1 /\ p4.mult = 1 /\ p5.mult = 1
      /\ p6.cls = "attn_score" /\ p6.unit = c /\ p6.mult = 1 /\ p6.cap = g.cap
  BY <1>4 DEF Piece, Segment
<1>6. PICK S, T : S = FlopPieces(a, g) /\ T = {p1, p2, p3, p4, p5}
  OBVIOUS
<1>7. S = T \cup {p6}
  BY <1>1, <1>2, <1>4, <1>6 DEF FlopPieces
<1>8. IsFiniteSet(S) /\ S \subseteq Segments
  BY <1>6, PiecesOfGroup DEF IsPiecesOf
<1>9. PICK W : W = LayerWork(s, bs)
  OBVIOUS
<1>10. \A p \in S : W[p] \in Nat /\ W[p] = p.unit * Positions(p, s, bs)
  BY <1>8, <1>9, WorkIs
<1>11. p2 # p1 /\ p3 \notin {p1, p2} /\ p4 \notin {p1, p2, p3} /\ p5 \notin {p1, p2, p3, p4}
  BY <1>5
<1>12. p6 \notin T
  BY <1>5, <1>6
<1>13. AreFive(W, T, p1, p2, p3, p4, p5)
  BY <1>6, <1>7, <1>10, <1>11 DEF AreFive
<1>14. W[p6] \in Nat
  BY <1>7, <1>10
<1>15. Summable(W, S) /\ Total(On(W, S)) = W[p1] + W[p2] + W[p3] + W[p4] + W[p5] + W[p6]
  BY <1>7, <1>12, <1>13, <1>14, TotalOfSix
<1>16. W[p1] = v * bs /\ W[p2] = w * bs /\ W[p3] = x * bs /\ W[p4] = y * bs /\ W[p5] = z * bs
  <2>1. \A p \in T : Positions(p, s, bs) = bs
    BY <1>5, <1>6 DEF Positions
  <2> QED
    BY <1>5, <1>6, <1>7, <1>10, <2>1
<1>17. W[p6] = h * bs
  <2>1. W[p6] = c * (e * bs)
    BY <1>2, <1>5, <1>7, <1>10 DEF Positions
  <2>2. c * (e * bs) = h * bs
    BY <1>2
  <2> QED
    BY <2>1, <2>2
<1>18. Total(On(W, S)) = (v + w + x + y + z + h) * bs
  BY <1>15, <1>16, <1>17, SixTimes
<1>19. \A p \in S : p.unit \in Nat /\ (p.unit = 0 => W[p] = 0)
  <2>1. ASSUME NEW p \in S
        PROVE  p.unit \in Nat /\ (p.unit = 0 => W[p] = 0)
    <3>1. p.unit \in Nat /\ p.cap \in Nat
      BY <1>8 DEF Segments
    <3>2. EffCtx(p.cap, s) * bs \in Nat
      BY <3>1, ContextIs, NatTimes
    <3>3. PICK k \in Nat : k = Positions(p, s, bs)
      BY <3>2 DEF Positions
    <3>4. W[p] = p.unit * k
      BY <1>10, <3>3
    <3> QED
      BY <3>1, <3>3, <3>4
  <2> QED
    BY <2>1
<1>20. Total(On(W, P)) = Total(On(W, S))
  BY <1>6, <1>15, <1>19, PositiveTotal
<1>21. P \subseteq S
  BY <1>6 DEF Positive
<1>22. \A p \in S : p.mult = 1 /\ p.cls # "embed"
  BY <1>5, <1>6, <1>7
<1>23. ArePieces(P)
  BY <1>8, <1>21, <1>22, FS_Subset DEF ArePieces
<1>24. v + w + x + y + z + h \in Nat
  BY <1>1, <1>2
<1> QED
  BY <1>2, <1>3, <1>9, <1>18, <1>20, <1>21, <1>22, <1>23, <1>24

\* The FLOPs that the whole model spends on a token of a decode step.
WorkPerToken(a, s) == FlopsPerToken(a, s) - 2 * PhantomGlobalVprojParams(a) + 2 * a.vocab * a.hidden

LEMMA WorkCounted ==
  ASSUME NEW a, IsArch(a), NEW s \in Nat, NEW bs \in Nat
  PROVE  /\ Summable(WorkOf(s, bs), FlopSegments(a)) /\ WorkPerToken(a, s) \in Int
         /\ Total(On(WorkOf(s, bs), FlopSegments(a))) >= bs * WorkPerToken(a, s)
<1>1. PICK w, v : w = LayerWork(s, bs) /\ v = WorkOf(s, bs)
  OBVIOUS
<1>2. PICK pieces : pieces = [i \in DOMAIN a.groups |-> Positive(FlopPieces(a, a.groups[i]))]
  OBVIOUS
<1>3. PICK E : E = Segment("embed", "", 1, 2 * a.vocab * a.hidden, None)
  OBVIOUS
<1>4. PICK M : M = Merge(a, pieces)
  OBVIOUS
<1>5. FlopSegments(a) = M \cup {E}
  BY <1>2, <1>3, <1>4 DEF FlopSegments
<1> DEFINE full(g) == 2 * WeightsAttn(a, g) + AttnScoreFlops(g, s) + DenseMlpFlops(a, g) + MoeFlops(a, g)
                      + 2 * RouterParams(a, g)
<1>6. PICK x, y, z :
        /\ x = [i \in DOMAIN a.groups |-> LayerFlops(a, a.groups[i], s)]
        /\ y = [i \in DOMAIN a.groups |-> PhantomOf(a)[i] * 2]
        /\ z = [i \in DOMAIN a.groups |-> full(a.groups[i])]
  OBVIOUS
<1>7. PICK n : n = [i \in DOMAIN a.groups |-> a.groups[i].count * (x[i] * bs)]
  OBVIOUS
<1>8. ASSUME NEW i \in DOMAIN a.groups
      PROVE  /\ ArePieces(pieces[i]) /\ \A p \in pieces[i] : p.cls # "embed"
             /\ \A p \in pieces[i] : w[p] \in Nat /\ v[Merged(a, pieces, p)] = LayersWith(a, pieces, p) * w[p]
             /\ n[i] = CountOf(a)[i] * Total(On(w, pieces[i])) /\ x[i] \in Nat
  <2>1. PICK g : g = a.groups[i]
    OBVIOUS
  <2>2. IsGroup(g)
    BY <2>1 DEF IsArch
  <2>3. PICK P : P = Positive(FlopPieces(a, g))
    OBVIOUS
  <2>4. pieces[i] = P
    BY <1>2, <2>1, <2>3
  <2>5. /\ ArePieces(P) /\ \A p \in P : p.cls # "embed"
        /\ LayerFlops(a, g, s) \in Nat /\ Total(On(LayerWork(s, bs), P)) = LayerFlops(a, g, s) * bs
    BY <2>2, <2>3, LayerWorks
  <2>6. ASSUME NEW p \in P
        PROVE  w[p] \in Nat /\ v[Merged(a, pieces, p)] = LayersWith(a, pieces, p) * w[p]
    <3>1. p \in Segments
      BY <2>5 DEF ArePieces
    <3>2. PICK m : m = Merged(a, pieces, p)
      OBVIOUS
    <3>3. m \in Segments /\ m.mult = LayersWith(a, pieces, p) /\ m.cls = p.cls /\ m.unit = p.unit /\ m.cap = p.cap
      BY <3>1, <3>2, MergedIs
    <3>4. w[p] \in Nat /\ w[p] = p.unit * Positions(p, s, bs)
      BY <1>1, <3>1, WorkIs
    <3>5. w[m] = m.unit * Positions(m, s, bs) /\ v[m] = m.mult * w[m]
      BY <1>1, <3>3, WorkIs
    <3>6. Positions(m, s, bs) = Positions(p, s, bs)
      BY <3>3 DEF Positions
    <3> QED
      BY <3>2, <3>3, <3>4, <3>5, <3>6
  <2>7. x[i] = LayerFlops(a, g, s) /\ n[i] = a.groups[i].count * (x[i] * bs) /\ CountOf(a)[i] = a.groups[i].count
    BY <1>6, <1>7, <2>1 DEF CountOf
  <2> QED
    BY <1>1, <2>4, <2>5, <2>6, <2>7
<1>9. Merges(a, pieces, w, v, n)
  BY <1>8 DEF Merges
<1>10. SumAlike(v, M, n, DOMAIN a.groups)
  BY <1>4, <1>9, MergeHolds
<1>11. Total(On(n, DOMAIN a.groups)) = bs * InLayers(a, x)
  <2>1. \A i \in DOMAIN a.groups : x[i] \in Nat /\ n[i] = a.groups[i].count * (x[i] * bs)
    BY <1>7, <1>8
  <2> QED
    BY <2>1, LayersScaled
<1>12. ASSUME NEW i \in DOMAIN a.groups
       PROVE  x[i] \in Nat /\ y[i] \in Nat /\ z[i] \in Nat /\ x[i] + y[i] >= z[i]
  <2>1. PICK g : g = a.groups[i]
    OBVIOUS
  <2>2. IsGroup(g)
    BY <2>1 DEF IsArch
  <2>3. /\ WeightsAttn(a, g) \in Nat
        /\ AttnQoParams(a, g) + OwnKvParams(a, g) + PhantomOf(a)[i] >= WeightsAttn(a, g)
    BY <2>1, AttentionPieces
  <2>4. /\ AttnQoParams(a, g) \in Nat /\ OwnKvParams(a, g) \in Nat /\ DenseMlpFlops(a, g) \in Nat
        /\ MoeFlops(a, g) \in Nat /\ RouterParams(a, g) \in Nat
    BY <2>2, AttentionParams, FfnParams
  <2>5. PhantomOf(a)[i] \in Nat
    BY PhantomIs
  <2>6. AttnScoreFlops(g, s) \in Nat
    BY <2>2, LayerWorks
  <2>7. /\ x[i] = 2 * AttnQoParams(a, g) + 2 * OwnKvParams(a, g) + DenseMlpFlops(a, g) + MoeFlops(a, g)
                  + 2 * RouterParams(a, g) + AttnScoreFlops(g, s)
        /\ y[i] = PhantomOf(a)[i] * 2
        /\ z[i] = 2 * WeightsAttn(a, g) + AttnScoreFlops(g, s) + DenseMlpFlops(a, g) + MoeFlops(a, g)
                  + 2 * RouterParams(a, g)
    BY <1>6, <2>1 DEF LayerFlops
  <2> QED
    BY <2>3, <2>4, <2>5, <2>6, <2>7
<1>13. /\ InLayers(a, x) \in Nat /\ InLayers(a, y) \in Nat /\ InLayers(a, z) \in Nat
       /\ InLayers(a, x) + InLayers(a, y) >= InLayers(a, z)
  <2>1. Suffices(a, x, y, z)
    BY <1>12 DEF Suffices
  <2> QED
    BY <2>1, LayersSuffice
<1>14. InLayers(a, y) = 2 * PhantomGlobalVprojParams(a)
  <2>1. PICK ph, l, two : ph = PhantomOf(a) /\ l = Layered(a, y) /\ two = 2 /\ two \in Nat
    OBVIOUS
  <2>2. \A i \in DOMAIN a.groups : ph[i] \in Nat
    BY <2>1, PhantomIs
  <2>3. \A i \in DOMAIN a.groups : l[i] = a.groups[i].count * (ph[i] * two)
    BY <1>6, <2>1 DEF Layered
  <2>4. Total(On(l, DOMAIN a.groups)) = two * InLayers(a, ph)
    BY <2>1, <2>2, <2>3, LayersScaled
  <2> QED
    BY <2>1, <2>4, PhantomIs DEF InLayers
<1>15. FlopsPerToken(a, s) = InLayers(a, z)
  <2>1. PICK per : per = [g \in GroupSet(a) |-> full(g)]
    OBVIOUS
  <2>2. FlopsPerToken(a, s) = InLayers(a, PerGroup(a, per))
    BY <2>1, OverLayersAre DEF FlopsPerToken
  <2>3. \A i \in DOMAIN a.groups : a.groups[i] \in GroupSet(a)
    BY DEF GroupSet, ToSet
  <2>4. PerGroup(a, per) = z
    BY <1>6, <2>1, <2>3 DEF PerGroup
  <2> QED
    BY <2>2, <2>4
<1>16. PICK head \in Nat : head = 2 * a.vocab * a.hidden
  BY ElementBytes
<1>17. E \in Segments /\ E.cls = "embed" /\ v[E] = head * bs /\ v[E] \in Nat
  <2>1. E \in Segments /\ E.cls = "embed" /\ E.mult = 1 /\ E.unit = head
    BY <1>3, <1>16 DEF Segment, Segments, Classes, Labels, None
  <2>2. w[E] = head * bs
    BY <1>1, <2>1, WorkIs DEF Positions
  <2>3. v[E] \in Nat /\ v[E] = E.mult * w[E]
    BY <1>1, <2>1, WorkIs
  <2>4. head * bs \in Nat
    BY <1>16, NatTimes
  <2> QED
    BY <2>1, <2>2, <2>3, <2>4
<1>18. E \notin M
  <2>1. \A i \in DOMAIN a.groups : pieces[i] \subseteq Segments /\ \A p \in pieces[i] : p.cls # "embed"
    BY <1>8 DEF ArePieces
  <2>2. \A m \in M : m.cls # "embed"
    BY <1>4, <2>1, MergeHasNo
  <2> QED
    BY <1>17, <2>2
<1>19. Summable(v, M) /\ Total(On(v, M)) = bs * InLayers(a, x)
  BY <1>10, <1>11 DEF SumAlike
<1>20. Summable(v, M \cup {E}) /\ Total(On(v, M \cup {E})) = v[E] + Total(On(v, M))
  BY <1>17, <1>18, <1>19, TotalWith
<1>21. PICK p \in Nat, q \in Nat, r \in Nat : p = InLayers(a, x) /\ q = InLayers(a, y) /\ r = InLayers(a, z)
  BY <1>13
<1>22. WorkPerToken(a, s) = r - q + head
  BY <1>14, <1>15, <1>16, <1>21 DEF WorkPerToken
<1>23. (r - q + head) * bs <= (p + head) * bs
  <2>1. r - q + head <= p + head /\ r - q + head \in Int /\ p + head \in Int
    BY <1>13, <1>16, <1>21
  <2> QED
    BY <2>1, OrderTimes
<1>24. (p + head) * bs = head * bs + bs * p /\ (r - q + head) * bs = bs * (r - q + head)
  BY <1>16, <1>21
<1>25. v[E] + Total(On(v, M)) >= bs * WorkPerToken(a, s) /\ WorkPerToken(a, s) \in Int
  BY <1>16, <1>17, <1>19, <1>21, <1>22, <1>23, <1>24
<1> QED
  BY <1>1, <1>5, <1>20, <1>25

LEMMA SegmentsWork ==
  ASSUME NEW a, IsArch(a), NEW b, b = BuildBundle(a), NEW cfg, IsConfig(cfg), IsExact(b, cfg),
         NEW s \in Nat, NEW bs \in Nat, NEW op, op = Decoding(s, bs), NEW x \in b.flops
  PROVE  SegmentFlops(b, x, cfg, op) * World(cfg) >= WorkOf(s, bs)[x] * Scale
<1>1. IsBundle(b)
  BY BundleIs
<1>2. PICK d : d = FlopDivisor(x.cls, cfg, "decode", x.cap, b.meta[x.type].nkv, b.meta[x.type].isMla)
  OBVIOUS
<1>3. x \in b.weights \cup b.flops
  OBVIOUS
<1>4. x \in Segments /\ d \in Sizes /\ Scale % d = 0 /\ d <= World(cfg)
  BY <1>1, <1>2, <1>3, StepDivisor
<1>5. PICK ranks \in Nat : ranks = World(cfg)
  <2>1. 0 \in Nat
    OBVIOUS
  <2> QED
    BY <2>1, HeadDivisors DEF Sizes
<1>6. PICK n \in Nat : n = WorkOf(s, bs)[x]
  BY <1>4, WorkIs
<1>7. SegmentFlops(b, x, cfg, op) = Share(n, d)
  <2>1. op.s = s /\ op.bs = bs /\ op.regime = "decode" /\ ~IsPrefill("decode")
    BY DEF Decoding, IsPrefill
  <2>2. OpTokens(op) = bs /\ LmHeadTokens(op) = bs
    BY <2>1 DEF OpTokens, LmHeadTokens
  <2>3. n = x.mult * x.unit * Positions(x, s, bs)
    BY <1>4, <1>6 DEF WorkOf
  <2>4. CASE x.cls = "attn_score"
    BY <1>2, <2>1, <2>3, <2>4 DEF SegmentFlops, Positions
  <2>5. CASE x.cls = "embed"
    BY <1>2, <2>1, <2>2, <2>3, <2>5 DEF SegmentFlops, Positions
  <2>6. CASE x.cls # "attn_score" /\ x.cls # "embed"
    BY <1>2, <2>1, <2>2, <2>3, <2>6 DEF SegmentFlops, Positions
  <2> QED
    BY <2>4, <2>5, <2>6
<1>8. Share(n, d) * ranks >= n * Scale
  BY <1>4, <1>5, SharesAddUp
<1> QED
  BY <1>5, <1>6, <1>7, <1>8

LEMMA WorkIsKept ==
  ASSUME NEW a, IsArch(a), IsRegular(a), NEW b, b = BuildBundle(a), NEW hw,
         NEW cfg, IsConfig(cfg), Scale % cfg.tp = 0, IsExact(b, cfg), NEW s \in Nat, s > 0, NEW bs \in Nat, bs > 0,
         NEW r, IsDecodeCell(r, b, hw, cfg, s, bs)
  PROVE  r.flops * World(cfg) >= bs * WorkPerToken(a, s) * Scale
<1>1. PICK op : op = Decoding(s, bs)
  OBVIOUS
<1>2. r.flops = Total(FlopsHeld(b, cfg, op)) /\ Summable(FlopsHeld(b, cfg, op), b.flops)
  BY <1>1, RowHolds
<1>3. PICK S : S = b.flops /\ S = FlopSegments(a)
  BY DEF BuildBundle
<1>4. PICK held, all : held = FlopsHeld(b, cfg, op) /\ all = WorkOf(s, bs)
  OBVIOUS
<1>5. Summable(held, S) /\ r.flops = Total(On(held, S))
  <2>1. On(held, S) = held
    BY <1>3, <1>4 DEF On, FlopsHeld
  <2> QED
    BY <1>2, <1>3, <1>4, <2>1
<1>6. PICK n \in Int : n = bs * WorkPerToken(a, s)
  BY WorkCounted
<1>7. Summable(all, S) /\ Total(On(all, S)) >= n
  BY <1>3, <1>4, <1>6, WorkCounted
<1>8. ASSUME NEW x \in S
      PROVE  held[x] * World(cfg) >= all[x] * Scale
  <2>1. held[x] = SegmentFlops(b, x, cfg, op) /\ x \in b.flops
    BY <1>3, <1>4 DEF FlopsHeld
  <2> QED
    BY <1>1, <1>4, <2>1, SegmentsWork
<1>9. PICK ranks \in Nat : ranks = World(cfg)
  <2>1. 0 \in Nat
    OBVIOUS
  <2> QED
    BY <2>1, HeadDivisors DEF Sizes
<1>10. HoldsAll(held, all, S, ranks)
  BY <1>5, <1>7, <1>8, <1>9 DEF HoldsAll
<1>11. Total(On(held, S)) * ranks >= Total(On(all, S)) * Scale
  BY <1>10, TotalsAddUp
<1>12. Total(On(all, S)) \in Nat /\ Scale \in Nat /\ r.flops \in Nat
  BY <1>5, <1>7, TotalIsNat, ScaleAssumption
<1>13. n * Scale <= Total(On(all, S)) * Scale
  BY <1>6, <1>7, <1>12, OrderTimes
<1>14. n * Scale \in Int /\ Total(On(all, S)) * Scale \in Int /\ r.flops * ranks \in Int
  BY <1>6, <1>12
<1> QED
  BY <1>5, <1>6, <1>9, <1>11, <1>13, <1>14

LEMMA PlanKeepsAll ==
  ASSUME PlanInv
  PROVE  NothingIsLost
<1> SUFFICES ASSUME NEW s \in DOMAIN plan, NEW r \in plan[s].decode
             PROVE  LET a == bundle.arch
                        cache == KvBytesTotal(a, s, r.bs) * Scale
                        work == FlopsPerToken(a, s) - 2 * PhantomGlobalVprojParams(a) + 2 * a.vocab * a.hidden
                    IN  /\ r.kv * r.cfg.tp >= cache
                        /\ r.weight * r.cores >= CorrectedWeightBytes(a) * Scale
                        /\ r.flops * r.cores >= r.bs * work * Scale
                        /\ r.cfg.tp <= MinKvHeads(a) /\ (\A i \in DOMAIN a.groups : ~a.groups[i].hasMla)
                             => r.kv * r.cfg.tp = cache
  BY DEF NothingIsLost
<1>1. PICK a, b, hw, cfg, bs :
        a = ArchOf(spec) /\ b = bundle /\ hw = HwOf(spec) /\ cfg = r.cfg /\ bs = r.bs
  OBVIOUS
<1>2. /\ spec \in Specs /\ s \in Nat /\ IsProblem(b, hw, grid) /\ b = BuildBundle(a)
      /\ plan[s].decode = DecodeRows(b, hw, grid, s)
  BY <1>1, PlannedIs
<1>3. s > 0
  BY DEF PlanInv, Sizes
<1>4. IsArch(a) /\ IsRegular(a)
  BY <1>1, <1>2, ArchOfIs, ArchIsRegular
<1>5. b.arch = a
  BY <1>2 DEF BuildBundle
<1>6. IsRowOf(r, b, hw, grid, s)
  BY <1>2, RowsAre
<1>7. /\ cfg \in grid /\ IsDecodeCell(r, b, hw, cfg, s, bs)
      /\ bs = MaxFeasibleBs(b, hw, cfg, s, FALSE) /\ bs # 0
  BY <1>1, <1>6 DEF IsRowOf, IsDecodeCell
<1>8. bs \in Nat /\ bs > 0
  BY <1>2, <1>7, MaxBatchIs
<1>9. IsConfig(cfg) /\ IsExact(b, cfg)
  BY <1>2, <1>7 DEF IsProblem
<1>10. Scale % cfg.tp = 0
  BY <1>9 DEF IsExact
<1>11. r.cores = World(cfg)
  BY <1>7 DEF IsDecodeCell, Cell, CellTotals
<1>12. KeepsCache(r, a, cfg, s, bs)
  BY <1>2, <1>3, <1>4, <1>7, <1>8, <1>9, <1>10, CacheIsKept
<1>13. r.weight * World(cfg) >= CorrectedWeightBytes(a) * Scale
  BY <1>2, <1>3, <1>4, <1>7, <1>8, <1>9, <1>10, WeightsAreKept
<1>14. r.flops * World(cfg) >= bs * WorkPerToken(a, s) * Scale
  BY <1>2, <1>3, <1>4, <1>7, <1>8, <1>9, <1>10, WorkIsKept
<1>15. r.flops * r.cores >= r.bs * (FlopsPerToken(a, s) - 2 * PhantomGlobalVprojParams(a) + 2 * a.vocab * a.hidden) * Scale
  BY <1>1, <1>11, <1>14 DEF WorkPerToken
<1>16. r.weight * r.cores >= CorrectedWeightBytes(a) * Scale
  BY <1>11, <1>13
<1> QED
  BY <1>1, <1>5, <1>12, <1>15, <1>16 DEF KeepsCache

\* Sharding a model loses nothing: in every decode row of every plan, the cores
\* of the configuration hold between them at least the whole cache and every
\* weight, do at least the work of every sequence of the batch, and hold the
\* cache exactly once when no head is replicated.
THEOREM WorkIsConserved == PlanSpec => []NothingIsLost
  BY PlanInvHolds, PlanKeepsAll, PTL
==============================================================================
