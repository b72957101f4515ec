------------------------------ MODULE ModelArch ------------------------------
(***************************************************************************)
(* scripts/entitlement_formulas.py of the parallelism planner: what a      *)
(* model costs before it is sharded, counted analytically, and how a       *)
(* HuggingFace configuration and a run-spec become an architecture.  Sizes *)
(* are counts, None is 0 in a field that is a size, and a fraction of a    *)
(* count is carried by the modules that shard.                             *)
(***************************************************************************)
EXTENDS Integers, Sequences, FiniteSets, SequencesExt, FiniteSetsExt

None == 0

Least(x, y) == IF x < y THEN x ELSE y
Greatest(x, y) == IF x > y THEN x ELSE y

\* The sum of the values of a function, or of a sequence.
Total(f) == FoldFunction(LAMBDA m, n : m + n, 0, f)

-----------------------------------------------------------------------------
(* MLAParams, AttnGroup, Arch. *)

QkHeadDim(m) == m.nope + m.rope
KvCacheDim(m) == m.kvRank + m.rope

NumLayers(a) == Total([i \in DOMAIN a.groups |-> a.groups[i].count])

\* What all layers hold of something of which one layer of group g holds per[g].
OverLayers(a, per) == Total([i \in DOMAIN a.groups |-> a.groups[i].count * per[a.groups[i]]])
GroupSet(a) == ToSet(a.groups)

\* ordered_layer_groups: group by group, unless the layers are listed; a list
\* that does not match the counts of the groups is refused.
LayersAreListed(a) ==
    a.layers # <<>> =>
        /\ Len(a.layers) = NumLayers(a)
        /\ ToSet(a.layers) \subseteq DOMAIN a.groups
        /\ \A gi \in DOMAIN a.groups :
              Cardinality({i \in DOMAIN a.layers : a.layers[i] = gi}) = a.groups[gi].count
OrderedLayerGroups(a) ==
    IF a.layers # <<>> THEN [i \in DOMAIN a.layers |-> a.groups[a.layers[i]]]
    ELSE FlattenSeq([gi \in DOMAIN a.groups |-> [i \in 1..a.groups[gi].count |-> a.groups[gi]]])

KvElemBytes(a) == IF a.kvBytes = None THEN a.dtype ELSE a.kvBytes
WElemBytes(a) == IF a.weightBytes = None THEN a.dtype ELSE a.weightBytes
LmHeadElemBytes(a) == IF a.headBytes = None THEN WElemBytes(a) ELSE a.headBytes

\* Twice vocab_table_effective_elem_bytes, which is a mean of two precisions.
VocabTableTwiceBytes(a) ==
    IF a.tie THEN 2 * WElemBytes(a) ELSE WElemBytes(a) + LmHeadElemBytes(a)

-----------------------------------------------------------------------------
(* Weights of one layer of a group, and of the model. *)

WeightsAttn(a, g) ==
    IF g.hasMla
    THEN LET m == g.mla
         IN  a.hidden * m.qRank + m.qRank * g.nq * QkHeadDim(m) + a.hidden * KvCacheDim(m)
             + m.kvRank * g.nq * (m.nope + m.vDim) + g.nq * m.vDim * a.hidden
    ELSE 2 * a.hidden * g.nq * g.dim + 2 * a.hidden * g.nkv * g.dim

MlpBlockParams(a, inter) == 3 * a.hidden * inter
RouterParams(a, g) == a.hidden * g.experts
MlpResidentParams(a, g) ==
    MlpBlockParams(a, g.dense) + MlpBlockParams(a, g.moe) * g.experts + RouterParams(a, g)
WeightsTotal(a) == OverLayers(a, [g \in GroupSet(a) |-> WeightsAttn(a, g) + MlpResidentParams(a, g)])

EmbedTableBytes(a) ==
    LET params == a.vocab * a.hidden
    IN  IF a.tie THEN params * WElemBytes(a) ELSE params * (WElemBytes(a) + LmHeadElemBytes(a))
PhantomGlobalVprojParams(a) ==
    IF ~a.kEqV THEN 0
    ELSE OverLayers(a, [g \in GroupSet(a) |-> IF g.cap = None THEN a.hidden * g.nkv * g.dim ELSE 0])
CorrectedWeightBytes(a) ==
    WeightsTotal(a) * WElemBytes(a) + EmbedTableBytes(a) - PhantomGlobalVprojParams(a) * WElemBytes(a)

-----------------------------------------------------------------------------
(* FLOPs and cache. *)

EffCtx(cap, len) == IF cap = None THEN len ELSE Least(len, cap)

\* attn_score_flops_per_token over its effective context.
ScoreFlopsPerKey(g) ==
    IF g.hasMla THEN 2 * g.nq * (QkHeadDim(g.mla) + g.mla.vDim) ELSE 4 * g.nq * g.dim
AttnScoreFlops(g, len) == ScoreFlopsPerKey(g) * EffCtx(g.cap, len)
DenseMlpFlops(a, g) == 6 * a.hidden * g.dense
MoeFlops(a, g) == 6 * a.hidden * g.moe * g.active

FlopsPerToken(a, len) ==
    OverLayers(a, [g \in GroupSet(a) |->
        2 * WeightsAttn(a, g) + AttnScoreFlops(g, len) + DenseMlpFlops(a, g) + MoeFlops(a, g)
        + 2 * RouterParams(a, g)])

AttnQoParams(a, g) == IF g.hasMla THEN WeightsAttn(a, g) ELSE 2 * a.hidden * g.nq * g.dim
AttnKvParams(a, g) == IF g.hasMla THEN 0 ELSE 2 * a.hidden * g.nkv * g.dim

\* Causal query/key pairs of a prompt: a triangle, then a band.
ActiveAttentionPairs(len, cap) ==
    LET active == EffCtx(cap, len)
    IN  (active * (active + 1)) \div 2 + (len - active) * active

KvBytesTotal(a, len, bs) ==
    OverLayers(a, [g \in GroupSet(a) |->
        (IF g.hasMla THEN KvCacheDim(g.mla) ELSE 2 * g.nkv * g.dim) * KvElemBytes(a) * EffCtx(g.cap, len) * bs])

TokensPerStep(len, bs, prefill) == IF prefill THEN len * bs ELSE bs

-----------------------------------------------------------------------------
(* arch_from_hf: `hf` has one field per key of the configuration; the      *)
(* spellings that stand for one quantity are one field, 0 an absent key.    *)
(* Two splits are known: dense layers before expert layers (`nRouted`),     *)
(* and sliding among full attention (`layerTypes`).                         *)

NumExpertsOf(hf) == IF hf.nRouted # None THEN hf.nRouted ELSE hf.numExperts
MoeInterOf(hf) == IF hf.moeInter # None THEN hf.moeInter ELSE hf.inter
SharedWidthOf(hf) ==
    IF hf.sharedWidth # None THEN hf.sharedWidth ELSE hf.nShared * MoeInterOf(hf)

SplitsFfn(hf) == hf.nRouted # None /\ ~hf.moeBlock
MixesAttention(hf) == "sliding" \in ToSet(hf.layerTypes)
\* n_routed_experts with layer_types is refused as not modelled.
CanParse(hf) == ~(SplitsFfn(hf) /\ hf.layerTypes # <<>>)

Group(hf, count, cap, dense, routed) ==
    [count |-> count, nq |-> hf.nq, nkv |-> IF hf.nkv = None THEN hf.nq ELSE hf.nkv,
     dim |-> IF hf.dim = None THEN hf.hidden \div hf.nq ELSE hf.dim,
     cap |-> cap, hasMla |-> hf.mla # <<>>, mla |-> hf.mla, dense |-> dense,
     moe |-> IF routed THEN MoeInterOf(hf) ELSE 0,
     experts |-> IF routed THEN NumExpertsOf(hf) ELSE 0,
     active |-> IF routed THEN hf.active ELSE 0]

SplitFfnGroups(hf) ==
    LET dense == Group(hf, hf.firstDense, None, hf.inter, FALSE)
        moe == Group(hf, hf.numLayers - hf.firstDense, None, SharedWidthOf(hf), TRUE)
    IN  IF hf.firstDense = 0 THEN <<moe>> ELSE <<dense, moe>>

\* The sliding group comes first, whatever the first layer is; the groups of
\* mixed attention are built without MLA.
MixedGroups(hf) ==
    LET Count(kind) == Cardinality({i \in DOMAIN hf.layerTypes : hf.layerTypes[i] = kind})
        routed == NumExpertsOf(hf) > 0
        plain == [hf EXCEPT !.mla = <<>>]
        sliding == Group(plain, Count("sliding"), hf.window, hf.inter + SharedWidthOf(hf), routed)
        full == [Group(plain, Count("full"), None, hf.inter + SharedWidthOf(hf), routed)
                    EXCEPT !.nkv = IF hf.globalNkv = None THEN @ ELSE hf.globalNkv,
                           !.dim = IF hf.globalDim = None THEN @ ELSE hf.globalDim]
    IN  IF Count("full") = 0 THEN <<sliding>> ELSE <<sliding, full>>

UniformGroups(hf) ==
    <<Group(hf, hf.numLayers, hf.window, hf.inter + SharedWidthOf(hf), NumExpertsOf(hf) > 0)>>

GroupsOf(hf) ==
    IF SplitsFfn(hf) THEN SplitFfnGroups(hf)
    ELSE IF MixesAttention(hf) THEN MixedGroups(hf) ELSE UniformGroups(hf)

LayersOf(hf) ==
    IF SplitsFfn(hf)
    THEN [i \in 1..hf.numLayers |-> IF i <= hf.firstDense \/ hf.firstDense = 0 THEN 1 ELSE 2]
    ELSE IF MixesAttention(hf)
         THEN [i \in DOMAIN hf.layerTypes |-> IF hf.layerTypes[i] = "sliding" THEN 1 ELSE 2]
         ELSE [i \in 1..hf.numLayers |-> 1]

ArchFromHf(hf) ==
    [hidden |-> hf.hidden, vocab |-> hf.vocab, experts |-> NumExpertsOf(hf), dtype |-> 2,
     groups |-> GroupsOf(hf), layers |-> LayersOf(hf), tie |-> hf.tie, maxContext |-> hf.maxContext,
     kEqV |-> hf.kEqV, kvBytes |-> None, weightBytes |-> None, headBytes |-> None,
     dcp |-> FALSE, policy |-> "component_boundary"]

-----------------------------------------------------------------------------
(* apply_runspec_knobs: what a run-spec changes of a model and a machine.   *)

\* A tied table has one precision.
KnobsAgree(a, raw) ==
    a.tie /\ raw.headBytes # None =>
        raw.headBytes = IF raw.weightBytes = None THEN WElemBytes(a) ELSE raw.weightBytes
WithKnobs(a, raw) ==
    [a EXCEPT !.kvBytes = raw.kvBytes, !.dcp = raw.dcp, !.policy = raw.policy,
              !.weightBytes = raw.weightBytes, !.headBytes = raw.headBytes]
HwWithKnobs(hw, raw) ==
    [hw EXCEPT !.usable = IF raw.usable = None THEN @ ELSE raw.usable,
               !.te = IF raw.fp8 THEN 2 * @ ELSE @]
==============================================================================
