------------------------------ MODULE CostEngine ------------------------------
(***************************************************************************)
(* The engine of the parallelism planner: planner/segments.py cuts a model *)
(* into segments, planner/activation.py lists what each body reads and     *)
(* writes, planner/cost.py adds them up per rank and takes the roofline of *)
(* every record, planner/build.py puts one cell together.  Bytes and FLOPs *)
(* are in units of 1/Scale, times in units of 1/Scale of a byte moved at   *)
(* the speed te, or a FLOP done at the speed bw.                           *)
(***************************************************************************)
EXTENDS Sharding

CONSTANTS
    HopLatency, \* one hop of a ring, in time units
    WireCost    \* one byte on a link, in time units per Scale

ASSUME CommAssumption == HopLatency \in Nat /\ WireCost \in Nat

AttnLabel(g) == IF g.hasMla THEN "mla" ELSE IF g.cap # None THEN "sliding" ELSE "global"
FfnLabel(g) ==
    IF g.dense > 0 /\ g.experts > 0 THEN "dense+moe" ELSE IF g.experts > 0 THEN "moe" ELSE "dense"

ComponentOf(cls) ==
    IF cls \in AttentionClasses THEN "attention" ELSE IF cls = "embed" THEN "lm_head" ELSE "ffn"

-----------------------------------------------------------------------------
(* segments.py *)

\* A segment spans `mult` layers; the pieces of one layer span one.
Segment(cls, type, mult, unit, cap) == [cls |-> cls, type |-> type, mult |-> mult, unit |-> unit, cap |-> cap]
Piece(cls, type, unit, cap) == Segment(cls, type, 1, unit, cap)

\* k_eq_v: V aliases K in the global groups with a K/V cache of their own.
AliasesV(a, g) == a.kEqV /\ g.cap = None /\ ~g.hasMla
OwnKvParams(a, g) == AttnKvParams(a, g) - (IF AliasesV(a, g) THEN a.hidden * g.nkv * g.dim ELSE 0)
EmbedParams(a) == (IF a.tie THEN 1 ELSE 2) * a.vocab * a.hidden
KvUnitPerToken(a, g) == (IF g.hasMla THEN KvCacheDim(g.mla) ELSE 2 * g.nkv * g.dim) * KvElemBytes(a)

\* Mutant: segments of groups under one label stay apart.
Unmerged(a, pieces) ==
    UNION {{[p EXCEPT !.mult = a.groups[i].count] : p \in pieces[i]} : i \in DOMAIN a.groups}

\* _merge: one segment for all pieces that do not differ, with the layers of
\* every group that has it.
LayersWith(a, pieces, p) == Total([i \in {j \in DOMAIN a.groups : p \in pieces[j]} |-> a.groups[i].count])
Merge(a, pieces) ==
    {[p EXCEPT !.mult = LayersWith(a, pieces, p)] : p \in UNION {pieces[i] : i \in DOMAIN a.groups}}

WeightPieces(a, g) ==
    {Piece("attn_qo", AttnLabel(g), AttnQoParams(a, g), None),
     Piece("attn_kv", AttnLabel(g), OwnKvParams(a, g), None),
     Piece("dense_mlp", FfnLabel(g), MlpBlockParams(a, g.dense), None),
     Piece("routed_experts", FfnLabel(g), MlpBlockParams(a, g.moe) * g.experts, None),
     Piece("router", FfnLabel(g), RouterParams(a, g), None)}
KvPieces(a, g) == {Piece("attn_kv", AttnLabel(g), KvUnitPerToken(a, g), g.cap)}
\* The projections carry no cap; the scores do.
FlopPieces(a, g) ==
    {Piece("attn_qo", AttnLabel(g), 2 * AttnQoParams(a, g), None),
     Piece("attn_kv", AttnLabel(g), 2 * OwnKvParams(a, g), None),
     Piece("attn_score", AttnLabel(g), ScoreFlopsPerKey(g), g.cap),
     Piece("dense_mlp", FfnLabel(g), DenseMlpFlops(a, g), None),
     Piece("routed_experts", FfnLabel(g), MoeFlops(a, g), None),
     Piece("router", FfnLabel(g), 2 * RouterParams(a, g), None)}

Positive(pieces) == {p \in pieces : p.unit > 0}
WeightSegments(a) ==
    Merge(a, [i \in DOMAIN a.groups |-> Positive(WeightPieces(a, a.groups[i]))])
    \cup {Segment("embed", "", 1, EmbedParams(a), None)}
KvSegments(a) == Merge(a, [i \in DOMAIN a.groups |-> KvPieces(a, a.groups[i])])
FlopSegments(a) ==
    Merge(a, [i \in DOMAIN a.groups |-> Positive(FlopPieces(a, a.groups[i]))])
    \cup {Segment("embed", "", 1, 2 * a.vocab * a.hidden, None)}

\* build_bundle: (n_kv, is_mla) per label of attention; the last group wins.
MetaOf(a, type) ==
    LET of == {i \in DOMAIN a.groups : AttnLabel(a.groups[i]) = type}
    IN  IF of = {} THEN [nkv |-> 0, isMla |-> FALSE]
        ELSE LET g == a.groups[Max(of)] IN [nkv |-> g.nkv, isMla |-> g.hasMla]

BuildBundle(a) ==
    [arch |-> a, weights |-> WeightSegments(a), kvs |-> KvSegments(a), flops |-> FlopSegments(a),
     meta |-> [type \in {"mla", "sliding", "global", "dense", "moe", "dense+moe", ""} |-> MetaOf(a, type)]]

EpDefaultEnabled(a) == \E i \in DOMAIN a.groups : a.groups[i].experts > 0

-----------------------------------------------------------------------------
(* cost.py: an operating point is [s, bs, regime]. *)

OpTokens(op) == IF IsPrefill(op.regime) THEN op.s * op.bs ELSE op.bs
LmHeadTokens(op) == IF IsPrefill(op.regime) THEN op.bs ELSE OpTokens(op)

NoWork == [weight |-> 0, kv |-> 0, in |-> 0, out |-> 0, flops |-> 0, layers |-> 0]
HbmBytes(t) == t.weight + t.kv + t.in + t.out

SegmentWeight(b, s, cfg, op) ==
    LET meta == b.meta[s.type]
        d == WeightDivisor(s.cls, cfg, op.regime, meta.nkv, meta.isMla)
    IN  IF s.cls = "embed" THEN Share(s.mult * s.unit * VocabTableTwiceBytes(b.arch), d) \div 2
        ELSE Share(s.mult * s.unit * WElemBytes(b.arch), d)

SegmentKv(b, s, cfg, op) ==
    LET meta == b.meta[s.type]
    IN  Share(s.mult * s.unit * EffCtx(s.cap, op.s) * op.bs,
              KvCacheDivisor(cfg, op.regime, s.cap, meta.nkv, meta.isMla))

SegmentFlops(b, s, cfg, op) ==
    LET meta == b.meta[s.type]
        positions ==
            CASE s.cls = "attn_score" /\ IsPrefill(op.regime) -> ActiveAttentionPairs(op.s, s.cap) * op.bs
              [] s.cls = "attn_score" /\ ~IsPrefill(op.regime) -> EffCtx(s.cap, op.s) * op.bs
              [] s.cls = "embed" -> LmHeadTokens(op)
              [] OTHER -> OpTokens(op)
    IN  Share(s.mult * s.unit * positions,
              FlopDivisor(s.cls, cfg, op.regime, s.cap, meta.nkv, meta.isMla))

KeyOf(s) == <<ComponentOf(s.cls), s.type>>
AllSegments(b) == b.weights \cup b.kvs \cup b.flops
Under(segs, key) == {s \in segs : KeyOf(s) = key}

\* per_type_totals: `layers` is the largest multiplicity under the key.
PerTypeTotals(b, cfg, op) ==
    [key \in {KeyOf(s) : s \in AllSegments(b)} |->
        [NoWork EXCEPT !.weight = Total([s \in Under(b.weights, key) |-> SegmentWeight(b, s, cfg, op)]),
                       !.kv = Total([s \in Under(b.kvs, key) |-> SegmentKv(b, s, cfg, op)]),
                       !.flops = Total([s \in Under(b.flops, key) |-> SegmentFlops(b, s, cfg, op)]),
                       !.layers = Max({s.mult : s \in Under(AllSegments(b), key)})]]

-----------------------------------------------------------------------------
(* activation.py *)

\* local_tokens, as a number of tokens and a divisor of its own.
LocalTokens(op) == OpTokens(op)
LocalTokensDivisor(g, cfg, op) ==
    IF IsPrefill(op.regime) THEN CpG(cfg, op.regime, g.cap, g.nkv, g.hasMla) ELSE 1

\* act_io_elems: the widths an operator reads and writes, each <<width, axis, heads>>.
Whole(width) == <<width, "replicated", 0>>
ActIoElems(operator, routed, a, g) ==
    LET H == Whole(a.hidden)
        Q == <<g.nq * (IF g.hasMla THEN QkHeadDim(g.mla) ELSE g.dim), "heads", g.nq>>
        V == <<g.nq * (IF g.hasMla THEN g.mla.vDim ELSE g.dim), "heads", g.nq>>
        K == <<g.nkv * g.dim, "heads", g.nkv>>
        inter == IF routed THEN <<g.moe, "expert_tensor_parallel", 0>> ELSE <<g.dense, "tensor_parallel", 0>>
    IN  CASE operator = "q_proj" -> <<H, Q>>
          [] operator \in {"k_proj", "v_proj"} -> <<H, K>>
          [] operator = "o_proj" -> <<V, H>>
          [] operator = "sdpa" -> <<Q, V>>
          [] operator \in {"gate_proj", "up_proj"} -> <<H, inter>>
          [] operator = "down_proj" -> <<inter, H>>
          [] operator = "lm_head" -> <<H, <<a.vocab, "vocab", 0>>>>
          [] operator = "router" -> <<H, Whole(g.experts)>>
          [] operator = "q_a_proj" -> <<H, Whole(g.mla.qRank)>>
          [] operator = "q_b_proj" -> <<Whole(g.mla.qRank), Q>>
          [] operator = "kv_a_proj" -> <<H, Whole(KvCacheDim(g.mla))>>
          [] operator = "kv_b_proj" ->
                <<Whole(g.mla.kvRank), <<g.nq * (g.mla.nope + g.mla.vDim), "heads", g.nq>>>>

\* Bytes one operator of one layer reads (side 1) and writes (side 2).
OperatorBytes(operator, routed, side, a, g, cfg, op) ==
    LET w == ActIoElems(operator, routed, a, g)[side]
        tokens == IF operator = "lm_head" THEN LmHeadTokens(op) ELSE LocalTokens(op)
        spread == IF operator = "lm_head" THEN 1 ELSE LocalTokensDivisor(g, cfg, op)
        expert == routed /\ operator # "router"
    IN  Share(a.dtype * tokens * w[1] * (IF expert THEN g.active ELSE 1),
              ActivationWidthDivisor(w[2], cfg, op.regime, w[3]) * spread
              * (IF expert THEN RoutedSpread(cfg) ELSE 1))

AttnOps(a, g) ==
    IF g.hasMla THEN <<"q_a_proj", "q_b_proj", "kv_a_proj", "kv_b_proj", "o_proj">>
    ELSE IF AliasesV(a, g) THEN <<"q_proj", "k_proj", "o_proj">>
    ELSE <<"q_proj", "k_proj", "v_proj", "o_proj">>
MlpOps == <<"gate_proj", "up_proj", "down_proj">>

Instance(component, variant, in, out) ==
    [component |-> component, variant |-> variant, in |-> in, out |-> out]

HasFfn(g) == g.dense > 0 \/ g.experts > 0

\* One hidden tensor in and one out of every body, and the sampled logits.
HiddenBytes(a, cfg, op, layout, rows) ==
    Share(rows * a.hidden * a.dtype,
          ActivationRowDivisor(layout, cfg, op.regime) * ActivationWidthDivisor("hidden", cfg, op.regime, 0))
BoundaryBodies(a, cfg, op, g) ==
    LET Body(component, variant, layout) ==
            Instance(component, variant, HiddenBytes(a, cfg, op, layout, OpTokens(op)),
                     HiddenBytes(a, cfg, op, layout, OpTokens(op)))
    IN  {Body("attention", AttnLabel(g), "attention_body")}
        \cup (IF HasFfn(g) THEN {Body("ffn", FfnLabel(g), "ffn_body")} ELSE {})
BoundaryHead(a, cfg, op) ==
    Instance("lm_head", "", HiddenBytes(a, cfg, op, "sampled", LmHeadTokens(op)),
             Share(LmHeadTokens(op) * a.vocab * a.dtype, ActivationWidthDivisor("vocab", cfg, op.regime, 0)))

\* Operators of a body, each with whether experts are routed to.
Marked(ops, routed) == [i \in DOMAIN ops |-> [name |-> ops[i], routed |-> routed]]
FfnOps(g) ==
    (IF g.dense > 0 THEN Marked(MlpOps, FALSE) ELSE <<>>)
    \o (IF g.experts > 0 THEN Marked(Append(MlpOps, "router"), TRUE) ELSE <<>>)

\* What every operator reads and writes, the scores of attention included.
OperatorsBody(component, variant, ops, a, cfg, op, g) ==
    LET Bytes(side) ==
            Total([i \in DOMAIN ops |-> OperatorBytes(ops[i].name, ops[i].routed, side, a, g, cfg, op)])
    IN  Instance(component, variant, Bytes(1), Bytes(2))
OperatorBodies(a, cfg, op, g) ==
    LET ffn == OperatorsBody("ffn", FfnLabel(g), FfnOps(g), a, cfg, op, g)
    IN  {OperatorsBody("attention", AttnLabel(g), Marked(Append(AttnOps(a, g), "sdpa"), FALSE), a, cfg, op, g)}
        \cup (IF ffn.in + ffn.out > 0 THEN {ffn} ELSE {})
OperatorHead(a, cfg, op) ==
    OperatorsBody("lm_head", "", Marked(<<"lm_head">>, FALSE), a, cfg, op, Last(OrderedLayerGroups(a)))

\* activation_instances, and activation_records: instances alike in every
\* respect are one record.
LayerInstances(a, cfg, op) ==
    LET layers == OrderedLayerGroups(a)
    IN  [l \in DOMAIN layers |-> IF a.policy = "component_boundary" THEN BoundaryBodies(a, cfg, op, layers[l])
                                 ELSE OperatorBodies(a, cfg, op, layers[l])]
HeadInstance(a, cfg, op) ==
    IF a.policy = "component_boundary" THEN BoundaryHead(a, cfg, op) ELSE OperatorHead(a, cfg, op)
ActivationRecords(a, cfg, op) ==
    LET bodies == LayerInstances(a, cfg, op)
    IN  {[instance |-> i, mult |-> Cardinality({l \in DOMAIN bodies : i \in bodies[l]})] :
            i \in UNION {bodies[l] : l \in DOMAIN bodies}}
        \cup {[instance |-> HeadInstance(a, cfg, op), mult |-> 1]}

-----------------------------------------------------------------------------
(* apply_activation_records, roll_up_components, step_time, cell. *)

RecordsOf(records, key) == {r \in records : <<r.instance.component, r.instance.variant>> = key}
Represented(records, key) == Total([r \in RecordsOf(records, key) |-> r.mult])

\* The two reasons for which the code raises.
CanApply(perType, records) ==
    /\ \A r \in records : <<r.instance.component, r.instance.variant>> \in DOMAIN perType
    /\ \A key \in DOMAIN perType :
          RecordsOf(records, key) # {} => Represented(records, key) = Greatest(perType[key].layers, 1)

ApplyActivationRecords(perType, records) ==
    LET Split(key, r) ==
            LET t == perType[key]
                Part(n) == (n * r.mult) \div Greatest(t.layers, 1)
            IN  [key |-> key,
                 work |-> [weight |-> Part(t.weight), kv |-> Part(t.kv), flops |-> Part(t.flops),
                           in |-> r.mult * r.instance.in, out |-> r.mult * r.instance.out,
                           layers |-> r.mult],
                 of |-> r.instance]
    IN  UNION {IF RecordsOf(records, key) = {}
               THEN {[key |-> key, work |-> perType[key], of |-> Instance(key[1], key[2], 0, 0)]}
               ELSE {Split(key, r) : r \in RecordsOf(records, key)} : key \in DOMAIN perType}

\* step_time: the roofline is taken record by record, then summed.
LoadTime(hw, t) == HbmBytes(t) * hw.te
FlopTime(hw, t) == t.flops * hw.bw
RecordTime(hw, t) == Greatest(LoadTime(hw, t), FlopTime(hw, t))
StepTime(hw, costed) == Total([r \in costed |-> RecordTime(hw, r.work)])

\* Collectives, in time units.
ActBytes(a, op) == OpTokens(op) * a.hidden * a.dtype
RingAllreduce(n, bytes) ==
    IF n <= 1 THEN 0 ELSE 2 * (n - 1) * (HopLatency + Share(WireCost * bytes, n))
CommTp(a, cfg, op) == 2 * NumLayers(a) * RingAllreduce(cfg.tp, ActBytes(a, op))
\* gqa_ratio is n_q / n_kv, the largest of the groups.
CommCp(a, cfg, op) ==
    LET thickest == CHOOSE g \in ToSet(a.groups) :
                        \A h \in ToSet(a.groups) : g.nq * h.nkv >= h.nq * g.nkv
    IN  IF cfg.cp <= 1 THEN 0
        ELSE NumLayers(a) * (HopLatency
             + 2 * (cfg.cp - 1) * (Share(WireCost * ActBytes(a, op) * thickest.nkv, cfg.cp) \div thickest.nq))
CommEp(a, cfg, op) ==
    LET span == IF cfg.ep THEN World(cfg) ELSE 1
        moeLayers == OverLayers(a, [g \in GroupSet(a) |-> IF g.experts > 1 THEN 1 ELSE 0])
        wider == RingAllreduce(span, ActBytes(a, op)) - RingAllreduce(cfg.tp, ActBytes(a, op))
    IN  IF span <= cfg.tp \/ a.experts <= 1 THEN 0 ELSE moeLayers * Greatest(wider, 0)
CommTotal(a, cfg, op) == CommTp(a, cfg, op) + CommCp(a, cfg, op) + CommEp(a, cfg, op)

Regime(a, prefill) == IF ~prefill THEN "decode" ELSE IF a.dcp THEN "prefill_dcp" ELSE "prefill"

CanCell(b, cfg, s, bs, prefill) ==
    LET op == [s |-> s, bs |-> bs, regime |-> Regime(b.arch, prefill)]
    IN  CanApply(PerTypeTotals(b, cfg, op), ActivationRecords(b.arch, cfg, op))

Costed(b, cfg, op) ==
    ApplyActivationRecords(PerTypeTotals(b, cfg, op), ActivationRecords(b.arch, cfg, op))

StepMs(a, hw, cfg, op, costed) == StepTime(hw, costed) + CommTotal(a, cfg, op)

\* The totals of a cell, from its records.
CellTotals(a, hw, cfg, op, costed) ==
    [cfg |-> cfg, cores |-> World(cfg), s |-> op.s, bs |-> op.bs, regime |-> op.regime,
     weight |-> Total([r \in costed |-> r.work.weight]), kv |-> Total([r \in costed |-> r.work.kv]),
     activation |-> Total([r \in costed |-> r.work.in + r.work.out]),
     flops |-> Total([r \in costed |-> r.work.flops]),
     records |-> costed, step |-> StepMs(a, hw, cfg, op, costed)]

Cell(b, hw, cfg, s, bs, prefill) ==
    LET op == [s |-> s, bs |-> bs, regime |-> Regime(b.arch, prefill)]
    IN  CellTotals(b.arch, hw, cfg, op, Costed(b, cfg, op))
==============================================================================
