------------------------------ MODULE Entitlement ------------------------------
(***************************************************************************)
(* Two independent counts of the work the planner's engine claims.  The    *)
(* oracle (oracle_model.py) is the model built layer by layer and run on   *)
(* no data, with its parameters and matrix products counted: an operator   *)
(* [tag, op, params, runs] holds `params` weights and multiplies `runs` of *)
(* them per token.  validate_oracle.py compares it with the engine segment *)
(* by segment.  operator_entitlement.py of the hardware-entitlement skill  *)
(* shards it operator by operator, and config_entitlement.py reports every *)
(* cell of a run-spec with the two sums side by side.                      *)
(***************************************************************************)
EXTENDS CostEngine

CONSTANT Reports  \* what is asked for: [arch, hw, configs]

VARIABLES
    asked,   \* the run-spec of this invocation
    cells,   \* config_entitlement: the cells reported so far
    checked, \* validate_oracle: the comparisons made so far
    failed   \* the invocation raised

entVars == <<asked, cells, checked, failed>>

-----------------------------------------------------------------------------
(* oracle_model.py *)

Operator(tag, op, params, runs) == [tag |-> tag, op |-> op, params |-> params, runs |-> runs]
Linear(tag, op, in, out) == Operator(tag, op, in * out, in * out)

\* _OracleAttention owns a v_proj unless V aliases K in this group; _OracleMLA
\* is built unabsorbed.
OracleAttention(a, g) ==
    IF g.hasMla
    THEN LET m == g.mla
         IN  <<Linear("attn", "q_a_proj", a.hidden, m.qRank),
               Linear("attn", "q_b_proj", m.qRank, g.nq * QkHeadDim(m)),
               Linear("attn", "kv_a_proj", a.hidden, KvCacheDim(m)),
               Linear("attn", "kv_b_proj", m.kvRank, g.nq * (m.nope + m.vDim)),
               Linear("attn", "o_proj", g.nq * m.vDim, a.hidden)>>
    ELSE <<Linear("attn", "q_proj", a.hidden, g.nq * g.dim),
           Linear("attn", "k_proj", a.hidden, g.nkv * g.dim)>>
         \o (IF a.kEqV /\ g.cap = None THEN <<>> ELSE <<Linear("attn", "v_proj", a.hidden, g.nkv * g.dim)>>)
         \o <<Linear("attn", "o_proj", g.nq * g.dim, a.hidden)>>

OracleMlp(tag, ops, a, inter, held, run) ==
    [i \in DOMAIN ops |-> Operator(tag, ops[i], held * a.hidden * inter, run * a.hidden * inter)]

\* The operators of an expert, in the order of MlpOps.
MoeOps == <<"moe_gate_proj", "moe_up_proj", "moe_down_proj">>

\* Every expert is held, `active` of them run.
OracleMoE(a, g) ==
    OracleMlp("moe", MoeOps, a, g.moe, g.experts, g.active)
    \o <<Linear("moe", "router", a.hidden, g.experts)>>

OracleLayer(a, g) ==
    OracleAttention(a, g)
    \o (IF g.dense > 0 THEN OracleMlp("dense", MlpOps, a, g.dense, 1, 1) ELSE <<>>)
    \o (IF g.experts > 0 THEN OracleMoE(a, g) ELSE <<>>)

\* Score and value products as counted: a dense rectangle in a prefill.
OracleScoreFlops(g, s, bs, prefill) ==
    bs * ScoreFlopsPerKey(g) * (IF prefill THEN s * s ELSE EffCtx(g.cap, s))

\* Mutant: the head is always the embedding table.
HeadTied(a) == a.vocab * a.hidden
HeadTables(a) == (IF a.tie THEN 1 ELSE 2) * a.vocab * a.hidden
HeadFlops(a, bs) == 2 * a.vocab * a.hidden * bs

OracleTokens(s, bs, prefill) == IF prefill THEN s * bs ELSE bs

-----------------------------------------------------------------------------
(* validate_oracle.py *)

OracleComponent(tag) == IF tag = "attn" THEN "attention" ELSE "ffn"

\* _layer_type_ranges and _seg_of_layer: the group a layer falls in when the
\* groups follow one another.
SegmentOfLayer(a, i) ==
    LET ending[gi \in 0..Len(a.groups)] == IF gi = 0 THEN 0 ELSE ending[gi - 1] + a.groups[gi].count
    IN  a.groups[CHOOSE gi \in DOMAIN a.groups : ending[gi - 1] < i /\ i <= ending[gi]]

OracleKey(tag, g) ==
    <<OracleComponent(tag), IF tag = "attn" THEN AttnLabel(g) ELSE FfnLabel(g)>>

\* Every operator of every layer, at <<layer, position>>, with the key it is
\* counted under.
KeyedOperators(a) ==
    LET layers == OrderedLayerGroups(a)
    IN  [x \in UNION {{l} \X DOMAIN OracleLayer(a, layers[l]) : l \in DOMAIN layers} |->
            LET op == OracleLayer(a, layers[x[1]])[x[2]]
            IN  [key |-> OracleKey(op.tag, SegmentOfLayer(a, x[1])), op |-> op]]

ScoresUnder(a, key, s, bs, prefill) ==
    LET layers == OrderedLayerGroups(a)
    IN  Total([l \in {i \in DOMAIN layers : OracleKey("attn", SegmentOfLayer(a, i)) = key} |->
                  OracleScoreFlops(layers[l], s, bs, prefill)])

OracleBySegment(a, s, bs, prefill) ==
    LET keyed == KeyedOperators(a)
        At(key) == {x \in DOMAIN keyed : keyed[x].key = key}
    IN  [key \in {keyed[x].key : x \in DOMAIN keyed} \cup {<<"lm_head", "">>} |->
            IF key[1] = "lm_head"
            THEN [weight |-> HeadTables(a) * a.dtype, flops |-> HeadFlops(a, bs)]
            ELSE [weight |-> Total([x \in At(key) |-> keyed[x].op.params]) * a.dtype,
                  flops |-> Total([x \in At(key) |-> 2 * keyed[x].op.runs]) * OracleTokens(s, bs, prefill)
                            + ScoresUnder(a, key, s, bs, prefill)]]

OneRank(a) == [tp |-> 1, cp |-> 1, dp |-> 1, ep |-> EpDefaultEnabled(a), degree |-> None]

\* The engine's totals on one rank, at the element size of the model.
AnalyticBySegment(a, s, bs, prefill) ==
    PerTypeTotals(BuildBundle([a EXCEPT !.weightBytes = None, !.headBytes = None]), OneRank(a),
                  [s |-> s, bs |-> bs, regime |-> IF prefill THEN "prefill" ELSE "decode"])

-----------------------------------------------------------------------------
(* operator_entitlement.py *)

\* class_of: MLA folds every projection of attention into attn_qo.
ClassOf(op, isMla) ==
    CASE op \in {"q_proj", "o_proj", "q_a_proj", "q_b_proj", "kv_a_proj", "kv_b_proj"} -> "attn_qo"
      [] op \in {"k_proj", "v_proj"} -> IF isMla THEN "attn_qo" ELSE "attn_kv"
      [] op = "sdpa" -> "attn_score"
      [] op = "lm_head" -> "embed"
      [] op = "router" -> "router"
      [] op \in ToSet(MoeOps) -> "routed_experts"
      [] op \in ToSet(MlpOps) -> "dense_mlp"

\* Mutant: experts are never spread.
ShardingWithoutEp(c) == [tp |-> c.tp, cp |-> c.cp, dp |-> Greatest(c.ep, 1), ep |-> FALSE, degree |-> None]
\* shard_config: the degree EP becomes DP, and experts are spread if it is over 1.
OperatorSharding(c) ==
    [tp |-> c.tp, cp |-> c.cp, dp |-> Greatest(c.ep, 1), ep |-> c.ep > 1, degree |-> None]
CellSharding(a, c) == [OperatorSharding(c) EXCEPT !.ep = EpDefaultEnabled(a)]

SdpaPositions(g, s, prefill) == IF prefill THEN ActiveAttentionPairs(s, g.cap) ELSE EffCtx(g.cap, s)

\* operator_activation_bytes, input and output.
InterfaceBytes(op, a, g, sh, point) ==
    LET routed == op \in ToSet(MoeOps)
        known == IF routed THEN MlpOps[CHOOSE i \in DOMAIN MoeOps : MoeOps[i] = op] ELSE op
    IN  OperatorBytes(known, routed, 1, a, g, sh, point) + OperatorBytes(known, routed, 2, a, g, sh, point)

\* build_op_rows, one row of one layer; every divisor is planner.shard's.
OpRow(a, gi, c, op, flops, weight, kv) ==
    LET g == a.groups[gi]
        sh == OperatorSharding(c)
        regime == Regime(a, c.prefill)
        cls == ClassOf(op, g.hasMla)
    IN  [op |-> op, group |-> gi,
         flops |-> Share(flops, FlopDivisor(cls, sh, regime, g.cap, g.nkv, g.hasMla)),
         weight |-> IF weight = 0 THEN 0 ELSE Share(weight, WeightDivisor(cls, sh, regime, g.nkv, g.hasMla)),
         kv |-> IF kv = 0 THEN 0 ELSE Share(kv, KvCacheDivisor(sh, regime, g.cap, g.nkv, g.hasMla)),
         act |-> InterfaceBytes(op, a, g, sh, [s |-> c.s, bs |-> c.bs, regime |-> regime])]

LayerRows(a, gi, c) ==
    LET g == a.groups[gi]
        ops == OracleLayer(a, g)
        tokens == OracleTokens(c.s, c.bs, c.prefill)
        sdpa == OpRow(a, gi, c, "sdpa", ScoreFlopsPerKey(g) * SdpaPositions(g, c.s, c.prefill) * c.bs, 0,
                      KvUnitPerToken(a, g) * EffCtx(g.cap, c.s) * c.bs)
    IN  [i \in DOMAIN ops |->
            OpRow(a, gi, c, ops[i].op, 2 * ops[i].runs * tokens, ops[i].params * WElemBytes(a), 0)]
        \o <<sdpa>>

LmHeadRow(a, c) == OpRow(a, Len(a.groups), c, "lm_head", HeadFlops(a, c.bs), EmbedTableBytes(a), 0)

\* rollup_by_type: the first row of an operator and group stands for all.
Scaled(row, n) == [row EXCEPT !.flops = n * @, !.weight = n * @, !.kv = n * @, !.act = n * @]
ByType(a, c) ==
    [x \in UNION {{gi} \X DOMAIN LayerRows(a, gi, c) : gi \in DOMAIN a.groups} |->
        Scaled(LayerRows(a, x[1], c)[x[2]], a.groups[x[1]].count)]

\* reconcile: the operator sums; act is compared under per_operator only.
OperatorSum(a, c) ==
    LET rows == ByType(a, c)
        head == LmHeadRow(a, c)
    IN  [flops |-> Total([x \in DOMAIN rows |-> rows[x].flops]) + head.flops,
         weight |-> Total([x \in DOMAIN rows |-> rows[x].weight]) + head.weight,
         kv |-> Total([x \in DOMAIN rows |-> rows[x].kv]) + head.kv,
         act |-> Total([x \in DOMAIN rows |-> rows[x].act]) + head.act]

-----------------------------------------------------------------------------
(* _planner.cell_entitlement, config_entitlement.py *)

\* default_regime: the parallelism of the first row, the cells of them all.
CellOf(configs, i) ==
    [configs[i] EXCEPT !.tp = configs[1].tp, !.pp = configs[1].pp, !.cp = configs[1].cp, !.ep = configs[1].ep]

CellEntitlement(a, hw, c) == Cell(BuildBundle(a), hw, CellSharding(a, c), c.s, c.bs, c.prefill)

EntInit == asked \in Reports /\ cells = <<>> /\ checked = {} /\ failed = FALSE

Todo == Len(cells) < Len(asked.configs)
Asked == CellOf(asked.configs, Len(cells) + 1)

Raise ==
    /\ Todo /\ ~failed
    /\ asked.hw.lnc # 2 \/ Asked.pp # 1
    /\ failed' = TRUE
    /\ UNCHANGED <<asked, cells, checked>>

\* entitlement_cell_out
ReportCell ==
    /\ Todo /\ ~failed /\ asked.hw.lnc = 2 /\ Asked.pp = 1
    /\ cells' = Append(cells, [asked |-> Asked, cell |-> CellEntitlement(asked.arch, asked.hw, Asked),
                               operators |-> OperatorSum(asked.arch, Asked)])
    /\ UNCHANGED <<asked, checked, failed>>

\* validate_oracle: a decode and a prefill cell.
Validate ==
    \E prefill \in BOOLEAN :
        /\ ~failed /\ asked.configs # <<>>
        /\ prefill \notin {v.prefill : v \in checked}
        /\ LET c == asked.configs[1]
           IN  checked' = checked \cup
                 {[prefill |-> prefill, oracle |-> OracleBySegment(asked.arch, c.s, c.bs, prefill),
                   analytic |-> AnalyticBySegment(asked.arch, c.s, c.bs, prefill)]}
        /\ UNCHANGED <<asked, cells, failed>>

EntNext == Raise \/ ReportCell \/ Validate

EntSpec == EntInit /\ [][EntNext]_entVars

-----------------------------------------------------------------------------
(* Correctness. *)

\* Whether both count the routed experts' interface alike: operator_entitlement
\* spreads experts if the degree EP is over 1, the cell if the model has any.
RoutedAgree(a, c) ==
    \/ OperatorSharding(c).ep = CellSharding(a, c).ep
    \/ c.tp = 1
    \/ \A gi \in DOMAIN a.groups : a.groups[gi].experts = 0

\* The operators of a cell add up to the cell in work, weights and cache for
\* whatever parallelism is asked; in activations, which are compared under
\* per_operator, they do exactly where the two modules shard experts alike
\* (operator_entitlement.py, build_op_rows: "the per-op floors shard exactly as
\* the analytic cell does").
OperatorsDecomposeCell ==
    \A i \in DOMAIN cells :
        LET c == cells[i].cell
            sum == cells[i].operators
        IN  /\ sum.flops = c.flops /\ sum.weight = c.weight /\ sum.kv = c.kv
            /\ asked.arch.policy = "per_operator" =>
                 (sum.act = c.activation <=> RoutedAgree(asked.arch, cells[i].asked))

\* "weight bytes: oracle == analytic per segment to the byte"
\* (validate_oracle.py), and FLOPs but for the masked half of a prefill.
SegmentsMatchOracle ==
    \A v \in checked :
        /\ DOMAIN v.oracle = DOMAIN v.analytic
        /\ \A key \in DOMAIN v.analytic :
              /\ v.oracle[key].weight * Scale = v.analytic[key].weight
              /\ (v.prefill /\ key[1] = "attention") \/ v.oracle[key].flops * Scale = v.analytic[key].flops
==============================================================================
