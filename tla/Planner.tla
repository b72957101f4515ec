------------------------------- MODULE Planner -------------------------------
(***************************************************************************)
(* The parallelism planner: planner/__main__.py loads a run-spec, and      *)
(* planner/plan.py builds the grid of configurations that fit, picks the   *)
(* contexts to plan for, costs every configuration at each of them and     *)
(* selects one.  A token of the model is BucketStep-th of a bucket step;   *)
(* times are compared, never printed.                                      *)
(***************************************************************************)
EXTENDS CostEngine

CONSTANTS
    Specs,       \* the run-specs: [hf, raw, hw, sla, cli]
    TpChoices, CpChoices, DpChoices,
    BucketStep,  \* BUCKET_STEP
    NBuckets     \* N_BUCKETS

ASSUME GridAssumption ==
    /\ TpChoices \cup CpChoices \cup DpChoices \subseteq Nat \ {0}
    /\ IsFiniteSet(TpChoices) /\ IsFiniteSet(CpChoices) /\ IsFiniteSet(DpChoices)
    /\ 1 \in CpChoices /\ 1 \in DpChoices
    /\ BucketStep \in Nat \ {0} /\ NBuckets \in Nat \ {0, 1}

\* What a HuggingFace configuration, a run-spec and the flags say: sizes that
\* are there, and sizes that may be absent, which are 0.  Sliding layers among
\* full ones have a window.
Sizes == Nat \ {0}
HfConfigs ==
    [hidden : Sizes, vocab : Sizes, nq : Sizes, numLayers : Sizes, nkv : Nat, dim : Nat, inter : Nat,
     nRouted : Nat, numExperts : Nat, active : Nat, moeInter : Nat, sharedWidth : Nat, nShared : Nat,
     moeBlock : BOOLEAN, firstDense : Nat, window : Nat, layerTypes : Seq({"sliding", "full"}), globalNkv : Nat,
     globalDim : Nat, tie : BOOLEAN, maxContext : Nat, kEqV : BOOLEAN,
     mla : {<<>>} \cup [qRank : Nat, kvRank : Nat, nope : Nat, rope : Nat, vDim : Nat]]
ASSUME SpecsAssumption ==
    \A sp \in Specs :
        /\ sp.hf \in HfConfigs /\ sp.hf.firstDense <= sp.hf.numLayers
        /\ MixesAttention(sp.hf) => sp.hf.window > 0
        /\ {sp.raw.kvBytes, sp.raw.weightBytes, sp.raw.headBytes, sp.raw.usable} \subseteq Nat
        /\ sp.hw \in [te : Sizes, bw : Nat, usable : Nat, capacity : Nat, cores : Nat, lnc : Nat]
        /\ {sp.sla.itl, sp.cli.itl, sp.cli.usable} \subseteq Nat

VARIABLES
    stage,   \* how far main has come
    spec,    \* the run-spec and the flags of this invocation
    bundle,  \* ModelBundle
    grid,    \* the configurations that fit
    buckets, \* the contexts to plan for, ascending
    plan,    \* per planned context: the decode rows, the prefill rows, the pick
    frontier \* sweep_results: the decode batches below the largest one

planVars == <<stage, spec, bundle, grid, buckets, plan, frontier>>

-----------------------------------------------------------------------------
(* The bundle: the run-spec, its knobs, and the flags that override them. *)

Refused(sp) ==
    \/ ~CanParse(sp.hf) \/ ~KnobsAgree(ArchFromHf(sp.hf), sp.raw)
    \/ sp.hw.lnc # 2
    \/ sp.sla.floor # None /\ sp.sla.flat # None
    \/ sp.cli.floor # None /\ sp.cli.flat # None

ArchOf(sp) == WithKnobs(ArchFromHf(sp.hf), sp.raw)
HwOf(sp) ==
    LET hw == HwWithKnobs(sp.hw, sp.raw)
    IN  [hw EXCEPT !.usable = IF sp.cli.usable = None THEN @ ELSE sp.cli.usable]

\* A flag beats the run-spec, and a floor on the command line beats a ceiling
\* in the run-spec.  `floor` is the time one token of context is allowed.
TtftCeiling(sp, s) ==
    IF sp.cli.floor # None THEN s * sp.cli.floor
    ELSE IF sp.cli.flat # None THEN sp.cli.flat
    ELSE IF sp.sla.flat # None THEN sp.sla.flat ELSE s * sp.sla.floor
ItlCeiling(sp) == IF sp.cli.itl = None THEN sp.sla.itl ELSE sp.cli.itl

AxisChoices(sp, axis, full) == IF axis \in sp.cli.disabled THEN {1} ELSE full
EpEnabled(sp, a) == EpDefaultEnabled(a) /\ "EP" \notin sp.cli.disabled

-----------------------------------------------------------------------------
(* Memory: what fits on a rank. *)

UsableHbm(hw) == Share(hw.capacity * hw.usable, 100)

\* _activation_bytes: what is live, not what is moved.
LiveActivation(a, s, bs, prefill, cfg) ==
    IF prefill THEN Share(4 * s * bs * a.hidden * a.dtype, cfg.tp * cfg.cp)
    ELSE Share(4 * bs * a.hidden * a.dtype, cfg.tp)

Resident(totals) == Total([key \in DOMAIN totals |-> totals[key].weight + totals[key].kv])

PeakHbm(b, cfg, s, bs, prefill) ==
    Resident(PerTypeTotals(b, cfg, [s |-> s, bs |-> bs, regime |-> Regime(b.arch, prefill)]))
    + LiveActivation(b.arch, s, bs, prefill, cfg)

BsGranularity == 2

\* Mutant: what the weights take is forgotten.
MaxBsOfCache(b, hw, cfg, s, prefill) ==
    LET bs == UsableHbm(hw) \div Greatest(PeakHbm(b, cfg, s, 1, prefill) - PeakHbm(b, cfg, s, 0, prefill), 1)
    IN  bs - (bs % BsGranularity)
\* From the bytes of an empty batch and of one sequence.
Extrapolated(budget, fixed, withOne) ==
    LET perSequence == withOne - fixed
        bs == (budget - fixed) \div perSequence
    IN  IF perSequence <= 0 THEN IF fixed <= budget THEN 1 ELSE 0
        ELSE IF bs < 1 THEN 0 ELSE Greatest(bs - (bs % BsGranularity), 1)
MaxFeasibleBs(b, hw, cfg, s, prefill) ==
    Extrapolated(UsableHbm(hw), PeakHbm(b, cfg, s, 0, prefill), PeakHbm(b, cfg, s, 1, prefill))

-----------------------------------------------------------------------------
(* The grid and the contexts. *)

MinOver(a, F(_)) == Min({F(a.groups[i]) : i \in DOMAIN a.groups})
MaxQHeads(a) == MinOver(a, LAMBDA g : g.nq)
MinKvHeads(a) == MinOver(a, LAMBDA g : g.nkv)

TpIsValid(a, tp) ==
    /\ tp <= MaxQHeads(a) /\ a.vocab % tp = 0
    /\ \A i \in DOMAIN a.groups :
          LET g == a.groups[i]
          IN  g.nq % tp = 0 /\ g.dense % tp = 0 /\ (g.experts > 0 => g.moe % tp = 0)

DpChoicesOf(sp, a) == AxisChoices(sp, "DP", IF EpEnabled(sp, a) THEN DpChoices ELSE {1})

Grid(sp, b, hw) ==
    {cfg \in [tp : AxisChoices(sp, "TP", TpChoices), cp : AxisChoices(sp, "CP", CpChoices),
              dp : DpChoicesOf(sp, b.arch), ep : {EpEnabled(sp, b.arch)}, degree : {None}] :
        /\ TpIsValid(b.arch, cfg.tp) /\ cfg.tp % cfg.cp = 0
        /\ World(cfg) <= hw.cores
        /\ PeakHbm(b, cfg, 2 * BucketStep, 0, FALSE) <= UsableHbm(hw)}

\* Scale is a multiple of all that the bytes and FLOPs of a rank are divided by
\* when it decodes: then nothing of them is rounded away.
IsExact(b, cfg) ==
    LET Exact(d) == Scale % d = 0
        Nkv(s) == b.meta[s.type].nkv
        Latent(s) == b.meta[s.type].isMla
    IN  /\ Exact(cfg.tp)
        /\ \A s \in b.kvs : Exact(KvCacheDivisor(cfg, "decode", s.cap, Nkv(s), Latent(s)))
        /\ \A s \in b.weights \cup b.flops : Exact(FlopDivisor(s.cls, cfg, "decode", s.cap, Nkv(s), Latent(s)))
ASSUME ScaleIsExact ==
    \A sp \in Specs :
        LET b == BuildBundle(ArchOf(sp))
        IN  ~Refused(sp) => \A cfg \in Grid(sp, b, HwOf(sp)) : IsExact(b, cfg)

FullContext(a) == (a.maxContext \div BucketStep) * BucketStep
Candidates(a) == {s \in 2 * BucketStep..FullContext(a) : s % BucketStep = 0}

\* The i-th of NBuckets - 1 bins, evenly spaced in the logarithm; the token of
\* slack on either side only absorbs rounding.
Bin(a, i) ==
    LET n == NBuckets - 1
        lo == 2 * BucketStep
        hi == FullContext(a)
        Edge(j) == lo ^ (n - j) * hi ^ j
    IN  {s \in Candidates(a) : s < hi /\ Edge(i - 1) <= s ^ n /\ s ^ n <= Edge(i)}

\* One context per bin that still has one, bin by bin; which one of a bin is a
\* comparison of efficiencies that is left open here.
Picks(a) ==
    LET bins == 1..NBuckets - 1
        Left(pick, i) == Bin(a, i) \ {pick[j] : j \in 1..i - 1}
        inTurn == {pick \in [bins -> Candidates(a) \cup {None}] :
                      \A i \in bins : IF Left(pick, i) = {} THEN pick[i] = None ELSE pick[i] \in Left(pick, i)}
    IN  {ToSet(pick) \ {None} : pick \in inTurn}

\* The largest context is pinned last.
BucketChoices(a) ==
    IF Cardinality(Candidates(a)) <= NBuckets THEN {Candidates(a)}
    ELSE {picked \cup {FullContext(a)} : picked \in Picks(a)}

-----------------------------------------------------------------------------
(* Rows, frontiers and the selection. *)

\* Tokens per second and node, as a ratio: comparing two rows multiplies across.
NodeThroughput(r) == [num |-> r.bs, den |-> r.step * r.cores]
AtLeast(x, y) == x.num * y.den >= y.num * x.den
More(x, y) == x.num * y.den > y.num * x.den

\* decode_grid and prefill_grid: every configuration at its largest batch.
RowsAtMaxBs(b, hw, configs, s, prefill) ==
    {Cell(b, hw, cfg, s, MaxFeasibleBs(b, hw, cfg, s, prefill), prefill) :
        cfg \in {c \in configs : MaxFeasibleBs(b, hw, c, s, prefill) # 0}}

\* is_pareto: tokens per second against their latency and the cores they take;
\* is_pareto_pn: per node, where the cores no longer count.
Rate(r) == [num |-> r.bs, den |-> r.step]
Dominates(o, r) ==
    /\ AtLeast(Rate(o), Rate(r)) /\ o.step <= r.step /\ o.cores <= r.cores
    /\ More(Rate(o), Rate(r)) \/ o.step < r.step \/ o.cores < r.cores
DominatesPerNode(o, r) ==
    /\ AtLeast(NodeThroughput(o), NodeThroughput(r)) /\ o.step <= r.step
    /\ More(NodeThroughput(o), NodeThroughput(r)) \/ o.step < r.step
Pareto(rows) == {r \in rows : \A o \in rows : ~Dominates(o, r)}
ParetoPn(rows) == {r \in rows : \A o \in rows : ~DominatesPerNode(o, r)}

TtftByConfig(b, hw, configs, s) == [cfg \in configs |-> Cell(b, hw, cfg, s, 1, TRUE).step]

\* _bs_ladder
BsLadder(most) ==
    {IF x = 1 THEN 1 ELSE x - (x % BsGranularity) : x \in {1, most} \cup {y \in 2..most : \E k \in 1..8 : y = 2 ^ k}}

DecodeBsSweep(b, hw, configs, s) ==
    UNION {{Cell(b, hw, cfg, s, bs, FALSE) : bs \in BsLadder(MaxFeasibleBs(b, hw, cfg, s, FALSE))} :
              cfg \in {c \in configs : MaxFeasibleBs(b, hw, c, s, FALSE) # 0}}

\* _annotate, select_colocated, _fallback.
TtftOk(sp, ttft, r) == ttft[r.cfg] <= TtftCeiling(sp, r.s)
ItlOk(sp, r) == r.step <= ItlCeiling(sp)
Valid(sp, rows, ttft) == {r \in rows : TtftOk(sp, ttft, r) /\ ItlOk(sp, r)}

\* Mutant: the fewest cores win.
FewestCores(valid) == {r \in valid : \A o \in valid : r.cores <= o.cores}
BestOf(valid) ==
    {r \in valid : \A o \in valid :
        /\ ~More(NodeThroughput(o), NodeThroughput(r))
        /\ AtLeast(NodeThroughput(o), NodeThroughput(r)) => r.cores <= o.cores}
ClosestOf(pool, ttft) ==
    {r \in pool : \A o \in pool :
        ttft[r.cfg] < ttft[o.cfg] \/ (ttft[r.cfg] = ttft[o.cfg] /\ r.cores <= o.cores)}

\* The rows that may be selected; which of several equals, is their order.
SelectColocated(sp, rows, ttft) ==
    LET valid == Valid(sp, rows, ttft)
        itlOk == {r \in rows : ItlOk(sp, r)}
    IN  IF valid # {} THEN [met |-> TRUE, picks |-> BestOf(valid)]
        ELSE [met |-> FALSE, picks |-> ClosestOf(IF itlOk # {} THEN itlOk ELSE rows, ttft)]

-----------------------------------------------------------------------------
(* main *)

PlanInit ==
    /\ stage = "start" /\ spec \in Specs
    /\ bundle = <<>> /\ grid = {} /\ buckets = {} /\ plan = <<>> /\ frontier = <<>>

Refuse ==
    /\ stage = "start" /\ Refused(spec) /\ stage' = "refused"
    /\ UNCHANGED <<spec, bundle, grid, buckets, plan, frontier>>

Load ==
    /\ stage = "start" /\ ~Refused(spec)
    /\ bundle' = BuildBundle(ArchOf(spec))
    /\ grid' = Grid(spec, bundle', HwOf(spec))
    /\ buckets' \in BucketChoices(bundle'.arch)
    /\ stage' = "plan"
    /\ UNCHANGED <<spec, plan, frontier>>

Chosen(rows, ttft, selection) ==
    [decode |-> rows, pareto |-> Pareto(rows), paretoPn |-> ParetoPn(rows), ttft |-> ttft, met |-> selection.met, selected |-> selection.picks]
BucketPlan(rows, ttft) == Chosen(rows, ttft, SelectColocated(spec, rows, ttft))

PlanBucket ==
    /\ stage = "plan"
    /\ \E s \in buckets :
        /\ s \notin DOMAIN plan /\ \A t \in buckets \ DOMAIN plan : s <= t
        /\ plan' = [t \in DOMAIN plan \cup {s} |->
                      IF t # s THEN plan[t]
                      ELSE BucketPlan(RowsAtMaxBs(bundle, HwOf(spec), grid, s, FALSE),
                                      TtftByConfig(bundle, HwOf(spec), grid, s))]
    /\ UNCHANGED <<stage, spec, bundle, grid, buckets, frontier>>

\* sweep_results, after the plan is printed: the whole sweep goes to the file.
Sweep ==
    /\ stage = "plan" /\ DOMAIN plan = buckets
    /\ LET hw == HwOf(spec)
       IN  frontier' = [s \in buckets |->
              [decode |-> DecodeBsSweep(bundle, hw, grid, s),
               prefill |-> RowsAtMaxBs(bundle, hw, grid, s, TRUE)]]
    /\ stage' = "done"
    /\ UNCHANGED <<spec, bundle, grid, buckets, plan>>

PlanNext == Refuse \/ Load \/ PlanBucket \/ Sweep

PlanSpec == PlanInit /\ [][PlanNext]_planVars

-----------------------------------------------------------------------------
(* Correctness. *)

\* Every operation that costs a cell can: the activation records of a model
\* name the components the segments name, layer for layer, so that
\* apply_activation_records of cost.py never raises in the middle of a sweep.
SweepNeverRaises ==
    stage \in {"plan", "done"} =>
        \A cfg \in grid, s \in buckets, prefill \in BOOLEAN :
            CanCell(bundle, cfg, s, 1, prefill)

\* The batch a row is costed at fits on a rank and no larger even one does:
\* max_feasible_bs of plan.py extrapolates from one sequence.
RowFits ==
    \A s \in DOMAIN plan : \A r \in plan[s].decode :
        LET hw == HwOf(spec)
        IN  /\ PeakHbm(bundle, r.cfg, s, r.bs, FALSE) <= UsableHbm(hw)
            /\ PeakHbm(bundle, r.cfg, s, r.bs + BsGranularity, FALSE) > UsableHbm(hw)

\* "The max-bs point of each config's sweep coincides with that config's
\* decode_grid row" (decode_bs_sweep of plan.py), and the row selected for a
\* context is one of the sweep's.
SweepTopsOutAtGrid ==
    stage = "done" => \A s \in buckets :
        /\ plan[s].decode = {r \in frontier[s].decode :
                                \A o \in frontier[s].decode : o.cfg = r.cfg => o.bs <= r.bs}
        /\ plan[s].selected \subseteq frontier[s].decode

\* The largest batch of a configuration is one batch, wherever it is asked for.
BatchFits == RowFits /\ SweepTopsOutAtGrid

\* A selected configuration is announced as meeting the SLA iff some
\* configuration that fits meets both gates, and then none of those serves
\* more tokens per node: plan.py, select_colocated.  Where every one prefills
\* in time, the frontier per node, itself a part of the other one that the
\* report shows, has a row with as many.
SelectionIsBest ==
    \A s \in DOMAIN plan :
        LET rows == plan[s].decode
            serves == {r \in rows : plan[s].ttft[r.cfg] <= TtftCeiling(spec, s) /\ r.step <= ItlCeiling(spec)}
        IN  /\ plan[s].met = (serves # {})
            /\ rows # {} => plan[s].selected # {}
            /\ plan[s].paretoPn \subseteq plan[s].pareto
            /\ \A r \in plan[s].selected :
                  plan[s].met =>
                    /\ r \in serves /\ \A o \in serves : o.bs * r.step * r.cores <= r.bs * o.step * o.cores
                    /\ (\A o \in rows : TtftOk(spec, plan[s].ttft, o)) =>
                         \E o \in plan[s].paretoPn : o.bs * r.step * r.cores = r.bs * o.step * o.cores

\* A plan that is announced can be served, and none that fits serves better.
PlanIsSound == BatchFits /\ SelectionIsBest

\* Sharding never loses work: the ranks of a row hold between them all of the
\* cache, the weights and the FLOPs that entitlement_formulas.py counts for
\* the whole model, and while TP does not exceed the K/V heads no byte of the
\* cache twice ("TP <= min_kv_heads", plan.py).
NothingIsLost ==
    \A s \in DOMAIN plan : \A r \in plan[s].decode :
        LET a == bundle.arch
            cache == KvBytesTotal(a, s, r.bs) * Scale
            work == FlopsPerToken(a, s) - 2 * PhantomGlobalVprojParams(a) + 2 * a.vocab * a.hidden
        IN  /\ r.kv * r.cfg.tp >= cache
            /\ r.weight * r.cores >= CorrectedWeightBytes(a) * Scale
            /\ r.flops * r.cores >= r.bs * work * Scale
            /\ r.cfg.tp <= MinKvHeads(a) /\ (\A i \in DOMAIN a.groups : ~a.groups[i].hasMla)
                 => r.kv * r.cfg.tp = cache
==============================================================================
