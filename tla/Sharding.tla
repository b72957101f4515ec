------------------------------- MODULE Sharding -------------------------------
(***************************************************************************)
(* planner/shard.py: by how much each rank of a configuration divides the  *)
(* work of each kind.  A configuration is a record [tp, cp, dp, ep,        *)
(* degree]: `ep` says whether experts are spread, `degree` over how many   *)
(* ranks (None: over all of them).  A quantity per rank is counted in      *)
(* units of 1/Scale, with Scale a multiple of every divisor.               *)
(***************************************************************************)
EXTENDS ModelArch

CONSTANT Scale

ASSUME ScaleAssumption == Scale \in Nat \ {0}

Regimes == {"decode", "prefill", "prefill_dcp"}
IsPrefill(regime) == regime # "decode"

\* A quantity spread over d ranks.
Share(n, d) == (n * Scale) \div d

World(cfg) == cfg.tp * cfg.dp

\* ShardConfig.ep_grid: experts over ranks, and ranks within an expert.
EpDegree(cfg) == IF cfg.degree = None THEN World(cfg) ELSE cfg.degree
EpTp(cfg) == Greatest(World(cfg) \div Greatest(EpDegree(cfg), 1), 1)

HeadTp(cfg, regime) == IF regime = "prefill_dcp" THEN Greatest(cfg.tp \div cfg.cp, 1) ELSE cfg.tp
HeadDivisor(cfg, regime, heads) == Greatest(Least(HeadTp(cfg, regime), Greatest(heads, 1)), 1)
ExpertTp(cfg) == IF cfg.ep THEN EpTp(cfg) ELSE cfg.tp

ActivationWidthDivisor(axis, cfg, regime, heads) ==
    CASE axis \in {"hidden", "replicated"} -> 1
      [] axis = "heads" -> HeadDivisor(cfg, regime, heads)
      [] axis \in {"tensor_parallel", "vocab"} -> cfg.tp
      [] axis = "expert_tensor_parallel" -> ExpertTp(cfg)

ActivationRowDivisor(layout, cfg, regime) ==
    IF layout = "attention_body" /\ regime = "prefill_dcp" THEN cfg.cp ELSE 1

\* routed_expert_activation_multiplier is active / RoutedSpread.
RoutedSpread(cfg) == IF cfg.ep THEN EpDegree(cfg) ELSE 1

KvHeads(nkv, isMla) == IF isMla THEN 1 ELSE Greatest(nkv, 1)

\* cp_g: the part of CP that shortens the sequence a rank holds.
CpG(cfg, regime, cap, nkv, isMla) ==
    IF cap # None \/ regime = "prefill" THEN 1
    ELSE Least(cfg.cp, Greatest(cfg.tp \div KvHeads(nkv, isMla), 1))

WeightDivisor(cls, cfg, regime, nkv, isMla) ==
    CASE cls = "attn_qo" -> HeadTp(cfg, regime)
      [] cls = "attn_kv" -> HeadDivisor(cfg, regime, KvHeads(nkv, isMla))
      [] cls = "routed_experts" -> IF cfg.ep THEN World(cfg) ELSE cfg.tp
      [] cls = "router" -> 1
      [] cls \in {"dense_mlp", "embed"} -> cfg.tp

\* Mutant: the cache is divided by TP whatever the number of K/V heads.
KvCacheByTp(cfg, regime, cap, nkv, isMla) ==
    HeadTp(cfg, regime) * CpG(cfg, regime, cap, nkv, isMla)
KvCacheDivisor(cfg, regime, cap, nkv, isMla) ==
    HeadDivisor(cfg, regime, KvHeads(nkv, isMla)) * CpG(cfg, regime, cap, nkv, isMla)

AttentionClasses == {"attn_qo", "attn_kv", "attn_score"}

FlopDivisor(cls, cfg, regime, cap, nkv, isMla) ==
    WeightDivisor(IF cls = "attn_score" THEN "attn_qo" ELSE cls, cfg, regime, nkv, isMla)
    * (IF IsPrefill(regime) /\ cls \in AttentionClasses THEN CpG(cfg, regime, cap, nkv, isMla) ELSE 1)
==============================================================================
