------------------------------- MODULE MCPlanner -------------------------------
(* Models and machines small enough for TLC, one per way a HuggingFace       *)
(* configuration is read: uniform, dense before experts, sliding among full  *)
(* attention, latent attention.                                              *)
EXTENDS Planner, Entitlement

CONSTANTS
    PlanModels,   \* the models the planner is run on
    ReportModels, \* the models the entitlement reports are made for
    Dcps,         \* values of apply_prefill_dcp
    Degrees       \* degrees of expert parallelism asked of a report

Base == [hidden |-> 4, vocab |-> 8, nq |-> 4, nkv |-> 2, dim |-> 2, numLayers |-> 2, inter |-> 4,
         nRouted |-> 0, numExperts |-> 0, active |-> 0, moeInter |-> 0, sharedWidth |-> 0, nShared |-> 0,
         moeBlock |-> FALSE, firstDense |-> 0, window |-> 0, layerTypes |-> <<>>, globalNkv |-> 0,
         globalDim |-> 0, tie |-> FALSE, maxContext |-> 12, kEqV |-> FALSE, mla |-> <<>>]

HfOf(name) ==
    CASE name = "dense" -> Base
      [] name = "hybrid" -> [Base EXCEPT !.nRouted = 4, !.active = 2, !.moeInter = 4, !.nShared = 1, !.firstDense = 1,
                                         !.numLayers = 3, !.maxContext = 9]
      [] name = "interleaved" -> [Base EXCEPT !.layerTypes = <<"sliding", "full", "sliding">>, !.window = 3, !.numLayers = 3,
                                              !.globalNkv = 1, !.globalDim = 4, !.kEqV = TRUE, !.tie = TRUE]
      [] name = "contiguous" -> [Base EXCEPT !.layerTypes = <<"sliding", "sliding", "full">>, !.window = 3, !.numLayers = 3,
                                             !.globalNkv = 1, !.numExperts = 2, !.active = 1, !.moeBlock = TRUE, !.kEqV = TRUE,
                                             !.moeInter = 4]
      [] name = "latent" -> [Base EXCEPT !.mla = [qRank |-> 2, kvRank |-> 2, nope |-> 1, rope |-> 1, vDim |-> 2],
                                         !.nkv = 4, !.tie = TRUE, !.maxContext = 7]

Knobs == [kvBytes |-> 0, weightBytes |-> 0, headBytes |-> 0, dcp |-> FALSE, policy |-> "component_boundary",
          usable |-> 0, fp8 |-> FALSE]
Raws == {[Knobs EXCEPT !.dcp = dcp, !.policy = policy] : dcp \in Dcps, policy \in {"component_boundary", "per_operator"}}
        \cup {[Knobs EXCEPT !.weightBytes = 1, !.headBytes = 2, !.fp8 = TRUE, !.kvBytes = 1]}

Machine == [te |-> 2, bw |-> 1, usable |-> 90, capacity |-> 900, cores |-> 8, lnc |-> 2]
NoFlags == [floor |-> 0, flat |-> 0, itl |-> 0, usable |-> 0, disabled |-> {}]

MCSpecs ==
    {[hf |-> HfOf(name), raw |-> raw, hw |-> Machine, sla |-> [floor |-> 60000, flat |-> 0, itl |-> 90000], cli |-> cli] :
        name \in PlanModels, raw \in Raws,
        cli \in {NoFlags, [NoFlags EXCEPT !.disabled = {"CP"}, !.flat = 400000, !.usable = 60]}}
    \cup {[hf |-> HfOf("hybrid"), raw |-> Knobs, hw |-> [Machine EXCEPT !.cores = 4], sla |-> [floor |-> 1, flat |-> 0, itl |-> 1],
           cli |-> [NoFlags EXCEPT !.disabled = {"EP"}]],
          [hf |-> HfOf("dense"), raw |-> Knobs, hw |-> [Machine EXCEPT !.lnc = 1], sla |-> [floor |-> 1, flat |-> 0, itl |-> 1],
           cli |-> NoFlags]}

ArchWith(name, raw) == WithKnobs(ArchFromHf(HfOf(name)), raw)
Row(tp, cp, ep, s, bs, prefill) ==
    [tp |-> tp, pp |-> 1, cp |-> cp, ep |-> ep, s |-> s, bs |-> bs, prefill |-> prefill]
MCReports ==
    {[arch |-> a, hw |-> Machine,
      configs |-> <<Row(tp, cp, ep, 4, 2, FALSE), Row(1, 1, 1, 5, 1, TRUE), Row(1, 1, 1, 2, 3, TRUE)>>] :
        a \in {ArchWith(x[1], x[2]) : x \in {y \in ReportModels \X Raws : KnobsAgree(ArchFromHf(HfOf(y[1])), y[2])}},
        tp \in {2, 4}, cp \in {1, 2}, ep \in Degrees}
    \cup {[arch |-> ArchWith("dense", Knobs), hw |-> Machine, configs |-> <<[Row(2, 1, 1, 4, 1, TRUE) EXCEPT !.pp = 2]>>]}

Idle == [plan |-> CHOOSE sp \in MCSpecs : sp.hw.lnc = 1, report |-> [arch |-> <<>>, hw |-> Machine, configs |-> <<>>]]

\* One invocation at a time: the planner, or a report.
MCInit ==
    \/ /\ PlanInit
       /\ asked = Idle.report /\ cells = <<>> /\ checked = {} /\ failed = FALSE
    \/ /\ EntInit
       /\ spec = Idle.plan /\ stage = "idle" /\ bundle = <<>> /\ grid = {} /\ buckets = {} /\ plan = <<>> /\ frontier = <<>>
MCNext == (PlanNext /\ UNCHANGED entVars) \/ (EntNext /\ UNCHANGED planVars)
MCSpec == MCInit /\ [][MCNext]_<<planVars, entVars>>
==============================================================================
