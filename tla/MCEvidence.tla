------------------------------ MODULE MCEvidence ------------------------------
(* A campaign's policy, its experiments, its admission of evidence, and the  *)
(* tools the evidence comes from, each on an instance small enough for TLC:  *)
(* the search of a server's log, a profile run, the cache of reference       *)
(* tokens, the two first stages of equivalence; and the files the campaign   *)
(* itself is kept in.  A behaviour is one of one of them, and the others     *)
(* rest.                                                                     *)
EXTENDS LaunchLog, SmokeTest, ProfileRun, CampaignExperiments, CampaignAdmission, ModelTree, CampaignFiles

CONSTANTS c1, c2  \* configurations of a cell

VARIABLE part

\* A needle that overlaps itself, longer than a chunk.
MCNeedle == <<"a", "a", "b">>

\* Earlier launches: none, one that got ready, one that nearly did.
MCOldLogs == {<<>>, <<"a", "a", "b">>, <<"a", "a">>}

\* Three of which any two may stay, one that displaces others, one that never fits.
MCKey == 1..5
MCSize == <<1, 2, 2, 4, 7>>

MCRuns == [config : {c1, c2}, phase : {"joint"}] \cup {[config |-> c1, phase |-> "prefill"]}
MCResults == {[met |-> Legs, missed |-> {}],
              [met |-> {"throughput"}, missed |-> {}],
              [met |-> {}, missed |-> {"latency"}]}

Succeeded(c, i, run, flag, met) ==
  [capability |-> c, cites |-> i, run |-> run, accepted |-> TRUE,
   evident |-> FALSE, flag |-> flag, met |-> met, missed |-> {}]

\* A sweep of two configurations, both analyzed and the first certified.
Swept2 ==
  <<Succeeded("parallelism_plan", 0, Nothing, FALSE, {}),
    Succeeded("hardware_entitlement", 0, Nothing, TRUE, {}),
    Succeeded("profile", 0, [config |-> c1, phase |-> "joint"], FALSE, Legs),
    Succeeded("profile", 0, [config |-> c2, phase |-> "joint"], FALSE, Legs),
    Succeeded("equivalence", 3, Nothing, FALSE, {}),
    Succeeded("profile_analysis", 3, Nothing, TRUE, {}),
    Succeeded("profile_analysis", 4, Nothing, TRUE, {})>>

\* From the beginning, and from a history that the beginning leads to.
MCOpenings == {<<>>, Append(Swept2, Succeeded("nki_triage", 3, Nothing, FALSE, {}))}

\* Settings of the two configurations, and of a cell that nothing ran in.
MCBaseline == [tp |-> 2, block |-> 16, swap |-> 0]
OtherBlock == [MCBaseline EXCEPT !.block = 32]
OtherCell == [MCBaseline EXCEPT !.tp = 4]
MCSettingOf == [c \in {c1, c2} |-> IF c = c1 THEN MCBaseline ELSE OtherBlock]

\* A profile and its analysis, with time for more.
MCGrounds ==
  {<<Succeeded("parallelism_plan", 0, Nothing, FALSE, {}),
     Succeeded("hardware_entitlement", 0, Nothing, TRUE, {}),
     Succeeded("profile", 0, [config |-> c1, phase |-> "joint"], FALSE, Legs),
     Succeeded("profile_analysis", 3, Nothing, FALSE, {})>>}

\* One experiment under two names and one name for two, one for each kind of
\* work, and some that are refused.
Experiment(id, capability, axis, scope, treatment, refs, chain) ==
  [id |-> id, capability |-> capability, axis |-> axis, scope |-> scope, control |-> MCBaseline,
   treatment |-> treatment, drift |-> MCBaseline, refs |-> refs, chain |-> chain,
   run |-> [config |-> c2, phase |-> "joint"]]
MCCandidates ==
  {Experiment("x", "profile", "block", "configuration", OtherBlock, {3}, 1),
   Experiment("y", "profile", "block", "configuration", OtherBlock, {3}, 2),
   Experiment("x", "profile", "block", "configuration", OtherBlock, {3, 5}, 1),
   Experiment("x", "parallelism_plan", "tp", "capacity", OtherCell, {3}, 1),
   Experiment("z", "autoport", "source", "source", MCBaseline, {3}, 2),
   Experiment("z", "parallelism_plan", "tp", "configuration", OtherCell, {3}, 1),
   Experiment("z", "parallelism_plan", "swap", "configuration", [MCBaseline EXCEPT !.swap = 1], {3}, 1),
   [Experiment("z", "profile", "block", "configuration", OtherBlock, {3}, 1) EXCEPT !.drift = OtherBlock]}

\* A campaign for both legs with a baseline and an exact contract, one for
\* throughput alone as older campaigns are, and two that are refused.
Joint == [ask |-> "joint", legs |-> <<"throughput", "latency">>, sameWindow |-> TRUE,
          baseline |-> [tp |-> "2", torch_dtype |-> "auto"], mode |-> "optimization",
          allowed |-> {"kv_block_size"}, contract |-> TRUE, lengths |-> "short"]
MCDocuments ==
  {Joint,
   [Joint EXCEPT !.ask = "throughput", !.legs = <<"throughput">>, !.sameWindow = FALSE,
                 !.baseline = Absent, !.mode = "legacy", !.allowed = {}, !.contract = FALSE],
   [Joint EXCEPT !.allowed = {"kv_block_size", "block_size"}],
   [Joint EXCEPT !.legs = <<"latency">>]}

MCEntitled == [id |-> "c", tp |-> "2"]

Asking(c, ph, w) == [config |-> c, phase |-> ph, workload |-> w]
Plain == [config_id |-> "c", tensor_parallel_size |-> "2", weight_dtype |-> "auto"]
Blocked == [config_id |-> "c", tp |-> "2", weight_dtype |-> "auto", kv_block_size |-> "32"]
MCProfileInputs ==
  {Asking(Plain, "joint", "short"), Asking(Blocked, "joint", "long"),
   Asking([Plain EXCEPT !.tensor_parallel_size = "4"], "joint", "short")}

\* What ran in bf16 and said so, said so without a witness, ran in fp8 behind
\* an "auto", and a report of another attempt.
Ran(observed, effective, runtime) ==
  [observed |-> observed, effective |-> effective, runtime |-> runtime, mine |-> TRUE]
InBf16 == [devices |-> "d0", config_id |-> "c", tp |-> "2", weight_dtype |-> "bf16"]
InAuto == [devices |-> "d0", config_id |-> "c", tp |-> "2", weight_dtype |-> "auto", block_size |-> "32"]
InFp8 == [config_id |-> "c", tp |-> "2", weight_dtype |-> "fp8", kv_cache_dtype |-> "fp8", block_size |-> "32"]
Fp8Runtime == [weight_precision |-> "fp8", kv_precision |-> "fp8", block_size |-> "32"]
MCObservations ==
  {Ran(InBf16, Absent, [torch_dtype |-> "bfloat16"]), Ran(InBf16, Absent, Absent),
   Ran(InAuto, InFp8, Fp8Runtime), [Ran(InAuto, InFp8, Fp8Runtime) EXCEPT !.mine = FALSE]}

Sla(leg, met, w) ==
  [leg |-> leg, sla |-> TRUE, class |-> "PRIMARY_MEASURED", config_id |-> "c", met |-> met, window |-> w]
Found(metrics) ==
  [succeeded |-> TRUE, kind |-> "full_model", traced |-> TRUE, class |-> "PRIMARY_MEASURED", proxy |-> FALSE, metrics |-> metrics]
MCMeasurements ==
  {Found({Sla("latency", TRUE, "w"), Sla("throughput", TRUE, "w")}),
   [Found({Sla("throughput", TRUE, "w")}) EXCEPT !.succeeded = FALSE],
   Found({Sla("latency", FALSE, "w")}), Found({Sla("throughput", TRUE, "v")}),
   [Found({Sla("throughput", TRUE, "w")}) EXCEPT !.proxy = TRUE],
   [Found({Sla("throughput", TRUE, "w")}) EXCEPT !.class = "ANALYTIC"],
   [Found({Sla("throughput", TRUE, "w")}) EXCEPT !.kind = "reduced"]}

Held(observed, effective, reused, tokens) ==
  [observed |-> observed, effective |-> effective, workload |-> "short", reused |-> reused, tokens |-> tokens]
MCComparisons ==
  {Held(InBf16, Absent, FALSE, "gold"), Held(InBf16, Absent, TRUE, "gold"), Held(InBf16, Absent, TRUE, "off"),
   Held(InAuto, InFp8, FALSE, "gold"), Held(InAuto, InFp8, TRUE, "off"),
   Held([InBf16 EXCEPT !.tp = "1"], Absent, FALSE, "gold")}

\* Contracts that differ in the checkpoint, in the prompts, in what they ask for.
Contract(w, p) == [criterion |-> "greedy_token_exact", method |-> "hf_greedy", logits |-> FALSE,
                   checkpoint |-> w, precision |-> "bf16", prompts |-> p]
Comparing(contract, tokens) ==
  [sealed |-> TRUE, contract |-> contract, source |-> "a1", prompts |-> contract.prompts,
   task |-> [capability |-> "equivalence", contract |-> contract, source |-> "a1", run |-> "run1"],
   target |-> [prompts |-> contract.prompts, source |-> "a1", run |-> "run1", whole |-> TRUE, tokens |-> tokens]]
MCInvocations ==
  {Comparing(Contract(x[1], x[2]), x) : x \in {<<1, "p">>, <<2, "p">>, <<1, "o">>}}
  \cup {Comparing(Contract(1, "p"), <<2, "p">>),
        [Comparing(Contract(1, "p"), <<1, "p">>) EXCEPT !.sealed = FALSE],
        [Comparing(Contract(1, "p"), <<1, "p">>) EXCEPT !.target.run = "run2"],
        [Comparing(Contract(1, "p"), <<1, "p">>) EXCEPT !.contract.logits = TRUE, !.task.contract.logits = TRUE]}
MCKeyOf == [x \in {1, 2} \X {"p", "o"} |-> 2 * (x[1] - 1) + (IF x[2] = "p" THEN 1 ELSE 2)]

\* Leaves, and blocks of one or two of them; models of up to three of these.
Leaf(type) == [name |-> 0, type |-> type, children |-> <<>>]
Under(name, node) == [node EXCEPT !.name = name]
LeafKinds == {Leaf("Linear"), Leaf("Norm")}
BlockOf(kids) == [name |-> 0, type |-> "Block", children |-> kids]
Pairs(kinds) == {<<Under(n, x), Under(3 - n, y)>> : n \in {1, 2}, x \in kinds, y \in kinds}
Kinds == LeafKinds \cup {BlockOf(<<Under(n, x)>>) : n \in {1, 2}, x \in LeafKinds}
                  \cup {BlockOf(p) : p \in Pairs(LeafKinds)}
ModelOf(kids) == [name |-> 9, type |-> "Model", children |-> kids]
MCSourceModels ==
  {ModelOf(p) : p \in Pairs(Kinds)}
  \cup {ModelOf(<<Under(2, x), Under(3, y), Under(1, z)>>) : x \in Kinds, y \in Kinds, z \in {BlockOf(<<Under(1, Leaf("Linear")), Under(2, Leaf("Norm"))>>), Leaf("Linear")}}
MCTargetModels == {ModelOf(<<Under(1, BlockOf(<<Under(2, Leaf("Linear")), Under(1, Leaf("Linear"))>>)), Under(2, Leaf("Norm"))>>)}

LogRests == /\ log = <<>> /\ replaced = FALSE /\ start = 0 /\ intact = FALSE
            /\ offset = 0 /\ scan = "stopped" /\ tail = <<>> /\ remaining = 0
CacheRests == /\ lock = NoRunner /\ entries = <<>> /\ temps = {}
              /\ at = [r \in Runner |-> "out"] /\ key = [r \in Runner |-> 1]
SmokeRests == /\ weights = 1 /\ held = [k \in Key |-> NoJob] /\ job = [r \in Runner |-> NoJob]
              /\ expect = [r \in Runner |-> NoJob] /\ output = [r \in Runner |-> Failed("none")]
TreeRests == source = ModelOf(<<>>) /\ target = source /\ saved = <<>> /\ mapping = {}
RunRests == /\ phase = "decode" /\ fallback = FALSE /\ mode = "timed" /\ pc = "exit"
            /\ failure = "other" /\ server = None /\ runfile = None /\ said = {}
            /\ bench = "none" /\ result = None /\ measured = None /\ traces = {}
            /\ before = {} /\ window = None /\ cut = FALSE

AdmissionRests == campaign = Joint /\ disk = <<>> /\ admitted = <<>> /\ permit = Absent /\ closed = Absent
ExperimentsRest == offers = <<>> /\ trial = Nothing /\ ran = <<>> /\ now = 0
FilesRest == /\ made = "none" /\ events = <<>> /\ created = {} /\ step = [s \in Session |-> "idle"]
             /\ temporary = NoFile /\ exported = NoFile /\ lines = <<>>
             /\ stream = [s \in Session |-> NoFile]
             /\ promised = 0 /\ overlapped = FALSE /\ deaths = {}
PolicyRests == writable = FALSE /\ subs = <<>> /\ task = Nothing /\ attempts = 0 /\ hardware = 0

MCInit ==
  \/ part = "log" /\ LogInit /\ CacheRests /\ SmokeRests /\ RunRests /\ PolicyRests /\ ExperimentsRest /\ AdmissionRests /\ TreeRests /\ FilesRest
  \/ part = "cache" /\ CacheInit /\ LogRests /\ SmokeRests /\ RunRests /\ PolicyRests /\ ExperimentsRest /\ AdmissionRests /\ TreeRests /\ FilesRest
  \/ part = "smoke" /\ SmokeInit /\ LogRests /\ RunRests /\ PolicyRests /\ ExperimentsRest /\ AdmissionRests /\ TreeRests /\ FilesRest
  \/ part = "run" /\ RunInit /\ LogRests /\ CacheRests /\ SmokeRests /\ PolicyRests /\ ExperimentsRest /\ AdmissionRests /\ TreeRests /\ FilesRest
  \/ part = "policy" /\ PolicyInit /\ LogRests /\ CacheRests /\ SmokeRests /\ RunRests /\ ExperimentsRest /\ AdmissionRests /\ TreeRests /\ FilesRest
  \/ part = "experiments" /\ ExperimentInit /\ LogRests /\ CacheRests /\ SmokeRests /\ RunRests /\ AdmissionRests /\ TreeRests /\ FilesRest
  \/ part = "admission" /\ AdmissionInit /\ LogRests /\ CacheRests /\ SmokeRests /\ RunRests /\ PolicyRests /\ ExperimentsRest /\ TreeRests /\ FilesRest
  \/ part = "tree" /\ TreeInit /\ LogRests /\ CacheRests /\ SmokeRests /\ RunRests /\ PolicyRests /\ ExperimentsRest /\ AdmissionRests /\ FilesRest
  \/ part = "files" /\ FilesInit /\ LogRests /\ CacheRests /\ SmokeRests /\ RunRests /\ PolicyRests /\ ExperimentsRest /\ AdmissionRests /\ TreeRests

ownSmokeVars == <<weights, job, expect, held, output>>
ownExperimentVars == <<offers, trial, ran, now>>

MCNext ==
  \/ part = "log" /\ LogNext /\ UNCHANGED <<part, smokeVars, runVars, experimentVars, admissionVars, treeVars, filesVars>>
  \/ part = "cache" /\ CacheNext /\ UNCHANGED <<part, ownSmokeVars, logVars, runVars, experimentVars, admissionVars, treeVars, filesVars>>
  \/ part = "smoke" /\ SmokeNext /\ UNCHANGED <<part, logVars, runVars, experimentVars, admissionVars, treeVars, filesVars>>
  \/ part = "run" /\ RunNext /\ UNCHANGED <<part, logVars, smokeVars, experimentVars, admissionVars, treeVars, filesVars>>
  \/ part = "policy" /\ PolicyNext /\ UNCHANGED <<part, ownExperimentVars, logVars, smokeVars, runVars, admissionVars, treeVars, filesVars>>
  \/ part = "experiments" /\ ExperimentNext /\ UNCHANGED <<part, logVars, smokeVars, runVars, admissionVars, treeVars, filesVars>>
  \/ part = "admission" /\ AdmissionNext /\ UNCHANGED <<part, logVars, smokeVars, runVars, experimentVars, treeVars, filesVars>>
  \/ part = "tree" /\ TreeNext /\ UNCHANGED <<part, logVars, smokeVars, runVars, experimentVars, admissionVars, filesVars>>
  \/ part = "files" /\ FilesNext /\ UNCHANGED <<part, logVars, smokeVars, runVars, experimentVars, admissionVars, treeVars>>

MCFairSpec == /\ MCInit /\ [][MCNext]_<<part, logVars, smokeVars, runVars, experimentVars, admissionVars, treeVars, filesVars>>
              /\ LogFairness /\ CacheFairness /\ SmokeFairness /\ RunFairness

(* No tool waits for ever: a pattern that was written is found, a cache that *)
(* is held is freed, a profile run ends.                                     *)
EveryToolEnds == FoundInTheEnd /\ BusyEnds /\ RunEnds
=============================================================================
