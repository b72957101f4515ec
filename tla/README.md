# Formal models of neuron-agentic-development

TLA+ models of the parts of the repository that have logic of their own: the campaign
store with its controller, policy and admission of evidence, the server lifecycle, the
tools that produce a campaign's evidence, the parallelism planner with its entitlement
reports, and the kernel library's allocators, views and kernels. TLC checks each on small
instances; TLAPS proves, for every instance, the safety of the campaign with its two
refinements, of its policy, experiments and admission, of the server lifecycle, the profile
driver, the log scan, the reference cache and the equivalence results, of the SBUF
allocators, the tilings and the kernels that move indices, and of the planner's plan.

Paths below are relative to `src/`; `nad/` stands for `src/neuron_agentic_development/` and
`nkilib/` for `skills/neuron-nki-writing/references/nkilib/core/`.

## 1. The system

The repository is a Python package with two command line tools, `neuron-campaign` and
`safe_serve`, and a set of skills: documents and scripts that an agent uses to bring up,
profile and optimize a model on Neuron hardware.

| Component | State | Operations | Who shares it |
|---|---|---|---|
| campaign event store (`nad/campaign/store.py`) | table `events` of `campaign.db`: sequence, kind, UNIQUE idempotency key, data, hash chain; the export `campaign.events.jsonl` | `create`, `append` with an expected version, `event_by_idempotency`, `state` (a fold over the events), `verify`, `export_jsonl` | any number of CLI processes |
| campaign controller and CLI (`controller.py`, `cli.py`, `progress.py`) | none of its own | `initialize`, `prepare`, `submit`, `progress`, `pause`, `resume`, `cancel`, `finalize`, `replay`; read only: `context`, `status`, `report`, `audit` | agents, and the scripts that retry for them |
| campaign policy (`policy.py`, `configuration.py`, `failure_recovery.py`, `experiments.py`, `budget.py`) | none: functions of the history | budgets, legal actions, source boundary, candidate experiments, verdict | the controller |
| contracts, admission, evidence (`contracts.py`, `admission.py`, `evidence.py`, `capabilities.py`, `correctness.py`, `scope.py`, ...) | artifact files | which documents a submission may carry, which configuration they vouch for | the controller, and whoever rewrites an artifact |
| server lifecycle (`nad/server_lifecycle.py`, `process.py`) | the runfile, its flock, the process table | launch, wait, teardown, status | sessions of agents, the profile driver, the operating system |
| readiness evidence (`server_readiness.py`) | offset and tail of a log scan | `LaunchLog.contains`, `owns_health_endpoint` | wait, and the server that writes the log |
| profile driver (`skills/neuron-framework-profiling-vllm-neuron/references/profile_run.py`, `decode_isolation.py`) | a run directory: runfile, serve log, benchmark result, traces, manifest | one run: timed attempt, decode-only fallback | server, benchmark, profiler |
| equivalence stages (`skills/neuron-framework-equivalence/scripts`) | output documents, the reference cache | stage 0: compare two module trees; stage 1: compare tokens with a pinned reference; later stages: numerical | runners of several sessions, whoever rewrites the checkpoint |
| reference cache (`reference_cache.py`) | a directory of JSON files and `.lock` | `get_or_create` | the same |
| parallelism planner (`skills/neuron-parallelism-planner/scripts`) | none: one process from configuration to plan | architecture, sharding, cost of a cell, sweep, selection, oracle validation | - |
| hardware entitlement (`skills/neuron-hardware-entitlement/scripts`) | none | entitlement per operator and per configuration, on the planner's engine | - |
| SBUF allocators (`nkilib/utils/allocator.py`, `modular_allocator.py`) | stack pointer, heap pointer, open scopes | `open_scope`, `alloc_stack`, `increment_section`, `close_scope`, `alloc_heap`, `pop_heap`, ... | one kernel, sequentially |
| tensor views and kernels (`nkilib/utils`, `nkilib/subkernels`) | on-chip buffers, shared HBM | slices, permutations, reshapes, ...; normalisation, quantization, search and flattening kernels | two NeuronCores |
| autoport validator, deployment, agents, hooks, documents, examples | files | - | - |

How they interact. The profile driver calls the server lifecycle in its own process: launch
and wait inside a `try`, teardown in its `finally`. The wait polls the readiness evidence.
An agent prepares an attempt with the campaign controller, hands the task to a native child
agent, which runs the driver, an equivalence stage, the planner or a kernel, reports
progress and submits artifacts; all of these are separate processes that share only files
and `campaign.db`. Admission reads the artifacts a submission names, policy reads the
history of admitted submissions, and the verdict rests on both.

What is hard in each, and what makes it correct:

- **Campaign.** Each command reads the state, validates against it and appends in separate
  SQLite transactions; other commands interleave, callers retry with the same idempotency
  key, processes die in between. Correct means: at most one active attempt, a key that acts
  once, budgets that hold, outcomes that are final, pauses that are neither lost nor left
  waiting, a closeout receipt that is delivered once and cites its own version; of racing
  creators one succeeds, and an export is a whole log.
- **Policy and admission.** What is allowed is a function of a long history of attempts
  that fail, are repaired, change the source or replace each other, and of files that are
  rewritten between two commands. Correct means: a verdict, a kernel and an experiment rest
  on evidence about the present program, in the configuration that was measured, witnessed
  by the run itself; and a campaign within its budgets does not get stuck.
- **Server lifecycle.** Process ids are recycled, leaders die before their workers, the
  machine reboots, commands are interrupted, and a wait holds a document that may be stale.
  A group is read by a walk over `/proc` while its members fork and exit. Correct means:
  only processes of the launch are signalled, "complete" misses at most who is forked during
  the last look and nobody after SIGKILL, a ready server can always be torn down, no launch
  takes over a runfile with recorded processes alive.
- **Readiness.** The log is written while it is read and holds earlier launches. Correct
  means: found only if this launch wrote it, found if it did.
- **Profile driver.** Two attempts share a directory; server and benchmark die on their
  own. Correct means: no server without a runfile, but for the moment of the launch itself,
  success only with this attempt's measurement and traces, a fallback only when nothing was
  armed.
- **Reference cache and stage 1.** Runners race and die, and the checkpoint directory may
  be overwritten meanwhile. Correct means: one producer, bounds that hold at every moment,
  no torn entry, a cache that does not stay busy, and a match that is a match with the
  pinned checkpoint.
- **Stage 0.** A tree is compressed by merging what looks alike. Correct means: what it
  expands to is the model, except where the code's hash forgets names.
- **Planner and entitlement.** Integer rules with many cases, several of them stated twice
  in different scripts. Correct means: no sweep ends in an exception, a plan that is
  announced fits and is the best that fits, sharding loses nothing, and the second count
  agrees with the first.
- **Allocators, views, kernels.** Any sequence of legal calls, any shape, two cores in any
  order. Correct means: no two live tensors overlap, a view addresses what its operations
  mean, a tiling covers each element once, and every element ends in its documented place.

## 2. Modules

| Module | What it is | Code |
|---|---|---|
| `CampaignState` | events, the fold over them, and for each command the events it would append to a state; no variables | `store.py` `state`; `controller.py`; `progress.py`; budget and idleness gates of `policy.py` |
| `CampaignLife` | most abstract: the phase, the attempt that runs, those that were spent | what `neuron-campaign status` shows |
| `AtomicCampaign` | abstract: a command is one step on the state it is validated against | what `controller.py` promises |
| `Campaign` | every command as a process: look up the key, read and validate, append if the version is current, finish a pause; crashes, retries | `controller.py`, `store.py` `append` |
| `CampaignProofs`, `DecisionProofs`, `ServerProofs`, `ToolProofs`, `NkilibProofs`, `IndexProofs`, `PlannerProofs`, `FoldProofs` | the proofs of section 5 | |
| `CampaignFiles` | sessions that create and that export a campaign at once, and die | `store.py` `create`, `_initialize`, `export_jsonl` |
| `CampaignPolicy` | the history of submissions: legal actions, attempts a request may cite, source boundary, recovery after failures, verdict | `policy.py`, `configuration.py`, `failure_recovery.py`, `capabilities.py`, `registry.py` |
| `CampaignExperiments` | `CampaignPolicy` with candidate experiments, their queue, fingerprints and the deadline | `experiments.py`, `budget.py`, `scope.py` |
| `CampaignAdmission` | profiles and comparisons admitted against grant, configuration, runtime report and reference, while files are rewritten | `contracts.py`, `admission.py`, `artifacts.py`, `evidence.py`, `configuration.py`, `correctness.py`, `scope.py`, `measurement_sources.py`, `workflow_guards.py`, `policy.py` |
| `ServerLifecycle` | commands as processes over one runfile; the operating system as environment | `server_lifecycle.py`, `process.py` |
| `LaunchLog` | the chunked scan of a growing log | `server_readiness.py` |
| `ProfileRun` | one run of the driver with its server, benchmark and files | `profile_run.py`, `decode_isolation.py`, `profile_measurements.py` |
| `ReferenceCache` | runners over one cache directory | `reference_cache.py` |
| `SmokeTest` | stage 1 over `ReferenceCache`, with a checkpoint that changes | `run_stage1.py` |
| `ModelTree` | stage 0: trees, compression, expansion, mapping | `stage0_scaffolding.py`, `run_stage0.py` |
| `ModelArch`, `Sharding`, `CostEngine` | the planner's engine: layers and their groups, divisors, segments, activations, bytes and time of a cell | `entitlement_formulas.py`; `planner/shard.py`, `segments.py`, `activation.py`, `cost.py`, `build.py` |
| `Planner` | the sweep: buckets, feasible batch, selection, Pareto marks | `planner/plan.py`, `build.py`, `__main__.py` |
| `Entitlement` | the oracle's layers, and the reports per operator and per configuration | `oracle_model.py`, `validate_oracle.py`, `operator_entitlement.py`, `config_entitlement.py` |
| `SbufManager` | stack, heap and scopes over one address range | `allocator.py` |
| `TensorView`, `ViewChains` | the view operations, what each means, and chains of them | `tensor_view.py` |
| `Tiling` | tiled ranges, tile records, rotating buffers | `tiled_range.py`, `tile_info.py`, `modular_allocator.py` |
| `RotatingBuffers` | `SbufManager` and `Tiling` side by side, for what both promise of buffers | |
| `NormKernels`, `NormQuantize` | the normalisation kernels on two cores, without and with MX quantization | `rmsnorm_tkg.py`, `layernorm_tkg.py`, `norm_tkg_utils.py`, `rmsnorm_mx_quantize_tkg.py` |
| `FindNonzero`, `IndexedFlatten` | the search and the flattening kernel on two cores | `find_nonzero_indices.py`, `indexed_flatten.py` |
| `IndexKernels` | the two side by side, and the calls on which flattening can agree with its reference | |
| `MC*` | instances for TLC; `MCEvidence`, `MCNkilib` and `MCPlanner` put modules that share nothing side by side, one part per behaviour | |

How state and actions correspond to the code:

- *Campaign.* `log` is the `events` table (index = sequence = version), `st` what
  `CampaignStore.state` folds from it. `pc`, `req`, `seen`, `ev` are the locals of one CLI
  process. `Lookup`, `Validate`, `Commit` and `CloseRead`, `CloseCommit` are its SQLite
  transactions; `Replay` is `event_by_idempotency` finding the key; `Conflict` is
  `ConflictError`; `Crash` is the death of the process or a refusal for reasons outside the
  store. `XEvents(s, n, r)` holds the guards of command X in the order of the code, and
  yields nothing where the code raises or returns the current state unchanged.
- *CampaignFiles.* `made` is how far `_initialize` got: `executescript` commits statement by
  statement. `temporary` and `exported` are the two names of the export and which file has
  them; a session keeps writing to the file it opened whatever became of its name.
- *CampaignPolicy.* `subs` is `state["submissions"]`, with an attempt named by its index;
  `task` is the active attempt. `Stage` follows the early returns of `_legal_actions`,
  `Recovery` adds what `failure_recovery.py` makes legal, `LegalActions` applies the source
  policy and the budgets. `Citable` is `validate_action_request`, `Verdict` is `verdict`.
  A command is one step here, which `CampaignIsAtomic` of section 5 justifies.
- *CampaignExperiments.* `offers` are the candidates of accepted analyses in order, `trial`
  the fingerprint of the task that runs, `ran` those of the past, `now` the time.
- *CampaignAdmission.* `admitted` is the history with what each submission vouches for,
  `disk` the artifact files by attempt; a digest is the content. A configuration is a
  function of axes, with the aliases that `configuration.py` canonicalizes.
- *ServerLifecycle.* `proc` is the kernel's table, `runfile` the JSON document, `lock` its
  flock; `pc` follows `launch_process`, `cmd_wait` and `cmd_teardown` from one system call
  with a consequence to the next. `_pgid_alive` and `group_members` are walks: `Probe` is
  `killpg(pgid, 0)`, which ends the look if nobody is there; `Read` is one entry of `/proc`,
  in any order; `SeenAlive`, `SeenDead` and `Listed` are what is concluded. `walk.late` is
  history, the processes forked meanwhile. `assert_group_owned` is one step, since it is
  true from the first recorded process it sees alive; so is the signal, another one.
- *LaunchLog.* `offset`, `tail` and `remaining` are the code's; `log` is the file.
- *ProfileRun.* `pc` follows `main`, `_timed_capture` or `capture`, and `arm_decode` or
  `arm_prefill`; `failure` is the exception in flight. A launch is `Popen` (`LaunchServer`),
  then `write_runfile` (`RecordLaunch`) or `_abort_launch` (`AbortLaunch`); `WriteEvidence`
  is the document that an isolated capture writes before it comes to its teardown. `window`
  and `cut` are history: the last `/start_profile`, and an interrupt amid a launch.
- *ReferenceCache, SmokeTest.* `at` follows `get_or_create` and `write_json`; `entries` are
  the `*.json` files by modification time. `weights` is what the checkpoint directory
  holds now, `job` the invocation of a runner, `expect` the identity it computed first,
  `output` the result document. The tokens of a model are named by weights and prompts.
- *ModelTree.* A tree is a record [name, type, children]; `saved` the two documents of
  stage 0, `mapping` the component mapping.
- *Planner, Entitlement.* The code is sequential, and the modules are mostly operators: a
  step is one document read, one bucket planned, one cell reported. Bytes are integers in
  units of 1/`Scale`, times are compared as exact ratios where the code uses floats.
- *SbufManager.* `stack`, `heap`, `scopes` and `held` are the manager's fields; `tensors`
  is history, the addresses that callers were given.
- *TensorView, ViewChains.* A view is the code's shape, strides and offset. `Can...` are
  its assertions; `Means...` transforms the list of addresses of the elements without any
  strides, and the run compares the two after every operation of a chain.
- *Kernels.* An element is the address it was loaded from, a normalised one also what it
  was summed over and which weight it got. The actions of a core are the tiles, rounds,
  exchanges and DMAs of the kernel; two cores interleave. Instructions of the hardware are
  modelled from how the kernels use them.

Three things the campaign does that the model keeps and a reader might not expect: a pause,
resume or finalize that finds nothing to do does not record its key; a cancellation that
completes a pause writes no `run_closed`; `progress` is accepted in a paused or finalized
campaign.

## 3. Runs

Runs that pass:

| Run | Configuration | Question | States |
|---|---|---|---|
| `campaign_races` | 2 processes, 3 tasks, 2 children, 7 keys, log of 6, budget 2/1 | the invariants of the store and of pauses, outcomes that are final, and `CampaignLife`, under every race, retry and crash | 816k |
| `campaign_closeout` | 2 processes, 1 task, after-task pauses with every other command, log of 7, fairness | the closeout receipt is delivered; `Campaign` implements `AtomicCampaign` | 65k |
| `server_races` | 3 process ids, 2 commands, 2 launches | who a complete receipt can miss, ownership of ready servers, no launch over a server that can still be torn down, a runfile that moves forward | 1.69M |
| `server_reboot` | 2 ids used twice, by strangers too, 1 command, 1 launch, 2 boots, fairness | only the launch's own processes are signalled; the lock is released | 834k |
| `evidence` | nine parts, below; fairness | what the campaign decides from its evidence, and the tools that produce it | 292k |
| `nkilib` | seven parts, below | allocators, views, tilings and kernels against what they stand for | 343k |
| `planner` | five architectures, every grid point of TP, CP, DP up to 4, 2, 2, degrees of EP 1 and 2 | the sweep, its plan, what sharding conserves, and both ways of counting | 1.8k |

The parts of `evidence`, and the property that is about each:

| Part | Instance | Property |
|---|---|---|
| log | 2 bytes, needle `aab`, chunks of 2, log of 5, three old logs | `SearchIsExact`: found only if this launch wrote it, found if it did; `EveryToolEnds` |
| cache | 2 runners, 5 references, 2 entries, 6 bytes | `CacheIsSound`: the bytes hold at every moment, entries are whole; `EveryToolEnds`: no cache stays busy |
| smoke | 2 runners, 7 invocations, weights overwritten once | `MatchedIsPinned`: a match is with the frozen checkpoint and prompts, and nothing else is cached under their identity |
| run | everything: the model is finite | `RunIsAccountable`, `FallbackOnlyUnarmed`; `EveryToolEnds` |
| policy | up to 5 more submissions after each of 2 histories, 10 attempts, 5 on hardware, 1 setback | `DecisionsAreGrounded` (verdict and kernel work), `SomethingCanBeDone` |
| experiments | 8 candidates over 4 settings, 2 units of time for work, a log of 6 | `DecisionsAreGrounded` (experiments) |
| admission | 4 campaigns, 3 requests, 4 reports, 7 measurements, 6 comparisons, 3 submissions, 1 rewritten file | `VerdictIsWarranted`, `ComparisonsCertify` |
| tree | models of two and three children, each a leaf or a block of up to two | `ScaffoldIsExact` |
| files | 2 sessions, 2 events, 2 temporary files | `StoreIsSound`: exclusive creation, whole exports |

The parts of `nkilib`: sequences of allocations in 12 bytes, requests of 1 to 4 bytes, two
scopes and three sections (`LiveTensorsDisjoint`, `BuffersKeepApart`); chains of two
operations on three base tensors (`ViewIsWhatItMeans`); tilings of up to 7, physical tiles
of up to 3 by 3 (`TilesCoverOnce`, `BuffersKeepApart`); 8 matrices in two chunk sizes, 132
flattenings (`IndicesMatchReference`); the norm kernels for every combination of layout and
sharding with 2 partitions, the quantizing one with 4 partitions and 4 to 24 tokens
(`KernelsNormalise`).

Why the bounds are enough. The campaign needs two processes for any race, two attempts for a
budget that binds, a third task and a third preparation, with a key of its own, for an
attempt beyond it, and a log long enough for prepare, pause, submission, receipt and resume
to follow each other. The shortest history that ends in MET has four submissions; the second
opening is a swept and triaged campaign, which the actions themselves reach, so that five
more submissions write a kernel, break it and repair it. Two configurations are what a sweep
and a mixed verdict need. An experiment needs one analysis that proposes it and time that
runs out while it waits; one candidate per analysis is enough for two to meet in the queue.
An admission is misled by one rewritten file or not at all, since each admission re-reads
every digest it cites. Server ids have to be used twice for recycling to matter, and a third
id gives a worker that outlives its leader while another launch runs; strangers take ids
only where these are used twice (`Strangers`), and there one launch is enough for its id to
fall to another. The third id also gives the worker that is forked while a group is walked.
The needle of the log scan overlaps itself and is longer than a chunk, so it spans chunks
and polls. The cache's sizes make each of its bounds bind alone, and one reference never
fits. Two weights and two runners let one runner cache what the other believes to be
something else. Trees of two levels are the smallest in which two blocks differ only by the
names of their children. Three sessions with three events and three files were checked once
(28 million states, no error); two show the same. SBUF requests include an odd size, so
every alignment case occurs. Views change kind (strided, broadcast, indirect) within two
operations. The quantizing kernel has halves smaller than a tile, of one tile, of several,
and with a rest. The planner's architectures are one for each way `arch_from_hf` reads a
model: uniform, dense layers before experts, sliding layers among full ones or before them,
latent attention. Tasks, children, processes and ids are symmetric wherever only safety is
checked.

`CHECK_DEADLOCK FALSE` is set where the system may stop: a server run that used up its ids,
a tool that ended, a kernel that is done, a campaign that used up its attempts.

### Disagreements that TLC shows

Each is a run that must end in a counterexample.

| Run | Statement in the repository | What the code does |
|---|---|---|
| `server_strand` | recipes do "not strand these workers" (`traps.md:100-103`) | a leader that dies before READY leaves workers that the teardown refuses to touch |
| `profile_stale_line` | arm_decode waits for the steady state (`profile_run.py:198`) | in the fallback a line of the first attempt's server arms the profiler at once |
| `sbuf_heap_align` | "centralized allocation prevents address conflicts" (`allocator.md:10`) | an aligned heap allocation overlaps the one before it |
| `tensor_two_groups` | tuples of `dst_pattern` "indicate dims to flatten" (`tensor-view.md:268`) | with two groups on the destination side other dimensions are merged |
| `oracle_segments` | "the oracle builds `g.count` layers per group in order" (`validate_oracle.py:62`) | where groups alternate, operators are counted under another group's segment |

The models follow the code in these as well; no run singles them out:

- *Server.* `_pgid_alive` says "True if any process in the group is still alive"
  (`server_lifecycle.py:38`). A worker that is forked behind the walk, by one whom the walk
  then finds dead, is missed, and a teardown may record "complete" while it lives, unless it
  looked after SIGKILL, when nobody forks. `CompleteMeansGone` says just this.
- *Profile driver.* The `finally` of a capture "Covers every exit path (bench death,
  timeout, KeyboardInterrupt, exception)" (`profile_run.py:631`; `traps.md:100-103` says the
  same). It does not cover an interrupt between `Popen` and `write_runfile`: the launch is
  aborted on `Exception` only, and a teardown without a runfile does nothing. Nor does it
  cover a failure, or an interrupt, while `decode_isolation.json` is written
  (`decode_isolation.py:131`), which comes before the inner `try`: the server stays up,
  named by its runfile. A server that crashes under load raises
  `DecodeArmingFailed`, which is documented as "the server was healthy and decoding"
  (`profile_run.py:192`).
- *Allocators.* `alloc_stack` checks for space before it aligns the pointer; `pop_heap`
  rounds, and loses up to 4 bytes per pair of calls.
- *Policy.* An equivalence of an earlier port opens the gate of the latest one
  (`policy.py:110-115`), since only its position in the history is compared; the verdict
  does not rest on that gate.
- *Experiments.* A candidate that came out positive or inconclusive stays on offer. Two
  candidates with one id from different analyses block each other, since
  `requested_experiment` needs exactly one. A candidate that the queue calls feasible may
  still be refused when its profile is validated.
- *Admission.* A profile at precision "auto" whose payload has no `effective_config` matches
  an equivalence at any precision (`admission.py:118-126`; compare `equiv-concept.md:29`). A
  comparison's declared `effective_config` is not itself witnessed. Without a contract,
  `passed` is taken on trust.
- *Store.* Two exports share one temporary file: if one dies while they overlap, the export
  may stay torn until the next one (`ExportIsWhole` says exactly when it is whole); the
  slower of two exporters fails with `FileNotFoundError`. A creator that dies leaves a
  database that `create` and every command refuse.
- *Stage 0.* `_structure_hash` ignores the names of children on compressed nodes, so that
  blocks with the same types and other names become one, and expanding the compressed tree
  loses or renames paths; `ScaffoldIsExact` says exactly when it does not.
- *Stage 1.* A death between the reference document and the result leaves an older result
  beside a newer document (the hashes that admission checks catch it). Weights that are
  overwritten and put back within one invocation are not noticed.
- *Views.* `reshape` lacks the guard of the other operations against the indexed dimension;
  a slice that starts beyond the shape has a size below one; an index on a dimension that a
  reinterpret cast resized is scaled by the base tensor's item size
  (`tensor_view.py:577-578`).
- *Quantizing kernel.* With several full tiles of tokens and a rest, the vectorised spill of
  the residual reads with the stride of N tiles per partition from a buffer that has N + 1
  (`rmsnorm_mx_quantize_tkg.py:352`), and other tokens' sums reach HBM; `QuantizedInPlace`
  states the property outside of that case.
- *Planner.* `_uniform_ffn` counts a dense MLP beside experts; a selected configuration is
  not checked to fit in prefill; `max_context` below two steps gives no buckets; the
  uniform branch takes a sliding window for a cap. `methodology.md` (about line 185) says
  the selector excludes configurations that replicate K/V; `plan.py:398-409` does not.
- *Entitlement.* `operator_entitlement.shard_config` spreads experts when EP > 1 (line 134),
  the cell whenever the model has any. At EP = 1, the default, with TP > 1 and compared
  per operator, the routed experts' activations differ by the factor TP, although "both
  sides shard routed experts identically" (128-130; also 235). `OperatorsDecomposeCell`
  says exactly when they agree (`RoutedAgree`).

## 4. Fairness

- `Campaign`: `WF(Step \/ Crash)` per process: it goes on or dies (SQLite calls have
  timeouts). `SF` of the two steps that write the receipt, and of the retry of a
  submission: a caller without an answer asks again, and is not killed or overtaken every
  single time. Without the retries a crash may lose the receipt for good.
- `ServerLifecycle`: `WF` of each command, for polls sleep a bounded time and waits have
  deadlines. Nothing is assumed of the server, the system or the caller.
- `LaunchLog`: `WF` of the reader: the loop of `cmd_wait` goes on until it returns.
- `ProfileRun`: `WF` of the driver; and of the end of the benchmark, for which
  `bench.wait()` has no deadline. That assumption is about a program outside the code.
- `ReferenceCache`, `SmokeTest`: `WF` of a runner that is inside, including the end of the
  model run inside `generate()`; nothing makes a runner begin, and it may die instead.

`evidence` states the fairness of its parts together; each constrains only its own part.

## 5. Proofs

The eight `*Proofs` modules, checked by TLAPS for every value of the constants. What they
assume of the constants is named in the modules, and TLC evaluates it on every run:

- finitely many tasks, keys that are neither `Nil` nor numbers; natural budgets and bounds;
- values for "nothing" (`None`, `Nil`, `NoFile`, `NoJob`, `NoRunner`, `Absent`) that are no
  real ones; digests of checkpoint and prompts that do not collide (`DigestAssumption`);
- a result of a run does not both meet and miss an objective (`ResultsAssumption`), a
  document asks for latency, throughput or both (`AskAssumption`), a measurement is a proxy
  or is not (`ProxyAssumption`);
- the histories that an instance of the policy starts from are such as the policy itself
  admits (`OpeningsAssumption`, `GroundsAssumption`); the empty one is. The run takes longer
  ones only to get further;
- sizes, alignments, tiles and memory ranges are natural, sizes and tiles not zero
  (`TilingAssumption`, `RangeAssumption`, ...); a chunk size divides the tokens, columns are
  even and present (`FindAssumption`), rows are equally long and have offsets
  (`FlattenAssumption`), as the kernels themselves assert or index; 1, 2 or 4 values are
  quantized into an element (the code's are 4), of positive tokens and groups in each call
  (`QuantizeAssumption`);
- finitely many choices per axis of the planner's grid, all positive (`GridAssumption`);
  run-specs whose entries are natural, those that cannot be absent positive, and with a
  window where sliding layers are among full ones (`SpecsAssumption`); and `Scale` a
  multiple of what the bytes and FLOPs of a rank are divided by when it decodes
  (`ScaleIsExact`), so that the model's integers stand for the code's exact quotients.

Three theorems have a hypothesis of their own: `Careful`, its consequence for `WellAligned`
requests, and `Mergeable`; each is discussed where it is used.

**Campaign.** `SoundState(s)` collects what is true of every projected state: it is well
typed, has at most one active attempt, a waiting pause has a task, a paused campaign's task
has a child, a final campaign has no task, budgets hold. None of these is inductive alone:
that a pause leaves no childless attempt needs that there was one attempt at most; that
finalizing leaves none needs that nothing is pending. `CampaignProofs` shows once per
command that the events it appends keep `SoundState` (`CommandKeeps`). `AtomicInv` adds
that keys are unique in the log and that receipts cite their own index.

`AtomicSafety` proves `AtomicInv` for the abstract specification. For `Campaign` this is
not enough, because a process holds an event that it computed from an older state. `IInv`
therefore says of each process that what it is about to append was legal for the log of
length `seen`; since an append requires `seen = Len(log)`, and the log only grows, the
state then is the state it validated. From `IInv` follow `CampaignTypes`,
`OneActiveAttempt`, `RetriesActOnce`, `BudgetHolds`, `ReceiptsAreExact`,
`PausesAndClosesSound`, and `CampaignIsAtomic`: every step of `Campaign` is a step of
`AtomicCampaign` or leaves the store alone.

One level up, `AtomicLives` shows that each command on a sound state is one step of
`CampaignLife` or none, event kind by event kind, and `CampaignLives` combines it with
`CampaignIsAtomic`: the racing processes implement the life of a campaign. Every safety
property of `CampaignLife`, for example that one that met its objectives is never reopened,
holds of the store. `WhatIsDecidedStays` is about what `CampaignLife` does not see, the
outcome of each attempt and the kind of each event (`OutcomesAreFinal`).

`PausesStayOrderly` relates the log to the state: each submission that completed a pause is
followed by a resumption, or the campaign is paused now. Per command, an event that records
a completed pause leaves the campaign paused, and only a resumption ends that
(`CommandKeepsPauses`). It is proved of `AtomicCampaign`, where an event is appended to the
very state it was validated against; `CampaignIsAtomic` brings it to the racing processes.

**Files of the store.** `DecisionProofs` proves `StoreIsSound` for any number of sessions,
events and temporary files (`StoreSafety`). Neither part is inductive.
`CreationIsExclusive` needs that at most one session is past the statement that makes the
table, and that the database is exactly as far as that session (`CreationInv`).
`ExportIsWhole` speaks of a file when nobody writes it; the invariant (`ExportInv`) says of
every file with a name what it will hold when all who have it open are done: either one of
them has yet to fetch the events, or the file ends as the log up to some `n` that no
finished export began after. A file opened earlier is never the one that gets the name
later, which is why `n` is late enough for whoever gives the name, even if he wrote another
file. Deaths break that promise, so that for them the invariant tracks, while no exports
overlap, what the one file holds now.

**Policy and experiments.** `DecisionProofs` proves what a verdict, a kernel and an
experiment rest on, and that a campaign within its budgets is never stuck
(`MetStaysCertified`, `KernelsStayGrounded`, `CampaignsMoveOn`, `DecisionsStayGrounded`).
The history alone is not enough: a task is prepared and submitted in two steps, and what it
cites must still be good when it is submitted. `PolicyInv` says that nothing is recorded in
between, that the task was legal on the history as it is, and that each past submission
was, on the history before it (`IsGrounded`). `ExperimentInv` adds, for every fingerprint
that ran, that the evidence it names was the present program then, and that no negative
result had the same fingerprint (`PrintStands`); every offer comes from an accepted
analysis. `CampaignsMoveOn` goes through the stages of `_legal_actions` and the repairs of
`failure_recovery.py`, and finds for each an attempt that the request may cite. The proof
of `MetStaysCertified` failed at first: a later profile that misses the objective does not
undo an earlier one that met it if it was measured again, which `MetIsCertified` now says.

**Admission.** Also in `DecisionProofs`: `VerdictsStayWarranted` and
`ComparisonsStayCertified`. `AdmittedInv` says of each submission which documents it was
admitted with, which of them were compared with what was on disk at that moment, and that
the frozen reference still had the digest it was first admitted with; `PermitInv` says what
the grant of the running task had fixed. It is not inductive to say less: files are
rewritten afterwards, so that nothing can be read off `disk` when the campaign closes.

**Server lifecycle.** `ServerProofs` proves the five safety properties of `ServerLifecycle`
for any number of commands, ids, launches and boots (`OnlyItsServer`, `ReceiptsAreTrue`,
`ReadyMeansOwned`, `NeverBack`, `OverDeadServers`). None of them says enough of the ids to
be inductive. `ServerInv` has five parts. A group has processes of one launch only
(`OsInv`), since an id is not handed out while a group has its name. What a document says
of its launch stays true (`DocInv`): whoever has the id and the start of a recorded member
is that member, because a start is used once per boot. The holder of the lock has the
runfile to itself (`CommandInv`): a launch that holds it came after whatever the runfile
describes, and found nobody left of it whom it records; a teardown has the runfile's
document in its hands. A walk has seen whoever of the launch lives and has an entry behind
it, unless he was forked since it began (`WalkInv`); whom a document records was there
before. After SIGKILL all are killed and nobody is late (`KilledInv`), which is why that
look misses nobody.
Whoever a wait reported stays recorded while he is alive (`ServedInv`). `ServerNext` has
one lemma per group of steps: processes end (`FadesKeep`), begin (`BornKeeps`), commands
look on, go on under the lock, kill, launch or write.

**Log scan.** `ToolProofs` proves `SearchIsExact` for every log, needle and chunk size
(`SearchSafety`). The invariant says what `tail` is: the last bytes read, none from before
the launch, and as many as a needle that ends later can need; so that a needle not found so
far does not end in what was read.

**Stage 1.** `ResultsArePinned` is `MatchedIsPinned` for any number of runners, invocations
and overwritings. The invariant says what a runner may expect at each step: while the model
runs, tokens of the pinned weights or of later ones; once the checkpoint was found unmoved,
those of the pinned ones, for weights do not come back. It does not need the cache's lock:
entries under one identity agree, whoever wrote them.

**Profile driver.** `EveryRunIsAccountable` and `FallbackIsUnarmed`. `RunInv` says for each
position of the driver whose server there is, what the runfile names and which attempt the
results in the directory are of: what `SuccessIsComplete` states at the exit has to be
carried through the `finally` blocks, where an exception is in flight. A run whose launch
was cut short has failed and is on its way out (`CutIsFailed`), so that the exception of
`ServerIsNamed` does not reach a success or a second attempt.

**Reference cache.** `CacheStaysSound`. The bound on bytes is about every moment, also that
between the dump and the rename, so `CacheInv` says of the runner inside, step by step, what
it may rely on: nothing is left of a dead one before it writes, what it looks for is not
cached, and from the last eviction on its document fits (`HolderInv`); and of all that died,
at most one file is left (`LeftoverInv`). The bytes are a sum over the entries; `FoldProofs`
says how a sum changes when one is added, dropped or moved.

**Allocators.** `NkilibProofs` proves for any alignments that live tensors are disjoint
(`AllocationsStayApart`) in every behaviour that is `Careful`: what is put on the stack
still fits once it is aligned (`StackFits`), and a heap request that asks for an alignment
finds the pointer at a multiple of it (`HeapAligned`). The code checks neither, and the
hypothesis is needed, as the run `sbuf_heap_align` shows for the heap.
`rmsnorm_tkg.py:365-366` asks for 32: the theorem says that this is safe just when
`heap_curr_addr` is a multiple of 32 then. Requests that are `WellAligned`, aligned to 1, 2
or 4 bytes, their size a multiple of that, as the alignment of every dtype is, are always
careful (`NaturalAllocationsStayApart`). `SharingInv` orders the heap: each allocation ends
below the one before, all above the heap pointer, all above the stack. After `pop_heap` the
pointer may be up to 4 bytes too low, which wastes them but is safe. In scopes with sections
(`IterationsStayApart`) the alignment is arbitrary: the tensor of an iteration is in the
slot of its age (`LoopInv`), and the stack pointer is at the end of the last slot filled.
`TilesStayExact` shows that tiles and subtiles partition any extent, and `TilesRotate` that
logical tiles share bytes exactly when they are the same physical tile: an address is a
mixed-radix number, whose digits are the residues of the logical index. `BuffersStayApart`
combines both allocators.

**Index kernels.** `IndexProofs`. `NonzerosAreFound`: `FindInv` says how far each column is
searched at each step of a core (`Reach`), that the output has the column's positions below
that, in order, and that the running offset is their number; so that the next chunk, padding
included, is written where the list ends, and no store reaches another core's columns.
`FlattensLikeTheReference`: the buffer of a core has on each block what the last of its rows
so far wrote there, and what it sent is complete (`FlattenInv`). The kernel merges the two
buffers by maximum where the reference lets the later row overwrite the earlier one; the
two agree on the calls that are `Mergeable`: on a block that both cores write, the later
row's value is the larger, no value is below the padding, and rows have at most a million
blocks, so that `InvalidOffset` keeps a row out of the output. Expert indices packed row by
row with padding -1, as the search leaves them, are of this kind; TLC evaluates that for the
run's 132 calls (`MergeableAssumption`). `IndicesStayRight` puts both kernels together.

**Quantizing kernel.** `QuantizedIsInPlace` is `QuantizedInPlace`, also in `NkilibProofs`.
`QuantInv` says for each core how many tokens of its half it is through (`Progress`), that
it has their sums, rows and packs in place, that what it shipped is its whole half, that
what it took on a pipe is the other's, and that all of its sums are transposed before any
is spilled. A tile changes only the rows of its own tokens, a `Take` only those of the other
half, and a spill only its own half of the output, so that each step leaves what the other
core, or an earlier step, has promised.

The addresses of the spill are numbers of three digits, partition, tile and position, read
in one order and written in another; that no two elements meet is that such a number has its
digits in one way only (`ThreeDigits`, `TurnedPlace`, `ColumnPlace`). `TokenTile` always
divides the tokens it tiles, whether a power of two fits or not, so that the last tile is
whole. The proof needs the exception of the property in one place, `SpillFull`: with several
full tiles and a rest the pattern of the DMA has not the digits of the buffer (section 3).

**Planner.** `PlannerSound` is `PlanIsSound` for every run-spec, grid and machine. The state
says little, since a plan is computed in a few steps; the invariant (`PlanInv`) says that
the bundle and the grid are those of the run-spec, that the contexts are positive and
finitely many, and that each planned row and each swept row is the cell of its
configuration, context and batch. Most of the proof is about cost. That a row is feasible
and no larger even batch is rests on the peak memory of a cell being affine in the batch
(`PeakGrowsBy`): `max_feasible_bs` extrapolates from the empty batch and one sequence, and
that is right because each summand, the bytes of K/V of each kind of layer through its
division by the ranks, and the live activation, grows by the same amount with each sequence.
This is where `ScaleIsExact` is used; with bytes rounded per sequence it would not hold.
That the sweep tops out at the row of the plan needs the ladder of batches to be finite and
to contain its largest. That the selection is the best, and that the frontier per node
reaches it, is that throughput per node is a ratio of positive numbers, an order in which a
finite set of rows has a maximum.

`SweepsRun` is `SweepNeverRaises`: `apply_activation_records` finds the key of each record
among the segments' totals, and the layers that the records of a key represent are those
that the totals say. Both are counted on their own. On the side of the segments, a piece
that all groups under a label have spans all their layers, and none spans more
(`AttentionLayers`, `FfnLayers`); that there is such a piece is because groups under one
label are alike (`ArchIsRegular`, of every configuration that can be parsed). On the side of
the activations, a layer has one instance per key at most (`IsBody`), so the records of a
key, added up instance by instance, count each of its layers once (`LayersCounted`); that an
FFN has one just where the segments do is because its first operator reads bytes that no
division rounds to nothing. Without a window, sliding and full layers would carry one
label, and unlike groups under it would make the code raise: that is what `SpecsAssumption`
excludes.

`WorkIsConserved` is `NothingIsLost`: the cores of a row hold between them at least the
whole cache and all weights and do at least the work of the batch. `merge_segments` keeps
segments by key and the code's own totals go by layer, so the segments are first brought to
sums over groups of layers: a merged segment stands for each of its groups as often as that
has layers, and exchanging the two sums (`MergeHolds`) gives every group what its pieces
hold. Then per segment: no divisor exceeds the ranks that the segment is spread over
(`CacheDivisor`, `WeightsDivisor`, `StepDivisor`), and a share that is divided exactly, as
`ScaleIsExact` has it, covers the segment when as many ranks hold it (`SharesAddUp`). The
cache is held exactly once while no group has fewer K/V heads than TP, since then no head is
replicated; under MLA there is a single latent head, which every rank has.

`FoldProofs` has what the others need of the community modules' folds. The library's
induction theorems take an operator as a parameter, which the provers cannot instantiate;
here induction is the absence of a smallest counterexample, stated of sets.

Only model-checked:

- liveness and whatever needs `ENABLED`: `EveryToolEnds`, delivery of the receipt, release
  of the lock. TLAPS does not reason about fairness.
- `ScaffoldIsExact`: trees are recursive, and so are the operators of `ModelTree`, which
  the prover does not support.
- `OperatorsDecomposeCell`, `SegmentsMatchOracle`: sums over the segments regrouped by
  operator.
- `KernelsNormalise` as a whole: its half `QuantizedInPlace` is proved, `NormalisedInPlace`
  is not. The loads of `NormKernels` go through views of `TensorView`, whose addresses are
  products over as many dimensions as a view has.
- `ViewIsWhatItMeans`, for the same reason.

## 6. Not modelled

- The hash chain of the store and `verify`: no step of the program alters a stored event.
- The validation of documents field by field: malformed ones are refused and leave no
  trace. In `CampaignAdmission`, criteria other than exact tokens, the admission of claims,
  sweeps and the other capabilities; an admission is one step with respect to the files.
- In `CampaignPolicy`, measurement windows and changes of the entitled cell;
  `kernel_evidence.py` with its dispatch fingerprints; `ANALYTIC_MISS` and `BLOCKED` are one
  verdict, "unmeasured", with the refusal that ends `verdict`. The ten NKI analyses are one
  capability. In `CampaignExperiments` an attempt stands for the digests of its artifacts.
- `owns_health_endpoint`: a nondeterministic observation of `ServerLifecycle`.
- `use_auto_alloc`, which hands out no addresses. Kernels are assumed to use multi-buffered
  scopes the documented way, the same allocation in every iteration.
- Arithmetic on elements, in kernels and equivalence metrics; the equivalence stages after
  the first and the adapters, which compare floating-point tensors and drive engines;
  efficiency tables, interpolation and plots of the planner; `hbm_attribution.py`.
- The autoport validator: one sequential process around an external compiler. Deployment:
  copies and removes files once. Documents, prompts, hooks, examples, templates.

In `ServerLifecycle` workers do not leave their session, and the kernel does not recycle the
id of a group that a command has found to be its own before the command's next call has
signalled that group, or its walk has listed it: ids are handed out in turn. In
`ReferenceCache` modification times are distinct. In `SmokeTest` overwritten weights do not
come back, a directory is read at one instant, and an output that holds a comparison is not
written again. In `CampaignFiles` a line is written at once, and an export holds the lines
it was given, in order.

## 7. Plan

Done: all modules of section 2, and the proofs of section 5. What is left are proofs:

1. `OperatorsDecomposeCell` and `SegmentsMatchOracle`, over the lemmas of `WorkIsConserved`.
2. `ViewIsWhatItMeans`: strides and offset of a view against the list of addresses, with a
   lemma per operation on mixed-radix numbers as in `NkilibProofs`.
3. `NormalisedInPlace` of `NormKernels`, over these lemmas: the same shape of invariant as
   the quantizing kernel's, per core and step.
