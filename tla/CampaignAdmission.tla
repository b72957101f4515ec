-------------------------- MODULE CampaignAdmission --------------------------
(***************************************************************************)
(* What a campaign takes for evidence: the admission of profiles and of    *)
(* comparisons against the grant, the configurations and the reports they  *)
(* cite (contracts.py, admission.py, capabilities.py, evidence.py,         *)
(* measurement_sources.py, configuration.py, correctness.py, scope.py),    *)
(* and the verdict that rests on them, while the files of admitted         *)
(* artifacts may be rewritten between two commands.                        *)
(*                                                                         *)
(* The plan and the entitlement are accepted and nothing writes source:    *)
(* CampaignPolicy is about those.  A file is its content, and so is its    *)
(* digest.  Documents that are malformed field by field are refused and    *)
(* leave no trace; only well-formed ones are enumerated.                   *)
(***************************************************************************)
EXTENDS Naturals, Sequences, FiniteSets

CONSTANTS
  Documents,       \* campaign specifications that callers hand in
  Entitled,        \* the candidate that was planned and entitled: [id, tp]
  ProfileInputs,   \* what a profile may be asked for: [config, phase, workload]
  Observations,    \* the configuration it may report: [devices, observed, effective, runtime, mine]
  Measurements,    \* and measure: [succeeded, kind, traced, class, proxy, metrics]
  Comparisons,     \* what a comparison may report: [devices, observed, effective, workload, reused, tokens]
  MaxSubmissions,  \* bound
  Volatile,        \* bound: the types of artifacts whose files may change
  MaxRewritten,    \* bound: files that differ from what was admitted
  Absent

ASSUME AbsentAssumption == Absent \notin {"MET", "NOT_YET", "BLOCKED"}
ASSUME AskAssumption == \A d \in Documents : d.ask \in {"latency", "throughput", "joint"}
ASSUME ProxyAssumption == \A m \in Measurements : m.proxy \in BOOLEAN

VARIABLES
  campaign,  \* the validated specification
  disk,      \* the files of the artifacts: from path to content
  admitted,  \* the submissions in order; an attempt is named by its place
  permit,    \* the prepared task and its grant, or Absent
  closed     \* the finalized report, or Absent

admissionVars == <<campaign, disk, admitted, permit, closed>>

-----------------------------------------------------------------------------
(* Configurations: functions from field names to values, one level deep.    *)

AxisName(field) ==
  CASE field = "kv_block_size" -> "block_size"
    [] field = "tensor_parallel_size" -> "tp"
    [] field = "data_parallel_size" -> "dp"
    [] field \in {"torch_dtype", "weight_precision"} -> "weight_dtype"
    [] field = "compute_precision" -> "compute_dtype"
    [] field = "kv_precision" -> "kv_cache_dtype"
    [] OTHER -> field

\* Axes whose last part is in PRECISION.
PrecisionAxes == {"dtype", "weight_dtype", "compute_dtype", "kv_cache_dtype",
                  "checkpoint.dtype", "checkpoint.weight_dtype", "runtime.compute_dtype",
                  "serve.kv_cache_dtype", "runtime.kv_cache_dtype"}
Transport == {"devices", "external_reservation_id"}

ShortName(value) ==
  CASE value = "bfloat16" -> "bf16" [] value = "float16" -> "fp16"
    [] value = "float32" -> "fp32" [] OTHER -> value

Spelled(raw, field) ==
  IF AxisName(field) \in PrecisionAxes THEN ShortName(raw[field]) ELSE raw[field]

\* Two spellings of one axis with two values.
Contradictory(raw) ==
  \E f, g \in DOMAIN raw : AxisName(f) = AxisName(g) /\ Spelled(raw, f) # Spelled(raw, g)

Canonical(raw) ==
  [axis \in {AxisName(f) : f \in DOMAIN raw} |->
     Spelled(raw, CHOOSE f \in DOMAIN raw : AxisName(f) = axis)]

Named(config, axes) == {config[a] : a \in axes \cap DOMAIN config} \ {"auto"}

ConsistentPrecision(config) ==
  /\ \A axes \in {{"weight_dtype", "checkpoint.weight_dtype", "checkpoint.dtype"},
                  {"compute_dtype", "runtime.compute_dtype"},
                  {"kv_cache_dtype", "serve.kv_cache_dtype", "runtime.kv_cache_dtype"}} :
       Cardinality(Named(config, axes)) <= 1
  /\ Cardinality(Named(config, {"dtype", "compute_dtype"})) <= 1

\* What was asked for was observed; "auto" asks for any precision.
Observes(requested, observed) ==
  \A a \in DOMAIN requested :
    /\ a \in DOMAIN observed
    /\ observed[a] = requested[a] \/ (requested[a] = "auto" /\ a \in PrecisionAxes)

-----------------------------------------------------------------------------
(* The specification of the campaign. *)

Expected(ask) == IF ask = "joint" THEN {"latency", "throughput"} ELSE {ask}

Permitted(document) == {AxisName(a) : a \in document.allowed}

\* validate_campaign_spec and validate_scope.  Mode "legacy" stands for a
\* document without `optimization`; legs is a sequence, one per objective.
ValidDocument(document) ==
  /\ {document.legs[i] : i \in DOMAIN document.legs} = Expected(document.ask)
  /\ Len(document.legs) = Cardinality(Expected(document.ask))
  /\ document.sameWindow => document.ask = "joint"
  /\ document.baseline # Absent =>
       /\ ~Contradictory(document.baseline)
       /\ ConsistentPrecision(Canonical(document.baseline))
  /\ document.mode # "legacy" =>
       /\ document.baseline # Absent
       /\ Cardinality(Permitted(document)) = Cardinality(document.allowed)
       /\ Permitted(document) \cap (PrecisionAxes \cup {"model", "checkpoint", "revision"}) = {}
  /\ document.mode = "qualification_only" => document.allowed = {}

\* validate_config_permission: what the baseline fixes is asked for unchanged.
PermittedConfig(config) ==
  campaign.baseline # Absent =>
    LET baseline == Canonical(campaign.baseline)
        frozen == (DOMAIN config \cup DOMAIN baseline)
                    \ ({"config_id"} \cup Transport \cup Permitted(campaign))
    IN \A a \in frozen : a \in DOMAIN config \cap DOMAIN baseline /\ config[a] = baseline[a]

-----------------------------------------------------------------------------
(* Artifacts.  Admission reads the files; a file's content is its digest.   *)

Gone == [kind |-> "gone"]
Content(path) == IF path \in DOMAIN disk THEN disk[path] ELSE Gone

Artifact(path, type, class, content) ==
  [path |-> path, type |-> type, class |-> class, digest |-> content]

Unchanged(artifacts) == \A a \in artifacts : Content(a.path) = a.digest
Evidence == UNION {admitted[i].artifacts : i \in DOMAIN admitted}

Primary(artifacts, type) ==
  {a \in artifacts : a.type = type /\ a.class = "PRIMARY_MEASURED"}

\* Submitted files are in place when admission hashes them.
Stored(artifacts) ==
  [p \in DOMAIN disk \cup {a.path : a \in artifacts} |->
     IF \E a \in artifacts : a.path = p THEN (CHOOSE a \in artifacts : a.path = p).digest ELSE disk[p]]

-----------------------------------------------------------------------------
(* Profiles. *)

\* The configuration that a submission vouches for.
Vouched(s) == Canonical(IF s.effective = Absent THEN s.observed ELSE s.effective)
Effective(s) == LET vouched == Vouched(s) IN [a \in DOMAIN vouched \ Transport |-> vouched[a]]

\* Mutant: "auto" is an answer.
NeedsWitnessIfAbsent(requested, axis) == axis \notin DOMAIN requested

\* An axis nobody asked for, or left to the runtime.
NeedsWitness(requested, axis) ==
  axis \notin DOMAIN requested \/ requested[axis] = "auto"

\* validate_effective_config: runtime reports are about this attempt, agree
\* with what is vouched for, and witness what was not asked for.
ValidEffective(s, number) ==
  LET requested == Canonical(s.requested)
      observed == Canonical(s.observed)
      vouched == Vouched(s)
      runtime == {a \in s.artifacts : a.type = "runtime_config"}
      Reported(a) == {Canonical(r.digest.config)[a] :
                        r \in {r \in runtime : a \in DOMAIN Canonical(r.digest.config)}}
  IN /\ ConsistentPrecision(vouched)
     /\ \A a \in DOMAIN vouched \cap DOMAIN requested :
          vouched[a] = requested[a] \/ (requested[a] = "auto" /\ a \in PrecisionAxes)
     /\ \A a \in DOMAIN vouched \cap DOMAIN observed : observed[a] \in {"auto", vouched[a]}
     /\ \A r \in runtime :
          r.class = "PRIMARY_MEASURED" /\ r.digest.attempt = number /\ ~Contradictory(r.digest.config)
     /\ \A a \in UNION {DOMAIN Canonical(r.digest.config) : r \in runtime} : Cardinality(Reported(a)) = 1
     /\ \A a \in DOMAIN Effective(s) :
          /\ Reported(a) \subseteq {vouched[a]}
          /\ NeedsWitness(requested, a) /\ vouched[a] # "auto" => Reported(a) # {}
     /\ s.effective # Absent => DOMAIN requested \subseteq DOMAIN vouched

\* admit_metrics: an SLA rests on a full-model measurement by an artifact as
\* strong as the metric, and no throughput on an inter-token latency.
ValidMetric(s, m) ==
  m.sla =>
    /\ m.class = "PRIMARY_MEASURED" /\ s.kind = "full_model"
    /\ \E a \in s.artifacts :
         /\ a.type = "benchmark" /\ a.class = "PRIMARY_MEASURED"
         /\ m.leg = "throughput" => ~a.digest.proxy

\* A profile that found an SLA is held to the rules even if it did not
\* succeed (validate_prepared_submission, validate_submission_payload,
\* admit_submission).
ValidProfile(s, number) ==
  /\ \A m \in s.metrics : ValidMetric(s, m)
  /\ s.succeeded \/ (\E m \in s.metrics : m.sla) =>
       /\ s.observed["devices"] = permit.devices
       /\ s.metrics # {}
       /\ \A m \in s.metrics : m.config_id = s.requested["config_id"]
       /\ Primary(s.artifacts, "device_trace") # {}
       /\ ~Contradictory(s.observed) /\ ~(s.effective # Absent /\ Contradictory(s.effective))
       /\ Observes(Canonical(s.requested), Canonical(s.observed))
       /\ ValidEffective(s, number)

\* The last accepted profile of each cell.
IsProfile(i) == admitted[i].capability = "profile" /\ admitted[i].succeeded
CellOf(i) == <<Effective(admitted[i]), admitted[i].phase, admitted[i].workload>>
Standing ==
  LET profiles == {i \in DOMAIN admitted : IsProfile(i)}
      cell == [i \in profiles |-> CellOf(i)]
  IN {i \in profiles : \A j \in profiles : cell[j] = cell[i] => j <= i}

-----------------------------------------------------------------------------
(* Comparisons. *)

\* source_execution_identity
Identity(i) ==
  [source |-> i, config |-> Effective(admitted[i]),
   artifacts |-> {<<a.path, a.digest>> : a \in admitted[i].artifacts}]

\* reference_contract: references made under the campaign's contract.
References == {a \in Evidence : a.type = "reference_outputs"}
ValidReference(a) == a.digest.kind = "reference"

\* validate_submission_contract: what is compared is what was granted, and in
\* the configuration that the profile declared, if it declared one.
BoundToSource(s) ==
  LET source == admitted[permit.source]
  IN /\ campaign.contract => Unchanged(source.artifacts) /\ permit.identity = Identity(permit.source)
     /\ source.effective # Absent => Effective(source) = Effective(s)

\* validate_equivalence_reports, for an exact criterion: each primary report
\* cites admitted references and carries the tokens of those it cites.
HeldToReference(s) ==
  LET references == Primary(s.artifacts, "reference_outputs")
      reports == Primary(s.artifacts, "equivalence_report")
  IN /\ references # {} /\ reports # {} /\ \A a \in references : ValidReference(a)
     /\ \A r \in reports :
          /\ r.digest.identity = permit.identity
          /\ r.digest.cites # {} /\ r.digest.cites \subseteq {a.path : a \in references}
          /\ \A a \in references : a.path \in r.digest.cites => r.digest.tokens = a.digest.tokens

\* The end of validate_prepared_submission, then admit_submission.
ValidComparison(s) ==
  LET source == admitted[permit.source]
  IN /\ s.observed["devices"] = permit.devices
     /\ BoundToSource(s)
     /\ campaign.contract => HeldToReference(s)
     /\ Observes(Canonical(source.requested), Canonical(s.observed))
     /\ s.workload = source.workload

-----------------------------------------------------------------------------
(* The verdict, policy.objective_results and policy.verdict. *)

Asked == {campaign.legs[i] : i \in DOMAIN campaign.legs}
Measures(i, leg) == {m \in admitted[i].metrics : m.sla /\ m.leg = leg}
Carriers(leg) == {i \in Standing : Measures(i, leg) # {}}
Chosen(leg) == CHOOSE i \in Carriers(leg) : \A j \in Carriers(leg) : j <= i
Metric(leg) == CHOOSE m \in Measures(Chosen(leg), leg) : TRUE
Compared(i) ==
  \E j \in DOMAIN admitted : admitted[j].capability = "equivalence" /\ admitted[j].source = i

\* Without a complete verdict a report says BLOCKED.
Finding ==
  LET met == \A leg \in Asked : Metric(leg).met
  IN IF /\ \A leg \in Asked : Carriers(leg) # {}
        /\ met => \A leg \in Asked : Compared(Chosen(leg))
        /\ Cardinality({Metric(leg).config_id : leg \in Asked}) = 1
        /\ Cardinality({Effective(admitted[Chosen(leg)]) : leg \in Asked}) = 1
        /\ campaign.sameWindow =>
             LET windows == {Metric(leg).window : leg \in Asked}
             IN Absent \notin windows /\ Cardinality(windows) = 1
     THEN IF met THEN "MET" ELSE "NOT_YET"
     ELSE "BLOCKED"

\* Mutant: what the comparisons rested on is not looked at again.
ProfilesVerified ==
  \A i \in DOMAIN admitted : admitted[i].capability = "profile" => Unchanged(admitted[i].artifacts)

\* verify_artifacts
Verified == Unchanged(Evidence)

-----------------------------------------------------------------------------
(* The commands. *)

AdmissionInit ==
  /\ campaign \in {d \in Documents : ValidDocument(d)}
  /\ disk = <<>> /\ admitted = <<>> /\ permit = Absent /\ closed = Absent

Free == closed = Absent /\ permit = Absent /\ Len(admitted) < MaxSubmissions

\* validate_profile_config, validate_scope_request
GrantProfile ==
  /\ Free
  /\ \E input \in ProfileInputs :
       LET config == Canonical(input.config)
       IN /\ ~Contradictory(input.config)
          /\ PermittedConfig(config) /\ ConsistentPrecision(config)
          /\ config["config_id"] = Entitled.id /\ config["tp"] = Entitled.tp
          /\ permit' = [capability |-> "profile", input |-> input, devices |-> "d0"]
  /\ UNCHANGED <<campaign, disk, admitted, closed>>

\* Any accepted profile that stands, with its artifacts as they were; the
\* references made so far are offered again.
GrantComparison ==
  /\ Free
  /\ \E i \in Standing :
       /\ campaign.contract =>
            /\ admitted[i].workload = campaign.lengths
            /\ Unchanged(References) /\ \A a \in References : ValidReference(a)
       /\ Unchanged(admitted[i].artifacts)
       /\ permit' = [capability |-> "equivalence", source |-> i, identity |-> Identity(i), devices |-> "d0",
                     reusable |-> IF campaign.contract THEN {a.path : a \in References} ELSE {}]
  /\ UNCHANGED <<campaign, disk, admitted, closed>>

Admit(s) ==
  /\ admitted' = Append(admitted, s)
  /\ disk' = Stored(s.artifacts)
  /\ permit' = Absent
  /\ UNCHANGED <<campaign, closed>>

\* What attempt `number` hands in, of what it was asked, saw and measured.
ProfileOf(number, input, o, m) ==
  [capability |-> "profile", succeeded |-> m.succeeded,
   requested |-> input.config, phase |-> input.phase,
   workload |-> input.workload, observed |-> o.observed,
   effective |-> o.effective, kind |-> m.kind, metrics |-> m.metrics,
   artifacts |->
     {Artifact(<<number, "bench">>, "benchmark", m.class, [kind |-> "bench", proxy |-> m.proxy])}
     \cup (IF m.traced
           THEN {Artifact(<<number, "trace">>, "device_trace", "PRIMARY_MEASURED", [kind |-> "trace"])}
           ELSE {})
     \cup (IF o.runtime = Absent THEN {}
           ELSE {Artifact(<<number, "runtime">>, "runtime_config", "PRIMARY_MEASURED",
                   [kind |-> "runtime", config |-> o.runtime,
                    attempt |-> IF o.mine THEN number ELSE 0])})]

SubmitMeasured ==
  /\ closed = Absent /\ permit # Absent /\ permit.capability = "profile"
  /\ LET number == Len(admitted) + 1
     IN \E o \in Observations, m \in Measurements :
          LET s == ProfileOf(number, permit.input, o, m)
          IN ValidProfile(s, number) /\ Admit(s)

FrozenReference == [kind |-> "reference", tokens |-> "gold"]

\* With its report on the granted source goes the reference it was held to.
ComparisonOf(number, granted, c, path, content) ==
  [capability |-> "equivalence", succeeded |-> TRUE, source |-> granted.source,
   workload |-> c.workload, observed |-> c.observed, effective |-> c.effective,
   metrics |-> {},
   artifacts |->
     {Artifact(path, "reference_outputs", "PRIMARY_MEASURED", content),
      Artifact(<<number, "report">>, "equivalence_report", "PRIMARY_MEASURED",
        [kind |-> "report", identity |-> granted.identity, cites |-> {path},
         tokens |-> c.tokens])}]

\* A comparison brings its own reference, or cites one that was offered.
SubmitCompared ==
  /\ closed = Absent /\ permit # Absent /\ permit.capability = "equivalence"
  /\ LET number == Len(admitted) + 1
     IN \E c \in Comparisons :
          \E path \in IF c.reused THEN permit.reusable ELSE {<<number, "reference">>} :
            LET content == IF c.reused THEN Content(path) ELSE FrozenReference
                s == ComparisonOf(number, permit, c, path, content)
            IN content # Gone /\ ValidComparison(s) /\ Admit(s)

Withdraw ==
  /\ closed = Absent /\ permit # Absent
  /\ permit' = Absent
  /\ UNCHANGED <<campaign, disk, admitted, closed>>

\* Between two commands a file is lost, written anew or put back.
Rewrite ==
  /\ closed = Absent
  /\ \E a \in {a \in Evidence : a.type \in Volatile} :
       \E c \in {Gone, [kind |-> "reference", tokens |-> "off"], a.digest} :
         /\ c.kind = "reference" => a.type = "reference_outputs"
         /\ c # Content(a.path)
         /\ disk' = [disk EXCEPT ![a.path] = c]
         /\ Cardinality({b \in Evidence : disk'[b.path] # b.digest}) <= MaxRewritten
  /\ UNCHANGED <<campaign, admitted, permit, closed>>

\* finalize, export_report
Finish ==
  /\ closed = Absent /\ permit = Absent /\ admitted # <<>>
  /\ closed' = IF Finding = "MET" /\ ~Verified THEN "BLOCKED" ELSE Finding
  /\ UNCHANGED <<campaign, disk, admitted, permit>>

AdmissionNext ==
  \/ GrantProfile \/ GrantComparison \/ SubmitMeasured \/ SubmitCompared
  \/ Withdraw \/ Rewrite \/ Finish

AdmissionSpec == AdmissionInit /\ [][AdmissionNext]_admissionVars

-----------------------------------------------------------------------------
(* Correctness.  The two look at the verdict from its evidence. *)

Axes(raw) == DOMAIN Canonical(raw)
Asks(s, a) == a \in Axes(s.requested) /\ Canonical(s.requested)[a] # "auto"

\* "Report observed facts; never copy requested settings as observations"
\* (capabilities.py): a campaign that MET its objectives measured each in the
\* full model, in one configuration whose every axis was either asked for or
\* read from that run's own runtime; the axes the baseline froze are the
\* baseline's, and no later run of the same cell replaced a measurement.
VerdictIsWarranted ==
  closed = "MET" =>
    \E config \in {Effective(admitted[i]) : i \in DOMAIN admitted} :
      /\ \A leg \in Expected(campaign.ask) :
           \E i \in DOMAIN admitted :
             /\ IsProfile(i) /\ admitted[i].kind = "full_model" /\ Effective(admitted[i]) = config
             /\ \E m \in admitted[i].metrics :
                  m.sla /\ m.leg = leg /\ m.met /\ m.class = "PRIMARY_MEASURED"
             /\ \A a \in Primary(admitted[i].artifacts, "benchmark") :
                  Content(a.path) = [kind |-> "bench", proxy |-> FALSE] \/ leg = "latency"
             /\ \A a \in DOMAIN config :
                  \/ config[a] = "auto"
                  \/ Asks(admitted[i], a) /\ Canonical(admitted[i].requested)[a] = config[a]
                  \/ LET report == Content(<<i, "runtime">>)
                     IN /\ report # Gone /\ a \in Axes(report.config)
                        /\ report.attempt = i /\ Canonical(report.config)[a] = config[a]
             /\ \A j \in i + 1..Len(admitted) : IsProfile(j) => CellOf(j) # CellOf(i)
      /\ campaign.baseline # Absent =>
           \A a \in Axes(campaign.baseline) \ ({"config_id"} \cup Transport \cup Permitted(campaign)) :
             \/ Canonical(campaign.baseline)[a] = "auto"
             \/ config[a] = Canonical(campaign.baseline)[a]

\* "short-context checks cannot certify a longer requested context", and the
\* reference is the frozen one (capabilities.py, correctness.py): every
\* objective of a campaign that MET rests on a comparison of the run that
\* measured it, of the same workload and configuration, and under an exact
\* contract the tokens are those every comparison was held to, as they still
\* are on disk.
ComparisonsCertify ==
  closed = "MET" =>
    \A leg \in Expected(campaign.ask) :
      \E j \in DOMAIN admitted :
        LET i == admitted[j].source
        IN /\ admitted[j].capability = "equivalence"
           /\ IsProfile(i) /\ \E m \in admitted[i].metrics : m.sla /\ m.leg = leg /\ m.met
           /\ admitted[j].workload = admitted[i].workload
           /\ \A a \in DOMAIN Effective(admitted[i]) :
                Asks(admitted[i], a) => Canonical(admitted[j].observed)[a] = Effective(admitted[i])[a]
           /\ admitted[i].effective # Absent => Effective(admitted[j]) = Effective(admitted[i])
           /\ campaign.contract =>
                /\ admitted[i].workload = campaign.lengths
                /\ \A a \in References :
                     /\ Content(a.path) # Gone
                     /\ Content(a.path).tokens = "gold"
                /\ Content(<<j, "report">>).tokens = "gold"
=============================================================================
