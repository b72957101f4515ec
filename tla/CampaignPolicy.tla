---------------------------- MODULE CampaignPolicy ----------------------------
(***************************************************************************)
(* What the agents of a campaign may do next, and when the campaign has    *)
(* met its objectives (policy.py, configuration.py, failure_recovery.py):  *)
(* functions of the history of submissions.  Campaign shows that commands  *)
(* take effect one at a time; here a command is one step, and the actions  *)
(* are the ones that add to the history.                                   *)
(*                                                                         *)
(* An attempt is named by the index of its submission.  Configurations     *)
(* vary inside the one entitled cell and workload.  The ten NKI analyses   *)
(* are treated alike in the code and are one capability here.              *)
(***************************************************************************)
EXTENDS Naturals, FiniteSets, SequencesExt

CONSTANTS
  Runs,                 \* what a profile may be asked for: [config, phase]
  Results,              \* what it may find: [met, missed], sets of legs
  MaxAttempts,          \* spec.budget.max_attempts
  MaxHardwareAttempts,  \* spec.budget.max_hardware_attempts
  MaxSetbacks,          \* bound: attempts cancelled or not accepted
  MaxMore,              \* bound: submissions after an opening
  Openings,             \* histories that an instance starts from
  Nothing

Legs == {"latency", "throughput"}   \* one objective each

Writers == {"autoport", "nki_implementation"}
OnHardware == {"profile", "equivalence", "compiler_debug", "nki_implementation"}
Capabilities == Writers \cup OnHardware \cup
  {"parallelism_plan", "hardware_entitlement", "profile_analysis", "nki_triage",
   "nki_analysis"}

ASSUME ResultsAssumption ==
  Results \subseteq {r \in [met : SUBSET Legs, missed : SUBSET Legs] : r.met \cap r.missed = {}}
ASSUME BoundsAssumption ==
  {MaxAttempts, MaxHardwareAttempts, MaxSetbacks, MaxMore} \subseteq Nat

VARIABLES
  writable,  \* spec.optimization.source_write_allowed
  subs,      \* the submissions so far
  task,      \* the prepared task, or Nothing
  attempts,  \* attempts prepared so far
  hardware   \* those of them that declared hardware

policyVars == <<writable, subs, task, attempts, hardware>>

\* `cites` is the attempt the task is about, `run` what a profile measures.
Task == [capability : Capabilities, cites : Nat, run : Runs \cup {Nothing}]

\* `evident`: unsuccessful, with a failure and artifacts.  `flag` is the
\* payload's `feasible` of an entitlement, its `config_sweep` of an analysis.
Outcome == [accepted : BOOLEAN, evident : BOOLEAN, flag : BOOLEAN,
            met : SUBSET Legs, missed : SUBSET Legs]

Submission == [capability : Capabilities, cites : Nat, run : Runs \cup {Nothing},
               accepted : BOOLEAN, evident : BOOLEAN, flag : BOOLEAN,
               met : SUBSET Legs, missed : SUBSET Legs]

Devices(history) == {i \in DOMAIN history : history[i].capability \in OnHardware}

\* An attempt cites an earlier one, and what was accepted did not fail.
IsHistory(h) ==
  /\ h \in Seq(Submission)
  /\ \A i \in DOMAIN h :
       /\ h[i].cites < i
       /\ h[i].accepted => ~h[i].evident
       /\ h[i].met \cap h[i].missed = {}
       /\ h[i].capability = "profile" => h[i].run \in Runs

\* By the time of a kernel analysis its profile was compared and swept, and a
\* kernel implements an analysis of a profile that no writer came after.
ComparedBefore(h, i, p) ==
  \E e \in 1..(i - 1) : h[e].accepted /\ h[e].capability = "equivalence" /\ h[e].cites = p
SweptBefore(h, i, p) ==
  \E a \in 1..(i - 1) :
    h[a].accepted /\ h[a].capability = "profile_analysis" /\ h[a].cites = p /\ h[a].flag
IsGrounded(h) ==
  \A i \in DOMAIN h :
    /\ h[i].capability = "nki_analysis" =>
         ComparedBefore(h, i, h[i].cites) /\ SweptBefore(h, i, h[i].cites)
    /\ h[i].capability = "nki_implementation" =>
         LET analysis == h[i].cites
         IN /\ analysis \in DOMAIN h /\ h[analysis].capability = "nki_analysis"
            /\ \A j \in DOMAIN h \cap (h[analysis].cites..(i - 1)) : h[j].capability \notin Writers

\* An instance may start from any history of this kind within the budget.
MayStart(h) ==
  /\ IsHistory(h) /\ IsGrounded(h)
  /\ Len(h) <= MaxAttempts /\ Cardinality(Devices(h)) <= MaxHardwareAttempts

ASSUME OpeningsAssumption == \A h \in Openings : MayStart(h)

PolicyTypeOK ==
  /\ writable \in BOOLEAN
  /\ IsHistory(subs)
  /\ task \in Task \cup {Nothing}
  /\ attempts \in 0..MaxAttempts /\ Len(subs) <= attempts
  /\ hardware \in 0..MaxHardwareAttempts /\ hardware <= attempts

-----------------------------------------------------------------------------
(* The history. *)

Accepted(c) == {i \in DOMAIN subs : subs[i].accepted /\ subs[i].capability = c}

\* The last of a set of indices; 0, before all of them, of none.
LastOf(S) == Max(S \cup {0})
Latest(c) == LastOf(Accepted(c))

\* Mutant: an unsuccessful writer is taken to have changed nothing.
BoundaryOfAccepted ==
  LastOf(UNION {Accepted(c) : c \in Writers \cup {"parallelism_plan", "hardware_entitlement"}})

\* Even an unsuccessful writer may have changed source.
SourceBoundary ==
  LastOf({i \in DOMAIN subs :
          \/ subs[i].capability \in Writers
          \/ /\ subs[i].accepted
             /\ subs[i].capability \in {"parallelism_plan", "hardware_entitlement"}})

\* execution_identity: the last change of source before attempt i.
SourceBefore(i) == LastOf({j \in 1..(i - 1) : subs[j].capability \in Writers})

CurrentProfiles ==
  {i \in Accepted("profile") :
     /\ i > SourceBoundary
     /\ \A j \in Accepted("profile") : j > i => subs[j].run # subs[i].run}

\* Attempt i has passed equivalence.
Equivalent(i) == \E e \in Accepted("equivalence") : subs[e].cites = i

Swept(i) == \E a \in Accepted("profile_analysis") : subs[a].cites = i /\ subs[a].flag

\* Recorded failures that diagnosis may start from.
FailureSources ==
  {i \in DOMAIN subs :
     /\ subs[i].evident
     /\ subs[i].capability \in Writers \cup {"profile", "equivalence"}
     /\ i >= SourceBoundary /\ (i = SourceBoundary => subs[i].capability \in Writers)
     /\ ~\E j \in Accepted(subs[i].capability) :
           /\ j > i /\ subs[j].cites = subs[i].cites
           /\ subs[i].capability = "profile" => subs[j].run.config = subs[i].run.config}

\* The last comparison of each source, where it failed (equivalence_failures).
FailedComparisons ==
  {i \in DOMAIN subs :
     /\ subs[i].capability = "equivalence" /\ i > SourceBoundary /\ ~subs[i].accepted
     /\ \A j \in DOMAIN subs :
          j > i /\ subs[j].capability = "equivalence" => subs[j].cites # subs[i].cites}

-----------------------------------------------------------------------------
(* Legal actions. *)

Certified(P) == {i \in P : Equivalent(i)}
About(c, P) == {i \in Accepted(c) : subs[i].cites \in P}

\* With live evidence: analysis first, kernels after a certified sweep.
WithProfiles(P) ==
  {"profile", "profile_analysis"}
  \cup {c \in {"equivalence"} : P # Certified(P)}
  \cup {c \in {"parallelism_plan", "autoport", "compiler_debug"} :
          About("profile_analysis", P) # {}}
  \cup {c \in {"nki_triage", "nki_analysis", "nki_implementation"} :
          /\ \E i \in Certified(P) : Swept(i)
          /\ c = "nki_analysis" =>
               Latest("nki_triage") \in About("nki_triage", P)
          /\ c = "nki_implementation" => About("nki_analysis", P) # {}}

\* Capabilities in the order of the early returns of _legal_actions.
Stage ==
  LET plan == Latest("parallelism_plan")
      entitlement == Latest("hardware_entitlement")
      port == Latest("autoport")
  IN CASE plan = 0                  -> {"parallelism_plan"}
       [] plan > 0 /\ entitlement <= plan -> {"hardware_entitlement"}
       [] entitlement > plan /\ ~subs[entitlement].flag -> {"parallelism_plan"}
       [] OTHER ->
            IF port > entitlement /\ Latest("equivalence") <= port
            THEN {"equivalence"}
            ELSE IF CurrentProfiles = {} THEN {"profile", "autoport"}
                 ELSE WithProfiles(CurrentProfiles)

\* Mutant: a comparison that failed does not reopen the port.
OnlyDiagnosis ==
  {c \in {"compiler_debug", "parallelism_plan"} : FailureSources # {}}

\* What a recorded failure makes legal at any stage.
Recovery ==
  {c \in {"compiler_debug", "parallelism_plan"} : FailureSources # {}}
  \cup {c \in {"autoport"} : FailedComparisons # {}}

WithinBudget(c) ==
  /\ attempts < MaxAttempts
  /\ c \in OnHardware => hardware < MaxHardwareAttempts

LegalActions ==
  {c \in Stage \cup Recovery : (c \in Writers => writable) /\ WithinBudget(c)}

-----------------------------------------------------------------------------
(* Requests and submissions. *)

\* An unchanged comparison is not repeated before its failure is diagnosed.
Diagnosed(source) ==
  \A f \in FailedComparisons :
    subs[f].cites = source =>
      \E d \in Accepted("compiler_debug") : subs[d].cites = f /\ d > f

\* The profiles that kernel work may start from.
KernelProfiles == {i \in Certified(CurrentProfiles) : Swept(i)}

\* The attempts a request for c may cite (validate_action_request).  0: none,
\* or the accepted attempt of a diagnosis: nothing looks at it again, and
\* where a diagnosis is legal there is one.
Citable(c) ==
  CASE c = "profile_analysis" -> CurrentProfiles
    [] c \in {"nki_triage", "nki_analysis"} -> KernelProfiles
    [] c = "nki_implementation" -> About("nki_analysis", CurrentProfiles)
    [] c = "compiler_debug" -> {0} \cup FailureSources
    [] c = "equivalence" ->
         {i \in DOMAIN subs :
            /\ subs[i].accepted /\ Diagnosed(i)
            /\ subs[i].capability = "profile" => i \in CurrentProfiles
            /\ subs[i].capability \notin Writers =>
                 SourceBefore(i) = SourceBefore(Len(subs) + 1)}
    [] OTHER -> {0}

StartsFrom(histories) ==
  /\ subs \in histories /\ task = Nothing
  /\ writable \in BOOLEAN
  /\ (\E i \in DOMAIN subs : subs[i].capability \in Writers) => writable
  /\ attempts = Len(subs)
  /\ hardware = Cardinality(Devices(subs))

PolicyInit == StartsFrom(Openings)

PrepareTask ==
  /\ task = Nothing
  /\ \E c \in LegalActions :
       /\ \E i \in Citable(c), run \in IF c = "profile" THEN Runs ELSE {Nothing} :
            task' = [capability |-> c, cites |-> i, run |-> run]
       /\ hardware' = IF c \in OnHardware THEN hardware + 1 ELSE hardware
  /\ attempts' = attempts + 1
  /\ UNCHANGED <<writable, subs>>

Prepare ==
  /\ \E o \in Openings : IsPrefix(o, subs) /\ Len(subs) < Len(o) + MaxMore
  /\ PrepareTask

Record(accepted, evident, flag, met, missed) ==
  /\ task # Nothing
  /\ subs' = Append(subs, [capability |-> task.capability, cites |-> task.cites,
                           run |-> task.run, accepted |-> accepted,
                           evident |-> evident, flag |-> flag,
                           met |-> met, missed |-> missed])
  /\ task' = Nothing
  /\ UNCHANGED <<writable, attempts, hardware>>

\* A sweep cites profiles of the present source that differ in configuration.
MayBeSweep ==
  \E j \in Accepted("profile") :
    j > SourceBoundary /\ subs[j].run.config # subs[task.cites].run.config

SubmitProfile ==
  /\ task # Nothing /\ task.capability = "profile"
  /\ \E r \in Results : Record(TRUE, FALSE, FALSE, r.met, r.missed)

Submit ==
  /\ task # Nothing /\ task.capability # "profile"
  /\ \E flag \in BOOLEAN :
       /\ flag => \/ task.capability = "hardware_entitlement"
                  \/ (task.capability = "profile_analysis" /\ MayBeSweep)
       /\ Record(TRUE, FALSE, flag, {}, {})

\* One attempt is still open.
Setbacks == attempts - 1 - Cardinality({i \in DOMAIN subs : subs[i].accepted})

SubmitUnsuccessful ==
  /\ task # Nothing /\ Setbacks < MaxSetbacks
  /\ \E evident \in BOOLEAN : Record(FALSE, evident, FALSE, {}, {})

Cancel ==
  /\ task # Nothing /\ Setbacks < MaxSetbacks
  /\ task' = Nothing
  /\ UNCHANGED <<writable, subs, attempts, hardware>>

PolicyNext == Prepare \/ SubmitProfile \/ Submit \/ SubmitUnsuccessful \/ Cancel

PolicySpec == PolicyInit /\ [][PolicyNext]_policyVars

-----------------------------------------------------------------------------
(* The verdict. *)

\* The profile an objective is judged by: the last current one that measured it.
Selected(leg) ==
  LastOf({i \in CurrentProfiles : leg \in subs[i].met \cup subs[i].missed})

Measured == \A leg \in Legs : Selected(leg) > 0
ObjectivesMet == \A leg \in Legs : leg \in subs[Selected(leg)].met

\* "refused" is a PolicyError.  "unmeasured" stands for ANALYTIC_MISS, BLOCKED
\* and the last PolicyError.  No measurement window is asked for.
Verdict ==
  LET uncompared == ObjectivesMet /\ \E leg \in Legs : ~Equivalent(Selected(leg))
      configs == {subs[Selected(leg)].run.config : leg \in Legs}
  IN IF ~Measured THEN "unmeasured"
     ELSE IF uncompared \/ Cardinality(configs) # 1 THEN "refused"
     ELSE IF ObjectivesMet THEN "MET" ELSE "NOT_YET"

-----------------------------------------------------------------------------
(* Properties. *)

\* MET rests on the program as it is: for one configuration, each objective
\* was met by a profile that was compared afterwards and found equivalent;
\* nobody has written source, planned or entitled since, successfully or not,
\* and a later profile that missed the objective was itself measured again.
MetIsCertified ==
  Verdict = "MET" =>
    \E config \in {r.config : r \in Runs} : \A leg \in Legs :
      \E p \in DOMAIN subs :
        /\ subs[p].capability = "profile" /\ subs[p].accepted
        /\ subs[p].run.config = config /\ leg \in subs[p].met
        /\ \E e \in (p + 1)..Len(subs) :
             /\ subs[e].capability = "equivalence" /\ subs[e].accepted
             /\ subs[e].cites = p
        /\ \A i \in (p + 1)..Len(subs) :
             /\ subs[i].capability \notin Writers
             /\ subs[i].accepted =>
                  /\ subs[i].capability \notin {"parallelism_plan", "hardware_entitlement"}
                  /\ subs[i].capability = "profile" /\ leg \in subs[i].missed =>
                       \E j \in Accepted("profile") : j > i /\ subs[j].run = subs[i].run

\* A kernel is written only on evidence about the program it goes into: the
\* analysis it implements is of a profile that had been compared by the time
\* of the analysis, was part of a sweep, and was taken from this very source.
KernelWorkIsGrounded ==
  \A k \in DOMAIN subs :
    subs[k].capability = "nki_implementation" =>
      LET analysis == subs[k].cites
          p == subs[analysis].cites
      IN /\ SourceBefore(k) = SourceBefore(p)
         /\ \E e \in Accepted("equivalence") : subs[e].cites = p /\ e < analysis
         /\ \E a \in Accepted("profile_analysis") :
              subs[a].cites = p /\ subs[a].flag /\ a < analysis

\* A campaign within its budgets always has a next step: some action is
\* legal, and some request for it passes validation, whatever failed before.
SomethingCanBeDone ==
  task = Nothing /\ attempts < MaxAttempts /\ hardware < MaxHardwareAttempts =>
    \E c \in LegalActions : Citable(c) # {}
=============================================================================
