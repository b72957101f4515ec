-------------------------- MODULE CampaignExperiments --------------------------
(***************************************************************************)
(* Experiments of a campaign (experiments.py, budget.py): an analysis of a *)
(* profile may propose one, the queue offers what is still worth trying in *)
(* the time that is left, and a task prepared for one carries its          *)
(* fingerprint, by which a negative result is remembered.                  *)
(*                                                                         *)
(* A setting is what a configuration amounts to: a function of axes.  The  *)
(* artifacts of two attempts differ, so attempts stand for their digests.  *)
(***************************************************************************)
EXTENDS CampaignPolicy

CONSTANTS
  Candidates,   \* what analyses propose
  SettingOf,    \* of the configuration of each run
  Baseline,     \* the setting of baseline_identity
  AllowedAxes,  \* optimization.allowed_axes
  WorkTime,     \* the deadline less the reserve for the closeout
  Grounds,      \* histories that an instance starts from
  MaxTried      \* bound: submissions

ASSUME TimeAssumption == {WorkTime, MaxTried} \subseteq Nat
ASSUME GroundsAssumption == \A h \in Grounds : MayStart(h)

VARIABLES
  offers,  \* per submission, the candidate in its payload, or Nothing
  trial,   \* the fingerprint in the prepared task, or Nothing
  ran,     \* per submission: [of, negative], the fingerprint in its task
  now      \* the time

experimentVars == <<policyVars, offers, trial, ran, now>>

Remaining == WorkTime - now

-----------------------------------------------------------------------------
(* validate_candidate *)

CapacityAxes == {"dp", "tp", "max_num_seqs", "concurrency"}

Changed(c) ==
  {axis \in DOMAIN c.control \cup DOMAIN c.treatment :
     axis \in DOMAIN c.control /\ axis \in DOMAIN c.treatment => c.control[axis] # c.treatment[axis]}

\* validate_config_permission
MayBeSet(setting) ==
  \A axis \in (DOMAIN setting \cup DOMAIN Baseline) \ AllowedAxes :
    axis \in DOMAIN setting \cap DOMAIN Baseline /\ setting[axis] = Baseline[axis]

VariesOneThing(c) ==
  /\ c.drift = c.control
  /\ IF c.capability \in Writers
     THEN c.axis = "source" /\ Changed(c) = {} /\ c.scope = "source"
     ELSE Changed(c) = {c.axis}
  /\ c.axis \in CapacityAxes => c.scope = "capacity"

\* Some profile it cites ran the control.
Witnessed(c) ==
  \E p \in c.refs : LET ranAs == SettingOf[subs[p].run.config]
                    IN \A axis \in DOMAIN c.control :
                         axis \in DOMAIN ranAs /\ ranAs[axis] = c.control[axis]

\* Mutant: evidence may be superseded, as long as it was accepted.
StandsOnAccepted(c) == c.refs # {} /\ c.refs \subseteq Accepted("profile")
StandsOnCurrent(c) == c.refs # {} /\ c.refs \subseteq CurrentProfiles

Valid(c) ==
  /\ c.capability \in Writers \cup {"profile", "parallelism_plan"}
  /\ c.capability \in Writers => writable
  /\ StandsOnCurrent(c)
  /\ \A setting \in {c.control, c.treatment, c.drift} : MayBeSet(setting)
  /\ VariesOneThing(c) /\ Witnessed(c)
  /\ c.capability = "profile" => SettingOf[c.run.config] = c.treatment

Fingerprint(c) ==
  [capability |-> c.capability, axis |-> c.axis, control |-> c.control, treatment |-> c.treatment,
   evidence |-> c.refs]

-----------------------------------------------------------------------------
(* candidate_queue and requested_experiment *)

Negative == {ran[i].of : i \in {i \in DOMAIN ran : ran[i].negative}}

\* The analyses whose candidate is offered: a later one with the same
\* fingerprint takes the place of an earlier one.
Offered ==
  LET open == {i \in Accepted("profile_analysis") :
                 /\ offers[i] # Nothing /\ Valid(offers[i])
                 /\ Fingerprint(offers[i]) \notin Negative}
  IN {i \in open : \A j \in open : j > i => Fingerprint(offers[j]) # Fingerprint(offers[i])}

Feasible(c) == c.chain <= Remaining /\ c.capability \in LegalActions

\* An id selects a candidate only while no other one on offer has it.
IsUnique(i) == \A j \in Offered : offers[j].id = offers[i].id => j = i

-----------------------------------------------------------------------------
(* Commands. *)

ExperimentInit ==
  /\ StartsFrom(Grounds)
  /\ offers \in {o \in [DOMAIN subs -> Candidates \cup {Nothing}] :
                   \A i \in DOMAIN subs :
                     o[i] # Nothing => i \in Accepted("profile_analysis") /\ subs[i].cites \in o[i].refs /\ Valid(o[i])}
  /\ trial = Nothing /\ ran = [i \in DOMAIN subs |-> [of |-> Nothing, negative |-> FALSE]]
  /\ now = 0

\* A task for no experiment; any estimate of its chain that fits will do.
PreparePlain ==
  /\ Remaining > 0 /\ Len(subs) < MaxTried /\ PrepareTask
  /\ trial' = Nothing
  /\ UNCHANGED <<offers, ran, now>>

\* The inputs of the request are those of the candidate.
PrepareExperiment ==
  /\ Remaining > 0 /\ Len(subs) < MaxTried /\ PrepareTask
  /\ \E i \in Offered :
       LET c == offers[i]
       IN /\ IsUnique(i) /\ Feasible(c)
          /\ task'.capability = c.capability /\ (c.capability = "profile" => task'.run = c.run)
          /\ trial' = Fingerprint(c)
  /\ UNCHANGED <<offers, ran, now>>

\* What the task was for, and whether its result speaks against it: it failed,
\* was blocked, or says so.  Of no experiment, that is forgotten.
Conclude(negative) ==
  /\ negative => trial # Nothing
  /\ ran' = Append(ran, [of |-> trial, negative |-> negative])
  /\ trial' = Nothing /\ UNCHANGED now

SubmitResult ==
  /\ \/ SubmitProfile \/ SubmitUnsuccessful
     \/ task # Nothing /\ task.capability # "profile_analysis" /\ Submit
  /\ \E negative \in BOOLEAN : Conclude(negative)
  /\ offers' = Append(offers, Nothing)

SubmitAnalysis ==
  /\ task # Nothing /\ task.capability = "profile_analysis" /\ Submit
  /\ \E c \in Candidates \cup {Nothing} :
       /\ c # Nothing => Valid(c) /\ task.cites \in c.refs
       /\ offers' = Append(offers, c)
  /\ \E negative \in BOOLEAN : Conclude(negative)

CancelTask ==
  /\ Cancel /\ trial' = Nothing
  /\ UNCHANGED <<offers, ran, now>>

Tick ==
  /\ now < WorkTime /\ now' = now + 1
  /\ UNCHANGED <<policyVars, offers, trial, ran>>

ExperimentNext ==
  PreparePlain \/ PrepareExperiment \/ SubmitResult \/ SubmitAnalysis \/ CancelTask \/ Tick

ExperimentSpec == ExperimentInit /\ [][ExperimentNext]_experimentVars

-----------------------------------------------------------------------------
(* Properties. *)

\* The program that attempt k works on is the one attempt p measured.
SameProgram(p, k) ==
  \A i \in (p + 1)..(k - 1) :
    /\ subs[i].capability \notin Writers
    /\ subs[i].accepted => subs[i].capability \notin {"parallelism_plan", "hardware_entitlement"}

\* "Stale evidence or a superseded serving cell cannot reopen work"
\* (experiments.py): an experiment is only ever run on the program that its
\* evidence was taken from, while that evidence is the latest of its kind and
\* an analysis of it is there; and it is never run again on the same evidence
\* once a result has spoken against it, by whatever name it is proposed.
ExperimentsAreGrounded ==
  LET prints == [k \in DOMAIN ran |-> ran[k].of] \o <<trial>>
  IN \A k \in DOMAIN prints :
       prints[k] # Nothing =>
         /\ \A p \in prints[k].evidence :
              /\ SameProgram(p, k)
              /\ \A i \in (p + 1)..(k - 1) : i \in Accepted("profile") => subs[i].run # subs[p].run
         /\ \E p \in prints[k].evidence, a \in 1..(k - 1) : subs[a].accepted /\ subs[a].cites = p
         /\ \A j \in 1..(k - 1) : prints[j] = prints[k] => ~ran[j].negative

\* A verdict, a kernel, and an experiment rest on evidence about the program
\* as it is.
DecisionsAreGrounded == PolicyTypeOK /\ MetIsCertified /\ KernelWorkIsGrounded /\ ExperimentsAreGrounded
=============================================================================
