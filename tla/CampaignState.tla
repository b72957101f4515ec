---------------------------- MODULE CampaignState ----------------------------
(***************************************************************************)
(* The data of one optimization campaign: the events that campaign.db may  *)
(* hold, the projection of one more event onto the campaign state          *)
(* (store.py, CampaignStore.state), and, for each command of the           *)
(* controller (controller.py), the events it would append to a state it    *)
(* has just read.  The module has no variables: Campaign runs these        *)
(* operators in concurrent processes, AtomicCampaign in one step each.     *)
(*                                                                         *)
(* What a task, a child, an artifact or a report contains is abstracted,   *)
(* and of the capability that a prepare asks for (policy.py) all but       *)
(* whether it uses the hardware.                                           *)
(***************************************************************************)
EXTENDS Naturals, FiniteSets, Sequences

CONSTANTS
  Tasks,                \* task identifiers the controller can mint (uuid4)
  Children,             \* identities of native child agents
  Keys,                 \* idempotency keys chosen by the callers
  MaxAttempts,          \* spec.budget.max_attempts
  MaxHardwareAttempts,  \* spec.budget.max_hardware_attempts
  Nil

ASSUME TasksAssumption == IsFiniteSet(Tasks) /\ Nil \notin Tasks
ASSUME ChildrenAssumption == Nil \notin Children
ASSUME KeysAssumption == Nil \notin Keys /\ Keys \cap Nat = {}
ASSUME BudgetAssumption == MaxAttempts \in Nat /\ MaxHardwareAttempts \in Nat

-----------------------------------------------------------------------------
(* Requests: what a caller asks for, with the key that makes it idempotent. *)

PauseModes == {"after-task", "now"}
HardwareUse == {"hardware", "none"}
SubmissionStatus == {"succeeded", "unsuccessful"}   \* partial, blocked, failed
ChildStates == {"pending", "settled"}  \* running/end_turn/unknown, completed/failed
Verdicts == {"MET", "resumable"}       \* any verdict but MET can be resumed

\* `asof` is ActionRequest.state_version: the version the caller decided on.
PrepareRequest ==
  [cmd : {"prepare"}, key : Keys, use : HardwareUse, asof : Nat]
SubmitRequest ==
  [cmd : {"submit"}, key : Keys, task : Tasks, status : SubmissionStatus]
ProgressRequest ==
  [cmd : {"progress"}, key : Keys, task : Tasks, child : Children, state : ChildStates]
PauseRequest == [cmd : {"pause"}, key : Keys, mode : PauseModes]
ResumeRequest == [cmd : {"resume"}, key : Keys]
CancelRequest == [cmd : {"cancel"}, key : Keys, task : Tasks]
FinalizeRequest == [cmd : {"finalize"}, key : Keys]

Request == PrepareRequest \cup SubmitRequest \cup ProgressRequest
           \cup PauseRequest \cup ResumeRequest \cup CancelRequest
           \cup FinalizeRequest

-----------------------------------------------------------------------------
(* Events.  `key` is the UNIQUE idempotency_key column: a caller's key, the *)
(* sequence of the submission a run_closed receipt belongs to (the code     *)
(* writes "closeout-" + event_id), or Nil.  `request` stands for            *)
(* data.request_digest.  `version` is the state_version written into a      *)
(* closeout receipt, 0 when the event carries none; `arg` is the one        *)
(* argument that the projection reads.                                      *)

SubmissionKinds == {"submission_accepted", "submission_recorded"}
EventKinds == SubmissionKinds \cup
  {"campaign_initialized", "attempt_prepared", "attempt_progress",
   "campaign_paused", "campaign_resumed", "attempt_cancelled",
   "campaign_finalized", "run_closed"}

Arguments == HardwareUse \cup ChildStates \cup PauseModes \cup Verdicts

Event == [kind : EventKinds, key : Keys \cup Nat \cup {Nil},
          request : Request \cup {Nil}, task : Tasks \cup {Nil},
          child : Children \cup {Nil}, arg : Arguments, version : Nat,
          pauseAfter : BOOLEAN]

BlankEvent == [kind |-> "campaign_initialized", key |-> Nil, request |-> Nil,
               task |-> Nil, child |-> Nil, arg |-> "none", version |-> 0,
               pauseAfter |-> FALSE]

\* The kinds of event that answer a command whose key was used before.
KindsOf(cmd) ==
  CASE cmd = "prepare"  -> {"attempt_prepared"}
    [] cmd = "submit"   -> SubmissionKinds
    [] cmd = "progress" -> {"attempt_progress"}
    [] cmd = "pause"    -> {"campaign_paused"}
    [] cmd = "resume"   -> {"campaign_resumed"}
    [] cmd = "cancel"   -> {"attempt_cancelled"}
    [] cmd = "finalize" -> {"campaign_finalized"}

-----------------------------------------------------------------------------
(* The campaign state, as CampaignStore.state folds it from the events.     *)

AttemptStatus == {"absent", "PREPARED", "ACCEPTED", "UNSUCCESSFUL", "CANCELLED"}

State == [attempt    : [Tasks -> AttemptStatus],
          hardware   : SUBSET Tasks,        \* grants that declare hardware
          child      : [Tasks -> Children \cup {Nil}],
          pending    : SUBSET Tasks,        \* last progress is not terminal
          paused     : BOOLEAN,
          pauseAfter : BOOLEAN,             \* pause_after_task
          final      : Verdicts \cup {"none"}]

InitState == [attempt    |-> [t \in Tasks |-> "absent"],
              hardware   |-> {},
              child      |-> [t \in Tasks |-> Nil],
              pending    |-> {},
              paused     |-> FALSE,
              pauseAfter |-> FALSE,
              final      |-> "none"]

Attempts(s) == {t \in Tasks : s.attempt[t] # "absent"}
Active(s) == {t \in Tasks : s.attempt[t] = "PREPARED"}

\* Mutant: the submission clears the flag and forgets to pause.
SettleWithoutPause(s, t, status) ==
  [s EXCEPT !.attempt[t] = status, !.pauseAfter = FALSE]

\* A submission or a cancellation completes a pause that waited for the task.
Settle(s, t, status) ==
  [s EXCEPT !.attempt[t] = status,
            !.paused = @ \/ s.pauseAfter,
            !.pauseAfter = FALSE]

Prepared(s, e) ==
  [s EXCEPT !.attempt[e.task] = "PREPARED",
            !.hardware = IF e.arg = "hardware" THEN @ \cup {e.task} ELSE @]

\* Mutant: the child's state is stored as the status of the attempt.
ProgressedAsStatus(s, e) == [s EXCEPT !.child[e.task] = e.child, !.attempt[e.task] = e.arg]

Progressed(s, e) ==
  [s EXCEPT !.child[e.task] = e.child,
            !.pending = IF e.arg = "pending" THEN @ \cup {e.task} ELSE @ \ {e.task}]

Paused(s, e) ==
  IF e.arg = "after-task"
  THEN [s EXCEPT !.pauseAfter = TRUE]
  ELSE [s EXCEPT !.paused = TRUE, !.pauseAfter = FALSE,
                 !.attempt = [t \in Tasks |-> IF t = e.task THEN "CANCELLED" ELSE @[t]]]

Resumed(s) == [s EXCEPT !.paused = FALSE, !.pauseAfter = FALSE, !.final = "none"]

Apply(s, e) ==
  CASE e.kind = "attempt_prepared"    -> Prepared(s, e)
    [] e.kind = "submission_accepted" -> Settle(s, e.task, "ACCEPTED")
    [] e.kind = "submission_recorded" -> Settle(s, e.task, "UNSUCCESSFUL")
    [] e.kind = "attempt_cancelled"   -> Settle(s, e.task, "CANCELLED")
    [] e.kind = "attempt_progress"    -> Progressed(s, e)
    [] e.kind = "campaign_paused"     -> Paused(s, e)
    [] e.kind = "campaign_resumed"    -> Resumed(s)
    [] e.kind = "campaign_finalized"  -> [s EXCEPT !.final = e.arg]
    [] OTHER                          -> s

-----------------------------------------------------------------------------
(* Commands.  XEvents(s, n, r) is the set of events request r may append to *)
(* state s read at version n: empty when the controller refuses r or finds  *)
(* nothing to do.  More than one event: a choice the model leaves open.     *)

\* Mutants: the attempt budget is exceeded by one; an active attempt is overlooked.
MayPrepareOneMore(s, use) ==
  /\ s.final = "none" /\ ~s.paused /\ ~s.pauseAfter
  /\ Active(s) = {} /\ s.pending = {}
  /\ Cardinality(Attempts(s)) <= MaxAttempts
  /\ use = "hardware" => Cardinality(s.hardware) < MaxHardwareAttempts

MayPrepareBesideActive(s, use) ==
  /\ s.final = "none" /\ ~s.paused /\ ~s.pauseAfter /\ s.pending = {}
  /\ Cardinality(Attempts(s)) < MaxAttempts
  /\ use = "hardware" => Cardinality(s.hardware) < MaxHardwareAttempts

\* legal_actions is empty unless the campaign is idle and within its budget.
MayPrepare(s, use) ==
  /\ s.final = "none" /\ ~s.paused /\ ~s.pauseAfter
  /\ Active(s) = {} /\ s.pending = {}
  /\ Cardinality(Attempts(s)) < MaxAttempts
  /\ use = "hardware" => Cardinality(s.hardware) < MaxHardwareAttempts

PrepareEvents(s, n, r) ==
  {[BlankEvent EXCEPT !.kind = "attempt_prepared", !.key = r.key, !.request = r,
                      !.task = t, !.arg = r.use] :
     t \in {u \in Tasks \ Attempts(s) : r.asof = n /\ MayPrepare(s, r.use)}}

SubmitEvents(s, n, r) ==
  {[BlankEvent EXCEPT !.kind = IF r.status = "succeeded" THEN "submission_accepted"
                                                         ELSE "submission_recorded",
                      !.key = r.key, !.request = r, !.task = t,
                      !.pauseAfter = s.pauseAfter] : t \in {r.task} \cap Active(s)}

\* A child may bind only to the active attempt, and an attempt has one child.
MayReport(s, r) ==
  /\ s.attempt[r.task] # "absent"
  /\ s.attempt[r.task] # "PREPARED" => s.child[r.task] # Nil
  /\ s.child[r.task] # Nil => s.child[r.task] = r.child

ProgressEvents(s, n, r) ==
  {[BlankEvent EXCEPT !.kind = "attempt_progress", !.key = r.key, !.request = r,
                      !.task = t, !.child = r.child, !.arg = r.state] :
     t \in {u \in {r.task} : MayReport(s, r)}}

\* Mutant: after-task is kept although no task is active.
PauseModeAsAsked(s, mode) == mode

\* Without an active attempt there is no task to wait for.
PauseMode(s, mode) == IF Active(s) = {} THEN "now" ELSE mode

\* A pause now cancels the active attempt unless a child already works on it.
CancelledByPause(s, mode) ==
  LET unbound == {t \in Active(s) : s.child[t] = Nil}
  IN IF PauseMode(s, mode) = "now" /\ unbound # {}
     THEN CHOOSE t \in unbound : TRUE ELSE Nil

\* Mutant: the receipt cites the version that was read.
PauseCitingReadVersion(s, n, r) ==
  {[BlankEvent EXCEPT !.kind = "campaign_paused", !.key = r.key, !.request = r,
                      !.task = CancelledByPause(s, r.mode),
                      !.arg = PauseMode(s, r.mode), !.version = n] :
     k \in {x \in {1} : s.final = "none" /\ ~s.paused /\ ~s.pauseAfter}}

PauseEvents(s, n, r) ==
  {[BlankEvent EXCEPT !.kind = "campaign_paused", !.key = r.key, !.request = r,
                      !.task = CancelledByPause(s, r.mode), !.arg = m,
                      !.version = n + 1] :
     m \in {x \in {PauseMode(s, r.mode)} :
              /\ s.final = "none" /\ ~s.paused
              /\ ~(s.pauseAfter /\ r.mode = "after-task")}}

\* Mutant: a campaign that met its objectives can be resumed.
ResumeEvenMet(s, n, r) ==
  {[BlankEvent EXCEPT !.kind = k, !.key = r.key, !.request = r] :
     k \in {x \in {"campaign_resumed"} :
              s.paused \/ s.pauseAfter \/ s.final # "none"}}

ResumeEvents(s, n, r) ==
  {[BlankEvent EXCEPT !.kind = k, !.key = r.key, !.request = r] :
     k \in {x \in {"campaign_resumed"} :
              /\ s.final # "MET"
              /\ s.paused \/ s.pauseAfter \/ s.final # "none"}}

\* The refusal of a settled child whose output file exists is left open:
\* the file is not part of the campaign state.
CancelEvents(s, n, r) ==
  {[BlankEvent EXCEPT !.kind = "attempt_cancelled", !.key = r.key, !.request = r,
                      !.task = t] : t \in ({r.task} \cap Active(s)) \ s.pending}

\* Mutant: a campaign is finalized beside its active attempt.
FinalizeBesideActive(s, n, r) ==
  {[BlankEvent EXCEPT !.kind = "campaign_finalized", !.key = r.key, !.request = r,
                      !.arg = v, !.version = n + 1] :
     v \in {x \in Verdicts : s.final = "none" /\ s.pending = {}}}

FinalizeEvents(s, n, r) ==
  {[BlankEvent EXCEPT !.kind = "campaign_finalized", !.key = r.key, !.request = r,
                      !.arg = v, !.version = n + 1] :
     v \in {x \in Verdicts :
              s.final = "none" /\ Active(s) = {} /\ s.pending = {}}}

EventsFor(s, n, r) ==
  CASE r.cmd = "prepare"  -> PrepareEvents(s, n, r)
    [] r.cmd = "submit"   -> SubmitEvents(s, n, r)
    [] r.cmd = "progress" -> ProgressEvents(s, n, r)
    [] r.cmd = "pause"    -> PauseEvents(s, n, r)
    [] r.cmd = "resume"   -> ResumeEvents(s, n, r)
    [] r.cmd = "cancel"   -> CancelEvents(s, n, r)
    [] r.cmd = "finalize" -> FinalizeEvents(s, n, r)

\* The receipt that closes the run after the submission at sequence i.
CloseoutEvent(i, n) ==
  [BlankEvent EXCEPT !.kind = "run_closed", !.key = i, !.version = n + 1]

\* The event of a log that carries a key, if there is one.
Carrying(log, k) == {i \in DOMAIN log : log[i].key = k}
=============================================================================
