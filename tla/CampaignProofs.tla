---------------------------- MODULE CampaignProofs ----------------------------
(***************************************************************************)
(* Theorems about the campaign for every set of tasks, keys, children,     *)
(* requests and processes, and every budget.                               *)
(*   1. AtomicCampaign keeps AtomicInv, the conjunction of its invariants. *)
(*   2. Campaign implements AtomicCampaign: the append of a process is a   *)
(*      step of AtomicCampaign, everything else a stutter.                 *)
(*   3. Therefore Campaign keeps AtomicInv too.                            *)
(*   4. The campaign lives as CampaignLife says: each event a command      *)
(*      appends to a sound state is one step of CampaignLife, or none.     *)
(*   5. What is decided stays so, and pauses stay orderly.                 *)
(***************************************************************************)
EXTENDS Campaign, FiniteSetTheorems, TLAPS

-----------------------------------------------------------------------------
(* What each command of the controller keeps true of the campaign state.     *)
(* There is one lemma per command and CommandKeeps puts them together; the   *)
(* proofs about a specification cite that one alone.                         *)

(* The invariants of the projected state, as a predicate on any state. *)
SoundState(s) ==
  /\ s \in State
  /\ \A t, u \in Active(s) : t = u
  /\ s.pauseAfter => Active(s) # {}
  /\ s.paused => \A t \in Active(s) : s.child[t] # Nil
  /\ s.final # "none" => Active(s) = {}
  /\ Cardinality(Attempts(s)) <= MaxAttempts
  /\ Cardinality(s.hardware) <= MaxHardwareAttempts

(* What a command appends is a well-formed event with the command's key,   *)
(* and applying it keeps the state sound.                                  *)
Keeps(s, n, e) ==
  /\ e \in Event
  /\ e.version \in {0, n + 1}
  /\ SoundState(Apply(s, e))

(* A request of each kind is a request, with the fields of its kind.       *)
LEMMA PrepareFields ==
  ASSUME NEW r \in PrepareRequest
  PROVE  r \in Request /\ r.key \in Keys /\ r.use \in HardwareUse
<1>1. r.key \in Keys /\ r.use \in HardwareUse
  BY DEF PrepareRequest
<1>2. r \in Request
  BY DEF Request
<1> QED
  BY <1>1, <1>2

LEMMA SubmitFields ==
  ASSUME NEW r \in SubmitRequest
  PROVE  r \in Request /\ r.key \in Keys /\ r.task \in Tasks
<1>1. r.key \in Keys /\ r.task \in Tasks
  BY DEF SubmitRequest
<1>2. r \in Request
  BY DEF Request
<1> QED
  BY <1>1, <1>2

LEMMA ProgressFields ==
  ASSUME NEW r \in ProgressRequest
  PROVE  r \in Request /\ r.key \in Keys /\ r.task \in Tasks /\ r.child \in Children /\ r.state \in ChildStates
<1>1. r.key \in Keys /\ r.task \in Tasks /\ r.child \in Children /\ r.state \in ChildStates
  BY DEF ProgressRequest
<1>2. r \in Request
  BY DEF Request
<1> QED
  BY <1>1, <1>2

LEMMA PauseFields ==
  ASSUME NEW r \in PauseRequest
  PROVE  r \in Request /\ r.key \in Keys /\ r.mode \in PauseModes
<1>1. r.key \in Keys /\ r.mode \in PauseModes
  BY DEF PauseRequest
<1>2. r \in Request
  BY DEF Request
<1> QED
  BY <1>1, <1>2

LEMMA ResumeFields ==
  ASSUME NEW r \in ResumeRequest
  PROVE  r \in Request /\ r.key \in Keys
<1>1. r.key \in Keys
  BY DEF ResumeRequest
<1>2. r \in Request
  BY DEF Request
<1> QED
  BY <1>1, <1>2

LEMMA CancelFields ==
  ASSUME NEW r \in CancelRequest
  PROVE  r \in Request /\ r.key \in Keys /\ r.task \in Tasks
<1>1. r.key \in Keys /\ r.task \in Tasks
  BY DEF CancelRequest
<1>2. r \in Request
  BY DEF Request
<1> QED
  BY <1>1, <1>2

LEMMA FinalizeFields ==
  ASSUME NEW r \in FinalizeRequest
  PROVE  r \in Request /\ r.key \in Keys
<1>1. r.key \in Keys
  BY DEF FinalizeRequest
<1>2. r \in Request
  BY DEF Request
<1> QED
  BY <1>1, <1>2

(* A state is the record of its fields.                                   *)
LEMMA StateFields ==
  ASSUME NEW s \in State
  PROVE  /\ s = [attempt |-> s.attempt, hardware |-> s.hardware, child |-> s.child,
                pending |-> s.pending, paused |-> s.paused, pauseAfter |-> s.pauseAfter,
                final |-> s.final]
         /\ s.attempt \in [Tasks -> AttemptStatus] /\ s.hardware \subseteq Tasks
         /\ s.child \in [Tasks -> Children \cup {Nil}] /\ s.pending \subseteq Tasks
         /\ s.paused \in BOOLEAN /\ s.pauseAfter \in BOOLEAN
         /\ s.final \in Verdicts \cup {"none"}
  BY DEF State

LEMMA PrepareKeeps ==
  ASSUME NEW s, SoundState(s), NEW n \in Nat, NEW r \in PrepareRequest,
         NEW e \in PrepareEvents(s, n, r)
  PROVE  Keeps(s, n, e) /\ e.key = r.key
<1>1. PICK t \in Tasks \ Attempts(s) :
        /\ MayPrepare(s, r.use)
        /\ e = [BlankEvent EXCEPT !.kind = "attempt_prepared", !.key = r.key,
                                  !.request = r, !.task = t, !.arg = r.use]
  BY DEF PrepareEvents
<1>2. e = [kind |-> "attempt_prepared", key |-> r.key, request |-> r, task |-> t, child |-> Nil,
           arg |-> r.use, version |-> 0, pauseAfter |-> FALSE]
  BY <1>1 DEF BlankEvent
<1>fields. r \in Request /\ r.key \in Keys /\ r.use \in HardwareUse /\ t \in Tasks
  BY PrepareFields
<1>typed. e \in Event
  BY <1>2, <1>fields DEF Event, EventKinds, Arguments
<1> DEFINE s2 == Apply(s, e)
<1>3. s2 = Prepared(s, e)
  BY <1>2 DEF Apply
<1>state. s \in State
  BY DEF SoundState
<1>rec. s2 = [attempt |-> [s.attempt EXCEPT ![t] = "PREPARED"],
              hardware |-> IF r.use = "hardware" THEN s.hardware \cup {t} ELSE s.hardware,
              child |-> s.child, pending |-> s.pending, paused |-> s.paused,
              pauseAfter |-> s.pauseAfter, final |-> s.final]
  BY <1>state, <1>2, <1>3, StateFields DEF Prepared
<1>4. /\ s2 \in State
      /\ Active(s2) = {t}
      /\ Attempts(s2) = Attempts(s) \cup {t}
      /\ s2.hardware = IF r.use = "hardware" THEN s.hardware \cup {t} ELSE s.hardware
      /\ s2.final = "none" /\ ~s2.paused /\ ~s2.pauseAfter
  <2>1. s2 \in State
    BY <1>rec, <1>state, StateFields DEF State, AttemptStatus
  <2>2. s2.attempt = [u \in Tasks |-> IF u = t THEN "PREPARED" ELSE s.attempt[u]]
    BY <1>rec, <1>state, StateFields
  <2>3. Active(s2) = {t} /\ Attempts(s2) = Attempts(s) \cup {t}
    BY <2>2, <1>1 DEF Active, Attempts, MayPrepare
  <2> QED
    BY <2>1, <2>3, <1>rec, <1>1 DEF MayPrepare
<1>5. Cardinality(Attempts(s2)) <= MaxAttempts
  <2>1. IsFiniteSet(Attempts(s))
    BY TasksAssumption, FS_Subset DEF Attempts
  <2>2. Cardinality(Attempts(s2)) = Cardinality(Attempts(s)) + 1
    BY <2>1, <1>1, <1>4, FS_AddElement
  <2> QED
    BY <2>1, <2>2, <1>1, FS_CardinalityType, BudgetAssumption DEF MayPrepare
<1>6. Cardinality(s2.hardware) <= MaxHardwareAttempts
  <2>1. s.hardware \subseteq Tasks
    BY DEF SoundState, State
  <2>2. IsFiniteSet(s.hardware)
    BY <2>1, TasksAssumption, FS_Subset
  <2>3. CASE r.use = "hardware" /\ t \notin s.hardware
    <3>1. Cardinality(s2.hardware) = Cardinality(s.hardware) + 1
      BY <2>2, <2>3, <1>4, FS_AddElement
    <3> QED
      BY <3>1, <2>2, <2>3, <1>1, FS_CardinalityType, BudgetAssumption DEF MayPrepare
  <2>4. CASE r.use # "hardware" \/ t \in s.hardware
    <3>1. s2.hardware = s.hardware
      BY <2>4, <1>4
    <3> QED
      BY <3>1 DEF SoundState
  <2> QED
    BY <2>3, <2>4
<1> QED
  BY <1>2, <1>typed, <1>4, <1>5, <1>6 DEF Keeps, SoundState

(* A state with the same attempts and grants keeps within the budget.      *)
LEMMA SettleKeeps ==
  ASSUME NEW s, SoundState(s), NEW t \in Active(s),
         NEW status \in {"ACCEPTED", "UNSUCCESSFUL", "CANCELLED"}
  PROVE  SoundState(Settle(s, t, status))
<1> DEFINE s2 == Settle(s, t, status)
<1>1. s \in State /\ t \in Tasks
  BY DEF SoundState, Active
<1>2. s2 \in State
  BY <1>1 DEF Settle, State, AttemptStatus
<1>3. Active(s2) = {} /\ Attempts(s2) = Attempts(s) /\ s2.hardware = s.hardware /\ ~s2.pauseAfter
  BY <1>1 DEF Settle, SoundState, State, Active, Attempts
<1> QED
  BY <1>2, <1>3 DEF SoundState

LEMMA SubmitKeeps ==
  ASSUME NEW s, SoundState(s), NEW n \in Nat, NEW r \in SubmitRequest,
         NEW e \in SubmitEvents(s, n, r)
  PROVE  Keeps(s, n, e) /\ e.key = r.key
<1>1. PICK t \in {r.task} \cap Active(s) :
        e = [BlankEvent EXCEPT !.kind = IF r.status = "succeeded" THEN "submission_accepted"
                                                                 ELSE "submission_recorded",
                               !.key = r.key, !.request = r, !.task = t,
                               !.pauseAfter = s.pauseAfter]
  BY DEF SubmitEvents
<1> DEFINE kind == IF r.status = "succeeded" THEN "submission_accepted" ELSE "submission_recorded"
<1>2. e = [kind |-> kind, key |-> r.key, request |-> r, task |-> t, child |-> Nil,
           arg |-> "none", version |-> 0, pauseAfter |-> s.pauseAfter]
  BY <1>1 DEF BlankEvent
<1>fields. /\ r \in Request /\ r.key \in Keys /\ t \in Tasks
          /\ s.pauseAfter \in BOOLEAN
  BY SubmitFields DEF Active, SoundState, State
<1>kind. kind \in SubmissionKinds
  BY DEF SubmissionKinds
<1> HIDE DEF kind
<1>typed. e \in Event
  BY <1>2, <1>fields, <1>kind DEF Event, EventKinds, Arguments, HardwareUse
<1>3. SoundState(Apply(s, e))
  <2>1. Settle(s, t, "ACCEPTED") = Apply(s, e) \/ Settle(s, t, "UNSUCCESSFUL") = Apply(s, e)
    BY <1>2, <1>kind DEF Apply, SubmissionKinds
  <2>2. SoundState(Settle(s, t, "ACCEPTED")) /\ SoundState(Settle(s, t, "UNSUCCESSFUL"))
    BY SettleKeeps
  <2> QED
    BY <2>1, <2>2
<1> QED
  BY <1>2, <1>typed, <1>3 DEF Keeps

LEMMA CancelKeeps ==
  ASSUME NEW s, SoundState(s), NEW n \in Nat, NEW r \in CancelRequest,
         NEW e \in CancelEvents(s, n, r)
  PROVE  Keeps(s, n, e) /\ e.key = r.key
<1>1. PICK t \in ({r.task} \cap Active(s)) \ s.pending :
        e = [BlankEvent EXCEPT !.kind = "attempt_cancelled", !.key = r.key,
                               !.request = r, !.task = t]
  BY DEF CancelEvents
<1>2. e = [kind |-> "attempt_cancelled", key |-> r.key, request |-> r, task |-> t, child |-> Nil,
           arg |-> "none", version |-> 0, pauseAfter |-> FALSE]
  BY <1>1 DEF BlankEvent
<1>fields. r \in Request /\ r.key \in Keys /\ t \in Tasks
  BY CancelFields DEF Active
<1>typed. e \in Event
  BY <1>2, <1>fields DEF Event, EventKinds, Arguments, HardwareUse
<1>3. SoundState(Apply(s, e))
  <2>1. Apply(s, e) = Settle(s, t, "CANCELLED")
    BY <1>2 DEF Apply
  <2> QED
    BY <2>1, SettleKeeps
<1> QED
  BY <1>2, <1>typed, <1>3 DEF Keeps

LEMMA ProgressKeeps ==
  ASSUME NEW s, SoundState(s), NEW n \in Nat, NEW r \in ProgressRequest,
         NEW e \in ProgressEvents(s, n, r)
  PROVE  Keeps(s, n, e) /\ e.key = r.key
<1>1. PICK t \in {r.task} :
        e = [BlankEvent EXCEPT !.kind = "attempt_progress", !.key = r.key, !.request = r,
                               !.task = t, !.child = r.child, !.arg = r.state]
  BY DEF ProgressEvents
<1>2. e = [kind |-> "attempt_progress", key |-> r.key, request |-> r, task |-> t, child |-> r.child,
           arg |-> r.state, version |-> 0, pauseAfter |-> FALSE]
  BY <1>1 DEF BlankEvent
<1>fields. /\ r \in Request /\ r.key \in Keys /\ t \in Tasks
          /\ r.child \in Children /\ r.state \in ChildStates
  BY ProgressFields
<1>typed. e \in Event /\ e.task \in Tasks /\ e.child \in Children
  BY <1>2, <1>fields DEF Event, EventKinds, Arguments
<1> DEFINE s2 == Apply(s, e)
<1>3. s2 = Progressed(s, e)
  BY <1>2 DEF Apply
<1>state. s \in State
  BY DEF SoundState
<1>rec. s2 = [attempt |-> s.attempt, hardware |-> s.hardware,
              child |-> [s.child EXCEPT ![t] = r.child],
              pending |-> IF r.state = "pending" THEN s.pending \cup {t} ELSE s.pending \ {t},
              paused |-> s.paused, pauseAfter |-> s.pauseAfter, final |-> s.final]
  BY <1>state, <1>2, <1>3, StateFields DEF Progressed
<1>4. s2 \in State
  BY <1>rec, <1>state, <1>fields, StateFields DEF State
<1>5. Active(s2) = Active(s) /\ Attempts(s2) = Attempts(s)
  BY <1>rec DEF Active, Attempts
<1>6. s2.paused => \A u \in Active(s2) : s2.child[u] # Nil
  <2> SUFFICES ASSUME s.paused, NEW u \in Active(s)
               PROVE  [s.child EXCEPT ![t] = r.child][u] # Nil
    BY <1>5, <1>rec
  <2>1. s.child[u] # Nil /\ u \in Tasks
    BY DEF SoundState, Active
  <2> QED
    BY <2>1, <1>fields, <1>state, StateFields, ChildrenAssumption
<1>7. SoundState(s2)
  BY <1>4, <1>5, <1>6, <1>rec DEF SoundState
<1> QED
  BY <1>2, <1>typed, <1>7 DEF Keeps

LEMMA PauseKeeps ==
  ASSUME NEW s, SoundState(s), NEW n \in Nat, NEW r \in PauseRequest,
         NEW e \in PauseEvents(s, n, r)
  PROVE  Keeps(s, n, e) /\ e.key = r.key
<1> DEFINE m == PauseMode(s, r.mode)
           x == CancelledByPause(s, r.mode)
           s2 == Apply(s, e)
<1>1. /\ s.final = "none"
      /\ e = [BlankEvent EXCEPT !.kind = "campaign_paused", !.key = r.key, !.request = r,
                                !.task = x, !.arg = m, !.version = n + 1]
  BY DEF PauseEvents
<1>2. m \in PauseModes
  BY DEF PauseMode, PauseModes, PauseRequest
<1>3. /\ x = Nil \/ x \in Active(s)
      /\ m = "now" => \A t \in Active(s) : s.child[t] = Nil => t = x
  BY DEF CancelledByPause, SoundState
<1>4. x \in Tasks \cup {Nil}
  BY <1>3 DEF Active
<1>5. e = [kind |-> "campaign_paused", key |-> r.key, request |-> r, task |-> x, child |-> Nil,
           arg |-> m, version |-> n + 1, pauseAfter |-> FALSE]
  BY <1>1 DEF BlankEvent
<1>fields. r \in Request /\ r.key \in Keys
  BY PauseFields
<1>typed. e \in Event
  BY <1>2, <1>4, <1>5, <1>fields DEF Event, EventKinds, Arguments
<1>state. s \in State
  BY DEF SoundState
<1> HIDE DEF m, x
<1>6. s2 = Paused(s, e)
  BY <1>5 DEF Apply
<1>7. CASE m = "after-task"
  <2>1. Active(s) # {}
    BY <1>7 DEF m, PauseMode
  <2>2. s2 = [attempt |-> s.attempt, hardware |-> s.hardware, child |-> s.child,
              pending |-> s.pending, paused |-> s.paused, pauseAfter |-> TRUE,
              final |-> s.final]
    <3>1. s2 = [s EXCEPT !.pauseAfter = TRUE]
      BY <1>5, <1>6, <1>7 DEF Paused
    <3> QED
      BY <3>1, <1>state, StateFields
  <2>3. s2 \in State
    BY <2>2, <1>state, StateFields DEF State
  <2>4. Active(s2) = Active(s) /\ Attempts(s2) = Attempts(s)
    BY <2>2 DEF Active, Attempts
  <2>5. SoundState(s2)
    <3>1. /\ s2.hardware = s.hardware /\ s2.child = s.child /\ s2.final = s.final
          /\ s2.paused = s.paused
      BY <2>2
    <3> HIDE DEF s2
    <3> QED
      BY <2>1, <2>3, <2>4, <3>1 DEF SoundState
  <2> QED
    BY <2>5, <1>5, <1>typed DEF Keeps
<1>8. CASE m = "now"
  <2>1. s2 = [attempt |-> [t \in Tasks |-> IF t = x THEN "CANCELLED" ELSE s.attempt[t]],
              hardware |-> s.hardware, child |-> s.child, pending |-> s.pending,
              paused |-> TRUE, pauseAfter |-> FALSE, final |-> s.final]
    <3>1. s2 = [s EXCEPT !.paused = TRUE, !.pauseAfter = FALSE,
                         !.attempt = [t \in Tasks |-> IF t = x THEN "CANCELLED" ELSE s.attempt[t]]]
      BY <1>5, <1>6, <1>8 DEF Paused
    <3> QED
      BY <3>1, <1>state, StateFields
  <2>2. s2 \in State
    BY <2>1, <1>state, StateFields DEF State, AttemptStatus
  <2>3. /\ Active(s2) = Active(s) \ {x}
        /\ Attempts(s2) = Attempts(s)
        /\ s2.hardware = s.hardware /\ s2.child = s.child
        /\ ~s2.pauseAfter /\ s2.final = s.final
    BY <2>1, <1>3, TasksAssumption DEF Active, Attempts
  <2> QED
    BY <2>2, <2>3, <1>3, <1>5, <1>typed, <1>8 DEF Keeps, SoundState
<1> QED
  BY <1>2, <1>7, <1>8 DEF PauseModes

LEMMA ResumeKeeps ==
  ASSUME NEW s, SoundState(s), NEW n \in Nat, NEW r \in ResumeRequest,
         NEW e \in ResumeEvents(s, n, r)
  PROVE  Keeps(s, n, e) /\ e.key = r.key
<1>1. e = [BlankEvent EXCEPT !.kind = "campaign_resumed", !.key = r.key, !.request = r]
  BY DEF ResumeEvents
<1>2. e = [kind |-> "campaign_resumed", key |-> r.key, request |-> r, task |-> Nil, child |-> Nil,
           arg |-> "none", version |-> 0, pauseAfter |-> FALSE]
  BY <1>1 DEF BlankEvent
<1>fields. r \in Request /\ r.key \in Keys
  BY ResumeFields
<1>typed. e \in Event
  BY <1>2, <1>fields DEF Event, EventKinds, Arguments, HardwareUse
<1>3. Apply(s, e) = Resumed(s)
  BY <1>2 DEF Apply
<1>4. SoundState(Apply(s, e))
  <2>1. s \in State
    BY DEF SoundState
  <2>2. Apply(s, e) = [attempt |-> s.attempt, hardware |-> s.hardware, child |-> s.child,
                       pending |-> s.pending, paused |-> FALSE, pauseAfter |-> FALSE,
                       final |-> "none"]
    <3>1. Apply(s, e) = [s EXCEPT !.paused = FALSE, !.pauseAfter = FALSE, !.final = "none"]
      BY <1>3 DEF Resumed
    <3> QED
      BY <2>1, <3>1 DEF State
  <2>3. Apply(s, e) \in State
    BY <2>1, <2>2, StateFields DEF State
  <2>4. Active(Apply(s, e)) = Active(s) /\ Attempts(Apply(s, e)) = Attempts(s)
    BY <2>2 DEF Active, Attempts
  <2>5. /\ Apply(s, e).hardware = s.hardware /\ Apply(s, e).final = "none"
        /\ Apply(s, e).paused = FALSE /\ Apply(s, e).pauseAfter = FALSE
    BY <2>2
  <2> QED
    BY <2>3, <2>4, <2>5 DEF SoundState
<1> QED
  BY <1>2, <1>typed, <1>4 DEF Keeps

LEMMA FinalizeKeeps ==
  ASSUME NEW s, SoundState(s), NEW n \in Nat, NEW r \in FinalizeRequest,
         NEW e \in FinalizeEvents(s, n, r)
  PROVE  Keeps(s, n, e) /\ e.key = r.key
<1>1. PICK v \in Verdicts :
        /\ Active(s) = {}
        /\ e = [BlankEvent EXCEPT !.kind = "campaign_finalized", !.key = r.key,
                                  !.request = r, !.arg = v, !.version = n + 1]
  BY DEF FinalizeEvents
<1>2. e = [kind |-> "campaign_finalized", key |-> r.key, request |-> r, task |-> Nil, child |-> Nil,
           arg |-> v, version |-> n + 1, pauseAfter |-> FALSE]
  BY <1>1 DEF BlankEvent
<1>fields. r \in Request /\ r.key \in Keys
  BY FinalizeFields
<1>typed. e \in Event
  BY <1>2, <1>fields DEF Event, EventKinds, Arguments
<1>3. Apply(s, e) = [s EXCEPT !.final = v]
  BY <1>2 DEF Apply
<1>4. SoundState(Apply(s, e))
  <2>1. s \in State
    BY DEF SoundState
  <2>2. Apply(s, e) = [attempt |-> s.attempt, hardware |-> s.hardware, child |-> s.child,
                       pending |-> s.pending, paused |-> s.paused,
                       pauseAfter |-> s.pauseAfter, final |-> v]
    BY <1>3, <2>1, StateFields
  <2>3. Apply(s, e) \in State
    BY <2>1, <2>2, StateFields DEF State
  <2>4. Active(Apply(s, e)) = Active(s) /\ Attempts(Apply(s, e)) = Attempts(s)
    BY <2>2 DEF Active, Attempts
  <2> QED
    BY <1>1, <2>2, <2>3, <2>4 DEF SoundState
<1> QED
  BY <1>2, <1>typed, <1>4 DEF Keeps

LEMMA CommandKeeps ==
  ASSUME NEW s, SoundState(s), NEW n \in Nat, NEW r \in Request,
         NEW e \in EventsFor(s, n, r)
  PROVE  Keeps(s, n, e) /\ e.key = r.key
<1>1. CASE r.cmd = "prepare"
  BY <1>1, PrepareKeeps DEF EventsFor, Request, PrepareRequest, SubmitRequest,
     ProgressRequest, PauseRequest, ResumeRequest, CancelRequest, FinalizeRequest
<1>2. CASE r.cmd = "submit"
  BY <1>2, SubmitKeeps DEF EventsFor, Request, PrepareRequest, SubmitRequest,
     ProgressRequest, PauseRequest, ResumeRequest, CancelRequest, FinalizeRequest
<1>3. CASE r.cmd = "progress"
  BY <1>3, ProgressKeeps DEF EventsFor, Request, PrepareRequest, SubmitRequest,
     ProgressRequest, PauseRequest, ResumeRequest, CancelRequest, FinalizeRequest
<1>4. CASE r.cmd = "pause"
  BY <1>4, PauseKeeps DEF EventsFor, Request, PrepareRequest, SubmitRequest,
     ProgressRequest, PauseRequest, ResumeRequest, CancelRequest, FinalizeRequest
<1>5. CASE r.cmd = "resume"
  BY <1>5, ResumeKeeps DEF EventsFor, Request, PrepareRequest, SubmitRequest,
     ProgressRequest, PauseRequest, ResumeRequest, CancelRequest, FinalizeRequest
<1>6. CASE r.cmd = "cancel"
  BY <1>6, CancelKeeps DEF EventsFor, Request, PrepareRequest, SubmitRequest,
     ProgressRequest, PauseRequest, ResumeRequest, CancelRequest, FinalizeRequest
<1>7. CASE r.cmd = "finalize"
  BY <1>7, FinalizeKeeps DEF EventsFor, Request, PrepareRequest, SubmitRequest,
     ProgressRequest, PauseRequest, ResumeRequest, CancelRequest, FinalizeRequest
<1> QED
  BY <1>1, <1>2, <1>3, <1>4, <1>5, <1>6, <1>7 DEF Request, PrepareRequest, SubmitRequest,
     ProgressRequest, PauseRequest, ResumeRequest, CancelRequest, FinalizeRequest

-----------------------------------------------------------------------------
(* The specifications. *)

AtomicInv == /\ log \in Seq(Event)
             /\ SoundState(st)
             /\ KeysActOnce
             /\ ReceiptsCiteTheirEvent

-----------------------------------------------------------------------------
(* 1. AtomicCampaign.                                                       *)

LEMMA BlankTyped == BlankEvent \in Event
  BY DEF BlankEvent, Event, EventKinds, Arguments, HardwareUse

LEMMA AtomicInitSound == AtomicInit => AtomicInv
<1> SUFFICES ASSUME AtomicInit
             PROVE  AtomicInv
  OBVIOUS
<1>1. log = <<BlankEvent>> /\ st = InitState
  BY DEF AtomicInit
<1>2. log \in Seq(Event) /\ Len(log) = 1 /\ DOMAIN log = {1} /\ log[1] = BlankEvent
  BY <1>1, BlankTyped
<1>3. KeysActOnce /\ ReceiptsCiteTheirEvent
  BY <1>2 DEF KeysActOnce, ReceiptsCiteTheirEvent, BlankEvent
<1>4. st \in State
  BY <1>1 DEF InitState, State, AttemptStatus
<1>5. Active(st) = {} /\ Attempts(st) = {} /\ st.hardware = {}
      /\ ~st.paused /\ ~st.pauseAfter /\ st.final = "none"
  BY <1>1 DEF InitState, Active, Attempts
<1>6. SoundState(st)
  BY <1>4, <1>5, FS_EmptySet, BudgetAssumption DEF SoundState
<1> QED
  BY <1>2, <1>3, <1>6 DEF AtomicInv

(* Appending an event with a new key, and the version it will have.         *)
LEMMA AppendKeeps ==
  ASSUME AtomicInv, NEW e \in Event, e.version \in {0, Len(log) + 1},
         SoundState(Apply(st, e)), Carrying(log, e.key) = {}, AppendEvent(e)
  PROVE  AtomicInv'
<1>1. log \in Seq(Event) /\ log' = Append(log, e) /\ st' = Apply(st, e)
  BY DEF AtomicInv, AppendEvent
<1>2. /\ log' \in Seq(Event) /\ DOMAIN log' = 1..(Len(log) + 1) /\ DOMAIN log = 1..Len(log)
      /\ log'[Len(log) + 1] = e
      /\ \A i \in DOMAIN log : log'[i] = log[i]
  BY <1>1
<1>3. SoundState(st)'
  BY <1>1 DEF SoundState, Active, Attempts
<1>4. KeysActOnce'
  <2>1. \A i \in DOMAIN log : log[i].key # e.key
    BY DEF Carrying
  <2> QED
    BY <1>2, <2>1 DEF KeysActOnce, AtomicInv
<1>5. ReceiptsCiteTheirEvent'
  BY <1>2 DEF ReceiptsCiteTheirEvent, AtomicInv
<1> QED
  BY <1>2, <1>3, <1>4, <1>5 DEF AtomicInv

LEMMA CloseoutFields ==
  \A i, n \in Nat :
    /\ CloseoutEvent(i, n) \in Event
    /\ CloseoutEvent(i, n).key = i
    /\ CloseoutEvent(i, n).version = n + 1
    /\ CloseoutEvent(i, n).kind = "run_closed"
<1> TAKE i, n \in Nat
<1>0. PICK e : e = CloseoutEvent(i, n)
  OBVIOUS
<1>1. e = [BlankEvent EXCEPT !.kind = "run_closed", !.key = i, !.version = n + 1]
  BY <1>0 DEF CloseoutEvent
<1>2. e = [kind |-> "run_closed", key |-> i, request |-> Nil, task |-> Nil,
           child |-> Nil, arg |-> "none", version |-> n + 1, pauseAfter |-> FALSE]
  BY <1>1 DEF BlankEvent
<1>3. e \in Event
  BY <1>2 DEF Event, EventKinds, Arguments, HardwareUse
<1> QED
  BY <1>0, <1>2, <1>3

LEMMA AtomicStepSound ==
  ASSUME AtomicInv, [AtomicNext]_store
  PROVE  AtomicInv'
<1>0. Len(log) \in Nat /\ SoundState(st)
  BY DEF AtomicInv
<1>1. ASSUME NEW r \in Requests, Execute(r)
      PROVE  AtomicInv'
  <2>1. PICK e \in EventsFor(st, Len(log), r) : AppendEvent(e)
    BY <1>1 DEF Execute
  <2>2. Keeps(st, Len(log), e) /\ e.key = r.key
    BY <1>0, CommandKeeps, RequestsAssumption
  <2>3. Carrying(log, e.key) = {}
    BY <1>1, <2>2 DEF Execute
  <2> QED
    BY <2>1, <2>2, <2>3, AppendKeeps DEF Keeps
<1>2. ASSUME NEW i \in DOMAIN log, CloseRun(i)
      PROVE  AtomicInv'
  <2>0. PICK e : e = CloseoutEvent(i, Len(log))
    OBVIOUS
  <2>1. i \in Nat
    BY DEF AtomicInv
  <2>2. e \in Event /\ e.key = i /\ e.version = Len(log) + 1 /\ e.kind = "run_closed"
    BY <1>0, <2>0, <2>1, CloseoutFields
  <2>3. Apply(st, e) = st
    BY <2>2 DEF Apply
  <2>4. Carrying(log, e.key) = {} /\ AppendEvent(e)
    BY <1>2, <2>0, <2>2 DEF CloseRun
  <2> QED
    BY <1>0, <2>2, <2>3, <2>4, AppendKeeps
<1>3. CASE UNCHANGED store
  BY <1>3 DEF store, AtomicInv, SoundState, Active, Attempts, KeysActOnce,
              ReceiptsCiteTheirEvent
<1> QED
  BY <1>1, <1>2, <1>3 DEF AtomicNext

\* Whatever the callers ask for, the campaign keeps its invariants: it is in
\* a sound state (one active attempt, within budget, a waiting pause has a
\* task), a key answers for one event, a receipt cites its own version.
THEOREM AtomicSafety == AtomicSpec => []AtomicInv
<1> QED
  BY AtomicInitSound, AtomicStepSound, PTL DEF AtomicSpec

-----------------------------------------------------------------------------
(* 2. Campaign implements AtomicCampaign.                                   *)

\* The event at sequence i is a submission that completed a pause.
PausingSubmission(i) ==
  i \in DOMAIN log /\ log[i].kind \in SubmissionKinds /\ log[i].pauseAfter

(* What a process remembers between its transactions.  While nobody else    *)
(* has appended, its decision is still the right one; once the log is       *)
(* longer than what it saw, its append will find a conflict.                *)
Remembers(c) ==
  /\ pc[c] \in {"looked", "validated"} => req[c] \in Requests
  /\ pc[c] = "validated" =>
       /\ ev[c].key = req[c].key
       /\ seen[c] <= Len(log)
       /\ seen[c] = Len(log) => ev[c] \in EventsFor(st, seen[c], req[c])
  /\ pc[c] = "closing" => PausingSubmission(seen[c])
  /\ pc[c] = "closeReady" =>
       /\ \E i \in DOMAIN log : PausingSubmission(i) /\ ev[c] = CloseoutEvent(i, seen[c])
       /\ seen[c] <= Len(log)
       /\ seen[c] = Len(log) => st.paused

ProcInv == \A c \in Clients : Remembers(c)

IInv == TypeOK /\ AtomicInv /\ ProcInv

LEMMA InitSound == Init => IInv
<1> SUFFICES ASSUME Init
             PROVE  IInv
  OBVIOUS
<1>1. AtomicInv
  BY AtomicInitSound DEF Init
<1>2. TypeOK
  BY <1>1, BlankTyped DEF Init, TypeOK, AtomicInv, SoundState, Steps
<1>3. ProcInv
  BY DEF Init, ProcInv, Remembers
<1> QED
  BY <1>1, <1>2, <1>3 DEF IInv

(* A step of a process refines: what it does to the store is atomic.        *)
LEMMA StepRefines ==
  ASSUME IInv, [Next]_vars
  PROVE  [AtomicNext]_store
<1> USE DEF IInv
<1>1. ASSUME NEW c \in Clients, Commit(c)
      PROVE  AtomicNext
  <2>1. /\ pc[c] = "validated" /\ Carrying(log, ev[c].key) = {} /\ seen[c] = Len(log)
        /\ AppendEvent(ev[c])
    BY <1>1 DEF Commit, MayInsert
  <2>2. /\ req[c] \in Requests /\ ev[c].key = req[c].key
        /\ ev[c] \in EventsFor(st, Len(log), req[c])
    BY <2>1 DEF ProcInv, Remembers
  <2>3. Execute(req[c])
    BY <2>1, <2>2 DEF Execute
  <2> QED
    BY <2>2, <2>3 DEF AtomicNext
<1>2. ASSUME NEW c \in Clients, CloseCommit(c)
      PROVE  AtomicNext
  <2>1. /\ pc[c] = "closeReady" /\ Carrying(log, ev[c].key) = {} /\ seen[c] = Len(log)
        /\ AppendEvent(ev[c])
    BY <1>2 DEF CloseCommit, MayInsert
  <2>2. PICK i \in DOMAIN log : PausingSubmission(i) /\ ev[c] = CloseoutEvent(i, Len(log))
    BY <2>1 DEF ProcInv, Remembers
  <2>3. st.paused
    BY <2>1 DEF ProcInv, Remembers
  <2>4. ev[c].key = i
    <3>1. i \in Nat /\ Len(log) \in Nat
      BY DEF TypeOK
    <3> QED
      BY <2>2, <3>1, CloseoutFields
  <2>5. CloseRun(i)
    BY <2>1, <2>2, <2>3, <2>4 DEF CloseRun, PausingSubmission
  <2> QED
    BY <2>5 DEF AtomicNext
<1>3. ASSUME NEW c \in Clients, NEW r \in Requests, Lookup(c, r) \/ Replay(c, r)
      PROVE  UNCHANGED store
  BY <1>3 DEF Lookup, Replay
<1>4. ASSUME NEW c \in Clients,
             Validate(c) \/ NothingToDo(c) \/ CommitExisting(c) \/ Conflict(c)
             \/ CloseRead(c) \/ Crash(c)
      PROVE  UNCHANGED store
  BY <1>4 DEF Validate, NothingToDo, CommitExisting, Conflict, CloseRead, Crash
<1>5. CASE UNCHANGED vars
  BY <1>5 DEF vars, store
<1> QED
  BY <1>1, <1>2, <1>3, <1>4, <1>5 DEF Next, Step

OthersUntouched(c) ==
  \A d \in Clients \ {c} : /\ pc'[d] = pc[d] /\ req'[d] = req[d]
                           /\ seen'[d] = seen[d] /\ ev'[d] = ev[d]

(* Goto moves one process and types what it remembers.                      *)
LEMMA GotoEffect ==
  ASSUME TypeOK, log' \in Seq(Event), st' \in State, NEW c \in Clients, NEW step \in Steps,
         NEW r \in Request \cup {Nil}, NEW n \in Nat, NEW e \in Event, Goto(c, step, r, n, e)
  PROVE  /\ TypeOK'
         /\ pc'[c] = step /\ req'[c] = r /\ seen'[c] = n /\ ev'[c] = e
         /\ OthersUntouched(c)
  BY DEF TypeOK, Goto, OthersUntouched

(* The log grows at most by one event, and what it holds does not change.   *)
LogGrows == \/ UNCHANGED store
            \/ /\ Len(log') = Len(log) + 1 /\ DOMAIN log \subseteq DOMAIN log'
               /\ \A i \in DOMAIN log : log'[i] = log[i]

LEMMA AppendGrows ==
  ASSUME log \in Seq(Event), NEW e \in Event, AppendEvent(e)
  PROVE  /\ LogGrows /\ DOMAIN log' = 1..(Len(log) + 1)
         /\ log'[Len(log) + 1] = e
<1>1. log' = Append(log, e)
  BY DEF AppendEvent
<1>2. /\ Len(log') = Len(log) + 1 /\ DOMAIN log' = 1..(Len(log) + 1)
      /\ DOMAIN log = 1..Len(log) /\ log'[Len(log) + 1] = e
      /\ \A i \in DOMAIN log : log'[i] = log[i]
  BY <1>1
<1> QED
  BY <1>2 DEF LogGrows

(* What the others remember survives another process's step.               *)
LEMMA OthersRemember ==
  ASSUME TypeOK, LogGrows, NEW d \in Clients, Remembers(d),
         pc'[d] = pc[d], req'[d] = req[d], seen'[d] = seen[d], ev'[d] = ev[d]
  PROVE  Remembers(d)'
<1>0. Len(log) \in Nat /\ seen[d] \in Nat
  BY DEF TypeOK
<1>1. \A i \in DOMAIN log : PausingSubmission(i) => i \in DOMAIN log' /\ PausingSubmission(i)'
  BY DEF LogGrows, store, PausingSubmission
<1>2. pc[d] = "validated" => (ev[d].key = req[d].key /\ seen[d] <= Len(log)
                              /\ (seen[d] = Len(log) => ev[d] \in EventsFor(st, seen[d], req[d])))'
  <2>1. CASE UNCHANGED store
    BY <2>1 DEF store, Remembers
  <2>2. CASE Len(log') = Len(log) + 1
    BY <1>0, <2>2 DEF Remembers
  <2> QED
    BY <2>1, <2>2 DEF LogGrows
<1>3. pc[d] = "closing" => PausingSubmission(seen[d])'
  <2> SUFFICES ASSUME pc[d] = "closing"
               PROVE  PausingSubmission(seen[d])'
    OBVIOUS
  <2>1. PausingSubmission(seen[d]) /\ seen[d] \in DOMAIN log
    BY DEF Remembers, PausingSubmission
  <2> QED
    BY <2>1 DEF PausingSubmission, LogGrows, store
<1>4. pc[d] = "closeReady" =>
        /\ \E i \in DOMAIN log' : PausingSubmission(i)' /\ ev[d] = CloseoutEvent(i, seen[d])
        /\ seen[d] <= Len(log')
        /\ seen[d] = Len(log') => st'.paused
  <2> SUFFICES ASSUME pc[d] = "closeReady"
               PROVE  /\ \E i \in DOMAIN log' : PausingSubmission(i)' /\ ev[d] = CloseoutEvent(i, seen[d])
                      /\ seen[d] <= Len(log')
                      /\ seen[d] = Len(log') => st'.paused
    OBVIOUS
  <2>1. PICK i \in DOMAIN log : PausingSubmission(i) /\ ev[d] = CloseoutEvent(i, seen[d])
    BY DEF Remembers
  <2>2. i \in DOMAIN log' /\ PausingSubmission(i)'
    BY <1>1, <2>1
  <2>3. seen[d] <= Len(log) /\ (seen[d] = Len(log) => st.paused)
    BY DEF Remembers
  <2>4. seen[d] <= Len(log') /\ (seen[d] = Len(log') => st'.paused)
    BY <1>0, <2>3 DEF LogGrows, store
  <2> QED
    BY <2>1, <2>2, <2>4
<1> QED
  BY <1>2, <1>3, <1>4 DEF Remembers

LEMMA DoneEffect ==
  ASSUME TypeOK, log' \in Seq(Event), st' \in State, NEW c \in Clients, Done(c)
  PROVE  TypeOK' /\ Remembers(c)' /\ OthersUntouched(c)
<1>1. 0 \in Nat /\ "idle" \in Steps /\ BlankEvent \in Event /\ Nil \in Request \cup {Nil}
  BY BlankTyped DEF Steps
<1>2. TypeOK' /\ pc'[c] = "idle" /\ OthersUntouched(c)
  BY <1>1, GotoEffect DEF Done, OthersUntouched
<1> QED
  BY <1>2 DEF Remembers

LEMMA FinishPauseEffect ==
  ASSUME TypeOK, log' \in Seq(Event), st' \in State, NEW c \in Clients,
         NEW i \in DOMAIN log', FinishPause(c, i, log'[i])
  PROVE  TypeOK' /\ Remembers(c)' /\ OthersUntouched(c)
<1>1. CASE log'[i].kind \in SubmissionKinds /\ log'[i].pauseAfter
  <2>1. /\ i \in Nat /\ "closing" \in Steps /\ BlankEvent \in Event
        /\ Nil \in Request \cup {Nil}
    BY BlankTyped DEF Steps
  <2>2. Goto(c, "closing", Nil, i, BlankEvent)
    BY <1>1 DEF FinishPause
  <2>3. TypeOK' /\ pc'[c] = "closing" /\ seen'[c] = i /\ OthersUntouched(c)
    BY <2>1, <2>2, GotoEffect
  <2> QED
    BY <1>1, <2>3 DEF Remembers, PausingSubmission
<1>2. CASE ~(log'[i].kind \in SubmissionKinds /\ log'[i].pauseAfter)
  BY <1>2, DoneEffect DEF FinishPause
<1> QED
  BY <1>1, <1>2

(* Once one process has moved and the store is sound, everyone remembers.   *)
LEMMA ProcInvStep ==
  ASSUME TypeOK, ProcInv, LogGrows, NEW c \in Clients, Remembers(c)', OthersUntouched(c)
  PROVE  ProcInv'
<1> SUFFICES ASSUME NEW d \in Clients, d # c
             PROVE  Remembers(d)'
  BY DEF ProcInv
<1> QED
  BY OthersRemember DEF ProcInv, OthersUntouched

(* What each kind of step does to the processes.                            *)
LEMMA LookupKeeps ==
  ASSUME IInv, NEW c \in Clients, NEW r \in Requests, Lookup(c, r)
  PROVE  TypeOK' /\ Remembers(c)' /\ OthersUntouched(c)
<1>1. /\ log' \in Seq(Event) /\ st' \in State /\ TypeOK
      /\ 0 \in Nat /\ "looked" \in Steps /\ BlankEvent \in Event
      /\ r \in Request \cup {Nil} /\ Goto(c, "looked", r, 0, BlankEvent)
  BY BlankTyped, RequestsAssumption DEF IInv, TypeOK, Lookup, store, Steps
<1>2. TypeOK' /\ pc'[c] = "looked" /\ req'[c] = r /\ OthersUntouched(c)
  BY <1>1, GotoEffect
<1> QED
  BY <1>2 DEF Remembers

LEMMA ReplayKeeps ==
  ASSUME IInv, NEW c \in Clients, NEW r \in Requests, Replay(c, r)
  PROVE  TypeOK' /\ Remembers(c)' /\ OthersUntouched(c)
<1>1. log' = log /\ log' \in Seq(Event) /\ st' \in State /\ TypeOK
  BY DEF IInv, TypeOK, Replay, store
<1>2. PICK i \in DOMAIN log' : FinishPause(c, i, log'[i])
  BY <1>1 DEF Replay, Carrying
<1> QED
  BY <1>1, <1>2, FinishPauseEffect

LEMMA ValidateKeeps ==
  ASSUME IInv, NEW c \in Clients, Validate(c)
  PROVE  TypeOK' /\ Remembers(c)' /\ OthersUntouched(c)
<1>1. /\ log' = log /\ st' = st /\ log' \in Seq(Event) /\ st' \in State /\ TypeOK
      /\ SoundState(st) /\ Len(log) \in Nat /\ pc[c] = "looked"
  BY DEF IInv, AtomicInv, TypeOK, Validate, store
<1>2. req[c] \in Requests /\ req[c] \in Request
  BY <1>1, RequestsAssumption DEF IInv, ProcInv, Remembers
<1>3. PICK e \in EventsFor(st, Len(log), req[c]) :
        Goto(c, "validated", req[c], Len(log), e)
  BY DEF Validate
<1>4. e \in Event /\ e.key = req[c].key
  BY <1>1, <1>2, CommandKeeps DEF Keeps
<1>5. /\ TypeOK' /\ pc'[c] = "validated" /\ req'[c] = req[c] /\ seen'[c] = Len(log)
      /\ ev'[c] = e /\ OthersUntouched(c)
  <2>1. "validated" \in Steps
    BY DEF Steps
  <2> QED
    BY <1>1, <1>2, <1>3, <1>4, <2>1, GotoEffect
<1> QED
  BY <1>1, <1>2, <1>4, <1>5 DEF Remembers

LEMMA CloseReadKeeps ==
  ASSUME IInv, NEW c \in Clients, CloseRead(c)
  PROVE  TypeOK' /\ Remembers(c)' /\ OthersUntouched(c)
<1>1. /\ log' = log /\ st' = st /\ log' \in Seq(Event) /\ st' \in State /\ TypeOK
      /\ Len(log) \in Nat /\ pc[c] = "closing"
  BY DEF IInv, AtomicInv, TypeOK, CloseRead, store
<1>2. CASE st.paused /\ Carrying(log, seen[c]) = {}
  <2>1. PausingSubmission(seen[c]) /\ seen[c] \in DOMAIN log /\ seen[c] \in Nat
    BY <1>1 DEF IInv, ProcInv, Remembers, PausingSubmission, TypeOK
  <2>2. PICK e : e = CloseoutEvent(seen[c], Len(log))
    OBVIOUS
  <2>3. e \in Event
    BY <1>1, <2>1, <2>2, CloseoutFields
  <2>4. Goto(c, "closeReady", Nil, Len(log), e)
    BY <1>2, <2>2 DEF CloseRead
  <2>5. "closeReady" \in Steps /\ Nil \in Request \cup {Nil}
    BY DEF Steps
  <2>6. /\ TypeOK' /\ pc'[c] = "closeReady" /\ seen'[c] = Len(log) /\ ev'[c] = e
        /\ OthersUntouched(c)
    BY <1>1, <2>3, <2>4, <2>5, GotoEffect
  <2>7. \E i \in DOMAIN log' : PausingSubmission(i)' /\ ev'[c] = CloseoutEvent(i, seen'[c])
    BY <1>1, <2>1, <2>2, <2>6 DEF PausingSubmission
  <2> QED
    BY <1>1, <1>2, <2>6, <2>7 DEF Remembers
<1>3. CASE ~(st.paused /\ Carrying(log, seen[c]) = {})
  BY <1>1, <1>3, DoneEffect DEF CloseRead
<1> QED
  BY <1>2, <1>3

LEMMA AppendingKeeps ==
  ASSUME IInv, AtomicInv', NEW c \in Clients, Commit(c) \/ CloseCommit(c)
  PROVE  TypeOK' /\ Remembers(c)' /\ OthersUntouched(c) /\ LogGrows
<1>1. /\ TypeOK /\ log \in Seq(Event) /\ ev[c] \in Event /\ AppendEvent(ev[c])
      /\ log' \in Seq(Event) /\ st' \in State /\ Len(log) \in Nat
  BY DEF IInv, AtomicInv, SoundState, TypeOK, Commit, CloseCommit
<1>2. /\ LogGrows
      /\ Len(log) + 1 \in DOMAIN log' /\ log'[Len(log) + 1] = ev[c]
  BY <1>1, AppendGrows
<1>3. CASE Commit(c)
  <2>1. FinishPause(c, Len(log) + 1, log'[Len(log) + 1])
    BY <1>2, <1>3 DEF Commit
  <2> QED
    BY <1>1, <1>2, <2>1, FinishPauseEffect
<1>4. CASE CloseCommit(c)
  BY <1>1, <1>2, <1>4, DoneEffect DEF CloseCommit
<1> QED
  BY <1>3, <1>4

LEMMA CommitExistingKeeps ==
  ASSUME IInv, NEW c \in Clients, CommitExisting(c)
  PROVE  TypeOK' /\ Remembers(c)' /\ OthersUntouched(c)
<1>1. log' = log /\ log' \in Seq(Event) /\ st' \in State /\ TypeOK
  BY DEF IInv, TypeOK, CommitExisting, store
<1>2. PICK i \in DOMAIN log' : FinishPause(c, i, log'[i])
  BY <1>1 DEF CommitExisting, Carrying
<1> QED
  BY <1>1, <1>2, FinishPauseEffect

LEMMA GivingUpKeeps ==
  ASSUME IInv, NEW c \in Clients, NothingToDo(c) \/ Conflict(c) \/ Crash(c)
  PROVE  TypeOK' /\ Remembers(c)' /\ OthersUntouched(c)
<1>1. log' \in Seq(Event) /\ st' \in State /\ TypeOK /\ Done(c)
  BY DEF IInv, TypeOK, NothingToDo, Conflict, Crash, store
<1> QED
  BY <1>1, DoneEffect

LEMMA NextSound ==
  ASSUME IInv, [Next]_vars
  PROVE  IInv'
<1>1. AtomicInv'
  BY StepRefines, AtomicStepSound DEF IInv
<1>2. TypeOK /\ ProcInv
  BY DEF IInv
<1>3. ASSUME NEW c \in Clients, TypeOK', Remembers(c)', OthersUntouched(c), LogGrows
      PROVE  IInv'
  BY <1>1, <1>2, <1>3, ProcInvStep DEF IInv
<1>4. ASSUME NEW c \in Clients, NEW r \in Requests, Lookup(c, r)
      PROVE  IInv'
  <2>1. LogGrows
    BY <1>4 DEF Lookup, LogGrows
  <2> QED
    BY <1>3, <1>4, <2>1, LookupKeeps
<1>5. ASSUME NEW c \in Clients, NEW r \in Requests, Replay(c, r)
      PROVE  IInv'
  <2>1. LogGrows
    BY <1>5 DEF Replay, LogGrows
  <2> QED
    BY <1>3, <1>5, <2>1, ReplayKeeps
<1>6. ASSUME NEW c \in Clients, Validate(c)
      PROVE  IInv'
  <2>1. LogGrows
    BY <1>6 DEF Validate, LogGrows
  <2> QED
    BY <1>3, <1>6, <2>1, ValidateKeeps
<1>7. ASSUME NEW c \in Clients, Commit(c) \/ CloseCommit(c)
      PROVE  IInv'
  BY <1>1, <1>3, <1>7, AppendingKeeps
<1>8. ASSUME NEW c \in Clients, CommitExisting(c)
      PROVE  IInv'
  <2>1. LogGrows
    BY <1>8 DEF CommitExisting, LogGrows
  <2> QED
    BY <1>3, <1>8, <2>1, CommitExistingKeeps
<1>9. ASSUME NEW c \in Clients, CloseRead(c)
      PROVE  IInv'
  <2>1. LogGrows
    BY <1>9 DEF CloseRead, LogGrows
  <2> QED
    BY <1>3, <1>9, <2>1, CloseReadKeeps
<1>10. ASSUME NEW c \in Clients, NothingToDo(c) \/ Conflict(c) \/ Crash(c)
       PROVE  IInv'
  <2>1. LogGrows
    BY <1>10 DEF NothingToDo, Conflict, Crash, LogGrows
  <2> QED
    BY <1>3, <1>10, <2>1, GivingUpKeeps
<1>11. CASE UNCHANGED vars
  <2>1. UNCHANGED <<log, st, pc, req, seen, ev>>
    BY <1>11 DEF vars
  <2>2. TypeOK'
    BY <1>2, <2>1 DEF TypeOK
  <2>3. ProcInv'
    BY <1>2, <2>1 DEF ProcInv, Remembers, PausingSubmission
  <2> QED
    BY <1>1, <2>2, <2>3 DEF IInv
<1> QED
  BY <1>4, <1>5, <1>6, <1>7, <1>8, <1>9, <1>10, <1>11 DEF Next, Step

\* However the processes interleave and die, what they remember is what
\* the log and the state still bear out, or their append will conflict.
THEOREM CampaignInvariant == Spec => []IInv
<1> QED
  BY InitSound, NextSound, PTL DEF Spec

\* Every variable keeps its type.
THEOREM CampaignTypes == Spec => []TypeOK
<1>1. IInv => TypeOK
  BY DEF IInv
<1> QED
  BY <1>1, CampaignInvariant, PTL

\* The commands are atomic: what the processes do to campaign.db, one
\* transaction at a time, is what AtomicCampaign does in one step.
THEOREM CampaignIsAtomic == Spec => AtomicSpec
<1>1. Init => AtomicInit
  BY DEF Init
<1> QED
  BY <1>1, StepRefines, CampaignInvariant, PTL DEF Spec, AtomicSpec

-----------------------------------------------------------------------------
(* 3. What Campaign inherits.                                               *)

\* Racing processes never leave two attempts prepared.
THEOREM OneActiveAttempt == Spec => []AtMostOneActive
<1>1. IInv => AtMostOneActive
  BY DEF IInv, AtomicInv, SoundState, AtMostOneActive
<1> QED
  BY <1>1, CampaignInvariant, PTL

\* A retried command, or a key two callers share, acts at most once.
THEOREM RetriesActOnce == Spec => []KeysActOnce
<1>1. IInv => KeysActOnce
  BY DEF IInv, AtomicInv
<1> QED
  BY <1>1, CampaignInvariant, PTL

\* The budget checked before an append still holds after it.
THEOREM BudgetHolds == Spec => []WithinBudget
<1>1. IInv => WithinBudget
  BY DEF IInv, AtomicInv, SoundState, WithinBudget
<1> QED
  BY <1>1, CampaignInvariant, PTL

\* The state_version in every closeout receipt is that of its event.
THEOREM ReceiptsAreExact == Spec => []ReceiptsCiteTheirEvent
<1>1. IInv => ReceiptsCiteTheirEvent
  BY DEF IInv, AtomicInv
<1> QED
  BY <1>1, CampaignInvariant, PTL

\* A waiting pause has a task, a paused campaign's attempt has a child, a
\* finalized campaign has no attempt open.
THEOREM PausesAndClosesSound ==
  Spec => [](WaitingPauseHasTask /\ PausedTaskHasChild /\ FinalHasNoActive)
<1>1. IInv => WaitingPauseHasTask /\ PausedTaskHasChild /\ FinalHasNoActive
  BY DEF IInv, AtomicInv, SoundState, WaitingPauseHasTask, PausedTaskHasChild,
     FinalHasNoActive
<1> QED
  BY <1>1, CampaignInvariant, PTL

-----------------------------------------------------------------------------
(* The campaign lives as CampaignLife says, for every set of tasks, keys,    *)
(* children, requests and processes.  There is one lemma for each kind of    *)
(* command, and none needs to know who appended what.  After it, in the      *)
(* same way, what is decided stays so.                                       *)


LifeStep == [Life!Next]_(Life!life)

\* The four fields of the next state that CampaignLife looks at.
LooksLike(active, attempts, paused, pauseAfter, final) ==
  /\ Active(st)' = active /\ Attempts(st)' = attempts
  /\ st'.paused = paused /\ st'.pauseAfter = pauseAfter /\ st'.final = final

(* The phase and the sets that CampaignLife knows are functions of them.   *)
LEMMA SameLooksStutter ==
  ASSUME LooksLike(Active(st), Attempts(st), st.paused, st.pauseAfter, st.final)
  PROVE  LifeStep
  BY DEF LooksLike, LifeStep, Life!life, Phase

LEMMA PrepareLives ==
  ASSUME SoundState(st), NEW n \in Nat, NEW r \in PrepareRequest,
         NEW e \in PrepareEvents(st, n, r), st' = Apply(st, e)
  PROVE  LifeStep
<1>1. PICK t \in Tasks \ Attempts(st) :
        /\ MayPrepare(st, r.use)
        /\ e = [BlankEvent EXCEPT !.kind = "attempt_prepared", !.key = r.key,
                                  !.request = r, !.task = t, !.arg = r.use]
  BY DEF PrepareEvents
<1>2. e.kind = "attempt_prepared" /\ e.task = t
  BY <1>1 DEF BlankEvent
<1>3. st' = Prepared(st, e) /\ st \in State
  BY <1>2 DEF Apply, SoundState
<1>4. /\ st'.attempt = [st.attempt EXCEPT ![t] = "PREPARED"]
      /\ st'.paused = st.paused /\ st'.pauseAfter = st.pauseAfter /\ st'.final = st.final
  BY <1>2, <1>3 DEF Prepared, State
<1>5. st.attempt \in [Tasks -> AttemptStatus]
  BY <1>3 DEF State
<1>6. LooksLike({t}, Attempts(st) \cup {t}, st.paused, st.pauseAfter, st.final)
  BY <1>1, <1>4, <1>5 DEF LooksLike, Active, Attempts, MayPrepare
<1>7. /\ Phase = "open" /\ Phase' = "open" /\ Active(st) = {}
      /\ t \notin Attempts(st) /\ Cardinality(Attempts(st)) < MaxAttempts
  BY <1>1, <1>6 DEF LooksLike, Phase, MayPrepare
<1>8. /\ Phase' = Phase /\ Active(st)' = {t}
      /\ Attempts(st)' = Attempts(st) \cup {t}
  BY <1>6, <1>7 DEF LooksLike
<1>9. Life!Start(t)
  BY <1>7, <1>8, Zenon DEF Life!Start, Life!Cardinality, Cardinality
<1> QED
  BY <1>1, <1>9 DEF LifeStep, Life!Next

(* A submission or a cancellation ends the attempt, and a wait for it.     *)
LEMMA SettleLives ==
  ASSUME SoundState(st), NEW t \in Active(st),
         NEW status \in {"ACCEPTED", "UNSUCCESSFUL", "CANCELLED"},
         st' = Settle(st, t, status)
  PROVE  LifeStep
<1>1. st \in State /\ t \in Tasks /\ Active(st) = {t} /\ st.final = "none"
  BY DEF SoundState, Active
<1>2. /\ st'.attempt = [st.attempt EXCEPT ![t] = status]
      /\ st'.paused = (st.paused \/ st.pauseAfter) /\ st'.pauseAfter = FALSE
      /\ st'.final = "none"
  BY <1>1 DEF Settle, State
<1>3. st.attempt \in [Tasks -> AttemptStatus]
  BY <1>1 DEF State
<1>4. st.attempt[t] = "PREPARED"
  BY DEF Active
<1>5. Active(st)' = {} /\ Attempts(st)' = Attempts(st)
  BY <1>1, <1>2, <1>3, <1>4 DEF Active, Attempts
<1>6. Phase' = IF Phase = "waiting" THEN "paused" ELSE Phase
  BY <1>1, <1>2 DEF Phase
<1>7. Life!End
  BY <1>1, <1>5, <1>6 DEF Life!End
<1> QED
  BY <1>7 DEF LifeStep, Life!Next

LEMMA SubmitLives ==
  ASSUME SoundState(st), NEW n \in Nat, NEW r \in SubmitRequest,
         NEW e \in SubmitEvents(st, n, r), st' = Apply(st, e)
  PROVE  LifeStep
<1>1. PICK t \in {r.task} \cap Active(st) :
        e = [BlankEvent EXCEPT !.kind = IF r.status = "succeeded" THEN "submission_accepted"
                                                                 ELSE "submission_recorded",
                               !.key = r.key, !.request = r, !.task = t,
                               !.pauseAfter = st.pauseAfter]
  BY DEF SubmitEvents
<1>2. e.kind \in SubmissionKinds /\ e.task = t
  BY <1>1 DEF BlankEvent, SubmissionKinds
<1>3. st' = Settle(st, t, "ACCEPTED") \/ st' = Settle(st, t, "UNSUCCESSFUL")
  BY <1>2 DEF Apply, SubmissionKinds
<1> QED
  BY <1>3, SettleLives

LEMMA CancelLives ==
  ASSUME SoundState(st), NEW n \in Nat, NEW r \in CancelRequest,
         NEW e \in CancelEvents(st, n, r), st' = Apply(st, e)
  PROVE  LifeStep
<1>1. PICK t \in Active(st) :
        e = [BlankEvent EXCEPT !.kind = "attempt_cancelled", !.key = r.key,
                               !.request = r, !.task = t]
  BY DEF CancelEvents
<1>2. e.kind = "attempt_cancelled" /\ e.task = t
  BY <1>1 DEF BlankEvent
<1>3. st' = Settle(st, t, "CANCELLED")
  BY <1>2 DEF Apply
<1> QED
  BY <1>3, SettleLives

LEMMA ProgressLives ==
  ASSUME SoundState(st), NEW n \in Nat, NEW r \in ProgressRequest,
         NEW e \in ProgressEvents(st, n, r), st' = Apply(st, e)
  PROVE  LifeStep
<1>1. e.kind = "attempt_progress"
  BY DEF ProgressEvents, BlankEvent
<1>2. st' = Progressed(st, e) /\ st \in State
  BY <1>1 DEF Apply, SoundState
<1>3. /\ st'.attempt = st.attempt /\ st'.paused = st.paused
      /\ st'.pauseAfter = st.pauseAfter /\ st'.final = st.final
  BY <1>2 DEF Progressed, State
<1>4. LooksLike(Active(st), Attempts(st), st.paused, st.pauseAfter, st.final)
  BY <1>3 DEF LooksLike, Active, Attempts
<1> QED
  BY <1>4, SameLooksStutter

LEMMA PauseLives ==
  ASSUME SoundState(st), NEW n \in Nat, NEW r \in PauseRequest,
         NEW e \in PauseEvents(st, n, r), st' = Apply(st, e)
  PROVE  LifeStep
<1> DEFINE m == PauseMode(st, r.mode)
           x == CancelledByPause(st, r.mode)
<1>1. /\ st.final = "none" /\ ~st.paused /\ ~(st.pauseAfter /\ r.mode = "after-task")
      /\ e = [BlankEvent EXCEPT !.kind = "campaign_paused", !.key = r.key, !.request = r,
                                !.task = x, !.arg = m, !.version = n + 1]
  BY DEF PauseEvents
<1>2. e.kind = "campaign_paused" /\ e.task = x /\ e.arg = m
  BY <1>1 DEF BlankEvent
<1>3. st' = Paused(st, e) /\ st \in State
  BY <1>2 DEF Apply, SoundState
<1>4. m = "after-task" => Active(st) # {} /\ ~st.pauseAfter
  BY <1>1 DEF PauseMode
<1>5. x = Nil \/ x \in Active(st)
  BY DEF CancelledByPause
<1>6. m \in PauseModes
  BY DEF PauseMode, PauseModes, PauseRequest
<1> HIDE DEF m, x
<1>7. CASE m = "after-task"
  <2>1. /\ st'.attempt = st.attempt /\ st'.paused = st.paused
        /\ st'.pauseAfter = TRUE /\ st'.final = st.final
    BY <1>2, <1>3, <1>7 DEF Paused, State
  <2>2. Active(st)' = Active(st) /\ Attempts(st)' = Attempts(st)
    BY <2>1 DEF Active, Attempts
  <2>3. Phase = "open" /\ Phase' = "waiting"
    BY <1>1, <1>4, <1>7, <2>1 DEF Phase
  <2>4. Life!AskToPause
    BY <1>4, <1>7, <2>2, <2>3 DEF Life!AskToPause
  <2> QED
    BY <2>4 DEF LifeStep, Life!Next
<1>8. CASE m = "now"
  <2>1. /\ st'.attempt = [t \in Tasks |-> IF t = x THEN "CANCELLED" ELSE st.attempt[t]]
        /\ st'.paused = TRUE /\ st'.pauseAfter = FALSE /\ st'.final = st.final
    BY <1>2, <1>3, <1>8 DEF Paused, State
  <2>2. Attempts(st)' = Attempts(st) /\ Active(st)' = Active(st) \ {x}
    BY <1>5, <2>1, TasksAssumption DEF Active, Attempts
  <2>3. Active(st)' \in {Active(st), {}}
    <3>1. \A t, u \in Active(st) : t = u
      BY DEF SoundState
    <3> QED
      BY <1>5, <2>2, <3>1, TasksAssumption DEF Active
  <2>4. Phase \in {"open", "waiting"} /\ Phase' = "paused"
    BY <1>1, <2>1 DEF Phase
  <2>5. Life!Pause
    BY <2>2, <2>3, <2>4 DEF Life!Pause
  <2> QED
    BY <2>5 DEF LifeStep, Life!Next
<1> QED
  BY <1>6, <1>7, <1>8 DEF PauseModes

LEMMA ResumeLives ==
  ASSUME SoundState(st), NEW n \in Nat, NEW r \in ResumeRequest,
         NEW e \in ResumeEvents(st, n, r), st' = Apply(st, e)
  PROVE  LifeStep
<1>1. /\ st.final # "MET" /\ (st.paused \/ st.pauseAfter \/ st.final # "none")
      /\ e.kind = "campaign_resumed"
  BY DEF ResumeEvents, BlankEvent
<1>2. st' = Resumed(st) /\ st \in State
  BY <1>1 DEF Apply, SoundState
<1>3. /\ st'.attempt = st.attempt /\ st'.paused = FALSE
      /\ st'.pauseAfter = FALSE /\ st'.final = "none"
  BY <1>2 DEF Resumed, State
<1>4. Active(st)' = Active(st) /\ Attempts(st)' = Attempts(st)
  BY <1>3 DEF Active, Attempts
<1>5. Phase \in {"waiting", "paused", "closed"} /\ Phase' = "open"
  BY <1>1, <1>2, <1>3 DEF Phase, State, Verdicts
<1>6. Life!Resume
  BY <1>4, <1>5 DEF Life!Resume
<1> QED
  BY <1>6 DEF LifeStep, Life!Next

LEMMA FinalizeLives ==
  ASSUME SoundState(st), NEW n \in Nat, NEW r \in FinalizeRequest,
         NEW e \in FinalizeEvents(st, n, r), st' = Apply(st, e)
  PROVE  LifeStep
<1>1. PICK v \in Verdicts :
        /\ st.final = "none" /\ Active(st) = {}
        /\ e = [BlankEvent EXCEPT !.kind = "campaign_finalized", !.key = r.key,
                                  !.request = r, !.arg = v, !.version = n + 1]
  BY DEF FinalizeEvents
<1>2. e.kind = "campaign_finalized" /\ e.arg = v
  BY <1>1 DEF BlankEvent
<1>3. st' = [st EXCEPT !.final = v] /\ st \in State /\ ~st.pauseAfter
  BY <1>1, <1>2 DEF Apply, SoundState
<1>4. st'.attempt = st.attempt /\ st'.final = v
  BY <1>3 DEF State
<1>5. Active(st)' = {} /\ Attempts(st)' = Attempts(st)
  BY <1>1, <1>4 DEF Active, Attempts
<1>6. Phase \in {"open", "paused"} /\ Phase' \in {"closed", "met"}
  BY <1>1, <1>3, <1>4 DEF Phase, Verdicts
<1>7. Life!Close
  BY <1>1, <1>5, <1>6 DEF Life!Close
<1> QED
  BY <1>7 DEF LifeStep, Life!Next

LEMMA CommandLives ==
  ASSUME SoundState(st), NEW n \in Nat, NEW r \in Request,
         NEW e \in EventsFor(st, n, r), st' = Apply(st, e)
  PROVE  LifeStep
<1> USE DEF EventsFor, Request, PrepareRequest, SubmitRequest, ProgressRequest,
            PauseRequest, ResumeRequest, CancelRequest, FinalizeRequest
<1>1. CASE r.cmd = "prepare"
  BY <1>1, PrepareLives
<1>2. CASE r.cmd = "submit"
  BY <1>2, SubmitLives
<1>3. CASE r.cmd = "progress"
  BY <1>3, ProgressLives
<1>4. CASE r.cmd = "pause"
  BY <1>4, PauseLives
<1>5. CASE r.cmd = "resume"
  BY <1>5, ResumeLives
<1>6. CASE r.cmd = "cancel"
  BY <1>6, CancelLives
<1>7. CASE r.cmd = "finalize"
  BY <1>7, FinalizeLives
<1> QED
  BY <1>1, <1>2, <1>3, <1>4, <1>5, <1>6, <1>7

LEMMA AtomicInitLives == AtomicInit => Life!Init
<1> SUFFICES ASSUME AtomicInit
             PROVE  Life!Init
  OBVIOUS
<1>1. st = InitState
  BY DEF AtomicInit
<1>2. Phase = "open" /\ Active(st) = {} /\ Attempts(st) = {}
  BY <1>1 DEF InitState, Phase, Active, Attempts
<1> QED
  BY <1>2 DEF Life!Init

LEMMA AtomicStepLives ==
  ASSUME AtomicInv, [AtomicNext]_store
  PROVE  LifeStep
<1>0. Len(log) \in Nat /\ SoundState(st)
  BY DEF AtomicInv
<1>1. ASSUME NEW r \in Requests, Execute(r)
      PROVE  LifeStep
  <2>1. PICK e \in EventsFor(st, Len(log), r) : st' = Apply(st, e)
    BY <1>1 DEF Execute, AppendEvent
  <2> QED
    BY <1>0, <2>1, CommandLives, RequestsAssumption
<1>2. ASSUME NEW i \in DOMAIN log, CloseRun(i)
      PROVE  LifeStep
  <2>1. CloseoutEvent(i, Len(log)).kind = "run_closed"
    <3>1. i \in Nat
      BY DEF AtomicInv
    <3> QED
      BY <1>0, <3>1, CloseoutFields
  <2>2. st' = st
    <3>1. PICK e : e = CloseoutEvent(i, Len(log))
      OBVIOUS
    <3>2. st' = Apply(st, e) /\ e.kind = "run_closed"
      BY <1>2, <2>1, <3>1 DEF CloseRun, AppendEvent
    <3> QED
      BY <3>2 DEF Apply
  <2> QED
    BY <2>2, SameLooksStutter DEF LooksLike, Active, Attempts
<1>3. CASE UNCHANGED store
  BY <1>3, SameLooksStutter DEF store, LooksLike, Active, Attempts
<1> QED
  BY <1>1, <1>2, <1>3 DEF AtomicNext

\* The atomic commands implement the life of a campaign.
THEOREM AtomicLives == AtomicSpec => LifeSpec
<1>1. AtomicInv /\ [AtomicNext]_store => [Life!Next]_(Life!life)
  BY AtomicStepLives DEF LifeStep
<1> QED
  BY <1>1, AtomicInitLives, AtomicSafety, PTL DEF AtomicSpec, LifeSpec, Life!Spec

\* So do the processes that race on campaign.db and crash between their
\* transactions: whatever they append, the campaign lives as it should.
THEOREM CampaignLives == Spec => LifeSpec
<1> QED
  BY CampaignIsAtomic, AtomicLives, PTL

-----------------------------------------------------------------------------
(* What is decided stays decided. *)

Outcomes == {"ACCEPTED", "UNSUCCESSFUL", "CANCELLED"}

\* An event of this kind leaves every outcome alone.
KeepsOutcomes(kind) ==
  /\ \A t \in Tasks : st.attempt[t] \in Outcomes => st'.attempt[t] = st.attempt[t]
  /\ st.final = "MET" => st'.final = "MET" /\ kind \in {"attempt_progress", "run_closed"}

LEMMA SettleKeepsOutcomes ==
  ASSUME SoundState(st), NEW t \in Active(st), NEW status \in Outcomes,
         st' = Settle(st, t, status), NEW kind
  PROVE  KeepsOutcomes(kind)
<1>1. st \in State /\ t \in Tasks /\ st.attempt[t] = "PREPARED" /\ st.final = "none"
  BY DEF SoundState, Active
<1>2. st'.attempt = [st.attempt EXCEPT ![t] = status] /\ st.attempt \in [Tasks -> AttemptStatus]
  BY <1>1 DEF Settle, State
<1> QED
  BY <1>1, <1>2 DEF KeepsOutcomes, Outcomes

LEMMA CommandKeepsOutcomes ==
  ASSUME SoundState(st), NEW n \in Nat, NEW r \in Request,
         NEW e \in EventsFor(st, n, r), st' = Apply(st, e)
  PROVE  KeepsOutcomes(e.kind)
<1>1. st \in State /\ st.attempt \in [Tasks -> AttemptStatus]
  BY DEF SoundState, State
<1>2. CASE r.cmd = "prepare"
  <2>1. PICK t \in Tasks \ Attempts(st) :
          /\ MayPrepare(st, r.use)
          /\ e = [BlankEvent EXCEPT !.kind = "attempt_prepared", !.key = r.key,
                                    !.request = r, !.task = t, !.arg = r.use]
    BY <1>2 DEF EventsFor, PrepareEvents
  <2>2. e.kind = "attempt_prepared" /\ e.task = t
    BY <2>1 DEF BlankEvent
  <2>3. st'.attempt = [st.attempt EXCEPT ![t] = "PREPARED"]
    BY <1>1, <2>2 DEF Apply, Prepared, State
  <2> QED
    BY <1>1, <2>1, <2>3 DEF KeepsOutcomes, Outcomes, Attempts, MayPrepare
<1>3. CASE r.cmd = "submit"
  <2>1. PICK t \in {r.task} \cap Active(st) :
          e = [BlankEvent EXCEPT !.kind = IF r.status = "succeeded" THEN "submission_accepted"
                                                                   ELSE "submission_recorded",
                                 !.key = r.key, !.request = r, !.task = t,
                                 !.pauseAfter = st.pauseAfter]
    BY <1>3 DEF EventsFor, SubmitEvents
  <2>2. e.kind \in SubmissionKinds /\ e.task = t
    BY <2>1 DEF BlankEvent, SubmissionKinds
  <2>3. st' = Settle(st, t, "ACCEPTED") \/ st' = Settle(st, t, "UNSUCCESSFUL")
    BY <2>2 DEF Apply, SubmissionKinds
  <2> QED
    BY <2>3, SettleKeepsOutcomes DEF Outcomes
<1>4. CASE r.cmd = "cancel"
  <2>1. PICK t \in Active(st) :
          e = [BlankEvent EXCEPT !.kind = "attempt_cancelled", !.key = r.key,
                                 !.request = r, !.task = t]
    BY <1>4 DEF EventsFor, CancelEvents
  <2>2. e.kind = "attempt_cancelled" /\ e.task = t
    BY <2>1 DEF BlankEvent
  <2> QED
    BY <2>2, SettleKeepsOutcomes DEF Apply, Outcomes
<1>5. CASE r.cmd = "progress"
  <2>1. e.kind = "attempt_progress"
    BY <1>5 DEF EventsFor, ProgressEvents, BlankEvent
  <2>2. st'.attempt = st.attempt /\ st'.final = st.final
    BY <1>1, <2>1 DEF Apply, Progressed, State
  <2> QED
    BY <2>1, <2>2 DEF KeepsOutcomes
<1>6. CASE r.cmd = "pause"
  <2>1. /\ st.final = "none"
        /\ e.kind = "campaign_paused" /\ e.task \in Active(st) \cup {Nil}
    BY <1>6 DEF EventsFor, PauseEvents, CancelledByPause, BlankEvent
  <2>2. \A t \in Tasks : st'.attempt[t] = st.attempt[t] \/ t = e.task
    BY <1>1, <2>1 DEF Apply, Paused, State
  <2> QED
    BY <2>1, <2>2, TasksAssumption DEF KeepsOutcomes, Outcomes, Active
<1>7. CASE r.cmd = "resume"
  <2>1. st.final # "MET" /\ e.kind = "campaign_resumed"
    BY <1>7 DEF EventsFor, ResumeEvents, BlankEvent
  <2>2. st'.attempt = st.attempt
    BY <1>1, <2>1 DEF Apply, Resumed, State
  <2> QED
    BY <2>1, <2>2 DEF KeepsOutcomes
<1>8. CASE r.cmd = "finalize"
  <2>1. st.final = "none" /\ e.kind = "campaign_finalized"
    BY <1>8 DEF EventsFor, FinalizeEvents, BlankEvent
  <2>2. st'.attempt = st.attempt
    BY <1>1, <2>1 DEF Apply, State
  <2> QED
    BY <2>1, <2>2 DEF KeepsOutcomes
<1> QED
  BY <1>2, <1>3, <1>4, <1>5, <1>6, <1>7, <1>8
     DEF Request, PrepareRequest, SubmitRequest, ProgressRequest, PauseRequest,
         ResumeRequest, CancelRequest, FinalizeRequest

LEMMA AtomicStepKeepsOutcomes ==
  ASSUME AtomicInv, AtomicNext
  PROVE  /\ \A t \in Tasks : st.attempt[t] \in Outcomes => st'.attempt[t] = st.attempt[t]
         /\ st.final = "MET" => /\ st'.final = "MET"
                                /\ Appended => NewEvent.kind \in {"attempt_progress", "run_closed"}
<1>1. PICK e \in Event : AppendEvent(e) /\ KeepsOutcomes(e.kind)
  <2>0. Len(log) \in Nat /\ SoundState(st)
    BY DEF AtomicInv
  <2>1. ASSUME NEW r \in Requests, Execute(r)
        PROVE  \E e \in Event : AppendEvent(e) /\ KeepsOutcomes(e.kind)
    <3>1. PICK e \in EventsFor(st, Len(log), r) : AppendEvent(e)
      BY <2>1 DEF Execute
    <3>2. e \in Event
      BY <2>0, CommandKeeps, RequestsAssumption DEF Keeps
    <3>3. KeepsOutcomes(e.kind)
      BY <2>0, <3>1, CommandKeepsOutcomes, RequestsAssumption DEF AppendEvent
    <3> QED
      BY <3>1, <3>2, <3>3
  <2>2. ASSUME NEW i \in DOMAIN log, CloseRun(i)
        PROVE  \E e \in Event : AppendEvent(e) /\ KeepsOutcomes(e.kind)
    <3>1. PICK e : e = CloseoutEvent(i, Len(log))
      OBVIOUS
    <3>2. i \in Nat
      BY DEF AtomicInv
    <3>3. e \in Event /\ e.kind = "run_closed" /\ AppendEvent(e)
      BY <2>0, <2>2, <3>1, <3>2, CloseoutFields DEF CloseRun
    <3>4. st' = st
      BY <3>3 DEF AppendEvent, Apply
    <3> QED
      BY <3>3, <3>4 DEF KeepsOutcomes
  <2> QED
    BY <2>1, <2>2 DEF AtomicNext
<1>2. NewEvent = e
  <2>1. log \in Seq(Event)
    BY DEF AtomicInv
  <2> QED
    BY <1>1, <2>1 DEF AppendEvent, NewEvent
<1> QED
  BY <1>1, <1>2 DEF KeepsOutcomes

\* An attempt that was submitted or cancelled keeps its status, and a campaign
\* that met its objectives takes only late observations and receipts, however
\* the processes race: their steps are those of AtomicCampaign.
THEOREM WhatIsDecidedStays == Spec => OutcomesAreFinal
<1>1. AtomicInv /\ [AtomicNext]_store =>
        [/\ \A t \in Tasks : st.attempt[t] \in {"ACCEPTED", "UNSUCCESSFUL", "CANCELLED"}
                               => st'.attempt[t] = st.attempt[t]
         /\ st.final = "MET" =>
              /\ st'.final = "MET"
              /\ Appended => NewEvent.kind \in {"attempt_progress", "run_closed"}]_store
  BY AtomicStepKeepsOutcomes DEF Outcomes
<1> QED
  BY <1>1, CampaignIsAtomic, AtomicSafety, PTL DEF AtomicSpec, OutcomesAreFinal

-----------------------------------------------------------------------------
(* A pause that a submission completed is remembered. *)

\* An event completes a pause only if it pauses; only a resumption ends one.
KeepsPauses(e) ==
  /\ e.pauseAfter => st'.paused
  /\ st.paused /\ e.kind # "campaign_resumed" => st'.paused

LEMMA CommandKeepsPauses ==
  ASSUME SoundState(st), NEW n \in Nat, NEW r \in Request,
         NEW e \in EventsFor(st, n, r), st' = Apply(st, e)
  PROVE  KeepsPauses(e)
<1>1. st \in State
  BY DEF SoundState
<1>2. CASE r.cmd = "prepare"
  <2>1. e.kind = "attempt_prepared" /\ ~e.pauseAfter
    BY <1>2 DEF EventsFor, PrepareEvents, BlankEvent
  <2>2. st'.paused = st.paused
    BY <1>1, <2>1 DEF Apply, Prepared, State
  <2> QED
    BY <2>1, <2>2 DEF KeepsPauses
<1>3. CASE r.cmd = "submit"
  <2>1. PICK t \in {r.task} \cap Active(st) :
          e = [BlankEvent EXCEPT !.kind = IF r.status = "succeeded" THEN "submission_accepted"
                                                                   ELSE "submission_recorded",
                                 !.key = r.key, !.request = r, !.task = t,
                                 !.pauseAfter = st.pauseAfter]
    BY <1>3 DEF EventsFor, SubmitEvents
  <2>2. e.kind \in SubmissionKinds /\ e.task = t /\ e.pauseAfter = st.pauseAfter
    BY <2>1 DEF BlankEvent, SubmissionKinds
  <2>3. st' = Settle(st, t, "ACCEPTED") \/ st' = Settle(st, t, "UNSUCCESSFUL")
    BY <2>2 DEF Apply, SubmissionKinds
  <2>4. st'.paused = (st.paused \/ st.pauseAfter)
    BY <1>1, <2>3 DEF Settle, State
  <2> QED
    BY <2>2, <2>4 DEF KeepsPauses
<1>4. CASE r.cmd = "cancel"
  <2>1. e.kind = "attempt_cancelled" /\ ~e.pauseAfter
    BY <1>4 DEF EventsFor, CancelEvents, BlankEvent
  <2>2. st' = Settle(st, e.task, "CANCELLED")
    BY <2>1 DEF Apply
  <2>3. st'.paused = (st.paused \/ st.pauseAfter)
    BY <1>1, <2>2 DEF Settle, State
  <2> QED
    BY <2>1, <2>3 DEF KeepsPauses
<1>5. CASE r.cmd = "progress"
  <2>1. e.kind = "attempt_progress" /\ ~e.pauseAfter
    BY <1>5 DEF EventsFor, ProgressEvents, BlankEvent
  <2>2. st'.paused = st.paused
    BY <1>1, <2>1 DEF Apply, Progressed, State
  <2> QED
    BY <2>1, <2>2 DEF KeepsPauses
<1>6. CASE r.cmd = "pause"
  <2>1. e.kind = "campaign_paused" /\ ~e.pauseAfter
    BY <1>6 DEF EventsFor, PauseEvents, BlankEvent
  <2>2. st'.paused = st.paused \/ st'.paused
    BY <1>1, <2>1 DEF Apply, Paused, State
  <2> QED
    BY <2>1, <2>2 DEF KeepsPauses
<1>7. CASE r.cmd = "resume"
  <2>1. e.kind = "campaign_resumed" /\ ~e.pauseAfter
    BY <1>7 DEF EventsFor, ResumeEvents, BlankEvent
  <2> QED
    BY <2>1 DEF KeepsPauses
<1>8. CASE r.cmd = "finalize"
  <2>1. e.kind = "campaign_finalized" /\ ~e.pauseAfter
    BY <1>8 DEF EventsFor, FinalizeEvents, BlankEvent
  <2>2. st'.paused = st.paused
    BY <1>1, <2>1 DEF Apply, State
  <2> QED
    BY <2>1, <2>2 DEF KeepsPauses
<1> QED
  BY <1>2, <1>3, <1>4, <1>5, <1>6, <1>7, <1>8
     DEF Request, PrepareRequest, SubmitRequest, ProgressRequest, PauseRequest,
         ResumeRequest, CancelRequest, FinalizeRequest

LEMMA AtomicStepKeepsPauses ==
  ASSUME AtomicInv, PausingSubmissionPauses, [AtomicNext]_store
  PROVE  PausingSubmissionPauses'
<1>0. log \in Seq(Event) /\ Len(log) \in Nat /\ SoundState(st)
  BY DEF AtomicInv
<1>1. ASSUME NEW e \in Event, AppendEvent(e), KeepsPauses(e)
      PROVE  PausingSubmissionPauses'
  <2>1. /\ DOMAIN log' = 1..(Len(log) + 1) /\ DOMAIN log = 1..Len(log)
        /\ log'[Len(log) + 1] = e
        /\ \A i \in DOMAIN log : log'[i] = log[i]
    BY <1>0, <1>1 DEF AppendEvent
  <2> SUFFICES ASSUME NEW i \in DOMAIN log', log'[i].pauseAfter, ~st'.paused
               PROVE  \E j \in DOMAIN log' : i < j /\ log'[j].kind = "campaign_resumed"
    BY DEF PausingSubmissionPauses
  <2>2. i \in DOMAIN log /\ log[i].pauseAfter
    BY <1>0, <1>1, <2>1 DEF KeepsPauses
  <2>3. CASE st.paused
    <3>1. e.kind = "campaign_resumed"
      BY <1>1, <2>3 DEF KeepsPauses
    <3> QED
      BY <1>0, <2>1, <2>2, <3>1
  <2>4. CASE ~st.paused
    BY <1>0, <2>1, <2>2, <2>4 DEF PausingSubmissionPauses
  <2> QED
    BY <2>3, <2>4
<1>2. ASSUME NEW r \in Requests, Execute(r)
      PROVE  PausingSubmissionPauses'
  <2>1. PICK e \in EventsFor(st, Len(log), r) : AppendEvent(e)
    BY <1>2 DEF Execute
  <2>2. e \in Event
    BY <1>0, CommandKeeps, RequestsAssumption DEF Keeps
  <2>3. KeepsPauses(e)
    BY <1>0, <2>1, CommandKeepsPauses, RequestsAssumption DEF AppendEvent
  <2> QED
    BY <2>1, <2>2, <2>3, <1>1
<1>3. ASSUME NEW i \in DOMAIN log, CloseRun(i)
      PROVE  PausingSubmissionPauses'
  <2>0. i \in Nat
    BY <1>0
  <2>1. PICK e : e = CloseoutEvent(i, Len(log))
    OBVIOUS
  <2>2. e \in Event /\ e.kind = "run_closed" /\ AppendEvent(e)
    BY <1>0, <1>3, <2>0, <2>1, CloseoutFields DEF CloseRun
  <2>3. st' = st /\ st.paused
    BY <1>3, <2>2 DEF AppendEvent, Apply, CloseRun
  <2>4. KeepsPauses(e)
    BY <2>3 DEF KeepsPauses
  <2> QED
    BY <2>2, <2>4, <1>1
<1>4. CASE UNCHANGED store
  BY <1>4 DEF store, PausingSubmissionPauses
<1> QED
  BY <1>2, <1>3, <1>4 DEF AtomicNext

\* What a pause left running has a child to end it, and a pause that a
\* submission completed lasts until the campaign is resumed, however the
\* processes race (controller.py: submit reads pause_after_task, and the
\* projection settles the pause).
THEOREM PausesStayOrderly == Spec => []PausesAreOrderly
<1>1. AtomicInit => PausingSubmissionPauses
  BY DEF AtomicInit, PausingSubmissionPauses, BlankEvent
<1>2. AtomicSpec => []PausingSubmissionPauses
  BY <1>1, AtomicStepKeepsPauses, AtomicSafety, PTL DEF AtomicSpec
<1>3. IInv => PausedTaskHasChild
  BY DEF IInv, AtomicInv, SoundState, PausedTaskHasChild
<1> QED
  BY <1>2, <1>3, CampaignIsAtomic, CampaignInvariant, PTL DEF PausesAreOrderly
=============================================================================
