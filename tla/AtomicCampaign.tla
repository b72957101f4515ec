---------------------------- MODULE AtomicCampaign ----------------------------
(***************************************************************************)
(* What CampaignController promises to its callers: every command takes    *)
(* effect at one instant, on the state it was validated against.  The log  *)
(* is campaign.db's events table, st its projection.  Campaign, where each *)
(* command is several transactions of a process that may crash or race,    *)
(* implements this specification.                                          *)
(***************************************************************************)
EXTENDS CampaignState

CONSTANT Requests  \* the commands the callers may issue

ASSUME RequestsAssumption == Requests \subseteq Request

VARIABLES log, st

store == <<log, st>>

AppendEvent(e) == log' = Append(log, e) /\ st' = Apply(st, e)

AtomicInit == log = <<BlankEvent>> /\ st = InitState

Execute(r) ==
  /\ Carrying(log, r.key) = {}
  /\ \E e \in EventsFor(st, Len(log), r) : AppendEvent(e)

\* A submission that completed a pause gets its closeout receipt, once.
CloseRun(i) ==
  /\ log[i].kind \in SubmissionKinds /\ log[i].pauseAfter
  /\ st.paused /\ Carrying(log, i) = {}
  /\ AppendEvent(CloseoutEvent(i, Len(log)))

AtomicNext == (\E r \in Requests : Execute(r)) \/ (\E i \in DOMAIN log : CloseRun(i))

AtomicSpec == AtomicInit /\ [][AtomicNext]_store

-----------------------------------------------------------------------------
(* Safety. *)

\* At most one attempt is PREPARED, so CampaignStore.state never raises
\* "campaign has more than one active attempt", whatever the callers race.
AtMostOneActive == \A t, u \in Active(st) : t = u

\* An idempotency key answers for at most one event: a retried command,
\* or two callers sharing a key, never act twice.
KeysActOnce ==
  \A i, j \in DOMAIN log : log[i].key = log[j].key /\ log[i].key # Nil => i = j

\* The budget holds although callers check it before they append: no more
\* attempts, and no more hardware grants, than the specification allows.
WithinBudget == /\ Cardinality(Attempts(st)) <= MaxAttempts
                /\ Cardinality(st.hardware) <= MaxHardwareAttempts

\* A closeout receipt cites the version of the event that carries it, though
\* it is computed from an earlier read of the state.
ReceiptsCiteTheirEvent == \A i \in DOMAIN log : log[i].version \in {0, i}

\* A pause that waits for a task has an active task to wait for: whatever
\* ends the attempt also completes the pause.
WaitingPauseHasTask == st.pauseAfter => Active(st) # {}

\* While paused, an attempt survives only because a native child works on it.
PausedTaskHasChild == st.paused => \A t \in Active(st) : st.child[t] # Nil

\* A finalized campaign leaves no attempt open.
FinalHasNoActive == st.final # "none" => Active(st) = {}

\* A recorded submission remembers whether it completed a pause; if it did,
\* the campaign is not left waiting, and it is paused until it is resumed.
PausingSubmissionPauses ==
  \A i \in DOMAIN log :
    log[i].pauseAfter =>
      \/ st.paused
      \/ \E j \in DOMAIN log : i < j /\ log[j].kind = "campaign_resumed"

\* A pause leaves behind only what a native child still works on, and the
\* submission that completed one is remembered as having done so.
PausesAreOrderly == PausedTaskHasChild /\ PausingSubmissionPauses

-----------------------------------------------------------------------------
(* Action properties. *)

\* The status of CampaignStore.state, with PAUSED and FINALIZED split by what
\* they leave possible: a verdict hides a pause, and PAUSED also waits.
Phase == CASE st.final = "MET"                            -> "met"
           [] st.final = "resumable"                      -> "closed"
           [] st.final = "none" /\ st.paused              -> "paused"
           [] st.final = "none" /\ ~st.paused /\ st.pauseAfter  -> "waiting"
           [] OTHER                                       -> "open"

Life == INSTANCE CampaignLife
          WITH phase <- Phase, running <- Active(st), spent <- Attempts(st)

\* The campaign lives as CampaignLife says, whatever events, keys, versions
\* and child agents it takes: work starts only when the campaign is open and
\* idle, whatever ends the attempt ends the wait for it, a campaign that
\* closes leaves nothing running, and one that met its objectives stays met.
LifeSpec == Life!Spec

\* The event this step appended.
NewEvent == log'[Len(log')]
Appended == Len(log') > Len(log)

\* An attempt that was submitted or cancelled never changes status again,
\* even when a submission races a cancellation or a pause; and a campaign that
\* met its objectives stays finalized: after it, only late observations of a
\* child and a late closeout receipt are recorded.
OutcomesAreFinal ==
  [][/\ \A t \in Tasks : st.attempt[t] \in {"ACCEPTED", "UNSUCCESSFUL", "CANCELLED"}
                            => st'.attempt[t] = st.attempt[t]
     /\ st.final = "MET" =>
          /\ st'.final = "MET"
          /\ Appended => NewEvent.kind \in {"attempt_progress", "run_closed"}]_store
=============================================================================
