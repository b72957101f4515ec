----------------------------- MODULE CampaignLife -----------------------------
(***************************************************************************)
(* The life of a campaign as `neuron-campaign status` shows it, and no     *)
(* more: the phase it is in, the attempt that runs, the attempts it has    *)
(* spent.  No log, keys, versions, children or receipts: AtomicCampaign,   *)
(* and through it the racing processes of Campaign, implement this.        *)
(***************************************************************************)
EXTENDS Naturals, FiniteSets

CONSTANTS Tasks, MaxAttempts

VARIABLES
  phase,    \* what the campaign is open to
  running,  \* the attempt that is being worked on, if any
  spent     \* the attempts that were ever prepared

life == <<phase, running, spent>>

Phases == {"open", "waiting", "paused", "closed", "met"}

Init == phase = "open" /\ running = {} /\ spent = {}

\* Work starts only in an open campaign, on one task at a time, in budget.
Start(t) ==
  /\ phase = "open" /\ running = {}
  /\ t \notin spent /\ Cardinality(spent) < MaxAttempts
  /\ running' = {t} /\ spent' = spent \cup {t}
  /\ UNCHANGED phase

\* An accepted, recorded or cancelled attempt never runs again, and its end
\* completes a pause that waited for it.
End ==
  /\ running # {} /\ running' = {}
  /\ phase' = IF phase = "waiting" THEN "paused" ELSE phase
  /\ UNCHANGED spent

\* Only an attempt that runs can be waited for.
AskToPause ==
  /\ phase = "open" /\ running # {} /\ phase' = "waiting"
  /\ UNCHANGED <<running, spent>>

Pause ==
  /\ phase \in {"open", "waiting"} /\ phase' = "paused"
  /\ running' \in {running, {}}
  /\ UNCHANGED spent

\* A campaign that met its objectives is not resumed.
Resume ==
  /\ phase \in {"waiting", "paused", "closed"} /\ phase' = "open"
  /\ UNCHANGED <<running, spent>>

\* Nothing runs in a campaign that closes.
Close ==
  /\ phase \in {"open", "paused"} /\ running = {}
  /\ phase' \in {"closed", "met"}
  /\ UNCHANGED <<running, spent>>

Next == (\E t \in Tasks : Start(t)) \/ End \/ AskToPause \/ Pause \/ Resume \/ Close

Spec == Init /\ [][Next]_life
=============================================================================
