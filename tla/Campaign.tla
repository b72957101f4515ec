------------------------------- MODULE Campaign -------------------------------
(***************************************************************************)
(* The neuron-campaign commands as processes.  Each command is a CLI       *)
(* process (cli.py) that runs a CampaignController method: it looks its    *)
(* idempotency key up, reads and validates the state, and appends one      *)
(* event if the version has not changed since; a submission that completed *)
(* a pause goes on to append a closeout receipt.  The three are separate   *)
(* SQLite transactions, other processes interleave, and a process may die  *)
(* between any two of them.                                                *)
(***************************************************************************)
EXTENDS AtomicCampaign

CONSTANTS Clients,   \* processes running a command
          MaxEvents  \* bound: no command is validated against a longer log

ASSUME MaxEventsAssumption == MaxEvents \in Nat

VARIABLES
  pc,    \* where each process is
  req,   \* the request it runs
  seen,  \* the sequence it remembers: of the state it read, or of its event
  ev     \* the event it is about to append

vars == <<log, st, pc, req, seen, ev>>

Steps == {"idle", "looked", "validated", "closing", "closeReady"}

TypeOK == /\ log \in Seq(Event)
          /\ st \in State
          /\ pc \in [Clients -> Steps]
          /\ req \in [Clients -> Request \cup {Nil}]
          /\ seen \in [Clients -> Nat]
          /\ ev \in [Clients -> Event]

Init == /\ AtomicInit
        /\ pc = [c \in Clients |-> "idle"]
        /\ req = [c \in Clients |-> Nil]
        /\ seen = [c \in Clients |-> 0]
        /\ ev = [c \in Clients |-> BlankEvent]

Goto(c, step, r, n, e) ==
  /\ pc' = [pc EXCEPT ![c] = step]
  /\ req' = [req EXCEPT ![c] = r]
  /\ seen' = [seen EXCEPT ![c] = n]
  /\ ev' = [ev EXCEPT ![c] = e]

Done(c) == Goto(c, "idle", Nil, 0, BlankEvent)

\* The command's event is e, at sequence i: done, unless e completed a pause.
FinishPause(c, i, e) ==
  IF e.kind \in SubmissionKinds /\ e.pauseAfter
  THEN Goto(c, "closing", Nil, i, BlankEvent)
  ELSE Done(c)

-----------------------------------------------------------------------------
(* The steps of a command. *)

\* Callers name tasks they were told of.  A prepare that cites an older
\* version than the current one is refused: only one that cites the current
\* version need start, and it may be overtaken before it reads the state.
Known(r) ==
  /\ r.cmd = "prepare" => r.asof = Len(log)
  /\ r.cmd \in {"submit", "progress", "cancel"} => r.task \in Attempts(st)

\* A new key: go on to read the state.  (finalize reads the state first; the
\* log only grows, so it can do no more than a finalize that reads it next.)
Lookup(c, r) ==
  /\ pc[c] = "idle" /\ Known(r)
  /\ Carrying(log, r.key) = {}
  /\ Goto(c, "looked", r, 0, BlankEvent)
  /\ UNCHANGED store

\* Mutant: a replayed submission does not finish the pause it completed.
ReplayWithoutCloseout(c, r) ==
  /\ pc[c] = "idle" /\ Carrying(log, r.key) # {}
  /\ UNCHANGED vars

\* A known key with the same command and digest replays the recorded event.
\* (Any other use of a known key is a ConflictError that changes nothing.)
Replay(c, r) ==
  /\ pc[c] = "idle"
  /\ \E i \in Carrying(log, r.key) :
       /\ log[i].kind \in KindsOf(r.cmd) /\ log[i].request = r
       /\ FinishPause(c, i, log[i])
  /\ UNCHANGED store

\* One read of the state serves every check of the command.
Validate(c) ==
  /\ pc[c] = "looked" /\ Len(log) < MaxEvents
  /\ \E e \in EventsFor(st, Len(log), req[c]) :
       Goto(c, "validated", req[c], Len(log), e)
  /\ UNCHANGED store

\* The command is refused or has nothing to do; its key is not recorded.
NothingToDo(c) ==
  /\ pc[c] = "looked" /\ EventsFor(st, Len(log), req[c]) = {}
  /\ Done(c)
  /\ UNCHANGED store

\* Mutants: the version, or the key, is not checked in the append itself.
MayInsertStale(e, n) == Carrying(log, e.key) = {}

MayInsertAgain(e, n) == n = Len(log)

\* CampaignStore.append inserts: the key is new and the version current.
MayInsert(e, n) == Carrying(log, e.key) = {} /\ n = Len(log)

Commit(c) ==
  /\ pc[c] = "validated" /\ MayInsert(ev[c], seen[c])
  /\ AppendEvent(ev[c])
  /\ FinishPause(c, Len(log) + 1, ev[c])

\* CampaignStore.append finds its own event: another process, given the same
\* request, appended it first.  (A prepare never does: its uuids differ.)
CommitExisting(c) ==
  /\ pc[c] = "validated" /\ req[c].cmd # "prepare"
  /\ \E i \in Carrying(log, ev[c].key) :
       log[i] = ev[c] /\ FinishPause(c, i, ev[c])
  /\ UNCHANGED store

\* CampaignStore.append raises ConflictError: a stale version, a reused key.
Conflict(c) ==
  /\ pc[c] \in {"validated", "closeReady"} /\ ~MayInsert(ev[c], seen[c])
  /\ Done(c)
  /\ UNCHANGED store

\* _finish_pause reads the state afresh.
CloseRead(c) ==
  /\ pc[c] = "closing"
  /\ IF st.paused /\ Carrying(log, seen[c]) = {}
     THEN Goto(c, "closeReady", Nil, Len(log), CloseoutEvent(seen[c], Len(log)))
     ELSE Done(c)
  /\ UNCHANGED store

CloseCommit(c) ==
  /\ pc[c] = "closeReady" /\ MayInsert(ev[c], seen[c])
  /\ AppendEvent(ev[c])
  /\ Done(c)

\* The process dies, or a check of files or of time outside the store fails.
Crash(c) == pc[c] # "idle" /\ Done(c) /\ UNCHANGED store

Step(c) ==
  \/ Validate(c) \/ NothingToDo(c) \/ Commit(c) \/ CommitExisting(c)
  \/ Conflict(c) \/ CloseRead(c) \/ CloseCommit(c)

Next == \E c \in Clients :
          \/ \E r \in Requests : Lookup(c, r) \/ Replay(c, r)
          \/ Step(c)
          \/ Crash(c)

Spec == Init /\ [][Next]_vars

-----------------------------------------------------------------------------
(* Liveness.  The caller of a submission sends it again until it has its    *)
(* answer, and the process that answers does not die, or lose the race for  *)
(* the version, every single time it is about to write the closeout: strong *)
(* fairness, for a crash or a race disables the step.  No process hangs: it *)
(* goes on or dies (every SQLite call has a timeout).                       *)

Retry(r) == \E c \in Clients : Replay(c, r)

Fairness == /\ \A c \in Clients : /\ WF_vars(Step(c) \/ Crash(c))
                                   /\ SF_vars(CloseRead(c))
                                   /\ SF_vars(CloseCommit(c))
            /\ \A r \in Requests : r.cmd = "submit" => SF_vars(Retry(r))

FairSpec == Spec /\ Fairness

\* A submission that completed a pause gets its closeout receipt, however
\* often the process writing it dies or loses the race for the version,
\* unless the campaign is resumed in the meantime.
CloseoutDelivered ==
  \A i \in 1..MaxEvents :
    (i \in DOMAIN log /\ log[i].pauseAfter) ~>
      \/ Carrying(log, i) # {}
      \/ \E j \in DOMAIN log : i < j /\ log[j].kind = "campaign_resumed"
=============================================================================
