---------------------------- MODULE ServerLifecycle ----------------------------
(***************************************************************************)
(* Launch, wait for and tear down one server by its runfile                *)
(* (server_lifecycle.py, process.py).  Commands are processes that may be  *)
(* interrupted at any point; launch and teardown hold the runfile's flock, *)
(* wait takes it only to remember the group's members.  The operating      *)
(* system is the environment: processes fork, exit, become zombies and are *)
(* reaped, process ids are recycled, the machine reboots.                  *)
(*                                                                         *)
(* A process group is read by a walk over /proc, one entry a step, while   *)
(* its members fork and exit: the answer may be true of no moment.  Whoever *)
(* walks holds the lock, so there is one walk at a time.                   *)
(***************************************************************************)
EXTENDS Naturals

CONSTANTS
  Pids,        \* process ids the system may hand out
  Strangers,   \* bound: those it may hand out to others than our servers
  Ops,         \* commands in progress
  MaxLaunches, \* bound: servers launched
  MaxStarts,   \* bound: uses of a process id between two boots
  MaxBoots,    \* bound: boots of the machine
  None

ASSUME ServerBounds == {MaxLaunches, MaxStarts, MaxBoots} \subseteq Nat /\ MaxBoots # 0

VARIABLES
  proc,     \* the process table
  started,  \* how often each process id was used since the boot
  boot,     \* the boot in progress
  launches, \* the number of servers launched
  runfile,  \* the runfile's document, or None
  lock,     \* the holder of the runfile's flock, or None
  pc, doc,  \* where each command is, and the document it loaded
  walk,     \* the walk over /proc in progress, or None
  served    \* history: who of the runfile's launch a wait found when it reported READY

os == <<proc, started, boot, launches>>
vars == <<proc, started, boot, launches, runfile, lock, pc, doc, walk, served>>

Launches == 1..MaxLaunches

\* `launch` is 0 for a process that has nothing to do with our servers.  A
\* killed process has a SIGKILL pending; it may be in the kernel for long.
Process == [group : Pids, start : 1..MaxStarts, launch : 0..MaxLaunches,
            state : {"running", "killed", "zombie"}]

\* ProcessIdentity; the group and session of a member are the document's pid.
Identity == [pid : Pids, start : 1..MaxStarts]

Document == [launch : Launches, pid : Pids, boot : 1..MaxBoots,
             members : SUBSET Identity, cleanup : {"none", "complete", "failed"}]

\* The entries still to be read, the members found so far and whether one of
\* them was alive; history: the processes forked since the walk began.
Walk == [todo : SUBSET Pids, members : SUBSET Identity, alive : BOOLEAN, late : SUBSET Identity]

ASSUME NoneAssumption == /\ None \notin Ops /\ None \notin Process
                         /\ None \notin Document /\ None \notin Walk

\* Where a command asks whether a group is alive, and where it lists one.
Looking == {"launching", "looking", "again", "checkTerm", "checkKill", "awaitTerm", "awaitKill"}
Listing == {"launched", "remembering", "snapshot"}

Positions == {"idle", "waiting", "ready", "signalTerm", "signalKill", "complete", "failed"}
             \cup Looking \cup Listing

TypeOK == /\ proc \in [Pids -> Process \cup {None}]
          /\ started \in [Pids -> 0..MaxStarts]
          /\ boot \in 1..MaxBoots
          /\ launches \in 0..MaxLaunches
          /\ runfile \in Document \cup {None}
          /\ lock \in Ops \cup {None}
          /\ pc \in [Ops -> Positions]
          /\ doc \in [Ops -> Document \cup {None}]
          /\ walk \in Walk \cup {None}
          /\ served \subseteq Identity

Init == /\ proc = [p \in Pids |-> None]
        /\ started = [p \in Pids |-> 0]
        /\ boot = 1 /\ launches = 0
        /\ runfile = None /\ lock = None
        /\ pc = [o \in Ops |-> "idle"]
        /\ doc = [o \in Ops |-> None]
        /\ walk = None
        /\ served = {}

-----------------------------------------------------------------------------
(* What the commands see of the process table.                              *)

Group(g) == {p \in Pids : proc[p] # None /\ proc[p].group = g}
Live(p) == proc[p] # None /\ proc[p].state # "zombie"

IdentityOf(p) == [pid |-> p, start |-> proc[p].start]

\* Mutant: a recorded process is recognised across boots.
OwnedAnyBoot(d) ==
  \E m \in d.members : Live(m.pid) /\ proc[m.pid].group = d.pid /\ IdentityOf(m.pid) = m

\* assert_group_owned: a recorded member is still alive in its group.
Owned(d) ==
  d.boot = boot /\ \E m \in d.members :
    Live(m.pid) /\ proc[m.pid].group = d.pid /\ IdentityOf(m.pid) = m

-----------------------------------------------------------------------------
(* The operating system.                                                    *)

Signalling == {"signalTerm", "signalKill"}
Checked == Signalling \cup {"snapshot", "remembering"}

\* The kernel does not hand out an id that names a living group.  It hands out
\* ids in turn: the one a command has just checked is not recycled before the
\* command has signalled the group, or has listed it.
Fresh(p) == /\ proc[p] = None /\ Group(p) = {} /\ started[p] < MaxStarts
            /\ \A o \in Ops : pc[o] \in Checked => doc[o].pid # p

Start(p, g, n) ==
  /\ proc' = [proc EXCEPT ![p] = [group |-> g, start |-> started[p] + 1,
                                  launch |-> n, state |-> "running"]]
  /\ started' = [started EXCEPT ![p] = @ + 1]

Fork(p, q) == /\ proc[p] # None /\ proc[p].state = "running" /\ proc[p].launch # 0
              /\ Fresh(q)
              /\ Start(q, proc[p].group, proc[p].launch)
              /\ walk' = IF walk = None THEN None
                         ELSE [walk EXCEPT !.late = @ \cup {[pid |-> q, start |-> started[q] + 1]}]
              /\ UNCHANGED <<boot, launches, runfile, lock, pc, doc, served>>

Stranger(p) == /\ p \in Strangers /\ Fresh(p) /\ Start(p, p, 0)
               /\ UNCHANGED <<boot, launches, runfile, lock, pc, doc, walk, served>>

Exit(p) == /\ Live(p)
           /\ proc' = [proc EXCEPT ![p].state = "zombie"]
           /\ UNCHANGED <<started, boot, launches, runfile, lock, pc, doc, walk, served>>

\* A leader is reaped by its launcher, or by init once the launcher is gone.
Reap(p) == /\ proc[p] # None /\ proc[p].state = "zombie"
           /\ \A o \in Ops : pc[o] = "launched" => doc[o].pid # p
           /\ proc' = [proc EXCEPT ![p] = None]
           /\ UNCHANGED <<started, boot, launches, runfile, lock, pc, doc, walk, served>>

\* Only the runfile survives.
Reboot == /\ boot < MaxBoots
          /\ boot' = boot + 1
          /\ proc' = [p \in Pids |-> None]
          /\ started' = [p \in Pids |-> 0]
          /\ lock' = None /\ walk' = None
          /\ pc' = [o \in Ops |-> "idle"]
          /\ doc' = [o \in Ops |-> None]
          /\ served' = {}
          /\ UNCHANGED <<launches, runfile>>

-----------------------------------------------------------------------------
(* Reading a process group.                                                 *)

Become(o, step, d) == pc' = [pc EXCEPT ![o] = step] /\ doc' = [doc EXCEPT ![o] = d]

BeginWalk == walk' = [todo |-> Pids, members |-> {}, alive |-> FALSE, late |-> {}]
EndWalk == walk' = None
Walked == walk # None /\ walk.todo = {}

\* Mutant: only the leader is looked for.
LeaderOf(g, p) == p \in Group(g) /\ p = g

\* ProcessIdentity.read of one entry: a process of the group.
MemberOf(g, p) == p \in Group(g)

\* killpg(pgid, 0) finds somebody, a zombie at least: the walk begins.
Probe(o) ==
  /\ pc[o] \in Looking /\ walk = None /\ Group(doc[o].pid) # {}
  /\ BeginWalk
  /\ UNCHANGED <<os, runfile, lock, pc, doc, served>>

\* One entry of /proc, in whatever order they are listed.  A look that has seen
\* somebody alive has its answer: what else it reads is of no consequence.
Read(o, p) ==
  /\ lock = o /\ walk # None /\ p \in walk.todo
  /\ pc[o] \in Listing \/ ~walk.alive
  /\ LET found == MemberOf(doc[o].pid, p)
     IN  walk' = [walk EXCEPT !.todo = @ \ {p},
                              !.members = IF found THEN @ \cup {IdentityOf(p)} ELSE @,
                              !.alive = @ \/ (found /\ Live(p))]
  /\ UNCHANGED <<os, runfile, lock, pc, doc, served>>

\* What _pgid_alive answers.  A group that the kernel knows and of which the
\* walk saw nobody counts as alive.
SeenDead(o) == \/ walk = None /\ Group(doc[o].pid) = {}
               \/ Walked /\ walk.members # {} /\ ~walk.alive
SeenAlive == walk # None /\ (walk.alive \/ (Walked /\ walk.members = {}))

\* What group_members returns.
Listed(d) == [d EXCEPT !.members = walk.members]

-----------------------------------------------------------------------------
(* The commands.                                                            *)

Acquire(o) == lock = None /\ lock' = o
Release(o) == lock' = None

\* Mutant: a group is taken over when its recorded leader is gone.
LeaderIsGone(o) == SeenDead(o) \/ (SeenAlive /\ ~(Live(doc[o].pid) /\ proc[doc[o].pid].group = doc[o].pid))

\* A runfile that names a live group of ours is not launched over; one whose
\* recorded processes are all gone is.
MayLaunch(o) == SeenDead(o) \/ (SeenAlive /\ ~Owned(doc[o]))

StartLaunch(o) ==
  /\ pc[o] = "idle" /\ runfile # None /\ Acquire(o)
  /\ Become(o, "launching", runfile)
  /\ UNCHANGED <<os, runfile, walk, served>>

\* The runfile still names a live group of ours; or the log cannot be opened,
\* or Popen fails.
GiveUpLaunch(o) ==
  /\ pc[o] = "launching" /\ (SeenAlive \/ SeenDead(o))
  /\ Become(o, "idle", None) /\ Release(o) /\ EndWalk
  /\ UNCHANGED <<os, runfile, served>>

\* Popen: a new process, leader of its own session and group.  It reads nothing,
\* so it is one step with the answer that allows it.
Launch(o, p) ==
  /\ \/ pc[o] = "idle" /\ runfile = None /\ Acquire(o)
     \/ pc[o] = "launching" /\ MayLaunch(o) /\ UNCHANGED lock
  /\ Fresh(p) /\ launches < MaxLaunches
  /\ launches' = launches + 1
  /\ Start(p, p, launches + 1)
  /\ Become(o, "launched", [launch |-> launches + 1, pid |-> p, boot |-> boot,
                            members |-> {}, cleanup |-> "none"])
  /\ EndWalk
  /\ UNCHANGED <<boot, runfile, served>>

\* The leader is alive: its group is listed.
List(o) ==
  /\ pc[o] = "launched" /\ walk = None /\ Live(doc[o].pid)
  /\ BeginWalk
  /\ UNCHANGED <<os, runfile, lock, pc, doc, served>>

Record(o) ==
  /\ pc[o] = "launched" /\ Walked
  /\ runfile' = Listed(doc[o]) /\ served' = {}
  /\ Become(o, "idle", None) /\ Release(o) /\ EndWalk
  /\ UNCHANGED os

Kill(g) == proc' = [p \in Pids |-> IF p \in Group(g) /\ Live(p)
                                   THEN [proc[p] EXCEPT !.state = "killed"] ELSE proc[p]]

\* The leader exited already, or the runfile cannot be written: _abort_launch.
AbortLaunch(o) ==
  /\ pc[o] = "launched"
  /\ Kill(doc[o].pid)
  /\ Become(o, "idle", None) /\ Release(o) /\ EndWalk
  /\ UNCHANGED <<started, boot, launches, runfile, served>>

\* wait reads the runfile without the lock, and checks its document on every
\* poll; it has no use for the receipt in it.
StartWait(o) ==
  /\ pc[o] = "idle" /\ runfile # None /\ Owned(runfile)
  /\ Become(o, "waiting", [runfile EXCEPT !.cleanup = "none"])
  /\ UNCHANGED <<os, runfile, lock, walk, served>>

\* The health endpoint, or the log, shows the server ready.  All that is used of
\* the document from now on is which launch it describes.
Observe(o) ==
  /\ pc[o] = "waiting" /\ Owned(doc[o]) /\ Live(doc[o].pid)
  /\ Become(o, "ready", [doc[o] EXCEPT !.members = {}])
  /\ UNCHANGED <<os, runfile, lock, walk, served>>

\* Mutant: the wait goes on with the copy of the document that it began with.
RememberOwnCopy(o) ==
  /\ pc[o] = "ready" /\ Acquire(o)
  /\ Become(o, "remembering", doc[o]) /\ BeginWalk
  /\ UNCHANGED <<os, runfile, served>>

\* remember_members, under the lock: the runfile is loaded once more.
StartRemember(o) ==
  /\ pc[o] = "ready" /\ Acquire(o)
  /\ runfile.launch = doc[o].launch /\ Owned(runfile)
  /\ Become(o, "remembering", runfile) /\ BeginWalk
  /\ UNCHANGED <<os, runfile, served>>

\* Who was alive when the walk began, and still is.
Report(d) == served' = served \cup
  ({IdentityOf(p) : p \in {q \in Group(d.pid) : Live(q)}} \ walk.late)

\* Mutant: the members are not recorded.
RememberNothing(o) ==
  /\ pc[o] = "remembering" /\ Walked
  /\ Report(doc[o])
  /\ Become(o, "idle", None) /\ Release(o) /\ EndWalk
  /\ UNCHANGED <<os, runfile>>

\* The members are written, then READY.
Remember(o) ==
  /\ pc[o] = "remembering" /\ Walked
  /\ runfile' = Listed(doc[o]) /\ Report(doc[o])
  /\ Become(o, "idle", None) /\ Release(o) /\ EndWalk
  /\ UNCHANGED os

\* The deadline passes, the log is stale, the leader exits, ownership cannot
\* be shown any more, or the runfile names another launch.
GiveUpWait(o) ==
  /\ pc[o] \in {"waiting", "ready"}
  /\ Become(o, "idle", None)
  /\ UNCHANGED <<os, runfile, lock, walk, served>>

StartTeardown(o) ==
  /\ pc[o] = "idle" /\ runfile # None /\ Acquire(o)
  /\ Become(o, "looking", runfile)
  /\ UNCHANGED <<os, runfile, walk, served>>

\* _owned_group_alive, wherever a teardown asks: nobody is left;
Gone(o) ==
  /\ pc[o] \in Looking \ {"launching"} /\ SeenDead(o)
  /\ Become(o, "complete", doc[o]) /\ EndWalk
  /\ UNCHANGED <<os, runfile, lock, served>>

\* the group is alive and ours, so that it is listed once more (looking), or
\* may be signalled;
Approve(o) ==
  /\ pc[o] \in {"looking", "checkTerm", "checkKill"} /\ SeenAlive /\ Owned(doc[o])
  /\ \/ pc[o] = "looking" /\ Become(o, "snapshot", doc[o]) /\ BeginWalk
     \/ pc[o] = "checkTerm" /\ Become(o, "signalTerm", doc[o]) /\ EndWalk
     \/ pc[o] = "checkKill" /\ Become(o, "signalKill", doc[o]) /\ EndWalk
  /\ UNCHANGED <<os, runfile, lock, served>>

\* the group is alive and cannot be shown to be ours: look again, for it may
\* have died meanwhile, and refuse if it has not.
Disown(o) ==
  /\ pc[o] \in {"looking", "checkTerm", "checkKill"} /\ SeenAlive /\ ~Owned(doc[o])
  /\ Become(o, "again", doc[o]) /\ EndWalk
  /\ UNCHANGED <<os, runfile, lock, served>>

Refuse(o) ==
  /\ pc[o] = "again" /\ SeenAlive
  /\ Become(o, "failed", doc[o]) /\ EndWalk
  /\ UNCHANGED <<os, runfile, lock, served>>

\* The members are recorded before they are signalled.  With a grace period
\* SIGTERM comes first.
RecordAgain(o) ==
  /\ pc[o] = "snapshot" /\ Walked
  /\ runfile' = Listed(doc[o])
  /\ \E step \in {"checkTerm", "checkKill"} : Become(o, step, Listed(doc[o]))
  /\ EndWalk
  /\ UNCHANGED <<os, lock, served>>

\* os.killpg of a group that is still there; a server may do anything on
\* SIGTERM, so the model changes nothing.  ProcessLookupError is success.
SignalTerm(o) ==
  /\ pc[o] = "signalTerm" /\ Group(doc[o].pid) # {}
  /\ Become(o, "awaitTerm", doc[o])
  /\ UNCHANGED <<os, runfile, lock, walk, served>>

SignalKill(o) ==
  /\ pc[o] = "signalKill" /\ Group(doc[o].pid) # {}
  /\ Kill(doc[o].pid)
  /\ Become(o, "awaitKill", doc[o])
  /\ UNCHANGED <<started, boot, launches, runfile, lock, walk, served>>

SignalNobody(o) ==
  /\ pc[o] \in Signalling /\ Group(doc[o].pid) = {}
  /\ Become(o, "complete", doc[o])
  /\ UNCHANGED <<os, runfile, lock, walk, served>>

\* The grace period is over, and the last poll saw somebody.
TermTimeout(o) ==
  /\ pc[o] = "awaitTerm" /\ SeenAlive
  /\ Become(o, "checkKill", doc[o]) /\ EndWalk
  /\ UNCHANGED <<os, runfile, lock, served>>

\* Mutant: the wait after SIGKILL starts over.
KillAgain(o) ==
  /\ pc[o] = "awaitKill" /\ SeenAlive
  /\ Become(o, "checkKill", doc[o]) /\ EndWalk
  /\ UNCHANGED <<os, runfile, lock, served>>

\* 15 s after SIGKILL somebody is still there.
KillTimeout(o) ==
  /\ pc[o] = "awaitKill" /\ SeenAlive
  /\ Become(o, "failed", doc[o]) /\ EndWalk
  /\ UNCHANGED <<os, runfile, lock, served>>

\* The cleanup receipt; a second success keeps the first receipt.
WriteReceipt(o) ==
  /\ pc[o] \in {"complete", "failed"}
  /\ runfile' = IF pc[o] = "failed" \/ doc[o].cleanup # "complete"
                THEN [doc[o] EXCEPT !.cleanup = pc[o]] ELSE runfile
  /\ Become(o, "idle", None) /\ Release(o)
  /\ UNCHANGED <<os, walk, served>>

\* Ctrl-C or a kill of the command itself: its flock goes with it.  A launch
\* that is interrupted does not abort (KeyboardInterrupt is no Exception).
Interrupt(o) ==
  /\ pc[o] # "idle"
  /\ lock' = IF lock = o THEN None ELSE lock
  /\ walk' = IF lock = o THEN None ELSE walk
  /\ Become(o, "idle", None)
  /\ UNCHANGED <<os, runfile, served>>

Command(o) ==
  \/ Probe(o) \/ (\E p \in Pids : Read(o, p)) \/ GiveUpLaunch(o) \/ List(o) \/ Record(o) \/ AbortLaunch(o)
  \/ Observe(o) \/ StartRemember(o) \/ Remember(o) \/ GiveUpWait(o)
  \/ Gone(o) \/ Approve(o) \/ Disown(o) \/ Refuse(o) \/ RecordAgain(o)
  \/ SignalTerm(o) \/ SignalKill(o) \/ SignalNobody(o)
  \/ TermTimeout(o) \/ KillTimeout(o) \/ WriteReceipt(o)

Next ==
  \/ \E o \in Ops :
       \/ \E p \in Pids : Launch(o, p)
       \/ StartLaunch(o) \/ StartWait(o) \/ StartTeardown(o) \/ Command(o) \/ Interrupt(o)
  \/ \E p \in Pids : Stranger(p) \/ Exit(p) \/ Reap(p) \/ \E q \in Pids : Fork(p, q)
  \/ Reboot

Spec == Init /\ [][Next]_vars

\* Every command goes on: polls sleep for a bounded time and waits have a
\* deadline.  Nothing is assumed of the server, the system or the caller.
FairSpec == Spec /\ \A o \in Ops : WF_vars(Command(o))

-----------------------------------------------------------------------------
(* Safety.                                                                  *)

\* A teardown about to signal a group signals processes of the launch that
\* its runfile describes and no others, however the ids were recycled since.
SignalsItsOwnServer ==
  \A o \in Ops : pc[o] \in Signalling =>
    \A p \in Group(doc[o].pid) : proc[p].launch = doc[o].launch

\* A teardown that comes to say complete leaves nobody of its launch alive but
\* who was forked while it took its last look; after SIGKILL, nobody at all.
CompleteMeansGone ==
  [][\A o \in Ops : pc[o] # "complete" /\ pc'[o] = "complete" =>
       \A p \in Pids : Live(p) /\ proc[p].launch = doc[o].launch
                         => pc[o] # "awaitKill" /\ IdentityOf(p) \in walk.late]_vars

\* Once wait has reported READY, the server can be torn down by its runfile
\* as long as one process that was alive then is alive, whatever else died.
ReadyServerStaysOwned ==
  \A m \in served : Live(m.pid) /\ IdentityOf(m.pid) = m => Owned(runfile)

\* The runfile never goes back to an earlier launch, though a wait may hold
\* the document of one.
RunfileMovesForward ==
  [][runfile # None => runfile' # None /\ runfile'.launch >= runfile.launch]_vars

\* A launch takes the runfile over only when no recorded process of the
\* previous server is left to be torn down by it.
TakesOverDeadServers ==
  [][runfile # None /\ runfile'.launch # runfile.launch =>
       \A p \in Pids : Live(p) /\ proc[p].launch = runfile.launch
                         => IdentityOf(p) \notin runfile.members]_vars

(* Liveness.                                                                *)

\* Whoever takes the runfile's lock lets it go again, even if the server
\* cannot be killed.
LockIsReleased == \A o \in Ops : lock = o ~> lock # o

-----------------------------------------------------------------------------
(* What the documentation says and the code does not keep.                  *)

=============================================================================
