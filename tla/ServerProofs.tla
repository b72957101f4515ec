----------------------------- MODULE ServerProofs -----------------------------
(***************************************************************************)
(* The lifecycle of a server is safe for any number of commands, process   *)
(* ids, launches and boots.  The invariant has five parts: a group has     *)
(* processes of one launch only; what a document says of its launch stays  *)
(* true, however ids are recycled, because an id and a start name one      *)
(* process of a boot; the holder of the lock has the runfile to itself;    *)
(* a walk misses, of the entries it has read, only who was forked since    *)
(* it began; and who was reported stays recorded.                          *)
(***************************************************************************)
EXTENDS ServerLifecycle, TLAPS

Here(p) == proc[p] # None

OsInv ==
  \A p \in Pids : Here(p) =>
    /\ proc[p].start <= started[p] /\ proc[p].launch <= launches
    /\ \A q \in Pids : Here(q) /\ proc[q].group = proc[p].group => proc[q].launch = proc[p].launch

Ours(p, n) == Live(p) /\ proc[p].launch = n

\* An identity that was handed out already, if at all to a process of launch n.
Of(m, n) ==
  /\ m.start <= started[m.pid]
  /\ Here(m.pid) /\ proc[m.pid].start = m.start => proc[m.pid].launch = n

Late(m) == walk # None /\ m \in walk.late

Sound(d) ==
  /\ d.launch <= launches /\ d.boot <= boot
  /\ \A p \in Pids : Here(p) /\ proc[p].launch = d.launch => d.boot = boot /\ proc[p].group = d.pid
  /\ d.boot = boot => \A m \in d.members : Of(m, d.launch)

\* Whoever a document records was there before the walk in progress began.
DocInv(d) == Sound(d) /\ (d.boot = boot => \A m \in d.members : ~Late(m))

InUse(d) == runfile = d \/ \E o \in Ops : doc[o] = d
DocsInv == \A d \in Document : InUse(d) => DocInv(d)

\* Nobody whom the runfile records is left of the launch it describes.
NoneLeft ==
  runfile # None => \A p \in Pids : Ours(p, runfile.launch) => IdentityOf(p) \notin runfile.members

\* Where a command holds the lock; but for a launch, with the runfile's document.
Loaded == (Looking \cup Listing \cup Signalling \cup {"complete", "failed"}) \ {"launched"}

LaunchedInv(o) ==
  /\ doc[o].boot = boot /\ Here(doc[o].pid) /\ proc[doc[o].pid].launch = doc[o].launch
  /\ runfile # None => runfile.launch < doc[o].launch
  /\ NoneLeft

OwnGroup(d) == \A p \in Group(d.pid) : proc[p].launch = d.launch

\* After SIGKILL nobody is forked any more.
KilledInv(o) ==
  \A p \in Pids : Ours(p, doc[o].launch) => proc[p].state = "killed" /\ ~Late(IdentityOf(p))

WalkInv(o) ==
  /\ pc[o] \in Looking \cup Listing
  /\ \A p \in Pids \ walk.todo :
       Ours(p, doc[o].launch) /\ ~Late(IdentityOf(p)) => IdentityOf(p) \in walk.members /\ walk.alive
  /\ pc[o] \in Listing => \A m \in walk.members : Of(m, doc[o].launch)

CommandInv(o) ==
  /\ pc[o] = "idle" <=> doc[o] = None
  /\ lock = o <=> pc[o] \in Loaded \cup {"launched"}
  /\ pc[o] = "launched" => LaunchedInv(o)
  /\ pc[o] \in {"waiting", "ready"} => runfile # None
  /\ pc[o] \in Loaded => runfile = doc[o]
  /\ pc[o] \in Checked => OwnGroup(doc[o])
  /\ pc[o] = "awaitKill" => KilledInv(o)
  /\ lock = o /\ walk # None => WalkInv(o)

CommandsInv == (walk # None => lock # None) /\ \A o \in Ops : CommandInv(o)

\* A member that a wait reported.
ReportedInv(m) == Of(m, runfile.launch) /\ ~Late(m)
RecordedInv(m) == Live(m.pid) /\ IdentityOf(m.pid) = m => m \in runfile.members

ServedInv == /\ served # {} => runfile # None
             /\ \A m \in served : ReportedInv(m) /\ RecordedInv(m)

ServerInv == TypeOK /\ OsInv /\ DocsInv /\ CommandsInv /\ ServedInv

-----------------------------------------------------------------------------
(* Documents. *)

(* What an owned document describes has a group of its own.                *)
LEMMA OwnedGroup ==
  ASSUME TypeOK, OsInv, NEW d \in Document, DocInv(d), Owned(d)
  PROVE  d.boot = boot /\ OwnGroup(d)
<1>1. PICK m \in d.members : Live(m.pid) /\ proc[m.pid].group = d.pid /\ IdentityOf(m.pid) = m
  BY DEF Owned
<1>2. d.boot = boot
  BY DEF Owned
<1>3. m \in Identity /\ m.pid \in Pids /\ Here(m.pid) /\ proc[m.pid].start = m.start
  BY <1>1 DEF Document, Identity, IdentityOf, Live, Here
<1>4. proc[m.pid].launch = d.launch
  BY <1>2, <1>3 DEF DocInv, Sound, Of
<1>5. OwnGroup(d)
  BY <1>1, <1>3, <1>4 DEF OsInv, OwnGroup, Group, Here
<1> QED
  BY <1>2, <1>5

(* A document with other members, or another receipt.                      *)
LEMMA OtherMembers ==
  ASSUME NEW d \in Document, Sound(d), NEW members \in SUBSET Identity,
         d.boot = boot => \A m \in members : Of(m, d.launch)
  PROVE  /\ [d EXCEPT !.members = members] \in Document
         /\ [d EXCEPT !.members = members].launch = d.launch
         /\ [d EXCEPT !.members = members].pid = d.pid
         /\ [d EXCEPT !.members = members].boot = d.boot
         /\ [d EXCEPT !.members = members].members = members
         /\ Sound([d EXCEPT !.members = members])
<1>1. /\ [d EXCEPT !.members = members] \in Document
      /\ [d EXCEPT !.members = members].launch = d.launch
      /\ [d EXCEPT !.members = members].pid = d.pid /\ [d EXCEPT !.members = members].boot = d.boot
      /\ [d EXCEPT !.members = members].members = members
  BY DEF Document
<1> QED
  BY <1>1 DEF Sound

LEMMA OtherReceipt ==
  ASSUME NEW d \in Document, DocInv(d), NEW result \in {"none", "complete", "failed"}
  PROVE  /\ [d EXCEPT !.cleanup = result] \in Document
         /\ [d EXCEPT !.cleanup = result].launch = d.launch
         /\ [d EXCEPT !.cleanup = result].members = d.members
         /\ DocInv([d EXCEPT !.cleanup = result])
<1>1. /\ [d EXCEPT !.cleanup = result] \in Document
      /\ [d EXCEPT !.cleanup = result].launch = d.launch
      /\ [d EXCEPT !.cleanup = result].pid = d.pid /\ [d EXCEPT !.cleanup = result].boot = d.boot
      /\ [d EXCEPT !.cleanup = result].members = d.members
  BY DEF Document
<1> QED
  BY <1>1 DEF DocInv, Sound

-----------------------------------------------------------------------------
(* The operating system. *)

\* Processes come to an end, or come closer to it; if a walk goes on, nobody new
\* is late for it.
Fades ==
  /\ UNCHANGED <<started, boot, launches>>
  /\ \A p \in Pids : Here(p)' =>
       /\ Here(p) /\ proc'[p].group = proc[p].group
       /\ proc'[p].start = proc[p].start /\ proc'[p].launch = proc[p].launch
       /\ Live(p)' => Live(p) /\ (proc[p].state = "killed" => proc'[p].state = "killed")
  /\ walk' # None => walk'.late = {} \/ (walk # None /\ walk'.late = walk.late)

LEMMA FadesKeep ==
  ASSUME TypeOK, Fades
  PROVE  /\ OsInv => OsInv'
         /\ \A d \in Document : Sound(d) => Sound(d)'
         /\ \A d \in Document : DocInv(d) => DocInv(d)'
         /\ \A d \in Document : OwnGroup(d) => OwnGroup(d)'
         /\ \A m \in Identity : \A n : Of(m, n) => Of(m, n)'
         /\ \A m \in Identity : Late(m)' => Late(m)
<1>1. OsInv => OsInv'
  BY DEF Fades, OsInv
<1>2. \A m \in Identity : \A n : Of(m, n) => Of(m, n)'
  BY DEF Fades, Of, Identity
<1>3. \A m \in Identity : Late(m)' => Late(m)
  BY DEF Fades, Late
<1>4. ASSUME NEW d \in Document, Sound(d)
      PROVE  Sound(d)'
  <2>1. d.members \subseteq Identity
    BY DEF Document
  <2>2. d.boot = boot => \A m \in d.members : Of(m, d.launch)'
    BY <1>2, <1>4, <2>1 DEF Sound
  <2> QED
    BY <1>4, <2>2 DEF Fades, Sound
<1>5. ASSUME NEW d \in Document, DocInv(d)
      PROVE  DocInv(d)'
  <2>1. d.members \subseteq Identity
    BY DEF Document
  <2>2. Sound(d)' /\ boot' = boot
    BY <1>4, <1>5 DEF DocInv, Fades
  <2> QED
    BY <1>3, <1>5, <2>1, <2>2 DEF DocInv
<1>6. \A d \in Document : OwnGroup(d) => OwnGroup(d)'
  BY DEF Fades, OwnGroup, Group, Here
<1> QED
  BY <1>1, <1>2, <1>3, <1>4, <1>5, <1>6

\* A process q with a new identity: a fork, or the first of a new group.
Newborn(q) == [pid |-> q, start |-> started[q] + 1]

Born(q) ==
  /\ boot' = boot /\ launches <= launches'
  /\ \A p \in Pids \ {q} : proc'[p] = proc[p] /\ started'[p] = started[p]
  /\ ~Here(q) /\ Here(q)' /\ started'[q] = started[q] + 1 /\ proc'[q].start = started[q] + 1
  /\ \/ /\ launches' = launches
        /\ \E p \in Pids : /\ Live(p) /\ proc[p].state = "running" /\ proc'[q].group = proc[p].group
                           /\ proc'[q].launch = proc[p].launch
     \/ /\ Group(q) = {} /\ proc'[q].group = q
        /\ \/ proc'[q].launch = 0
           \/ proc'[q].launch = launches + 1 /\ launches' = launches + 1
  /\ walk' # None => walk # None /\ walk'.late \subseteq walk.late \cup {Newborn(q)}

LEMMA BornKeeps ==
  ASSUME TypeOK, TypeOK', NEW q \in Pids, Born(q)
  PROVE  /\ OsInv => OsInv'
         /\ \A d \in Document : DocInv(d) => DocInv(d)'
         /\ \A d \in Document : q # d.pid /\ OwnGroup(d) => OwnGroup(d)'
         /\ \A m \in Identity : \A n : Of(m, n) => Of(m, n)' /\ (Late(m)' => Late(m))
<1>1. /\ started \in [Pids -> Nat] /\ started' \in [Pids -> Nat]
      /\ launches \in Nat /\ launches' \in Nat
  BY ServerBounds DEF TypeOK
<1>2. \A p \in Pids \ {q} : (Here(p)' <=> Here(p)) /\ (Live(p)' <=> Live(p))
  BY DEF Born, Here, Live
<1>3. OsInv => OsInv'
  <2> SUFFICES ASSUME OsInv
               PROVE  OsInv'
    OBVIOUS
  <2>1. \A p \in Pids : Here(p)' => proc'[p].start <= started'[p] /\ proc'[p].launch <= launches'
    <3>1. \A p \in Pids : Here(p) => proc[p].launch \in Nat
      BY DEF TypeOK, Process, Here
    <3>2. proc'[q].start <= started'[q] /\ proc'[q].launch <= launches'
      BY <1>1, <3>1 DEF Born, OsInv, Live, Here
    <3>3. \A p \in Pids \ {q} : Here(p)' => proc'[p].start <= started'[p] /\ proc'[p].launch <= launches'
      BY <1>1, <1>2, <3>1 DEF Born, OsInv
    <3> QED
      BY <3>2, <3>3
  <2>2. ASSUME NEW p \in Pids \ {q}, Here(p), proc[p].group = proc'[q].group
        PROVE  proc[p].launch = proc'[q].launch
    BY <2>2 DEF Born, OsInv, Group, Here, Live
  <2>3. ASSUME NEW p \in Pids, NEW r \in Pids, Here(p)', Here(r)', proc'[r].group = proc'[p].group
        PROVE  proc'[r].launch = proc'[p].launch
    <3>1. CASE p # q /\ r # q
      BY <1>2, <2>3, <3>1 DEF Born, OsInv
    <3>2. CASE p = q /\ r # q
      BY <1>2, <2>2, <2>3, <3>2 DEF Born
    <3>3. CASE p # q /\ r = q
      BY <1>2, <2>2, <2>3, <3>3 DEF Born
    <3> QED
      BY <3>1, <3>2, <3>3
  <2> QED
    BY <2>1, <2>3 DEF OsInv
<1>4. ASSUME NEW m \in Identity, NEW n, Of(m, n)
      PROVE  Of(m, n)' /\ (Late(m)' => Late(m))
  <2>1. m.pid \in Pids /\ m.start \in Nat /\ m.start <= started[m.pid]
    BY <1>4 DEF Of, Identity
  <2>2. m # Newborn(q)
    BY <1>1, <2>1 DEF Newborn
  <2>3. Late(m)' => Late(m)
    BY <2>2 DEF Late, Born
  <2>4. CASE m.pid # q
    BY <1>2, <1>4, <2>1, <2>3, <2>4 DEF Born, Of
  <2>5. CASE m.pid = q
    BY <1>1, <2>1, <2>3, <2>5 DEF Born, Of
  <2> QED
    BY <2>4, <2>5
<1>5. ASSUME NEW d \in Document, DocInv(d)
      PROVE  DocInv(d)'
  <2>1. d.launch \in 1..launches /\ Sound(d)
    BY <1>1, <1>5, ServerBounds DEF DocInv, Sound, Document, Launches
  <2>2. ASSUME NEW p \in Pids, Here(p)', proc'[p].launch = d.launch
        PROVE  d.boot = boot /\ proc'[p].group = d.pid
    <3>1. CASE p # q
      BY <1>2, <2>1, <2>2, <3>1 DEF Born, Sound
    <3>2. CASE p = q
      <4>1. PICK x \in Pids : /\ Live(x) /\ proc'[q].group = proc[x].group
                              /\ proc'[q].launch = proc[x].launch
        BY <1>1, <2>1, <2>2, <3>2 DEF Born
      <4> QED
        BY <2>1, <2>2, <3>2, <4>1 DEF Sound, Live, Here
    <3> QED
      BY <3>1, <3>2
  <2>3. ASSUME d.boot = boot, NEW m \in d.members
        PROVE  Of(m, d.launch)' /\ ~Late(m)'
    <3>1. m \in Identity /\ Of(m, d.launch) /\ ~Late(m)
      BY <1>5, <2>1, <2>3 DEF Sound, DocInv, Document
    <3> QED
      BY <1>4, <3>1
  <2>4. d.launch <= launches' /\ d.boot <= boot'
    BY <1>1, <2>1 DEF Sound, Born
  <2>5. boot' = boot
    BY DEF Born
  <2> QED
    BY <2>2, <2>3, <2>4, <2>5 DEF DocInv, Sound
<1>6. ASSUME NEW d \in Document, q # d.pid, OwnGroup(d)
      PROVE  OwnGroup(d)'
  <2> SUFFICES ASSUME NEW p \in Pids, Here(p)', proc'[p].group = d.pid
               PROVE  proc'[p].launch = d.launch
    BY DEF OwnGroup, Group, Here
  <2>1. CASE p # q
    BY <1>2, <1>6, <2>1 DEF Born, OwnGroup, Group, Here
  <2>2. CASE p = q
    BY <1>6, <2>2 DEF Born, OwnGroup, Group, Live
  <2> QED
    BY <2>1, <2>2
<1> QED
  BY <1>3, <1>4, <1>5, <1>6
-----------------------------------------------------------------------------
(* The types. *)

LEMMA BecomeTyped ==
  ASSUME TypeOK, NEW o \in Ops, NEW step \in Positions, NEW d \in Document \cup {None}, Become(o, step, d)
  PROVE  /\ pc' \in [Ops -> Positions] /\ doc' \in [Ops -> Document \cup {None}]
         /\ pc'[o] = step /\ doc'[o] = d
         /\ \A t \in Ops \ {o} : pc'[t] = pc[t] /\ doc'[t] = doc[t]
  BY DEF TypeOK, Become

LEMMA KillFades ==
  ASSUME TypeOK, NEW g, Kill(g), UNCHANGED <<started, boot, launches>>, walk' \in {walk, None}
  PROVE  /\ Fades /\ proc' \in [Pids -> Process \cup {None}]
         /\ \A p \in Pids : Here(p)' <=> Here(p)
<1>1. ASSUME NEW p \in Pids
      PROVE  /\ proc'[p] \in Process \cup {None}
             /\ Here(p)' <=> Here(p)
             /\ Here(p)' => /\ proc'[p].group = proc[p].group
                            /\ proc'[p].start = proc[p].start /\ proc'[p].launch = proc[p].launch
                            /\ Live(p)' => Live(p) /\ (proc[p].state = "killed" => proc'[p].state = "killed")
  <2>1. CASE p \in Group(g) /\ Live(p)
    <3>1. proc[p] \in Process /\ proc'[p] = [proc[p] EXCEPT !.state = "killed"]
      BY <2>1 DEF Kill, TypeOK, Live
    <3>2. proc'[p] \in Process
      BY <3>1 DEF Process
    <3> QED
      BY <2>1, <3>1, <3>2, NoneAssumption DEF Here, Live, Process
  <2>2. CASE ~(p \in Group(g) /\ Live(p))
    BY <2>2 DEF Kill, TypeOK, Here, Live
  <2> QED
    BY <2>1, <2>2
<1>2. proc' \in [Pids -> Process \cup {None}]
  BY <1>1 DEF Kill
<1> QED
  BY <1>1, <1>2 DEF Fades

Begins(p, g, n) ==
  /\ started'[p] = started[p] + 1 /\ Here(p)'
  /\ proc'[p] = [group |-> g, start |-> started[p] + 1, launch |-> n, state |-> "running"]
  /\ \A q \in Pids \ {p} : proc'[q] = proc[q] /\ started'[q] = started[q]

LEMMA StartTyped ==
  ASSUME TypeOK, NEW p \in Pids, NEW g \in Pids, NEW n \in 0..MaxLaunches,
         Fresh(p), Start(p, g, n)
  PROVE  /\ proc' \in [Pids -> Process \cup {None}]
         /\ started' \in [Pids -> 0..MaxStarts]
         /\ Begins(p, g, n)
<1>1. started[p] + 1 \in 1..MaxStarts
  BY ServerBounds DEF TypeOK, Fresh
<1>2. [group |-> g, start |-> started[p] + 1, launch |-> n, state |-> "running"] \in Process
  BY <1>1 DEF Process
<1> QED
  BY <1>1, <1>2, NoneAssumption DEF TypeOK, Start, Here, Begins

LEMMA CommandDocument ==
  ASSUME ServerInv, NEW o \in Ops, pc[o] # "idle"
  PROVE  doc[o] \in Document /\ DocInv(doc[o])
<1>1. doc[o] \in Document
  BY DEF ServerInv, CommandsInv, CommandInv, TypeOK
<1> QED
  BY <1>1 DEF ServerInv, DocsInv, InUse

LEMMA RunfileDocument ==
  ASSUME ServerInv, runfile # None
  PROVE  runfile \in Document /\ DocInv(runfile)
<1>1. runfile \in Document
  BY DEF ServerInv, TypeOK
<1> QED
  BY <1>1 DEF ServerInv, DocsInv, InUse

LEMMA TypeOfTheSystem ==
  ASSUME TypeOK,
         \/ Reboot
         \/ \E p \in Pids : Stranger(p) \/ Exit(p) \/ Reap(p) \/ \E q \in Pids : Fork(p, q)
  PROVE  TypeOK'
<1>1. ASSUME NEW p \in Pids, NEW q \in Pids, Fork(p, q)
      PROVE  TypeOK'
  <2>1. proc[p].group \in Pids /\ proc[p].launch \in 0..MaxLaunches
    BY <1>1 DEF Fork, TypeOK, Process
  <2>2. started[q] + 1 \in 1..MaxStarts
    BY <1>1, ServerBounds DEF Fork, Fresh, TypeOK
  <2>3. walk' \in Walk \cup {None}
    BY <1>1, <2>2 DEF Fork, TypeOK, Walk, Identity
  <2> QED
    BY <1>1, <2>1, <2>3, StartTyped DEF Fork, TypeOK
<1>2. ASSUME NEW p \in Pids, Stranger(p)
      PROVE  TypeOK'
  <2>1. 0 \in 0..MaxLaunches
    BY ServerBounds
  <2> QED
    BY <1>2, <2>1, StartTyped DEF Stranger, TypeOK
<1>3. ASSUME NEW p \in Pids, Exit(p)
      PROVE  TypeOK'
  <2>1. proc[p] \in Process /\ proc' = [proc EXCEPT ![p] = [proc[p] EXCEPT !.state = "zombie"]]
    BY <1>3 DEF Exit, Live, TypeOK
  <2>2. [proc[p] EXCEPT !.state = "zombie"] \in Process
    BY <2>1 DEF Process
  <2> QED
    BY <1>3, <2>1, <2>2 DEF Exit, TypeOK
<1>4. ASSUME NEW p \in Pids, Reap(p)
      PROVE  TypeOK'
  BY <1>4 DEF Reap, TypeOK
<1>5. CASE Reboot
  BY <1>5, ServerBounds DEF Reboot, TypeOK, Positions
<1> QED
  BY <1>1, <1>2, <1>3, <1>4, <1>5

-----------------------------------------------------------------------------
(* What a step of another leaves of a command's invariant. *)

LEMMA UnlockedCommand ==
  ASSUME NEW t \in Ops, CommandInv(t), lock # t, lock' # t, pc'[t] = pc[t], doc'[t] = doc[t],
         runfile # None => runfile' # None
  PROVE  CommandInv(t)'
  BY DEF CommandInv, Checked, Loaded, Looking, Listing, Signalling

LEMMA IdleCommand ==
  ASSUME NEW o \in Ops, pc'[o] = "idle", doc'[o] = None, lock' # o
  PROVE  CommandInv(o)'
  BY NoneAssumption DEF CommandInv, Loaded, Looking, Listing, Signalling, Checked

LEMMA SameIdentity ==
  ASSUME TypeOK, NEW p \in Pids, Here(p)
  PROVE  /\ IdentityOf(p) \in Identity /\ IdentityOf(p).pid = p /\ IdentityOf(p).start = proc[p].start
         /\ (proc'[p].start = proc[p].start => IdentityOf(p)' = IdentityOf(p))
  BY DEF TypeOK, IdentityOf, Identity, Process, Here

LEMMA FadingCommand ==
  ASSUME ServerInv, NEW t \in Ops, Fades, runfile' = runfile, lock' = t <=> lock = t,
         lock = t => walk' = walk,
         pc'[t] = pc[t], doc'[t] = doc[t], pc[t] = "launched" => Here(doc[t].pid)'
  PROVE  CommandInv(t)'
<1>1. CommandInv(t)
  BY DEF ServerInv, CommandsInv
<1>2. pc[t] # "idle" => doc[t] \in Document
  BY CommandDocument
<1>3. ASSUME NEW p \in Pids, NEW n, Ours(p, n)'
      PROVE  /\ Ours(p, n) /\ IdentityOf(p)' = IdentityOf(p) /\ IdentityOf(p) \in Identity
             /\ proc[p].state = "killed" => proc'[p].state = "killed"
  BY <1>3, SameIdentity DEF Fades, Ours, Live, Here, ServerInv
<1>4. NoneLeft => NoneLeft'
  BY <1>3 DEF NoneLeft
<1>5. pc[t] = "launched" => LaunchedInv(t)'
  <2>1. pc[t] = "launched" => doc[t].pid \in Pids
    BY <1>2 DEF Document
  <2> QED
    BY <1>1, <1>4, <2>1 DEF CommandInv, LaunchedInv, Fades
<1>6. pc[t] \in Checked => OwnGroup(doc[t])'
  <2>1. ASSUME pc[t] \in Checked
        PROVE  OwnGroup(doc[t]) /\ doc[t] \in Document
    BY <1>1, <1>2, <2>1 DEF CommandInv, Checked, Signalling
  <2>2. ASSUME NEW d \in Document, OwnGroup(d)
        PROVE  OwnGroup(d)'
    BY <2>2, FadesKeep DEF ServerInv
  <2> QED
    BY <2>1, <2>2 DEF OwnGroup, Group, Here
<1>7. ASSUME pc[t] = "awaitKill"
      PROVE  KilledInv(t)'
  <2>1. KilledInv(t)
    BY <1>1, <1>7 DEF CommandInv
  <2>2. \A m \in Identity : Late(m)' => Late(m)
    BY FadesKeep DEF ServerInv
  <2>3. ASSUME NEW p \in Pids, Ours(p, doc[t].launch)'
        PROVE  proc'[p].state = "killed" /\ ~Late(IdentityOf(p))'
    <3>1. /\ Ours(p, doc[t].launch) /\ IdentityOf(p)' = IdentityOf(p) /\ IdentityOf(p) \in Identity
          /\ proc[p].state = "killed" => proc'[p].state = "killed"
      BY <1>3, <2>3 DEF Ours
    <3>2. proc[p].state = "killed" /\ ~Late(IdentityOf(p))
      BY <2>1, <3>1 DEF KilledInv
    <3> QED
      BY <2>2, <3>1, <3>2 DEF Late
  <2> QED
    BY <2>3 DEF KilledInv
<1>8. ASSUME lock = t, walk # None
      PROVE  WalkInv(t)'
  <2>1. WalkInv(t) /\ walk' = walk /\ walk \in Walk
    BY <1>1, <1>8 DEF CommandInv, ServerInv, TypeOK
  <2>2. ASSUME NEW p \in Pids \ walk.todo, Ours(p, doc[t].launch)', ~Late(IdentityOf(p))'
        PROVE  IdentityOf(p)' \in walk.members /\ walk.alive
    <3>1. Ours(p, doc[t].launch) /\ IdentityOf(p)' = IdentityOf(p)
      BY <1>3, <2>2 DEF Ours
    <3>2. ~Late(IdentityOf(p))
      BY <2>1, <2>2, <3>1 DEF Late
    <3> QED
      BY <2>1, <3>1, <3>2 DEF WalkInv
  <2>3. ASSUME pc[t] \in Listing, NEW m \in walk.members
        PROVE  Of(m, doc[t].launch)'
    <3>1. Of(m, doc[t].launch) /\ m \in Identity
      BY <2>1, <2>3 DEF WalkInv, Walk
    <3> QED
      BY <3>1 DEF Of, Fades, Identity
  <2> QED
    BY <2>1, <2>2, <2>3 DEF WalkInv
<1> QED
  BY <1>1, <1>5, <1>6, <1>7, <1>8 DEF CommandInv

LEMMA FadingServed ==
  ASSUME ServerInv, Fades, UNCHANGED <<runfile, served>>
  PROVE  ServedInv'
<1>1. ASSUME NEW m \in served
      PROVE  ReportedInv(m)' /\ RecordedInv(m)'
  <2>1. ReportedInv(m) /\ RecordedInv(m) /\ m \in Identity
    BY DEF ServerInv, ServedInv, TypeOK
  <2>2. Late(m)' => Late(m)
    BY <2>1, FadesKeep DEF ServerInv
  <2>3. ReportedInv(m)'
    BY <2>1, <2>2 DEF ReportedInv, Of, Fades, Identity
  <2>4. RecordedInv(m)'
    BY <2>1 DEF RecordedInv, Fades, Live, Here, IdentityOf, Identity
  <2> QED
    BY <2>3, <2>4
<1> QED
  BY <1>1 DEF ServedInv, ServerInv

LEMMA FadingDocuments ==
  ASSUME ServerInv, Fades, \A d \in Document : InUse(d)' => InUse(d)
  PROVE  DocsInv'
<1>1. ASSUME NEW d \in Document, InUse(d)'
      PROVE  DocInv(d)'
  <2>1. DocInv(d)
    BY <1>1 DEF ServerInv, DocsInv
  <2> QED
    BY <2>1, FadesKeep DEF ServerInv
<1> QED
  BY <1>1 DEF DocsInv

-----------------------------------------------------------------------------
(* The operating system takes a step. *)

LEMMA ProcessEnds ==
  ASSUME ServerInv, NEW p \in Pids, Exit(p) \/ Reap(p)
  PROVE  ServerInv'
<1>1. TypeOK'
  BY TypeOfTheSystem DEF ServerInv
<1>2. ASSUME NEW q \in Pids
      PROVE  Here(q)' => /\ Here(q) /\ proc'[q].group = proc[q].group
                         /\ proc'[q].start = proc[q].start /\ proc'[q].launch = proc[q].launch
                         /\ Live(q)' => Live(q) /\ (proc[q].state = "killed" => proc'[q].state = "killed")
  <2>1. CASE q # p
    BY <2>1 DEF Exit, Reap, ServerInv, TypeOK, Here, Live
  <2>2. CASE q = p /\ Exit(p)
    <3>1. proc[p] \in Process /\ Live(p) /\ proc'[p] = [proc[p] EXCEPT !.state = "zombie"]
      BY <2>2 DEF Exit, ServerInv, TypeOK, Live
    <3> QED
      BY <2>2, <3>1 DEF Process, Here, Live
  <2>3. CASE q = p /\ Reap(p)
    BY <2>3 DEF Reap, ServerInv, TypeOK, Here
  <2> QED
    BY <2>1, <2>2, <2>3
<1>3. UNCHANGED <<runfile, lock, pc, doc, walk, served>>
  BY DEF Exit, Reap
<1>4. Fades
  BY <1>2, <1>3 DEF Fades, Exit, Reap
<1>5. OsInv'
  BY <1>4, FadesKeep DEF ServerInv
<1>6. DocsInv'
  BY <1>3, <1>4, FadingDocuments DEF InUse
<1>7. ASSUME NEW t \in Ops
      PROVE  CommandInv(t)'
  <2>1. ASSUME pc[t] = "launched"
        PROVE  Here(doc[t].pid)'
    <3>1. Here(doc[t].pid) /\ doc[t].pid \in Pids
      BY <2>1, CommandDocument DEF ServerInv, CommandsInv, CommandInv, LaunchedInv, Document
    <3>2. CASE Reap(p)
      BY <2>1, <3>1, <3>2 DEF Reap, ServerInv, TypeOK, Here
    <3>3. CASE Exit(p)
      <4>1. doc[t].pid = p => proc'[p] = [proc[p] EXCEPT !.state = "zombie"] /\ proc[p] \in Process
        BY <3>3 DEF Exit, ServerInv, TypeOK, Live
      <4>2. doc[t].pid = p => proc'[p] \in Process
        BY <4>1 DEF Process
      <4> QED
        BY <3>1, <3>3, <4>2, NoneAssumption DEF Exit, ServerInv, TypeOK, Here
    <3> QED
      BY <3>2, <3>3
  <2> QED
    BY <1>3, <1>4, <2>1, FadingCommand
<1>8. ServedInv'
  BY <1>3, <1>4, FadingServed
<1> QED
  BY <1>1, <1>3, <1>5, <1>6, <1>7, <1>8 DEF ServerInv, CommandsInv

LEMMA MachineReboots ==
  ASSUME ServerInv, Reboot
  PROVE  ServerInv'
<1>1. TypeOK'
  BY TypeOfTheSystem DEF ServerInv
<1>2. \A p \in Pids : ~Here(p)' /\ ~Live(p)'
  BY DEF Reboot, Here, Live
<1>3. boot \in Nat /\ boot' = boot + 1 /\ UNCHANGED <<launches, runfile>> /\ walk' = None /\ served' = {}
  BY ServerBounds DEF Reboot, ServerInv, TypeOK
<1>4. OsInv'
  BY <1>2 DEF OsInv
<1>5. ASSUME NEW d \in Document, InUse(d)'
      PROVE  DocInv(d)'
  <2>1. runfile = d
    BY <1>5, NoneAssumption DEF InUse, Reboot
  <2>2. DocInv(d) /\ d.boot \in Nat
    BY <2>1, ServerBounds DEF ServerInv, DocsInv, InUse, Document
  <2> QED
    BY <1>2, <1>3, <2>2 DEF DocInv, Sound
<1>6. \A t \in Ops : CommandInv(t)'
  BY IdleCommand, NoneAssumption DEF Reboot
<1>7. ServedInv'
  BY <1>3 DEF ServedInv
<1> QED
  BY <1>1, <1>3, <1>4, <1>5, <1>6, <1>7 DEF ServerInv, DocsInv, CommandsInv

(* A new process stands in nobody's way.                                   *)
LEMMA BirthKeeps ==
  ASSUME ServerInv, TypeOK', NEW q \in Pids, Born(q), UNCHANGED <<runfile, served>>
  PROVE  /\ NoneLeft => NoneLeft'
         /\ ServedInv'
<1>1. /\ started \in [Pids -> Nat] /\ launches \in Nat /\ boot' = boot
      /\ \A p \in Pids \ {q} : (Here(p)' <=> Here(p)) /\ (Live(p)' <=> Live(p)) /\ proc'[p] = proc[p]
      /\ Here(q)' /\ proc'[q].start = started[q] + 1
  BY ServerBounds DEF Born, Here, Live, ServerInv, TypeOK
<1>2. ASSUME NoneLeft, runfile # None, NEW p \in Pids, Ours(p, runfile.launch)'
      PROVE  IdentityOf(p)' \notin runfile.members
  <2>1. CASE p # q
    BY <1>1, <1>2, <2>1 DEF NoneLeft, IdentityOf, Ours
  <2>2. CASE p = q
    <3>1. runfile \in Document /\ DocInv(runfile)
      BY <1>2, RunfileDocument
    <3>2. DocInv(runfile)'
      <4>1. ASSUME NEW d \in Document, DocInv(d)
            PROVE  DocInv(d)'
        BY <4>1, BornKeeps DEF ServerInv
      <4>2. \A d \in Document : DocInv(d) => DocInv(d)'
        BY <4>1
      <4>3. ASSUME NEW d, d = runfile
            PROVE  DocInv(d)' => DocInv(runfile)'
        BY <4>3 DEF DocInv, Sound, Of, Late
      <4> QED
        BY <3>1, <4>2, <4>3
    <3>3. runfile.boot = boot
      BY <1>1, <1>2, <2>2, <3>2 DEF DocInv, Sound, Ours, Live, Here
    <3>4. \A m \in runfile.members : m.start <= started[m.pid] /\ m.start \in Nat
      BY <3>1, <3>3 DEF DocInv, Sound, Of, Document, Identity
    <3> QED
      BY <1>1, <2>2, <3>4 DEF IdentityOf
  <2> QED
    BY <2>1, <2>2
<1>3. ASSUME NEW m \in served
      PROVE  ReportedInv(m)' /\ RecordedInv(m)'
  <2>1. ReportedInv(m) /\ RecordedInv(m) /\ m \in Identity /\ m.pid \in Pids /\ m.start \in Nat
    BY DEF ServerInv, ServedInv, TypeOK, Identity
  <2>2. PICK n : n = runfile.launch
    OBVIOUS
  <2>3. Of(m, n)' /\ ~Late(m)'
    BY <2>1, <2>2, BornKeeps DEF ServerInv, ReportedInv
  <2>4. ReportedInv(m)'
    BY <2>2, <2>3 DEF ReportedInv, Of
  <2>5. CASE m.pid # q
    BY <1>1, <2>1, <2>4, <2>5 DEF RecordedInv, IdentityOf
  <2>6. CASE m.pid = q
    BY <1>1, <2>1, <2>4, <2>6 DEF RecordedInv, ReportedInv, Of, IdentityOf
  <2> QED
    BY <2>4, <2>5, <2>6
<1> QED
  BY <1>2, <1>3 DEF NoneLeft, ServedInv, ServerInv

\* The walk in progress goes on with a late process.
Noticed(q) ==
  walk # None => /\ walk'.todo = walk.todo /\ walk'.members = walk.members /\ walk'.alive = walk.alive
                 /\ walk.late \subseteq walk'.late
                 /\ proc'[q].launch # 0 => Newborn(q) \in walk'.late

LEMMA ProcessBegins ==
  ASSUME ServerInv, NEW q \in Pids, Stranger(q) \/ \E p \in Pids : Fork(p, q)
  PROVE  ServerInv'
<1>1. TypeOK'
  BY TypeOfTheSystem DEF ServerInv
<1>2. UNCHANGED <<boot, launches, runfile, lock, pc, doc, served>> /\ Fresh(q)
  BY DEF Stranger, Fork
<1>3. Born(q) /\ Noticed(q) /\ (walk' # None <=> walk # None)
      /\ (proc'[q].launch # 0 => \E p \in Pids : Live(p) /\ proc[p].state = "running" /\ proc'[q].launch = proc[p].launch)
  <2>1. CASE Stranger(q)
    <3>1. 0 \in 0..MaxLaunches
      BY ServerBounds
    <3>2. Begins(q, q, 0) /\ walk' = walk
      BY <2>1, <3>1, StartTyped DEF Stranger, ServerInv, Begins
    <3> QED
      BY <1>2, <3>2 DEF Born, Begins, Fresh, Here, ServerInv, TypeOK, Noticed
  <2>2. ASSUME NEW p \in Pids, Fork(p, q)
        PROVE  Born(q) /\ Noticed(q) /\ (walk' # None <=> walk # None)
               /\ Live(p) /\ proc[p].state = "running" /\ proc'[q].launch = proc[p].launch
    <3>1. /\ proc[p].group \in Pids /\ proc[p].launch \in 0..MaxLaunches /\ Live(p)
          /\ proc[p].state = "running"
      BY <2>2 DEF Fork, ServerInv, TypeOK, Process, Live
    <3>2. Begins(q, proc[p].group, proc[p].launch)
      BY <2>2, <3>1, StartTyped DEF Fork, ServerInv, Begins
    <3>3. walk # None => /\ walk'.todo = walk.todo /\ walk'.members = walk.members /\ walk'.alive = walk.alive
                         /\ walk'.late = walk.late \cup {Newborn(q)} /\ walk' # None
      <4> SUFFICES ASSUME walk # None
                   PROVE  /\ walk'.todo = walk.todo /\ walk'.members = walk.members
                          /\ walk'.alive = walk.alive
                          /\ walk'.late = walk.late \cup {Newborn(q)} /\ walk' # None
        OBVIOUS
      <4>1. walk \in Walk /\ walk' = [walk EXCEPT !.late = @ \cup {Newborn(q)}]
        BY <2>2 DEF Fork, Newborn, ServerInv, TypeOK
      <4>2. started[q] + 1 \in 1..MaxStarts
        BY <2>2, ServerBounds DEF Fork, Fresh, ServerInv, TypeOK
      <4>3. Newborn(q) \in Identity
        BY <4>2 DEF Newborn, Identity
      <4>4. walk' \in Walk
        BY <4>1, <4>3 DEF Walk
      <4> QED
        BY <4>1, <4>4, NoneAssumption DEF Walk
    <3>4. walk = None => walk' = None
      BY <2>2 DEF Fork
    <3>5. Noticed(q) /\ (walk' # None <=> walk # None)
      BY <3>3, <3>4 DEF Noticed
    <3> QED
      BY <1>2, <3>1, <3>2, <3>3, <3>4, <3>5 DEF Born, Begins, Fresh, Here, ServerInv, TypeOK
  <2> QED
    BY <2>1, <2>2
<1>4. OsInv'
  BY <1>1, <1>3, BornKeeps DEF ServerInv
<1>5. ASSUME NEW d \in Document, InUse(d)'
      PROVE  DocInv(d)'
  <2>1. DocInv(d)
    BY <1>2, <1>5 DEF InUse, ServerInv, DocsInv
  <2> QED
    BY <1>1, <1>3, <2>1, BornKeeps DEF ServerInv
<1>6. ServedInv' /\ (NoneLeft => NoneLeft')
  BY <1>1, <1>2, <1>3, BirthKeeps
<1>7. ASSUME NEW t \in Ops
      PROVE  CommandInv(t)'
  <2>1. CommandInv(t)
    BY DEF ServerInv, CommandsInv
  <2>2. pc[t] # "idle" => doc[t] \in Document /\ DocInv(doc[t])
    BY CommandDocument
  <2>3. ASSUME pc[t] = "launched"
        PROVE  LaunchedInv(t)'
    <3>1. doc[t].pid \in Pids /\ LaunchedInv(t)
      BY <2>1, <2>2, <2>3 DEF CommandInv, Document
    <3>2. doc[t].pid # q
      BY <1>3, <3>1 DEF Born, LaunchedInv
    <3> QED
      BY <1>2, <1>3, <1>6, <3>1, <3>2 DEF Born, LaunchedInv, Here
  <2>4. ASSUME pc[t] \in Checked
        PROVE  OwnGroup(doc[t])'
    <3>1. doc[t] \in Document /\ OwnGroup(doc[t]) /\ q # doc[t].pid
      BY <1>2, <2>1, <2>2, <2>4 DEF CommandInv, Fresh, Checked, Signalling
    <3>2. ASSUME NEW d \in Document, q # d.pid, OwnGroup(d)
          PROVE  OwnGroup(d)'
      BY <1>1, <1>3, <3>2, BornKeeps DEF ServerInv
    <3>3. \A d \in Document : q # d.pid /\ OwnGroup(d) => OwnGroup(d)'
      BY <3>2
    <3> QED
      BY <1>2, <3>1, <3>3 DEF OwnGroup, Group
  <2>5. ASSUME NEW p \in Pids \ {q}, NEW n, Ours(p, n)'
        PROVE  Ours(p, n) /\ proc'[p] = proc[p] /\ IdentityOf(p)' = IdentityOf(p) /\ IdentityOf(p) # Newborn(q)
    BY <1>3, <2>5 DEF Born, Ours, Live, IdentityOf, Newborn
  <2>6. ASSUME pc[t] = "awaitKill"
        PROVE  KilledInv(t)'
    <3>1. KilledInv(t) /\ doc[t].launch # 0
      BY <2>1, <2>2, <2>6 DEF CommandInv, Document, Launches
    <3>2. ASSUME NEW p \in Pids, Ours(p, doc[t].launch)'
          PROVE  proc'[p].state = "killed" /\ ~Late(IdentityOf(p))'
      <4>1. Ours(p, doc[t].launch)' <=> Live(p)' /\ proc'[p].launch = doc[t].launch
        BY <1>2 DEF Ours
      <4>2. p # q
        <5> SUFFICES ASSUME p = q
                     PROVE  FALSE
          OBVIOUS
        <5>1. PICK x \in Pids : Live(x) /\ proc[x].state = "running" /\ proc'[q].launch = proc[x].launch
          BY <1>3, <3>1, <3>2, <4>1
        <5> QED
          BY <3>1, <3>2, <4>1, <5>1 DEF KilledInv, Ours
      <4>3. /\ Ours(p, doc[t].launch) /\ proc'[p] = proc[p]
            /\ IdentityOf(p)' = IdentityOf(p) /\ IdentityOf(p) # Newborn(q)
        BY <2>5, <3>2, <4>1, <4>2 DEF Ours
      <4>4. proc[p].state = "killed" /\ ~Late(IdentityOf(p))
        BY <3>1, <4>3 DEF KilledInv
      <4> QED
        BY <1>3, <4>3, <4>4 DEF Late, Born
    <3> QED
      BY <3>2 DEF KilledInv
  <2>7. ASSUME lock = t, walk' # None
        PROVE  WalkInv(t)'
    <3>1. WalkInv(t) /\ walk # None /\ walk \in Walk /\ pc[t] # "idle"
      BY <1>3, <2>1, <2>7 DEF CommandInv, ServerInv, TypeOK, WalkInv, Looking, Listing
    <3>2. /\ walk'.todo = walk.todo /\ walk'.members = walk.members /\ walk'.alive = walk.alive
          /\ walk.late \subseteq walk'.late
          /\ proc'[q].launch # 0 => Newborn(q) \in walk'.late
      BY <1>3, <3>1 DEF Noticed
    <3>3. ASSUME NEW p \in Pids \ walk.todo, Ours(p, doc[t].launch)', ~Late(IdentityOf(p))'
          PROVE  IdentityOf(p)' \in walk.members /\ walk.alive
      <4>1. proc'[p].launch = doc[t].launch /\ doc[t].launch # 0
        BY <1>2, <2>2, <3>1, <3>3 DEF Ours, Document, Launches
      <4>2. p # q
        BY <1>3, <2>7, <3>2, <3>3, <4>1 DEF Late, Born, IdentityOf, Newborn
      <4>3. Ours(p, doc[t].launch) /\ IdentityOf(p)' = IdentityOf(p)
        BY <1>2, <2>5, <3>3, <4>2 DEF Ours
      <4>4. ~Late(IdentityOf(p))
        BY <2>7, <3>2, <3>3, <4>3 DEF Late
      <4> QED
        BY <3>1, <4>3, <4>4 DEF WalkInv
    <3>4. ASSUME pc[t] \in Listing, NEW m \in walk.members
          PROVE  Of(m, doc[t].launch)'
      <4>1. Of(m, doc[t].launch) /\ m \in Identity
        BY <3>1, <3>4 DEF WalkInv, Walk
      <4>2. PICK n : n = doc[t].launch
        OBVIOUS
      <4>3. Of(m, n)'
        BY <1>1, <1>3, <4>1, <4>2, BornKeeps DEF ServerInv
      <4> QED
        BY <1>2, <4>2, <4>3 DEF Of
    <3> QED
      BY <1>2, <3>1, <3>2, <3>3, <3>4 DEF WalkInv
  <2> QED
    BY <1>2, <2>1, <2>3, <2>4, <2>6, <2>7 DEF CommandInv
<1> QED
  BY <1>1, <1>2, <1>3, <1>4, <1>5, <1>6, <1>7 DEF ServerInv, DocsInv, CommandsInv

-----------------------------------------------------------------------------
(* A command takes a step. *)

LEMMA Nobody ==
  ASSUME ServerInv, NEW o \in Ops
  PROVE  /\ pc[o] = "idle" <=> doc[o] = None
         /\ lock = o <=> pc[o] \in Loaded \cup {"launched"}
         /\ pc[o] \in Loaded => runfile = doc[o]
         /\ lock = None => (\A t \in Ops : lock # t) /\ walk = None
         /\ \A t \in Ops \ {o} : lock = o => lock # t
  BY NoneAssumption DEF ServerInv, CommandsInv, CommandInv

LEMMA Steady ==
  ASSUME ServerInv, UNCHANGED os, walk' # None => walk'.late = {} \/ (walk # None /\ walk'.late = walk.late)
  PROVE  Fades
  BY DEF Fades, os, Here, Live

\* Whoever walks is at a place where the code does.
LEMMA NobodyWalks ==
  ASSUME ServerInv, NEW o \in Ops, lock \in {None, o}, pc[o] \notin Looking \cup Listing
  PROVE  walk = None
  BY DEF ServerInv, CommandsInv, CommandInv, WalkInv

\* A command goes to another place, with another document, and may write one.
Goes(o, step, d) ==
  /\ Fades /\ Become(o, step, d) /\ step \in Positions
  /\ runfile' = runfile \/ \E new \in Document : runfile' = new /\ DocInv(new)'
  /\ d = None \/ (d \in Document /\ DocInv(d)')

LEMMA GoesKeep ==
  ASSUME ServerInv, NEW o \in Ops, NEW step, NEW d, Goes(o, step, d)
  PROVE  /\ OsInv' /\ DocsInv'
         /\ pc' \in [Ops -> Positions] /\ doc' \in [Ops -> Document \cup {None}]
         /\ runfile' \in Document \cup {None}
         /\ pc'[o] = step /\ doc'[o] = d
         /\ \A t \in Ops \ {o} : pc'[t] = pc[t] /\ doc'[t] = doc[t]
<1>1. d \in Document \cup {None}
  BY DEF Goes
<1>2. /\ pc' \in [Ops -> Positions] /\ doc' \in [Ops -> Document \cup {None}]
      /\ pc'[o] = step /\ doc'[o] = d
      /\ \A t \in Ops \ {o} : pc'[t] = pc[t] /\ doc'[t] = doc[t]
  BY <1>1, BecomeTyped DEF ServerInv, Goes
<1>3. OsInv'
  BY FadesKeep DEF Goes, ServerInv
<1>4. ASSUME NEW x \in Document, InUse(x)'
      PROVE  DocInv(x)'
  <2>1. x # None
    BY NoneAssumption
  <2>2. ASSUME NEW new \in Document, x = new, DocInv(new)'
        PROVE  DocInv(x)'
    BY <2>2
  <2>3. CASE x = d
    BY <2>1, <2>3 DEF Goes
  <2>4. CASE InUse(x)
    <3>1. DocInv(x)
      BY <2>4 DEF ServerInv, DocsInv
    <3> QED
      BY <3>1, FadesKeep DEF Goes, ServerInv
  <2>5. x = d \/ InUse(x) \/ (runfile' # runfile /\ runfile' = x)
    BY <1>2, <1>4 DEF InUse
  <2> QED
    BY <2>2, <2>3, <2>4, <2>5 DEF Goes
<1>5. runfile' \in Document \cup {None}
  BY DEF Goes, ServerInv, TypeOK
<1> QED
  BY <1>2, <1>3, <1>4, <1>5 DEF DocsInv

\* The holder of the lock goes on: the others neither launch nor tear down.
LEMMA HolderKeepsOthers ==
  ASSUME ServerInv, NEW o \in Ops, lock \in {None, o}, lock' \in {None, o},
         \A t \in Ops \ {o} : pc'[t] = pc[t] /\ doc'[t] = doc[t],
         runfile # None => runfile' # None
  PROVE  \A t \in Ops \ {o} : CommandInv(t)'
<1> SUFFICES ASSUME NEW t \in Ops \ {o}
             PROVE  CommandInv(t)'
  OBVIOUS
<1>1. lock # t /\ lock' # t /\ CommandInv(t)
  BY NoneAssumption DEF ServerInv, CommandsInv
<1> QED
  BY <1>1, UnlockedCommand

\* Looking, waiting, giving up: the others stay as they are.
LEMMA LooksOn ==
  ASSUME ServerInv, NEW o \in Ops, StartWait(o) \/ Observe(o) \/ GiveUpWait(o) \/ Interrupt(o)
  PROVE  ServerInv'
<1>1. /\ UNCHANGED <<os, runfile, served>> /\ walk' \in {walk, None}
      /\ lock' = (IF Interrupt(o) /\ lock = o THEN None ELSE lock)
      /\ (lock # o => walk' = walk) /\ (lock = o => Interrupt(o) /\ walk' = None)
  <2>1. lock = o => pc[o] \in Loaded \cup {"launched"}
    BY Nobody
  <2>2. StartWait(o) \/ Observe(o) \/ GiveUpWait(o) => pc[o] \notin Loaded \cup {"launched"}
    BY DEF StartWait, Observe, GiveUpWait, Loaded, Looking, Listing, Signalling
  <2> QED
    BY <2>1, <2>2 DEF StartWait, Observe, GiveUpWait, Interrupt
<1>2. Fades
  BY <1>1, Steady
<1>3. PICK step, d : /\ Become(o, step, d) /\ step \in {"idle", "waiting", "ready"}
                     /\ (step = "idle" <=> d = None)
                     /\ d = None \/ (d \in Document /\ DocInv(d))
                     /\ step \in {"waiting", "ready"} => runfile # None
  <2>1. CASE StartWait(o)
    <3>1. runfile \in Document /\ DocInv(runfile)
      BY <2>1, RunfileDocument DEF StartWait
    <3>2. [runfile EXCEPT !.cleanup = "none"] \in Document /\ DocInv([runfile EXCEPT !.cleanup = "none"])
      BY <3>1, OtherReceipt
    <3>3. \E d : d = [runfile EXCEPT !.cleanup = "none"]
      OBVIOUS
    <3>4. PICK d : d = [runfile EXCEPT !.cleanup = "none"]
      BY <3>3
    <3>5. DocInv([runfile EXCEPT !.cleanup = "none"]) => DocInv(d)
      BY <3>4 DEF DocInv, Sound
    <3>6. d \in Document /\ DocInv(d) /\ d # None
      BY <3>2, <3>4, <3>5, NoneAssumption
    <3> QED
      BY <2>1, <3>4, <3>6 DEF StartWait
  <2>2. CASE Observe(o)
    <3>1. doc[o] \in Document /\ DocInv(doc[o])
      BY <2>2, CommandDocument DEF Observe
    <3>2. {} \in SUBSET Identity
      OBVIOUS
    <3>3. /\ [doc[o] EXCEPT !.members = {}] \in Document /\ Sound([doc[o] EXCEPT !.members = {}])
          /\ [doc[o] EXCEPT !.members = {}].members = {}
      BY <3>1, <3>2, OtherMembers DEF DocInv
    <3>4. \E d : d = [doc[o] EXCEPT !.members = {}]
      OBVIOUS
    <3>5. PICK d : d = [doc[o] EXCEPT !.members = {}]
      BY <3>4
    <3>6. Sound([doc[o] EXCEPT !.members = {}]) => Sound(d)
      BY <3>5 DEF Sound
    <3>7. d \in Document /\ DocInv(d) /\ d # None
      BY <3>3, <3>5, <3>6, NoneAssumption DEF DocInv
    <3>8. runfile # None
      BY <2>2 DEF Observe, ServerInv, CommandsInv, CommandInv
    <3> QED
      BY <2>2, <3>5, <3>7, <3>8 DEF Observe
  <2>3. CASE GiveUpWait(o) \/ Interrupt(o)
    BY <2>3 DEF GiveUpWait, Interrupt
  <2> QED
    BY <2>1, <2>2, <2>3
<1>4. Goes(o, step, d)
  <2>1. d = None \/ (d \in Document /\ DocInv(d)')
    BY <1>2, <1>3, FadesKeep DEF ServerInv
  <2> QED
    BY <1>1, <1>2, <1>3, <2>1 DEF Goes, Positions
<1>5. /\ OsInv' /\ DocsInv' /\ pc' \in [Ops -> Positions] /\ doc' \in [Ops -> Document \cup {None}]
      /\ pc'[o] = step /\ doc'[o] = d /\ \A t \in Ops \ {o} : pc'[t] = pc[t] /\ doc'[t] = doc[t]
  BY <1>4, GoesKeep
<1>6. TypeOK'
  BY <1>1, <1>5 DEF ServerInv, TypeOK, os
<1>7. ServedInv'
  BY <1>1, <1>2, FadingServed
<1>8. CommandInv(o)'
  <2>1. lock' # o
    BY <1>1, NoneAssumption
  <2> QED
    BY <1>1, <1>3, <1>5, <2>1 DEF CommandInv, Loaded, Looking, Listing, Signalling, Checked
<1>9. ASSUME NEW t \in Ops \ {o}
      PROVE  CommandInv(t)'
  <2>1. (lock' = t <=> lock = t) /\ (lock = t => walk' = walk)
    <3>1. t # None
      BY NoneAssumption
    <3>2. CASE lock = o
      <4>1. lock' = None
        BY <1>1, <3>2
      <4> QED
        BY <3>1, <3>2, <4>1
    <3>3. CASE lock # o
      <4>1. lock' = lock /\ walk' = walk
        BY <1>1, <3>3
      <4> QED
        BY <4>1
    <3> QED
      BY <3>2, <3>3
  <2>2. pc[t] = "launched" => Here(doc[t].pid)'
    BY <1>1, <1>5 DEF ServerInv, CommandsInv, CommandInv, LaunchedInv, Here, os
  <2> QED
    BY <1>1, <1>2, <1>5, <2>1, <2>2, FadingCommand
<1>10. walk' # None => lock' # None
  BY <1>1 DEF ServerInv, CommandsInv
<1> QED
  BY <1>5, <1>6, <1>7, <1>8, <1>9, <1>10 DEF ServerInv, CommandsInv

-----------------------------------------------------------------------------
(* A walk. *)

\* The group of a command that lists it is the group of its launch.
LEMMA ListedGroup ==
  ASSUME ServerInv, NEW o \in Ops, pc[o] \in Listing
  PROVE  OwnGroup(doc[o])
<1>1. doc[o] \in Document /\ DocInv(doc[o])
  BY CommandDocument DEF Listing
<1>2. CASE pc[o] = "launched"
  <2>1. Here(doc[o].pid) /\ proc[doc[o].pid].launch = doc[o].launch /\ doc[o].pid \in Pids
    BY <1>1, <1>2 DEF ServerInv, CommandsInv, CommandInv, LaunchedInv, Document
  <2>2. proc[doc[o].pid].group = doc[o].pid
    BY <1>1, <2>1 DEF DocInv, Sound
  <2> QED
    BY <2>1, <2>2 DEF OwnGroup, Group, ServerInv, OsInv, Here
<1>3. CASE pc[o] # "launched"
  BY <1>3 DEF ServerInv, CommandsInv, CommandInv, Listing, Checked
<1> QED
  BY <1>2, <1>3

FreshWalk == walk' = [todo |-> Pids, members |-> {}, alive |-> FALSE, late |-> {}]

LEMMA FreshWalkTyped ==
  ASSUME FreshWalk
  PROVE  /\ walk' \in Walk /\ walk' # None /\ walk'.late = {} /\ walk'.todo = Pids /\ walk'.members = {}
<1>1. /\ walk' \in Walk /\ walk'.late = {} /\ walk'.todo = Pids /\ walk'.members = {}
  BY DEF FreshWalk, Walk
<1> QED
  BY <1>1, NoneAssumption

\* What it has read of one entry.
LEMMA ReadOne ==
  ASSUME ServerInv, NEW o \in Ops, NEW p \in Pids, Read(o, p)
  PROVE  /\ walk' \in Walk /\ walk' # None /\ walk'.late = walk.late
         /\ WalkInv(o)'
<1>1. /\ lock = o /\ walk # None /\ walk \in Walk /\ WalkInv(o) /\ UNCHANGED <<os, runfile, lock, pc, doc, served>>
      /\ doc[o] \in Document /\ DocInv(doc[o])
  <2>1. lock = o /\ walk # None /\ UNCHANGED <<os, runfile, lock, pc, doc, served>>
    BY DEF Read
  <2>2. WalkInv(o) /\ walk \in Walk
    BY <2>1 DEF ServerInv, CommandsInv, CommandInv, TypeOK
  <2>3. pc[o] # "idle"
    BY <2>2 DEF WalkInv, Looking, Listing
  <2> QED
    BY <2>1, <2>2, <2>3, CommandDocument
<1>2. PICK found \in BOOLEAN :
        /\ found <=> p \in Group(doc[o].pid)
        /\ walk' = [walk EXCEPT !.todo = @ \ {p},
                               !.members = IF found THEN @ \cup {IdentityOf(p)} ELSE @,
                               !.alive = @ \/ (found /\ Live(p))]
  BY DEF Read, MemberOf
<1>3. /\ walk'.todo = walk.todo \ {p} /\ walk'.late = walk.late
      /\ walk'.members = (IF found THEN walk.members \cup {IdentityOf(p)} ELSE walk.members)
      /\ walk'.alive = (walk.alive \/ (found /\ Live(p)))
  BY <1>1, <1>2 DEF Walk
<1>4. found => Here(p) /\ IdentityOf(p) \in Identity
  BY <1>2, SameIdentity DEF Group, Here, ServerInv
<1>5. walk' \in Walk
  BY <1>1, <1>2, <1>4 DEF Walk
<1>6. ASSUME NEW q \in Pids \ walk'.todo, Ours(q, doc[o].launch), ~Late(IdentityOf(q))
      PROVE  IdentityOf(q) \in walk'.members /\ walk'.alive
  <2>1. CASE q # p
    BY <1>1, <1>3, <1>6, <2>1 DEF WalkInv
  <2>2. CASE q = p
    <3>1. p \in Group(doc[o].pid)
      BY <1>1, <1>6, <2>2 DEF DocInv, Sound, Ours, Live, Here, Group
    <3> QED
      BY <1>2, <1>3, <1>6, <2>2, <3>1 DEF Ours
  <2> QED
    BY <2>1, <2>2
<1>7. ASSUME pc[o] \in Listing, NEW m \in walk'.members
      PROVE  Of(m, doc[o].launch)
  <2>1. CASE m \in walk.members
    BY <1>1, <1>7, <2>1 DEF WalkInv
  <2>2. CASE m \notin walk.members
    <3>1. p \in Group(doc[o].pid) /\ m = IdentityOf(p)
      BY <1>2, <1>3, <1>7, <2>2
    <3>2. proc[p].launch = doc[o].launch /\ proc[p].start <= started[p]
      BY <1>7, <3>1, ListedGroup DEF OwnGroup, Group, ServerInv, OsInv, Here
    <3> QED
      BY <3>1, <3>2 DEF Of, IdentityOf
  <2> QED
    BY <2>1, <2>2
<1>8. walk' # None
  BY <1>5, NoneAssumption
<1>9. WalkInv(o)'
  <2>1. ASSUME NEW q \in Pids \ walk'.todo, Ours(q, doc[o].launch)', ~Late(IdentityOf(q))'
        PROVE  IdentityOf(q)' \in walk'.members /\ walk'.alive
    <3>1. /\ Ours(q, doc[o].launch) /\ IdentityOf(q)' = IdentityOf(q)
      BY <1>1, <2>1 DEF Ours, Live, IdentityOf, os
    <3>2. ~Late(IdentityOf(q))
      BY <1>3, <1>8, <2>1, <3>1 DEF Late
    <3> QED
      BY <1>6, <3>1, <3>2
  <2>2. ASSUME pc[o] \in Listing, NEW m \in walk'.members
        PROVE  Of(m, doc[o].launch)'
    BY <1>1, <1>7, <2>2 DEF Of, Here, os
  <2>3. pc'[o] = pc[o] /\ pc[o] \in Looking \cup Listing
    BY <1>1 DEF WalkInv
  <2> QED
    BY <2>1, <2>2, <2>3 DEF WalkInv
<1> QED
  BY <1>3, <1>5, <1>8, <1>9

LEMMA WalksKeep ==
  ASSUME ServerInv, NEW o \in Ops, Probe(o) \/ List(o) \/ \E p \in Pids : Read(o, p)
  PROVE  ServerInv'
<1>1. UNCHANGED <<os, runfile, lock, pc, doc, served>> /\ lock = o
  <2>1. Probe(o) \/ List(o) => pc[o] \in Loaded \cup {"launched"}
    BY DEF Probe, List, Loaded, Looking
  <2> QED
    BY <2>1, Nobody DEF Probe, List, Read
<1>2. /\ walk' \in Walk /\ walk' # None /\ WalkInv(o)'
      /\ walk'.late = {} \/ (walk # None /\ walk'.late = walk.late)
  <2>1. CASE Probe(o) \/ List(o)
    <3>1. FreshWalk /\ pc[o] \in Looking \cup Listing
      BY <2>1 DEF Probe, List, BeginWalk, FreshWalk, Listing
    <3>2. /\ walk' \in Walk /\ walk' # None /\ walk'.late = {} /\ walk'.todo = Pids /\ walk'.members = {}
      BY <3>1, FreshWalkTyped
    <3> QED
      BY <1>1, <3>1, <3>2 DEF WalkInv
  <2>2. CASE \E p \in Pids : Read(o, p)
    <3>1. PICK p \in Pids : Read(o, p)
      BY <2>2
    <3> QED
      BY <3>1, ReadOne DEF Read
  <2> QED
    BY <2>1, <2>2
<1>3. Fades
  BY <1>1, <1>2, Steady
<1>4. TypeOK'
  BY <1>1, <1>2 DEF ServerInv, TypeOK, os
<1>5. OsInv' /\ ServedInv'
  BY <1>1, <1>3, FadesKeep, FadingServed DEF ServerInv
<1>6. DocsInv'
  BY <1>1, <1>3, FadingDocuments DEF InUse
<1>7. CommandInv(o)'
  <2>1. CommandInv(o) /\ (pc[o] # "idle" => doc[o] \in Document)
    BY CommandDocument DEF ServerInv, CommandsInv
  <2>2. pc[o] = "launched" => LaunchedInv(o)'
    BY <1>1, <2>1 DEF CommandInv, LaunchedInv, NoneLeft, Ours, Live, Here, IdentityOf, os
  <2>3. pc[o] \in Checked => OwnGroup(doc[o])'
    BY <1>1, <2>1 DEF CommandInv, OwnGroup, Group, os
  <2>4. ASSUME pc[o] = "awaitKill", NEW p \in Pids, Ours(p, doc[o].launch)'
        PROVE  proc'[p].state = "killed" /\ ~Late(IdentityOf(p))'
    <3>1. Ours(p, doc[o].launch) /\ IdentityOf(p)' = IdentityOf(p) /\ proc'[p] = proc[p]
      BY <1>1, <2>4 DEF Ours, Live, IdentityOf, os
    <3>2. proc[p].state = "killed" /\ ~Late(IdentityOf(p))
      BY <2>1, <2>4, <3>1 DEF CommandInv, KilledInv
    <3> QED
      BY <1>2, <3>1, <3>2 DEF Late
  <2>5. pc[o] = "awaitKill" => KilledInv(o)'
    BY <1>1, <2>4 DEF KilledInv
  <2> QED
    BY <1>1, <1>2, <2>1, <2>2, <2>3, <2>5 DEF CommandInv
<1>8. \A t \in Ops \ {o} : CommandInv(t)'
  BY <1>1, HolderKeepsOthers
<1>9. lock' # None
  BY <1>1, NoneAssumption
<1> QED
  BY <1>4, <1>5, <1>6, <1>7, <1>8, <1>9 DEF ServerInv, CommandsInv

-----------------------------------------------------------------------------
(* The holder of the lock goes on. *)

\* It ends, or goes to another place with the runfile's document in its hands,
\* where it may begin to list a group.
Turns(o, step, d) ==
  /\ UNCHANGED <<os, runfile, served>> /\ Become(o, step, d) /\ lock \in {None, o}
  /\ \/ step = "idle" /\ d = None /\ lock' = None /\ walk' = None
     \/ /\ step \in Loaded \ {"awaitKill"} /\ d = runfile /\ runfile # None /\ lock' = o
        /\ walk' = None \/ (FreshWalk /\ step \in Listing)
        /\ step \in Checked => OwnGroup(d)

LEMMA TurnsKeep ==
  ASSUME ServerInv, NEW o \in Ops, NEW step, NEW d, Turns(o, step, d)
  PROVE  ServerInv'
<1>1. /\ UNCHANGED <<os, runfile, served>> /\ lock \in {None, o} /\ lock' \in {None, o}
      /\ step \in Positions /\ walk' \in Walk \cup {None}
      /\ walk' # None => walk'.late = {} /\ walk'.todo = Pids /\ walk'.members = {} /\ lock' = o
  BY FreshWalkTyped DEF Turns, Loaded, Positions, Looking, Listing, Signalling
<1>2. Fades
  BY <1>1, Steady
<1>3. d = None \/ (d \in Document /\ DocInv(d)')
  <2>1. CASE d = runfile /\ runfile # None
    <3>1. runfile \in Document /\ DocInv(runfile)
      BY <2>1, RunfileDocument
    <3>2. d \in Document /\ DocInv(d)
      BY <2>1, <3>1 DEF DocInv, Sound
    <3> QED
      BY <1>2, <3>2, FadesKeep DEF ServerInv
  <2> QED
    BY <2>1 DEF Turns
<1>4. Goes(o, step, d)
  BY <1>1, <1>2, <1>3 DEF Goes, Turns
<1>5. /\ OsInv' /\ DocsInv' /\ pc' \in [Ops -> Positions] /\ doc' \in [Ops -> Document \cup {None}]
      /\ pc'[o] = step /\ doc'[o] = d /\ \A t \in Ops \ {o} : pc'[t] = pc[t] /\ doc'[t] = doc[t]
  BY <1>4, GoesKeep
<1>6. TypeOK'
  BY <1>1, <1>5 DEF ServerInv, TypeOK, os
<1>7. ServedInv'
  BY <1>1, <1>2, FadingServed
<1>8. CommandInv(o)'
  <2>1. CASE step = "idle" /\ d = None /\ lock' = None
    BY <1>5, <2>1, IdleCommand, NoneAssumption
  <2>2. CASE ~(step = "idle" /\ d = None /\ lock' = None)
    <3>1. /\ step \in Loaded \ {"awaitKill"} /\ d = runfile /\ runfile # None /\ lock' = o
          /\ step \in Checked => OwnGroup(d)
          /\ walk' = None \/ (FreshWalk /\ step \in Listing)
      BY <2>2 DEF Turns
    <3>2. step \in Checked => OwnGroup(doc[o])'
      BY <1>1, <1>5, <3>1 DEF OwnGroup, Group, os
    <3>3. walk' # None => WalkInv(o)'
      BY <1>1, <1>5, <3>1 DEF WalkInv
    <3>4. step \notin {"idle", "launched", "waiting", "ready", "awaitKill"}
      BY <3>1 DEF Loaded, Looking, Listing, Signalling
    <3> QED
      BY <1>1, <1>5, <3>1, <3>2, <3>3, <3>4 DEF CommandInv
  <2> QED
    BY <2>1, <2>2
<1>9. \A t \in Ops \ {o} : CommandInv(t)'
  BY <1>1, <1>5, HolderKeepsOthers
<1>10. walk' # None => lock' # None
  BY <1>1, NoneAssumption
<1> QED
  BY <1>5, <1>6, <1>7, <1>8, <1>9, <1>10 DEF ServerInv, CommandsInv

TakesUp(o) == StartLaunch(o) \/ StartTeardown(o) \/ StartRemember(o)

\* It takes the lock and loads the runfile.
LEMMA TakesLock ==
  ASSUME ServerInv, NEW o \in Ops, TakesUp(o)
  PROVE  ServerInv'
<1>1. /\ lock = None /\ lock' = o /\ walk = None /\ UNCHANGED <<os, runfile, served>>
      /\ runfile # None
  BY Nobody DEF TakesUp, StartLaunch, StartTeardown, StartRemember, Acquire, ServerInv, CommandsInv, CommandInv
<1>2. runfile \in Document /\ DocInv(runfile)
  BY <1>1, RunfileDocument
<1>3. PICK step, d : Turns(o, step, d)
  <2>1. CASE StartLaunch(o)
    BY <1>1, <2>1 DEF StartLaunch, Turns, Loaded, Looking, Listing, Checked, Signalling
  <2>2. CASE StartTeardown(o)
    BY <1>1, <2>2 DEF StartTeardown, Turns, Loaded, Looking, Listing, Checked, Signalling
  <2>3. CASE StartRemember(o)
    <3>1. OwnGroup(runfile)
      BY <1>2, <2>3, OwnedGroup DEF StartRemember, ServerInv
    <3>2. FreshWalk
      BY <2>3 DEF StartRemember, BeginWalk, FreshWalk
    <3>3. PICK d : d = runfile
      OBVIOUS
    <3>4. OwnGroup(d)
      BY <3>1, <3>3 DEF OwnGroup, Group
    <3>5. Turns(o, "remembering", d)
      BY <1>1, <2>3, <3>2, <3>3, <3>4 DEF StartRemember, Turns, Loaded, Looking, Listing, Signalling
    <3> QED
      BY <3>5
  <2> QED
    BY <2>1, <2>2, <2>3 DEF TakesUp
<1> QED
  BY <1>3, TurnsKeep

TurnsOn(o) == \/ GiveUpLaunch(o) \/ Gone(o) \/ Approve(o) \/ Disown(o) \/ Refuse(o)
              \/ SignalTerm(o) \/ SignalNobody(o) \/ TermTimeout(o) \/ KillTimeout(o)

LEMMA TurnsOnKeeps ==
  ASSUME ServerInv, NEW o \in Ops, TurnsOn(o)
  PROVE  ServerInv'
<1>1. UNCHANGED <<os, runfile, served>> /\ pc[o] \in Loaded /\ lock = o /\ runfile = doc[o] /\ doc[o] # None
  <2>1. UNCHANGED <<os, runfile, served>> /\ pc[o] \in Loaded
    BY DEF TurnsOn, GiveUpLaunch, Gone, Approve, Disown, Refuse, SignalTerm, SignalNobody, TermTimeout, KillTimeout,
           Loaded, Looking, Listing, Signalling
  <2>2. pc[o] # "idle"
    BY <2>1 DEF Loaded, Looking, Listing, Signalling
  <2> QED
    BY <2>1, <2>2, Nobody
<1>2. doc[o] \in Document /\ DocInv(doc[o])
  BY <1>1, RunfileDocument
<1>3. PICK d : d = doc[o]
  OBVIOUS
<1>4. Owned(doc[o]) => OwnGroup(d)
  <2>1. Owned(doc[o]) => OwnGroup(doc[o])
    BY <1>2, OwnedGroup DEF ServerInv
  <2> QED
    BY <1>3, <2>1 DEF OwnGroup, Group
<1>5. CASE GiveUpLaunch(o)
  <2>1. Turns(o, "idle", None)
    BY <1>1, <1>5 DEF GiveUpLaunch, Turns, Release, EndWalk
  <2> QED
    BY <2>1, TurnsKeep
<1>6. CASE Approve(o)
  <2>1. PICK step \in {"snapshot", "signalTerm", "signalKill"} :
          Become(o, step, doc[o]) /\ (IF step = "snapshot" THEN FreshWalk ELSE walk' = None)
    BY <1>6 DEF Approve, BeginWalk, EndWalk, FreshWalk
  <2>2. OwnGroup(d) /\ lock' = lock
    BY <1>4, <1>6 DEF Approve
  <2>3. Turns(o, step, d)
    BY <1>1, <1>3, <2>1, <2>2 DEF Turns, Loaded, Looking, Listing, Signalling
  <2> QED
    BY <2>3, TurnsKeep
<1>7. CASE Gone(o) \/ Disown(o) \/ Refuse(o) \/ TermTimeout(o) \/ KillTimeout(o)
  <2>1. PICK step \in {"complete", "again", "failed", "checkKill"} :
          Become(o, step, doc[o]) /\ walk' = None /\ lock' = lock
    BY <1>7 DEF Gone, Disown, Refuse, TermTimeout, KillTimeout, EndWalk
  <2>2. Turns(o, step, d)
    BY <1>1, <1>3, <2>1 DEF Turns, Loaded, Looking, Listing, Signalling, Checked
  <2> QED
    BY <2>2, TurnsKeep
<1>8. CASE SignalTerm(o) \/ SignalNobody(o)
  <2>1. PICK step \in {"awaitTerm", "complete"} : Become(o, step, doc[o]) /\ walk' = walk /\ lock' = lock
    BY <1>8 DEF SignalTerm, SignalNobody
  <2>2. walk = None
    BY <1>1, <1>8, NobodyWalks DEF SignalTerm, SignalNobody, Signalling, Looking, Listing
  <2>3. Turns(o, step, d)
    BY <1>1, <1>3, <2>1, <2>2 DEF Turns, Loaded, Looking, Listing, Signalling, Checked
  <2> QED
    BY <2>3, TurnsKeep
<1> QED
  BY <1>5, <1>6, <1>7, <1>8 DEF TurnsOn

(* SIGKILL, by a teardown or by a launch that is aborted.                  *)
LEMMA Kills ==
  ASSUME ServerInv, NEW o \in Ops, AbortLaunch(o) \/ SignalKill(o)
  PROVE  ServerInv'
<1>1. /\ Kill(doc[o].pid) /\ UNCHANGED <<started, boot, launches, runfile, served>>
      /\ pc[o] \in Loaded \cup {"launched"} /\ pc[o] # "idle" /\ lock' \in {None, o}
      /\ doc[o] \in Document /\ DocInv(doc[o])
  <2>1. pc[o] \in Loaded \cup {"launched"} /\ pc[o] # "idle"
    BY DEF AbortLaunch, SignalKill, Loaded, Signalling, Looking, Listing
  <2>2. lock = o
    BY <2>1, Nobody
  <2> QED
    BY <2>1, <2>2, CommandDocument DEF AbortLaunch, SignalKill, Release
<1>2. lock = o
  BY <1>1, Nobody
<1>3. walk' = None
  BY <1>2, NobodyWalks DEF AbortLaunch, EndWalk, SignalKill, Looking, Listing
<1>4. Fades /\ proc' \in [Pids -> Process \cup {None}]
  BY <1>1, <1>3, KillFades DEF ServerInv
<1>5. PICK step \in {"idle", "awaitKill"}, d \in {doc[o], None} :
        /\ Become(o, step, d)
        /\ \/ step = "idle" /\ d = None /\ lock' = None
           \/ step = "awaitKill" /\ d = doc[o] /\ pc[o] = "signalKill" /\ lock' = o
  BY <1>2 DEF AbortLaunch, SignalKill, Release
<1>6. d = None \/ (d \in Document /\ DocInv(d)')
  <2>1. d = doc[o] => d \in Document /\ DocInv(d)
    BY <1>1 DEF DocInv, Sound
  <2> QED
    BY <1>4, <1>5, <2>1, FadesKeep DEF ServerInv
<1>7. Goes(o, step, d)
  BY <1>1, <1>4, <1>5, <1>6 DEF Goes, Positions, Looking
<1>8. /\ OsInv' /\ DocsInv' /\ pc' \in [Ops -> Positions] /\ doc' \in [Ops -> Document \cup {None}]
      /\ pc'[o] = step /\ doc'[o] = d /\ \A t \in Ops \ {o} : pc'[t] = pc[t] /\ doc'[t] = doc[t]
  BY <1>7, GoesKeep
<1>9. TypeOK'
  BY <1>1, <1>3, <1>4, <1>8 DEF ServerInv, TypeOK
<1>10. ServedInv'
  BY <1>1, <1>4, FadingServed
<1>11. CommandInv(o)'
  <2>1. CASE step = "idle" /\ d = None /\ lock' = None
    BY <1>8, <2>1, IdleCommand, NoneAssumption
  <2>2. CASE step = "awaitKill" /\ d = doc[o] /\ pc[o] = "signalKill" /\ lock' = o
    <3>1. ASSUME NEW p \in Pids, Ours(p, d.launch)'
          PROVE  proc'[p].state = "killed"
      <4>1. Live(p) /\ proc[p].launch = doc[o].launch
        BY <1>4, <2>2, <3>1 DEF Fades, Ours, Live, Here
      <4>2. p \in Group(doc[o].pid)
        BY <1>1, <4>1 DEF DocInv, Sound, Group, Live, Here
      <4>3. proc'[p] = [proc[p] EXCEPT !.state = "killed"] /\ proc[p] \in Process
        BY <1>1, <4>1, <4>2 DEF Kill, ServerInv, TypeOK, Live
      <4> QED
        BY <4>3 DEF Process
    <3>2. KilledInv(o)'
      <4>1. ASSUME NEW p \in Pids, Ours(p, doc[o].launch)'
            PROVE  proc'[p].state = "killed" /\ ~Late(IdentityOf(p))'
        <5>1. Ours(p, d.launch)'
          BY <1>8, <4>1 DEF Ours
        <5> QED
          BY <1>3, <3>1, <5>1 DEF Late
      <4> QED
        BY <4>1 DEF KilledInv
    <3>3. runfile = doc[o] /\ d # None
      BY <1>1, <2>2, Nobody, NoneAssumption DEF Loaded, Signalling
    <3> QED
      BY <1>1, <1>3, <1>8, <2>2, <3>2, <3>3 DEF CommandInv, Loaded, Looking, Listing, Signalling, Checked
  <2> QED
    BY <1>5, <2>1, <2>2
<1>12. \A t \in Ops \ {o} : CommandInv(t)'
  BY <1>1, <1>2, <1>8, HolderKeepsOthers
<1> QED
  BY <1>3, <1>8, <1>9, <1>10, <1>11, <1>12, FadesKeep DEF ServerInv, CommandsInv

\* Whoever is alive of its launch when a look finds the group dead was forked
\* while it looked.
LEMMA DeadButLate ==
  ASSUME ServerInv, NEW o \in Ops, pc[o] \in Looking, SeenDead(o),
         NEW p \in Pids, Ours(p, doc[o].launch)
  PROVE  Late(IdentityOf(p))
<1>1. doc[o] \in Document /\ DocInv(doc[o]) /\ lock = o
  <2>1. pc[o] \in Loaded /\ pc[o] # "idle"
    BY DEF Looking, Listing, Signalling, Loaded
  <2> QED
    BY <2>1, CommandDocument, Nobody
<1>2. p \in Group(doc[o].pid)
  BY <1>1 DEF DocInv, Sound, Ours, Live, Here, Group
<1>3. walk # None /\ walk.todo = {} /\ ~walk.alive
  BY <1>2 DEF SeenDead, Walked
<1>4. WalkInv(o)
  BY <1>1, <1>3 DEF ServerInv, CommandsInv, CommandInv
<1> QED
  BY <1>3, <1>4 DEF WalkInv

LEMMA LaunchKeeps ==
  ASSUME ServerInv, NEW o \in Ops, NEW p \in Pids, Launch(o, p)
  PROVE  ServerInv'
<1> DEFINE new == [launch |-> launches + 1, pid |-> p, boot |-> boot, members |-> {}, cleanup |-> "none"]
<1>1. /\ launches + 1 \in Launches /\ launches + 1 \in 0..MaxLaunches /\ launches \in Nat
      /\ launches' = launches + 1
  BY ServerBounds DEF Launch, ServerInv, TypeOK, Launches
<1>2. new \in Document
  BY <1>1 DEF ServerInv, TypeOK, Document
<1>3. /\ Become(o, "launched", new) /\ UNCHANGED <<boot, runfile, served>> /\ walk' = None
      /\ lock \in {None, o} /\ lock' = o
  <2>1. pc[o] = "launching" => lock = o
    BY Nobody DEF Loaded, Looking
  <2> QED
    BY <2>1 DEF Launch, Acquire, EndWalk
<1>4. /\ pc' \in [Ops -> Positions] /\ doc' \in [Ops -> Document \cup {None}]
      /\ pc'[o] = "launched" /\ doc'[o] = new
      /\ \A t \in Ops \ {o} : pc'[t] = pc[t] /\ doc'[t] = doc[t]
  BY <1>2, <1>3, BecomeTyped DEF ServerInv, Positions, Listing
<1>5. /\ Begins(p, p, launches + 1) /\ proc' \in [Pids -> Process \cup {None}]
      /\ started' \in [Pids -> 0..MaxStarts]
  BY <1>1, StartTyped DEF Launch, ServerInv
<1>6. TypeOK'
  BY <1>1, <1>3, <1>4, <1>5 DEF ServerInv, TypeOK
<1>7. Born(p)
  BY <1>1, <1>3, <1>5 DEF Born, Begins, Launch, Fresh, Here, ServerInv, TypeOK
<1>8. OsInv'
  BY <1>6, <1>7, BornKeeps DEF ServerInv
<1>9. ServedInv'
  BY <1>3, <1>6, <1>7, BirthKeeps
<1>10. ASSUME NEW d \in Document, d = new
       PROVE  DocInv(d)'
  <2>1. ASSUME NEW x \in Pids, Here(x)', proc'[x].launch = launches + 1
        PROVE  proc'[x].group = p
    <3>1. CASE x = p
      BY <1>5, <3>1 DEF Begins
    <3>2. CASE x # p
      <4>1. proc'[x] = proc[x] /\ Here(x)
        BY <1>5, <2>1, <3>2 DEF Begins, Here
      <4>2. proc[x].launch <= launches /\ proc[x].launch \in Nat
        BY <4>1 DEF ServerInv, OsInv, TypeOK, Process, Here
      <4> QED
        BY <1>1, <2>1, <4>1, <4>2
    <3> QED
      BY <3>1, <3>2
  <2>2. boot \in Nat /\ boot' = boot
    BY <1>3 DEF ServerInv, TypeOK
  <2> QED
    BY <1>1, <1>10, <2>1, <2>2 DEF DocInv, Sound
<1>11. DocsInv'
  <2>1. ASSUME NEW d \in Document, InUse(d)'
        PROVE  DocInv(d)'
    <3>1. CASE d = new
      BY <1>10, <2>1, <3>1
    <3>2. CASE d # new
      <4>1. DocInv(d)
        BY <1>3, <1>4, <2>1, <3>2 DEF InUse, ServerInv, DocsInv
      <4> QED
        BY <1>6, <1>7, <4>1, BornKeeps DEF ServerInv
    <3> QED
      BY <3>1, <3>2
  <2> QED
    BY <2>1 DEF DocsInv
<1>12. NoneLeft
  <2> SUFFICES ASSUME runfile # None, NEW x \in Pids, Ours(x, runfile.launch),
                      IdentityOf(x) \in runfile.members
               PROVE  FALSE
    BY DEF NoneLeft
  <2>1. /\ runfile.boot = boot /\ proc[x].group = runfile.pid /\ ~Late(IdentityOf(x))
    BY RunfileDocument DEF DocInv, Sound, Ours, Live, Here
  <2>2. IdentityOf(x).pid = x
    BY DEF IdentityOf
  <2>3. Owned(runfile)
    BY <2>1, <2>2 DEF Owned, Ours
  <2>4. pc[o] = "launching" /\ MayLaunch(o) /\ doc[o] = runfile
    BY Nobody DEF Launch, Loaded, Looking
  <2>5. SeenDead(o)
    BY <2>3, <2>4 DEF MayLaunch
  <2>6. Late(IdentityOf(x))
    BY <2>4, <2>5, DeadButLate DEF Looking
  <2> QED
    BY <2>1, <2>6
<1>13. LaunchedInv(o)'
  <2>1. NoneLeft'
    BY <1>3, <1>6, <1>7, <1>12, BirthKeeps
  <2>2. runfile # None => runfile.launch < launches + 1
    BY <1>1, RunfileDocument DEF DocInv, Sound, Document, Launches
  <2> QED
    BY <1>3, <1>4, <1>5, <2>1, <2>2 DEF LaunchedInv, Begins
<1>14. CommandInv(o)'
  BY <1>2, <1>3, <1>4, <1>13, NoneAssumption
  DEF CommandInv, Loaded, Looking, Listing, Signalling, Checked
<1>15. \A t \in Ops \ {o} : CommandInv(t)'
  BY <1>3, <1>4, HolderKeepsOthers
<1> QED
  BY <1>3, <1>6, <1>8, <1>9, <1>11, <1>14, <1>15 DEF ServerInv, CommandsInv

-----------------------------------------------------------------------------
(* A command writes the runfile. *)

\* The new document tells the truth.
Writes(o, new, step) ==
  /\ UNCHANGED os /\ lock = o /\ walk' = None
  /\ new \in Document /\ Sound(new) /\ runfile' = new
  /\ \/ step = "idle" /\ Become(o, step, None) /\ lock' = None
     \/ step \in {"checkTerm", "checkKill"} /\ Become(o, step, new) /\ lock' = o

LEMMA WritesKeep ==
  ASSUME ServerInv, NEW o \in Ops, NEW new, NEW step, Writes(o, new, step),
         served' \subseteq Identity, ServedInv'
  PROVE  ServerInv'
<1>1. Fades
  BY Steady DEF Writes
<1>2. new \in Document /\ new # None /\ DocInv(new)'
  <2>1. new \in Document /\ Sound(new) /\ walk' = None
    BY DEF Writes
  <2>2. Sound(new)'
    BY <1>1, <2>1, FadesKeep DEF ServerInv
  <2> QED
    BY <2>1, <2>2, NoneAssumption DEF DocInv, Late
<1>3. PICK d \in {new, None} :
        /\ Become(o, step, d)
        /\ \/ step = "idle" /\ d = None /\ lock' = None
           \/ step \in {"checkTerm", "checkKill"} /\ d = new /\ lock' = o
  BY DEF Writes
<1>4. Goes(o, step, d)
  BY <1>1, <1>2, <1>3 DEF Goes, Writes, Positions, Looking
<1>5. /\ OsInv' /\ DocsInv' /\ pc' \in [Ops -> Positions] /\ doc' \in [Ops -> Document \cup {None}]
      /\ pc'[o] = step /\ doc'[o] = d /\ \A t \in Ops \ {o} : pc'[t] = pc[t] /\ doc'[t] = doc[t]
  BY <1>4, GoesKeep
<1>6. TypeOK'
  BY <1>2, <1>3, <1>5 DEF Writes, ServerInv, TypeOK, os
<1>7. CommandInv(o)'
  <2>1. CASE step = "idle" /\ d = None /\ lock' = None
    BY <1>5, <2>1, IdleCommand, NoneAssumption
  <2>2. CASE step \in {"checkTerm", "checkKill"} /\ d = new /\ lock' = o
    BY <1>2, <1>5, <2>2 DEF Writes, CommandInv, Loaded, Looking, Listing, Signalling, Checked
  <2> QED
    BY <1>3, <2>1, <2>2
<1>8. \A t \in Ops \ {o} : CommandInv(t)'
  BY <1>2, <1>3, <1>5, HolderKeepsOthers DEF Writes
<1> QED
  BY <1>5, <1>6, <1>7, <1>8 DEF ServerInv, CommandsInv, Writes

\* What a command that has listed its group writes.
LEMMA ListedIsSound ==
  ASSUME ServerInv, NEW o \in Ops, pc[o] \in Listing, Walked
  PROVE  /\ lock = o /\ doc[o] \in Document /\ DocInv(doc[o])
         /\ Listed(doc[o]) \in Document /\ Sound(Listed(doc[o]))
         /\ Listed(doc[o]).launch = doc[o].launch /\ Listed(doc[o]).members = walk.members
         /\ \A p \in Pids : Ours(p, doc[o].launch) /\ ~Late(IdentityOf(p)) => IdentityOf(p) \in walk.members
<1>1. lock = o /\ pc[o] # "idle"
  <2>1. pc[o] \in Loaded \cup {"launched"} /\ pc[o] # "idle"
    BY DEF Listing, Loaded
  <2> QED
    BY <2>1, Nobody
<1>2. doc[o] \in Document /\ DocInv(doc[o])
  BY <1>1, CommandDocument
<1>3. walk # None /\ walk \in Walk /\ walk.todo = {} /\ WalkInv(o)
  BY <1>1 DEF Walked, ServerInv, TypeOK, CommandsInv, CommandInv
<1>4. walk.members \in SUBSET Identity /\ \A m \in walk.members : Of(m, doc[o].launch)
  BY <1>3 DEF WalkInv, Walk
<1>5. /\ Listed(doc[o]) \in Document /\ Sound(Listed(doc[o]))
      /\ Listed(doc[o]).launch = doc[o].launch /\ Listed(doc[o]).members = walk.members
  BY <1>2, <1>4, OtherMembers DEF Listed, DocInv
<1> QED
  BY <1>1, <1>2, <1>3, <1>5 DEF WalkInv

LEMMA RecordKeeps ==
  ASSUME ServerInv, NEW o \in Ops, Record(o)
  PROVE  ServerInv' /\ runfile' # None /\ (runfile # None => runfile.launch < runfile'.launch /\ NoneLeft)
<1>1. /\ lock = o /\ Listed(doc[o]) \in Document /\ Sound(Listed(doc[o]))
      /\ Listed(doc[o]).launch = doc[o].launch
  BY ListedIsSound DEF Record, Listing
<1>2. /\ UNCHANGED os /\ walk' = None /\ served' = {} /\ runfile' = Listed(doc[o])
      /\ Become(o, "idle", None) /\ lock' = None
  BY DEF Record, EndWalk, Release
<1>3. PICK new \in Document : new = Listed(doc[o])
  BY <1>1
<1>4. Sound(new)
  BY <1>1, <1>3 DEF Sound
<1>5. Writes(o, new, "idle")
  BY <1>1, <1>2, <1>3, <1>4 DEF Writes
<1>6. ServedInv'
  BY <1>2 DEF ServedInv
<1>7. ServerInv'
  BY <1>2, <1>5, <1>6, WritesKeep
<1>8. runfile # None => runfile.launch < doc[o].launch /\ NoneLeft
  BY DEF Record, ServerInv, CommandsInv, CommandInv, LaunchedInv
<1> QED
  BY <1>1, <1>2, <1>3, <1>7, <1>8, NoneAssumption

\* Who was reported is in the list of a later walk as long as it is alive.
LEMMA ServedIsListed ==
  ASSUME ServerInv, NEW o \in Ops, pc[o] \in Listing \ {"launched"}, Walked,
         NEW m \in Identity, ReportedInv(m), RecordedInv(m),
         UNCHANGED os, walk' = None, runfile' = Listed(doc[o])
  PROVE  ReportedInv(m)' /\ RecordedInv(m)'
<1>1. runfile = doc[o] /\ runfile'.launch = runfile.launch /\ runfile'.members = walk.members
  BY ListedIsSound, Nobody DEF Loaded, Listing
<1>2. ReportedInv(m)'
  BY <1>1 DEF ReportedInv, Of, Late, Here, os
<1>3. ASSUME Live(m.pid), IdentityOf(m.pid) = m
      PROVE  m \in walk.members
  <2>1. m.pid \in Pids /\ proc[m.pid].start = m.start
    BY <1>3 DEF Identity, IdentityOf
  <2>2. Ours(m.pid, doc[o].launch) /\ ~Late(IdentityOf(m.pid))
    BY <1>1, <1>3, <2>1 DEF ReportedInv, Of, Ours, Live, Here
  <2> QED
    BY <1>3, <2>1, <2>2, ListedIsSound
<1>4. RecordedInv(m)'
  BY <1>1, <1>3 DEF RecordedInv, Live, IdentityOf, os
<1> QED
  BY <1>2, <1>4

LEMMA RecordAgainKeeps ==
  ASSUME ServerInv, NEW o \in Ops, RecordAgain(o)
  PROVE  ServerInv' /\ runfile' # None /\ runfile'.launch = runfile.launch
<1>1. /\ lock = o /\ Listed(doc[o]) \in Document /\ Sound(Listed(doc[o]))
      /\ Listed(doc[o]).launch = doc[o].launch /\ runfile = doc[o]
      /\ pc[o] \in Listing \ {"launched"} /\ Walked
  BY ListedIsSound, Nobody DEF RecordAgain, Listing, Loaded
<1>2. PICK step \in {"checkTerm", "checkKill"} :
        /\ UNCHANGED os /\ walk' = None /\ served' = served /\ runfile' = Listed(doc[o])
        /\ Become(o, step, Listed(doc[o])) /\ lock' = o
  BY <1>1 DEF RecordAgain, EndWalk
<1>3. PICK new \in Document : new = Listed(doc[o])
  BY <1>1
<1>4. Sound(new)
  BY <1>1, <1>3 DEF Sound
<1>5. Writes(o, new, step)
  BY <1>1, <1>2, <1>3, <1>4 DEF Writes
<1>6. ServedInv'
  <2>1. ASSUME NEW m \in served
        PROVE  ReportedInv(m)' /\ RecordedInv(m)'
    <3>1. ReportedInv(m) /\ RecordedInv(m) /\ m \in Identity
      BY DEF ServerInv, ServedInv, TypeOK
    <3> QED
      BY <1>1, <1>2, <3>1, ServedIsListed
  <2> QED
    BY <1>2, <1>3, <2>1, NoneAssumption DEF ServedInv
<1>7. served' \subseteq Identity
  BY <1>2 DEF ServerInv, TypeOK
<1> QED
  BY <1>1, <1>2, <1>3, <1>5, <1>6, <1>7, WritesKeep, NoneAssumption

LEMMA RememberKeeps ==
  ASSUME ServerInv, NEW o \in Ops, Remember(o)
  PROVE  ServerInv' /\ runfile' # None /\ runfile'.launch = runfile.launch
<1>1. /\ lock = o /\ Listed(doc[o]) \in Document /\ Sound(Listed(doc[o]))
      /\ Listed(doc[o]).launch = doc[o].launch /\ runfile = doc[o]
      /\ pc[o] \in Listing \ {"launched"} /\ Walked
  BY ListedIsSound, Nobody DEF Remember, Listing, Loaded
<1>2. /\ UNCHANGED os /\ walk' = None /\ runfile' = Listed(doc[o])
      /\ Become(o, "idle", None) /\ lock' = None /\ Report(doc[o])
  BY DEF Remember, EndWalk, Release
<1>3. PICK new \in Document : new = Listed(doc[o])
  BY <1>1
<1>4. Sound(new)
  BY <1>1, <1>3 DEF Sound
<1>5. Writes(o, new, "idle")
  BY <1>1, <1>2, <1>3, <1>4 DEF Writes
<1>6. ASSUME NEW m \in served'
      PROVE  m \in Identity /\ ReportedInv(m)' /\ RecordedInv(m)'
  <2>1. CASE m \in served
    <3>1. ReportedInv(m) /\ RecordedInv(m) /\ m \in Identity
      BY <2>1 DEF ServerInv, ServedInv, TypeOK
    <3> QED
      BY <1>1, <1>2, <3>1, ServedIsListed
  <2>2. CASE m \notin served
    <3>1. PICK p \in Group(doc[o].pid) : Live(p) /\ m = IdentityOf(p) /\ m \notin walk.late
      BY <1>2, <1>6, <2>2 DEF Report
    <3>2. p \in Pids /\ Here(p) /\ proc[p].start <= started[p] /\ proc[p].launch = doc[o].launch
      BY <1>1, <3>1, ListedGroup DEF OwnGroup, Group, ServerInv, OsInv, Here
    <3>3. m \in Identity /\ m.pid = p /\ m.start = proc[p].start
      BY <3>1, <3>2, SameIdentity DEF ServerInv
    <3>4. runfile'.launch = doc[o].launch /\ runfile'.members = walk.members
      BY <1>1, <1>2, ListedIsSound
    <3>5. m \in walk.members
      BY <1>1, <3>1, <3>2, ListedIsSound DEF Ours, Late
    <3>6. ReportedInv(m)'
      BY <1>2, <3>2, <3>3, <3>4 DEF ReportedInv, Of, Late, Here, os
    <3> QED
      BY <3>3, <3>4, <3>5, <3>6 DEF RecordedInv
  <2> QED
    BY <2>1, <2>2
<1>7. ServedInv' /\ served' \subseteq Identity
  BY <1>2, <1>3, <1>6, NoneAssumption DEF ServedInv
<1> QED
  BY <1>1, <1>2, <1>3, <1>5, <1>7, WritesKeep, NoneAssumption

LEMMA ReceiptKeeps ==
  ASSUME ServerInv, NEW o \in Ops, WriteReceipt(o)
  PROVE  ServerInv' /\ runfile' # None /\ runfile'.launch = runfile.launch
<1>1. /\ doc[o] \in Document /\ DocInv(doc[o]) /\ runfile = doc[o] /\ lock = o
      /\ pc[o] \in {"complete", "failed"}
  BY CommandDocument, Nobody DEF WriteReceipt, Loaded
<1>2. /\ UNCHANGED os /\ UNCHANGED served /\ lock' = None /\ Become(o, "idle", None)
  BY DEF WriteReceipt, Release
<1>3. walk' = None
  BY <1>1, NobodyWalks DEF WriteReceipt, Looking, Listing
<1>4. /\ runfile' \in Document /\ runfile'.launch = runfile.launch /\ runfile'.members = runfile.members
      /\ \E new \in Document : runfile' = new /\ DocInv(new)
  <2>1. CASE runfile' = runfile
    BY <1>1, <2>1
  <2>2. CASE runfile' = [doc[o] EXCEPT !.cleanup = pc[o]]
    BY <1>1, <2>2, OtherReceipt
  <2> QED
    BY <2>1, <2>2 DEF WriteReceipt
<1>5. PICK new \in Document : runfile' = new /\ DocInv(new)
  BY <1>4
<1>6. Writes(o, new, "idle")
  BY <1>1, <1>2, <1>3, <1>5 DEF Writes, DocInv
<1>7. ASSUME NEW m \in served
      PROVE  ReportedInv(m)' /\ RecordedInv(m)'
  <2>1. ReportedInv(m) /\ RecordedInv(m)
    BY DEF ServerInv, ServedInv
  <2> QED
    BY <1>2, <1>3, <1>4, <2>1 DEF ReportedInv, RecordedInv, Of, Late, Here, Live, IdentityOf, os
<1>8. ServedInv' /\ served' \subseteq Identity
  BY <1>2, <1>5, <1>7, NoneAssumption DEF ServedInv, ServerInv, TypeOK
<1> QED
  BY <1>4, <1>5, <1>6, <1>8, WritesKeep, NoneAssumption

-----------------------------------------------------------------------------
(* Every step. *)

LEMMA ServerInit == Init => ServerInv
<1> SUFFICES ASSUME Init
             PROVE  ServerInv
  OBVIOUS
<1> USE DEF Init
<1>1. \A p \in Pids : ~Here(p) /\ ~Live(p)
  BY DEF Here, Live
<1>2. (\A o \in Ops : CommandInv(o)) /\ \A d \in Document : ~InUse(d)
  BY NoneAssumption DEF CommandInv, InUse, Loaded, Looking, Listing, Signalling, Checked
<1>3. OsInv
  BY <1>1 DEF OsInv
<1>4. TypeOK
  BY ServerBounds DEF TypeOK, Positions
<1> QED
  BY <1>2, <1>3, <1>4 DEF ServerInv, DocsInv, CommandsInv, ServedInv

(* Only a launch changes what the runfile describes, and only to a later   *)
(* launch than one that has nobody left.                                   *)
Forward == runfile # None => /\ runfile' # None
                             /\ \/ runfile'.launch = runfile.launch
                                \/ runfile.launch < runfile'.launch /\ NoneLeft

LEMMA ServerNext ==
  ASSUME ServerInv, [Next]_vars
  PROVE  ServerInv' /\ Forward
<1> USE DEF Forward
<1>1. ASSUME NEW o \in Ops, NEW p \in Pids, Launch(o, p)
      PROVE  ServerInv' /\ Forward
  BY <1>1, LaunchKeeps DEF Launch
<1>2. ASSUME NEW o \in Ops, StartWait(o) \/ Observe(o) \/ GiveUpWait(o) \/ Interrupt(o)
      PROVE  ServerInv' /\ Forward
  BY <1>2, LooksOn DEF StartWait, Observe, GiveUpWait, Interrupt
<1>3. ASSUME NEW o \in Ops, Probe(o) \/ List(o) \/ \E p \in Pids : Read(o, p)
      PROVE  ServerInv' /\ Forward
  BY <1>3, WalksKeep DEF Probe, List, Read
<1>4. ASSUME NEW o \in Ops, TakesUp(o)
      PROVE  ServerInv' /\ Forward
  BY <1>4, TakesLock DEF TakesUp, StartLaunch, StartTeardown, StartRemember
<1>5. ASSUME NEW o \in Ops, TurnsOn(o)
      PROVE  ServerInv' /\ Forward
  BY <1>5, TurnsOnKeeps DEF TurnsOn, GiveUpLaunch, Gone, Approve, Disown, Refuse, SignalTerm, SignalNobody,
                            TermTimeout, KillTimeout
<1>6. ASSUME NEW o \in Ops, AbortLaunch(o) \/ SignalKill(o)
      PROVE  ServerInv' /\ Forward
  BY <1>6, Kills DEF AbortLaunch, SignalKill
<1>7. ASSUME NEW o \in Ops, Record(o) \/ RecordAgain(o) \/ Remember(o) \/ WriteReceipt(o)
      PROVE  ServerInv' /\ Forward
  BY <1>7, RecordKeeps, RecordAgainKeeps, RememberKeeps, ReceiptKeeps
<1>8. ASSUME NEW p \in Pids, Exit(p) \/ Reap(p)
      PROVE  ServerInv' /\ Forward
  BY <1>8, ProcessEnds DEF Exit, Reap
<1>9. ASSUME NEW q \in Pids, Stranger(q) \/ \E p \in Pids : Fork(p, q)
      PROVE  ServerInv' /\ Forward
  BY <1>9, ProcessBegins DEF Stranger, Fork
<1>10. CASE Reboot
  BY <1>10, MachineReboots DEF Reboot
<1>11. CASE UNCHANGED vars
  BY <1>11 DEF vars, ServerInv, TypeOK, OsInv, DocsInv, DocInv, Sound, Of, Late, InUse, CommandsInv, CommandInv,
               LaunchedInv, NoneLeft, Ours, KilledInv, WalkInv, OwnGroup, Group, Here, Live, IdentityOf,
               ServedInv, ReportedInv, RecordedInv
<1> QED
  BY <1>1, <1>2, <1>3, <1>4, <1>5, <1>6, <1>7, <1>8, <1>9, <1>10, <1>11 DEF Next, Command, TakesUp, TurnsOn

THEOREM ServerInvariant == Spec => []ServerInv
<1>1. ServerInv /\ [Next]_vars => ServerInv'
  BY ServerNext
<1> QED
  BY <1>1, ServerInit, PTL DEF Spec

(* Whatever the ids of its processes were recycled for, a teardown about   *)
(* to signal a group signals the server that its runfile describes.        *)
THEOREM OnlyItsServer == Spec => []SignalsItsOwnServer
<1>1. ServerInv => SignalsItsOwnServer
  BY DEF ServerInv, CommandsInv, CommandInv, OwnGroup, SignalsItsOwnServer, Checked
<1> QED
  BY <1>1, ServerInvariant, PTL

\* Only an answer that the group is gone makes a teardown say complete.
LEMMA OnlyGone ==
  ASSUME TypeOK, [Next]_vars, NEW o \in Ops, pc[o] # "complete", pc'[o] = "complete"
  PROVE  Gone(o) \/ SignalNobody(o)
<1>1. ASSUME NEW t \in Ops, NEW step, NEW d, Become(t, step, d), step # "complete"
      PROVE  FALSE
  BY <1>1 DEF Become, TypeOK
<1>2. ASSUME NEW t \in Ops, NEW d, Become(t, "complete", d)
      PROVE  t = o
  BY <1>2 DEF Become, TypeOK
<1>3. pc' # pc
  OBVIOUS
<1>4. ASSUME NEW t \in Ops, NEW p \in Pids, Launch(t, p)
      PROVE  FALSE
  BY <1>1, <1>4 DEF Launch
<1>5. ASSUME NEW t \in Ops, StartLaunch(t) \/ StartWait(t) \/ StartTeardown(t) \/ StartRemember(t) \/ Interrupt(t)
      PROVE  FALSE
  BY <1>1, <1>5 DEF StartLaunch, StartWait, StartTeardown, StartRemember, Interrupt
<1>6. ASSUME NEW t \in Ops, Probe(t) \/ (\E p \in Pids : Read(t, p)) \/ List(t)
      PROVE  FALSE
  BY <1>3, <1>6 DEF Probe, Read, List
<1>7. ASSUME NEW t \in Ops, GiveUpLaunch(t) \/ Record(t) \/ AbortLaunch(t) \/ Observe(t) \/ Remember(t)
                            \/ GiveUpWait(t) \/ WriteReceipt(t)
      PROVE  FALSE
  BY <1>1, <1>7 DEF GiveUpLaunch, Record, AbortLaunch, Observe, Remember, GiveUpWait, WriteReceipt
<1>8. ASSUME NEW t \in Ops, Approve(t) \/ Disown(t) \/ Refuse(t) \/ RecordAgain(t)
                            \/ SignalTerm(t) \/ SignalKill(t) \/ TermTimeout(t) \/ KillTimeout(t)
      PROVE  FALSE
  BY <1>1, <1>8 DEF Approve, Disown, Refuse, RecordAgain, SignalTerm, SignalKill, TermTimeout, KillTimeout
<1>9. ASSUME NEW t \in Ops, Gone(t) \/ SignalNobody(t)
      PROVE  t = o
  BY <1>2, <1>9 DEF Gone, SignalNobody
<1>10. ASSUME NEW p \in Pids, Stranger(p) \/ Exit(p) \/ Reap(p) \/ \E q \in Pids : Fork(p, q)
       PROVE  FALSE
  BY <1>3, <1>10 DEF Stranger, Exit, Reap, Fork
<1>11. CASE Reboot
  BY <1>11 DEF Reboot
<1>12. CASE UNCHANGED vars
  BY <1>3, <1>12 DEF vars
<1> QED
  BY <1>4, <1>5, <1>6, <1>7, <1>8, <1>9, <1>10, <1>11, <1>12 DEF Next, Command

(* Whoever is alive of a server whose teardown says complete was forked    *)
(* while the teardown took its last look; after SIGKILL nobody is alive.   *)
THEOREM ReceiptsAreTrue == Spec => CompleteMeansGone
<1>1. ASSUME ServerInv, [Next]_vars, NEW o \in Ops, pc[o] # "complete", pc'[o] = "complete",
             NEW p \in Pids, Live(p), proc[p].launch = doc[o].launch
      PROVE  pc[o] # "awaitKill" /\ IdentityOf(p) \in walk.late
  <2>1. Gone(o) \/ SignalNobody(o)
    BY <1>1, OnlyGone DEF ServerInv
  <2>2. doc[o] \in Document /\ DocInv(doc[o])
    BY <1>1, <2>1, CommandDocument DEF Gone, SignalNobody, Looking, Signalling
  <2>3. p \in Group(doc[o].pid) /\ Ours(p, doc[o].launch)
    BY <1>1, <2>2 DEF DocInv, Sound, Ours, Live, Here, Group
  <2>4. pc[o] \in Looking /\ SeenDead(o)
    BY <2>1, <2>3 DEF Gone, SignalNobody
  <2>5. Late(IdentityOf(p))
    BY <1>1, <2>3, <2>4, DeadButLate
  <2>6. pc[o] # "awaitKill"
    BY <1>1, <2>3, <2>5 DEF ServerInv, CommandsInv, CommandInv, KilledInv
  <2> QED
    BY <2>5, <2>6 DEF Late
<1>2. ServerInv /\ [Next]_vars =>
        [\A o \in Ops : pc[o] # "complete" /\ pc'[o] = "complete" =>
           \A p \in Pids : Live(p) /\ proc[p].launch = doc[o].launch
                             => pc[o] # "awaitKill" /\ IdentityOf(p) \in walk.late]_vars
  BY <1>1
<1> QED
  BY <1>2, ServerInvariant, PTL DEF Spec, CompleteMeansGone

(* A server that was reported ready can be torn down by its runfile as     *)
(* long as one of the processes alive then is alive.                       *)
THEOREM ReadyMeansOwned == Spec => []ReadyServerStaysOwned
<1>1. ASSUME ServerInv
      PROVE  ReadyServerStaysOwned
  <2> SUFFICES ASSUME NEW m \in served, Live(m.pid), IdentityOf(m.pid) = m
               PROVE  Owned(runfile)
    BY DEF ReadyServerStaysOwned
  <2>1. ReportedInv(m) /\ RecordedInv(m) /\ m \in Identity /\ runfile # None
    BY <1>1 DEF ServerInv, ServedInv, TypeOK
  <2>2. m \in runfile.members
    BY <2>1 DEF RecordedInv
  <2>3. m.pid \in Pids /\ Here(m.pid) /\ proc[m.pid].launch = runfile.launch
    BY <2>1 DEF ReportedInv, Of, Live, Here, Identity, IdentityOf
  <2>4. runfile.boot = boot /\ proc[m.pid].group = runfile.pid
    BY <1>1, <2>1, <2>3, RunfileDocument DEF DocInv, Sound
  <2> QED
    BY <2>2, <2>4 DEF Owned
<1> QED
  BY <1>1, ServerInvariant, PTL

(* The runfile is never lost and never goes back to an earlier launch.     *)
THEOREM NeverBack == Spec => RunfileMovesForward
<1>1. ServerInv /\ [Next]_vars => [runfile # None => runfile' # None /\ runfile'.launch >= runfile.launch]_vars
  <2> SUFFICES ASSUME ServerInv, [Next]_vars, runfile # None
               PROVE  runfile' # None /\ runfile'.launch >= runfile.launch
    OBVIOUS
  <2>1. ServerInv' /\ Forward
    BY ServerNext
  <2>2. runfile \in Document /\ runfile' \in Document
    BY <2>1 DEF Forward, ServerInv, TypeOK
  <2> QED
    BY <2>1, <2>2 DEF Forward, Document, Launches
<1> QED
  BY <1>1, ServerInvariant, PTL DEF Spec, RunfileMovesForward

(* A launch takes the runfile over from a server of which no recorded      *)
(* process is left.                                                        *)
THEOREM OverDeadServers == Spec => TakesOverDeadServers
<1>1. ServerInv /\ [Next]_vars =>
        [runfile # None /\ runfile'.launch # runfile.launch =>
           \A p \in Pids : Live(p) /\ proc[p].launch = runfile.launch
                             => IdentityOf(p) \notin runfile.members]_vars
  BY ServerNext DEF Forward, NoneLeft, Ours
<1> QED
  BY <1>1, ServerInvariant, PTL DEF Spec, TakesOverDeadServers
=============================================================================
