----------------------------- MODULE CampaignFiles -----------------------------
(***************************************************************************)
(* The files of a campaign (store.py): sessions that create campaign.db at *)
(* once, and sessions that export its events to campaign.events.jsonl at   *)
(* once, by one temporary file that all of them share, while commands add  *)
(* events.  Any of them may die between two system calls.                  *)
(*                                                                         *)
(* The events are append-only, so that line k of an export is the same     *)
(* whoever writes it, and a file is the set of the lines it holds.  A file *)
(* that lost its name lives on for the session that has it open.           *)
(***************************************************************************)
EXTENDS Naturals, Sequences

CONSTANTS
  Session,
  MaxEvents,  \* bound: events in the log
  MaxFiles,   \* bound: files that were ever opened under the temporary name
  NoFile

ASSUME FilesAssumption == {MaxEvents, MaxFiles} \subseteq Nat /\ NoFile \notin 1..MaxFiles

VARIABLES
  made,        \* how far campaign.db is made
  events,      \* its rows: whose spec the first one holds, then "command"
  step,        \* per session: what it does next
  created,     \* the sessions that reported a new campaign
  temporary, exported,  \* the files with the two names, or NoFile
  lines,       \* per file: the lines it holds
  stream,      \* per session: [file, began, last, next], what it writes where
  promised,    \* history: events at the start of an export that succeeded
  overlapped,  \* history: an export was opened while another was under way
  deaths       \* history: what sessions died over

filesVars ==
  <<made, events, step, created, temporary, exported, lines, stream, promised, overlapped, deaths>>
exportVars == <<temporary, exported, lines, stream, promised, overlapped, deaths>>

Exporting == {s \in Session : step[s] \in {"read", "write"}}
Creating == {s \in Session : step[s] \in {"table", "no_update", "no_delete", "first"}}

Go(s, next) == step' = [step EXCEPT ![s] = next]

FilesInit ==
  /\ made = "none" /\ events = <<>> /\ created = {}
  /\ step = [s \in Session |-> "idle"]
  /\ temporary = NoFile /\ exported = NoFile
  /\ lines = <<>> /\ stream = [s \in Session |-> NoFile]
  /\ promised = 0 /\ overlapped = FALSE /\ deaths = {}

-----------------------------------------------------------------------------
(* CampaignStore.create. *)

\* What exists is refused, however far it was made.
CheckNew(s) ==
  /\ step[s] = "idle" /\ made = "none" /\ Go(s, "connect")
  /\ UNCHANGED <<made, events, created, exportVars>>

\* The first statement makes the file; it may find it locked by another session.
Connect(s) ==
  /\ step[s] = "connect"
  /\ \/ /\ made' = IF made = "none" THEN "file" ELSE made
        /\ Go(s, "table")
     \/ /\ Creating # {}
        /\ Go(s, "idle") /\ UNCHANGED made
  /\ UNCHANGED <<events, created, exportVars>>

\* executescript commits statement by statement.  The table is made once: for
\* any other session this is an sqlite3 error.
Statement(s, from, to, next) ==
  /\ step[s] = to
  /\ IF made = from THEN made' = to /\ Go(s, next) ELSE UNCHANGED made /\ Go(s, "idle")
  /\ UNCHANGED <<events, created, exportVars>>

MakeTable(s) == Statement(s, "file", "table", "no_update")
ForbidUpdate(s) == Statement(s, "table", "no_update", "no_delete")
ForbidDelete(s) == Statement(s, "no_update", "no_delete", "first")

\* append with expected_version 0
AppendFirst(s) ==
  /\ step[s] = "first"
  /\ IF events = <<>> THEN events' = <<s>> /\ created' = created \cup {s} ELSE UNCHANGED <<events, created>>
  /\ Go(s, "idle")
  /\ UNCHANGED <<made, exportVars>>

\* Any command: it reads the state first, and without events there is none.
AppendMore ==
  /\ events # <<>> /\ Len(events) < MaxEvents
  /\ events' = Append(events, "command")
  /\ UNCHANGED <<made, step, created, exportVars>>

-----------------------------------------------------------------------------
(* CampaignStore.export_jsonl, from replay. *)

OpenTemporary(s) ==
  /\ step[s] = "idle" /\ events # <<>>
  /\ IF temporary = NoFile
     THEN /\ Len(lines) < MaxFiles
          /\ lines' = Append(lines, {}) /\ temporary' = Len(lines')
     ELSE lines' = [lines EXCEPT ![temporary] = {}] /\ UNCHANGED temporary
  /\ stream' = [stream EXCEPT ![s] = [file |-> temporary', began |-> Len(events), last |-> 0, next |-> 1]]
  /\ overlapped' = (overlapped \/ Exporting # {})
  /\ Go(s, "read")
  /\ UNCHANGED <<made, events, created, exported, promised, deaths>>

\* The rows are fetched when the file is open.
FetchEvents(s) ==
  /\ step[s] = "read"
  /\ stream' = [stream EXCEPT ![s].last = Len(events)]
  /\ Go(s, "write")
  /\ UNCHANGED <<made, events, created, temporary, exported, lines, promised, overlapped, deaths>>

WriteLine(s) ==
  /\ step[s] = "write" /\ stream[s].next <= stream[s].last
  /\ lines' = [lines EXCEPT ![stream[s].file] = @ \cup {stream[s].next}]
  /\ stream' = [stream EXCEPT ![s].next = @ + 1]
  /\ UNCHANGED <<made, events, step, created, temporary, exported, promised, overlapped, deaths>>

\* Mutant: the file gets its name before it is flushed.
ReplaceExportUnflushed(s) ==
  /\ step[s] = "write" /\ stream[s].next >= stream[s].last
  /\ exported' = temporary /\ temporary' = NoFile
  /\ promised' = IF promised < stream[s].began THEN stream[s].began ELSE promised
  /\ Go(s, "idle") /\ stream' = [stream EXCEPT ![s] = NoFile]
  /\ UNCHANGED <<made, events, created, lines, overlapped, deaths>>

\* What has the temporary name by now gets the name of the export, be it
\* another session's; if nothing has, FileNotFoundError.
ReplaceExport(s) ==
  /\ step[s] = "write" /\ stream[s].next > stream[s].last
  /\ IF temporary = NoFile THEN UNCHANGED <<temporary, exported, promised>>
     ELSE /\ exported' = temporary /\ temporary' = NoFile
          /\ promised' = IF promised < stream[s].began THEN stream[s].began ELSE promised
  /\ Go(s, "idle") /\ stream' = [stream EXCEPT ![s] = NoFile]
  /\ UNCHANGED <<made, events, created, lines, overlapped, deaths>>

\* A session dies, or an export fails on a full disk.
Stop(s) ==
  /\ step[s] # "idle" /\ Go(s, "idle")
  /\ deaths' = deaths \cup {IF s \in Exporting THEN "export" ELSE "creation"}
  /\ stream' = [stream EXCEPT ![s] = NoFile]
  /\ UNCHANGED <<made, events, created, temporary, exported, lines, promised, overlapped>>

FilesNext ==
  \/ AppendMore
  \/ \E s \in Session :
       \/ CheckNew(s) \/ Connect(s) \/ MakeTable(s) \/ ForbidUpdate(s) \/ ForbidDelete(s) \/ AppendFirst(s)
       \/ OpenTemporary(s) \/ FetchEvents(s) \/ WriteLine(s) \/ ReplaceExport(s) \/ Stop(s)

FilesSpec == FilesInit /\ [][FilesNext]_filesVars

-----------------------------------------------------------------------------
(* Properties. *)

FilesTypeOK ==
  /\ made \in {"none", "file", "table", "no_update", "no_delete"}
  /\ events \in Seq(Session \cup {"command"}) /\ created \in SUBSET Session
  /\ step \in [Session -> {"idle", "connect", "table", "no_update", "no_delete", "first", "read", "write"}]
  /\ lines \in Seq(SUBSET Nat) /\ Len(lines) <= MaxFiles
  /\ {temporary, exported} \subseteq {NoFile} \cup 1..Len(lines)
  /\ DOMAIN stream = Session
  /\ \A s \in Exporting : stream[s] \in [file : 1..Len(lines), began : Nat, last : Nat, next : Nat]
  /\ promised \in Nat /\ overlapped \in BOOLEAN /\ deaths \in SUBSET {"creation", "export"}

\* Of the sessions that create a campaign at once at most one is told that it
\* did, the campaign is the one it asked for, and no event was ever stored
\* that could be altered.  A database without its first event, which create and
\* every command refuse, is left only by a session that died.
CreationIsExclusive ==
  /\ \A s \in created : created = {s} /\ events # <<>> /\ events[1] = s
  /\ events # <<>> => made = "no_delete"
  /\ made # "none" /\ events = <<>> => Creating # {} \/ "creation" \in deaths

\* "Append-only SQLite event storage" (store.py) and its export: as long as no
\* two exports overlapped, even if some died, and after any overlap in which
\* none died, the exported file is the complete log of some version, not older
\* than the start of any export that succeeded.
ExportIsWhole ==
  exported # NoFile /\ (~overlapped \/ (Exporting = {} /\ "export" \notin deaths)) =>
    \E n \in promised..Len(events) : lines[exported] = 1..n

\* A campaign that exists is one campaign, and its export is its log.
StoreIsSound == FilesTypeOK /\ CreationIsExclusive /\ ExportIsWhole
=============================================================================
