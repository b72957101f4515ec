------------------------------- MODULE LaunchLog -------------------------------
(***************************************************************************)
(* The search for the readiness pattern in a server's log                  *)
(* (server_readiness.py, LaunchLog), which wait polls                      *)
(* (server_lifecycle.py, cmd_wait).  A launch appends to the log of the    *)
(* launches before it and records how long it was; the reader scans the    *)
(* bytes after that, each once, in chunks, and keeps as little of them as  *)
(* a pattern that spans two chunks needs.  The log grows meanwhile; who    *)
(* rotates it may replace or truncate it.                                  *)
(***************************************************************************)
EXTENDS Naturals, Sequences

CONSTANTS
  Byte,        \* the bytes a log is made of
  Needle,      \* the readiness pattern
  ChunkSize,   \* 64 * 1024
  OldLogs,     \* logs of earlier launches in the same file
  MaxLength    \* bound: length of the log

ASSUME NeedleAssumption == Needle \in Seq(Byte) /\ Needle # <<>>
ASSUME ChunkAssumption == ChunkSize \in Nat \ {0}
ASSUME LogAssumption == OldLogs \subseteq Seq(Byte) /\ MaxLength \in Nat

VARIABLES
  log,        \* the file
  replaced,   \* it is not the file with the recorded device and inode
  start,      \* history: log_offset, its length at the launch
  intact,     \* history: it was neither replaced nor truncated
  scan,         \* where the reader is
  offset, tail, remaining  \* LaunchLog.offset, .tail and `remaining`

reader == <<scan, offset, tail, remaining>>
logVars == <<log, replaced, start, intact, reader>>

LogTypeOK == /\ log \in Seq(Byte) /\ replaced \in BOOLEAN /\ start \in Nat
             /\ intact \in BOOLEAN
             /\ scan \in {"polling", "scanning", "found", "lost", "stopped"}
             /\ offset \in Nat /\ remaining \in Nat
             /\ tail \in Seq(Byte) /\ Len(tail) < Len(Needle)

\* Mutant: the scan begins at the beginning of the file.
LogInitAtZero == /\ log \in OldLogs /\ replaced = FALSE /\ intact = TRUE
                 /\ start = Len(log) /\ offset = 0
                 /\ scan = "polling" /\ tail = <<>> /\ remaining = 0

LogInit == /\ log \in OldLogs /\ replaced = FALSE /\ intact = TRUE
           /\ start = Len(log) /\ offset = start
           /\ scan = "polling" /\ tail = <<>> /\ remaining = 0

-----------------------------------------------------------------------------
(* The file. *)

Write(b) == /\ Len(log) < MaxLength
            /\ log' = Append(log, b)
            /\ UNCHANGED <<replaced, start, intact, reader>>

Truncate(n) == /\ n < Len(log)
               /\ log' = SubSeq(log, 1, n) /\ intact' = FALSE
               /\ UNCHANGED <<replaced, start, reader>>

\* A scan goes on with the file it opened: to replace the file during the scan
\* is to replace it afterwards.
Replace == /\ scan # "scanning" /\ ~replaced
           /\ replaced' = TRUE /\ intact' = FALSE
           /\ UNCHANGED <<log, start, reader>>

-----------------------------------------------------------------------------
(* The reader. *)

\* The needle occurs in s from position i.
OccursAt(s, i) == /\ i + Len(Needle) - 1 <= Len(s)
                  /\ \A k \in 1..Len(Needle) : s[i + k - 1] = Needle[k]
OccursIn(s) == \E i \in 1..Len(s) : OccursAt(s, i)

Lost == replaced \/ Len(log) < offset

\* contains() opens the file; the scan stops at the size it has now.
Poll == /\ scan = "polling"
        /\ IF Lost
           THEN scan' = "lost" /\ UNCHANGED remaining
           ELSE scan' = "scanning" /\ remaining' = Len(log) - offset
        /\ UNCHANGED <<log, replaced, start, intact, offset, tail>>

\* The next bytes of the file, fewer at its end.
Wanted == IF remaining < ChunkSize THEN remaining ELSE ChunkSize
Chunk == SubSeq(log, offset + 1,
                IF offset + Wanted < Len(log) THEN offset + Wanted ELSE Len(log))

\* The last Len(Needle) - 1 bytes.
KeptTail(text) ==
  SubSeq(text, IF Len(text) < Len(Needle) THEN 1 ELSE Len(text) - Len(Needle) + 2,
         Len(text))

Scan ==
  /\ scan = "scanning" /\ remaining > 0 /\ Chunk # <<>>
  /\ tail' = KeptTail(tail \o Chunk)
  /\ offset' = offset + Len(Chunk)
  /\ remaining' = remaining - Len(Chunk)
  /\ scan' = IF OccursIn(tail \o Chunk) THEN "found" ELSE scan
  /\ UNCHANGED <<log, replaced, start, intact>>

\* The file became shorter since the scan began.
ScanPastEnd ==
  /\ scan = "scanning" /\ remaining > 0 /\ Chunk = <<>>
  /\ scan' = "lost"
  /\ UNCHANGED <<log, replaced, start, intact, offset, tail, remaining>>

\* Not found: wait sleeps and polls again.
ScanDone ==
  /\ scan = "scanning" /\ remaining = 0
  /\ scan' = "polling"
  /\ UNCHANGED <<log, replaced, start, intact, offset, tail, remaining>>

\* The deadline passes, or the server is found dead.
GiveUp == /\ scan = "polling" /\ scan' = "stopped"
          /\ UNCHANGED <<log, replaced, start, intact, offset, tail, remaining>>

Reader == Poll \/ Scan \/ ScanPastEnd \/ ScanDone

LogNext == \/ \E b \in Byte : Write(b)
           \/ \E n \in 0..MaxLength : Truncate(n)
           \/ Replace \/ Reader \/ GiveUp

LogSpec == LogInit /\ [][LogNext]_logVars

\* The loop of cmd_wait goes on until it returns.
LogFairness == WF_logVars(Reader)

FairLogSpec == LogSpec /\ LogFairness

-----------------------------------------------------------------------------
(* Properties.                                                              *)

\* The needle occurs among the bytes after the launch up to position n.
Written(n) == \E i \in (start + 1)..n : i + Len(Needle) - 1 <= n /\ OccursAt(log, i)

\* The reader finds only what this launch wrote, not what an earlier launch
\* left in the same file, nor half of it.
FoundIsFresh == scan = "found" /\ intact => Written(offset)

\* A pattern that spans two chunks, or two polls, is not missed.
NothingMissed == scan # "found" /\ intact => ~Written(offset)

\* While nobody tampers with the log, what the search says of the bytes that it
\* has read is what is there.
SearchIsExact == LogTypeOK /\ FoundIsFresh /\ NothingMissed

\* Once the server has written the pattern, the wait finds it unless it gives
\* up or the log is tampered with.
FoundInTheEnd == (intact /\ Written(Len(log))) ~> (scan \in {"found", "stopped"} \/ ~intact)
=============================================================================
