------------------------------ MODULE ToolProofs ------------------------------
(***************************************************************************)
(* The tools that evidence comes from do what is promised of them: the     *)
(* search of a server's log (LaunchLog), the smoke stage of equivalence    *)
(* (SmokeTest), the driver of a profile run (ProfileRun) and the cache of  *)
(* reference outputs (ReferenceCache), each for all values of its          *)
(* constants.                                                              *)
(***************************************************************************)
EXTENDS LaunchLog, SmokeTest, ProfileRun, SequenceTheorems, FoldProofs, TLAPS

-----------------------------------------------------------------------------
(* The search of the log is exact for every pattern, chunk size and          *)
(* interleaving of writes, scans and polls.  The invariant says what the     *)
(* tail is: the last bytes that were read, as many as a pattern that ends    *)
(* later may need, but none from before the launch.                          *)

LogInv ==
  /\ LogTypeOK
  /\ intact =>
       /\ ~replaced /\ start <= offset /\ offset <= Len(log)
       /\ scan = "scanning" => offset + remaining <= Len(log)
       /\ Len(tail) <= offset - start
       /\ Len(tail) = Len(Needle) - 1 \/ Len(tail) = offset - start
       /\ \A i \in 1..Len(tail) : tail[i] = log[offset - Len(tail) + i]
       /\ Written(offset) <=> scan = "found"

(* The reader never reads more than it was to.                             *)
LEMMA ChunkIsNext ==
  ASSUME LogTypeOK
  PROVE  /\ Chunk \in Seq(Byte) /\ Len(Chunk) <= remaining
         /\ offset + remaining <= Len(log) /\ remaining > 0 =>
              /\ Len(Chunk) > 0 /\ offset + Len(Chunk) <= Len(log)
              /\ \A i \in 1..Len(Chunk) : Chunk[i] = log[offset + i]
<1> DEFINE upTo == IF offset + Wanted < Len(log) THEN offset + Wanted ELSE Len(log)
<1>1. /\ offset \in Nat /\ remaining \in Nat /\ Len(log) \in Nat /\ log \in Seq(Byte)
      /\ Wanted \in Nat /\ Wanted <= remaining /\ (remaining > 0 => Wanted > 0)
  BY ChunkAssumption DEF LogTypeOK, Wanted
<1>2. upTo \in Nat /\ upTo <= Len(log) /\ upTo <= offset + remaining
  BY <1>1
<1>3. offset + remaining <= Len(log) /\ remaining > 0 => offset < upTo
  BY <1>1
<1>4. Chunk = SubSeq(log, offset + 1, upTo)
  BY DEF Chunk
<1> HIDE DEF upTo
<1>5. \A i \in (offset + 1)..upTo : log[i] \in Byte
  BY <1>1, <1>2
<1>6. /\ Chunk \in Seq(Byte)
      /\ Len(Chunk) = IF offset + 1 <= upTo THEN upTo - (offset + 1) + 1 ELSE 0
      /\ \A i \in 1..(upTo - (offset + 1) + 1) : Chunk[i] = log[offset + 1 + i - 1]
  BY <1>1, <1>2, <1>4, <1>5, SubSeqProperties
<1> QED
  BY <1>1, <1>2, <1>3, <1>6

(* What is kept of a text is its end, and shorter than the pattern.        *)
LEMMA TailIsEnd ==
  ASSUME NEW text \in Seq(Byte)
  PROVE  /\ KeptTail(text) \in Seq(Byte) /\ Len(KeptTail(text)) < Len(Needle)
         /\ Len(text) < Len(Needle) => Len(KeptTail(text)) = Len(text)
         /\ Len(text) >= Len(Needle) => Len(KeptTail(text)) = Len(Needle) - 1
         /\ \A i \in 1..Len(KeptTail(text)) :
              KeptTail(text)[i] = text[Len(text) - Len(KeptTail(text)) + i]
<1> DEFINE from == IF Len(text) < Len(Needle) THEN 1 ELSE Len(text) - Len(Needle) + 2
<1>1. Len(Needle) \in Nat \ {0} /\ Len(text) \in Nat
  BY NeedleAssumption
<1>2. /\ from \in Nat \ {0} /\ from <= Len(text) + 1
      /\ Len(text) < Len(Needle) => Len(text) - from + 1 = Len(text)
      /\ Len(text) >= Len(Needle) => Len(text) - from + 1 = Len(Needle) - 1
  BY <1>1
<1>3. KeptTail(text) = SubSeq(text, from, Len(text))
  BY DEF KeptTail
<1> HIDE DEF from
<1>4. \A i \in from..Len(text) : text[i] \in Byte
  BY <1>1, <1>2
<1>5. /\ KeptTail(text) \in Seq(Byte)
      /\ Len(KeptTail(text)) = IF from <= Len(text) THEN Len(text) - from + 1 ELSE 0
      /\ \A i \in 1..(Len(text) - from + 1) : KeptTail(text)[i] = text[from + i - 1]
  BY <1>1, <1>2, <1>3, <1>4, SubSeqProperties
<1>6. Len(KeptTail(text)) = Len(text) - from + 1
  BY <1>1, <1>2, <1>5
<1>7. \A i \in 1..Len(KeptTail(text)) : from + i - 1 = Len(text) - Len(KeptTail(text)) + i
  BY <1>1, <1>2, <1>6
<1>8. \A i \in 1..Len(KeptTail(text)) :
        KeptTail(text)[i] = text[Len(text) - Len(KeptTail(text)) + i]
  BY <1>5, <1>6, <1>7
<1>9. /\ Len(KeptTail(text)) < Len(Needle)
      /\ Len(text) < Len(Needle) => Len(KeptTail(text)) = Len(text)
      /\ Len(text) >= Len(Needle) => Len(KeptTail(text)) = Len(Needle) - 1
  BY <1>1, <1>2, <1>6
<1> QED
  BY <1>5, <1>8, <1>9

(* A log that grows keeps what was written.                                *)
LEMMA WrittenStays ==
  ASSUME LogTypeOK, LogTypeOK', UNCHANGED <<start, offset>>, offset <= Len(log), Len(log) <= Len(log'),
         \A i \in 1..Len(log) : log'[i] = log[i]
  PROVE  Written(offset)' <=> Written(offset)
<1>1. /\ Len(Needle) \in Nat \ {0} /\ start \in Nat /\ offset \in Nat
      /\ Len(log) \in Nat /\ Len(log') \in Nat
  BY NeedleAssumption DEF LogTypeOK
<1>2. ASSUME NEW i \in (start + 1)..offset, i + Len(Needle) - 1 <= offset
      PROVE  OccursAt(log', i) <=> OccursAt(log, i)
  <2>1. \A k \in 1..Len(Needle) : i + k - 1 \in 1..Len(log)
    BY <1>1, <1>2
  <2>2. \A k \in 1..Len(Needle) : log'[i + k - 1] = log[i + k - 1]
    BY <2>1
  <2>3. i + Len(Needle) - 1 <= Len(log) /\ i + Len(Needle) - 1 <= Len(log')
    BY <1>1, <1>2
  <2> QED
    BY <2>2, <2>3 DEF OccursAt
<1> QED
  BY <1>2 DEF Written

(* Between the tail and the chunk nothing is missed.                       *)
LEMMA ScanIsExact ==
  ASSUME LogInv, LogTypeOK', Scan, intact
  PROVE  LogInv'
<1> DEFINE text == tail \o Chunk
           c == Len(Chunk)
           l == Len(Needle)
           base == offset - Len(tail)
<1>1. /\ l \in Nat \ {0} /\ start \in Nat /\ offset \in Nat /\ Len(tail) \in Nat
      /\ tail \in Seq(Byte) /\ Len(log) \in Nat /\ remaining \in Nat /\ c \in Nat
  BY NeedleAssumption, ChunkIsNext DEF LogInv, LogTypeOK
<1>2. /\ c > 0 /\ c <= remaining /\ offset + c <= Len(log) /\ Chunk \in Seq(Byte)
      /\ \A i \in 1..c : Chunk[i] = log[offset + i]
      /\ offset + remaining <= Len(log)
  BY ChunkIsNext DEF LogInv, Scan
<1>3. /\ Len(tail) < l /\ start <= base /\ base \in Nat /\ base <= offset
      /\ Len(tail) = l - 1 \/ base = start
      /\ \A i \in 1..Len(tail) : tail[i] = log[base + i]
      /\ ~Written(offset) /\ ~replaced /\ scan = "scanning"
  BY <1>1 DEF LogInv, LogTypeOK, Scan
<1>4. /\ text \in Seq(Byte) /\ Len(text) = Len(tail) + c /\ base + Len(text) = offset + c
      /\ \A i \in 1..Len(text) : text[i] = log[base + i]
  <2>1. /\ text \in Seq(Byte) /\ Len(text) = Len(tail) + c
        /\ \A i \in 1..(Len(tail) + c) :
              text[i] = IF i <= Len(tail) THEN tail[i] ELSE Chunk[i - Len(tail)]
    BY <1>1, <1>2, ConcatProperties
  <2>2. ASSUME NEW i \in 1..(Len(tail) + c)
        PROVE  text[i] = log[base + i]
    <3>1. CASE i <= Len(tail)
      BY <1>1, <1>3, <2>1, <3>1
    <3>2. CASE i > Len(tail)
      <4>1. i - Len(tail) \in 1..c /\ offset + (i - Len(tail)) = base + i
        BY <1>1, <3>2
      <4> QED
        BY <1>1, <1>2, <2>1, <3>2, <4>1
    <3> QED
      BY <1>1, <3>1, <3>2
  <2> QED
    BY <1>1, <2>1, <2>2
<1>5. /\ log' = log /\ start' = start /\ offset' = offset + c /\ remaining' = remaining - c
      /\ intact' /\ ~replaced' /\ tail' = KeptTail(text)
      /\ scan' = IF OccursIn(text) THEN "found" ELSE "scanning"
  BY <1>3 DEF Scan
<1>6. start' = start /\ offset' = offset + c
  BY DEF Scan
<1> HIDE DEF text, c, l, base
<1>7. ASSUME NEW i \in Nat, base + i + l - 1 <= offset + c, i >= 1
      PROVE  OccursAt(text, i) <=> OccursAt(log, base + i)
  <2>1. \A k \in 1..l : i + k - 1 \in 1..Len(text) /\ base + (i + k - 1) = base + i + k - 1
    BY <1>1, <1>3, <1>4, <1>7
  <2>2. \A k \in 1..l : text[i + k - 1] = log[base + i + k - 1]
    BY <1>4, <2>1
  <2>3. i + l - 1 <= Len(text) /\ base + i + l - 1 <= Len(log)
    BY <1>1, <1>2, <1>3, <1>4, <1>7
  <2> QED
    BY <2>2, <2>3 DEF OccursAt, l
<1>8. OccursIn(text) => Written(offset + c)
  <2> SUFFICES ASSUME NEW i \in 1..Len(text), OccursAt(text, i)
               PROVE  Written(offset + c)
    BY DEF OccursIn
  <2>1. i + l - 1 <= Len(text)
    BY DEF OccursAt, l
  <2>2. base + i + l - 1 <= offset + c
    BY <1>1, <1>3, <1>4, <2>1
  <2>3. base + i \in (start + 1)..(offset + c)
    BY <1>1, <1>3, <1>4, <2>2
  <2>4. OccursAt(log, base + i)
    BY <1>7, <2>2
  <2> QED
    BY <2>2, <2>3, <2>4 DEF Written, l
<1>9. Written(offset + c) => OccursIn(text)
  <2> SUFFICES ASSUME NEW j \in (start + 1)..(offset + c), j + l - 1 <= offset + c, OccursAt(log, j)
               PROVE  OccursIn(text)
    BY DEF Written, l
  <2>1. j + l - 1 > offset
    <3> SUFFICES ASSUME j + l - 1 <= offset
                 PROVE  FALSE
      BY <1>1, <1>2
    <3>1. j \in (start + 1)..offset
      BY <1>1
    <3> QED
      BY <1>3, <3>1 DEF Written, l
  <2>2. j > base
    BY <1>1, <1>3, <2>1 DEF base
  <2>3. j - base \in Nat /\ j - base >= 1 /\ base + (j - base) = j
    BY <1>1, <1>3, <2>2
  <2>4. j - base \in 1..Len(text)
    BY <1>1, <1>2, <1>3, <1>4, <2>3
  <2>5. OccursAt(text, j - base)
    BY <1>7, <2>3
  <2> QED
    BY <2>4, <2>5 DEF OccursIn
<1>10. Written(offset)' <=> Written(offset + c)
  BY <1>5 DEF Written, OccursAt
<1>11. /\ Len(text) < l => Len(tail') = Len(text)
       /\ Len(text) >= l => Len(tail') = l - 1
       /\ \A i \in 1..Len(tail') : tail'[i] = text[Len(text) - Len(tail') + i]
  BY <1>4, <1>5, TailIsEnd DEF l
<1>12. Len(tail') \in Nat /\ Len(tail') <= Len(text)
  BY <1>1, <1>3, <1>4, <1>11
<1>13. /\ Len(tail') <= offset' - start'
       /\ Len(tail') = l - 1 \/ Len(tail') = offset' - start'
  <2>1. Len(tail') <= Len(text) /\ Len(text) \in Nat /\ Len(text) = offset + c - base
    BY <1>1, <1>3, <1>4, <1>12
  <2>2. Len(text) <= offset' - start'
    BY <1>1, <1>3, <1>5, <2>1
  <2>3. CASE Len(text) < l
    <3>1. base = start
      BY <1>1, <1>2, <1>3, <1>4, <2>3
    <3>2. Len(tail') = offset' - start'
      <4>1. Len(tail') = offset + c - start
        BY <1>11, <2>1, <2>3, <3>1
      <4> QED
        BY <1>6, <1>1, <4>1
    <3> QED
      BY <1>1, <2>1, <2>2, <3>2
  <2>4. CASE Len(text) >= l
    <3>1. Len(tail') = l - 1
      BY <1>11, <2>4
    <3> QED
      BY <1>6, <1>1, <2>1, <2>2, <3>1
  <2> QED
    BY <1>1, <2>1, <2>3, <2>4
<1>14. ASSUME NEW i \in 1..Len(tail')
       PROVE  tail'[i] = log'[offset' - Len(tail') + i]
  <2>1. Len(text) - Len(tail') + i \in 1..Len(text)
    BY <1>1, <1>4, <1>12
  <2>2. base + (Len(text) - Len(tail') + i) = offset' - Len(tail') + i
    <3>1. base + Len(text) = offset' /\ base \in Nat /\ Len(text) \in Nat
      BY <1>6, <1>3, <1>4
    <3> QED
      BY <1>6, <1>1, <1>12, <3>1
  <2>3. tail'[i] = text[Len(text) - Len(tail') + i]
    BY <1>11
  <2>4. text[Len(text) - Len(tail') + i] = log[base + (Len(text) - Len(tail') + i)]
    BY <1>4, <2>1
  <2> QED
    BY <1>5, <2>2, <2>3, <2>4
<1>15. /\ start' <= offset' /\ offset' <= Len(log')
       /\ offset' + remaining' <= Len(log')
  BY <1>1, <1>2, <1>3, <1>5
<1>16. Written(offset)' <=> scan' = "found"
  BY <1>5, <1>8, <1>9, <1>10
<1> QED
  BY <1>5, <1>13, <1>14, <1>15, <1>16 DEF LogInv, l

LEMMA LogTypeNext ==
  ASSUME LogTypeOK, [LogNext]_logVars
  PROVE  LogTypeOK'
<1> USE DEF LogTypeOK
<1>1. ASSUME NEW b \in Byte, Write(b)
      PROVE  LogTypeOK'
  BY <1>1, AppendProperties DEF Write, reader
<1>2. ASSUME NEW n \in 0..MaxLength, Truncate(n)
      PROVE  LogTypeOK'
  <2>1. SubSeq(log, 1, n) \in Seq(Byte)
    BY <1>2, LogAssumption, SubSeqProperties DEF Truncate
  <2> QED
    BY <1>2, <2>1 DEF Truncate, reader
<1>3. CASE Replace
  BY <1>3 DEF Replace, reader
<1>4. CASE Poll
  <2>1. CASE Lost
    BY <1>4, <2>1 DEF Poll
  <2>2. CASE ~Lost
    BY <1>4, <2>2 DEF Poll, Lost
  <2> QED
    BY <2>1, <2>2
<1>5. CASE Scan
  <2>1. Chunk \in Seq(Byte) /\ Len(Chunk) \in Nat /\ Len(Chunk) <= remaining
    BY ChunkIsNext
  <2>2. tail \o Chunk \in Seq(Byte)
    BY <2>1, ConcatProperties
  <2>3. tail' \in Seq(Byte) /\ Len(tail') < Len(Needle)
    BY <1>5, <2>2, TailIsEnd DEF Scan
  <2>4. offset' \in Nat /\ remaining' \in Nat
    BY <1>5, <2>1 DEF Scan
  <2> QED
    BY <1>5, <2>3, <2>4 DEF Scan
<1>6. CASE ScanPastEnd \/ ScanDone \/ GiveUp
  BY <1>6 DEF ScanPastEnd, ScanDone, GiveUp
<1>7. CASE UNCHANGED logVars
  BY <1>7 DEF logVars, reader
<1> QED
  BY <1>1, <1>2, <1>3, <1>4, <1>5, <1>6, <1>7 DEF LogNext, Reader

LEMMA LogInvNext ==
  ASSUME LogInv, [LogNext]_logVars
  PROVE  LogInv'
<1>1. LogTypeOK /\ LogTypeOK'
  BY LogTypeNext DEF LogInv
<1>2. SUFFICES ASSUME intact'
               PROVE  LogInv'
  BY <1>1 DEF LogInv
<1>3. ASSUME NEW b \in Byte, Write(b)
      PROVE  LogInv'
  <2>1. /\ log \in Seq(Byte) /\ Len(log') = Len(log) + 1 /\ Len(log) \in Nat
        /\ \A i \in 1..Len(log) : log'[i] = log[i]
        /\ UNCHANGED <<replaced, start, intact, scan, offset, tail, remaining>>
    BY <1>1, <1>3, AppendProperties DEF LogTypeOK, Write, reader
  <2>2. /\ start \in Nat /\ offset \in Nat /\ remaining \in Nat
        /\ start <= offset /\ offset <= Len(log) /\ Len(tail) \in Nat /\ Len(tail) <= offset - start
    BY <1>1, <1>2, <2>1 DEF LogInv, LogTypeOK
  <2>3. Written(offset)' <=> Written(offset)
    BY <1>1, <2>1, <2>2, WrittenStays
  <2>4. \A i \in 1..Len(tail) : offset - Len(tail) + i \in 1..Len(log)
    BY <2>1, <2>2
  <2>5. \A i \in 1..Len(tail) : tail[i] = log'[offset - Len(tail) + i]
    BY <1>2, <2>1, <2>4 DEF LogInv
  <2> QED
    <3>1. Written(offset)' <=> scan' = "found"
      BY <1>2, <2>1, <2>3 DEF LogInv
    <3>2. scan' = "scanning" => offset' + remaining' <= Len(log')
      BY <1>2, <2>1, <2>2 DEF LogInv
    <3>3. offset' <= Len(log')
      BY <2>1, <2>2
    <3> QED
      BY <1>1, <1>2, <2>1, <2>5, <3>1, <3>2, <3>3 DEF LogInv
<1>4. ASSUME NEW n \in 0..MaxLength, Truncate(n)
      PROVE  LogInv'
  BY <1>2, <1>4 DEF Truncate
<1>5. CASE Replace
  BY <1>2, <1>5 DEF Replace
<1>6. CASE Poll
  <2>1. /\ UNCHANGED <<log, replaced, start, intact, offset, tail>>
        /\ scan = "polling" /\ scan' \in {"lost", "scanning"}
    BY <1>6 DEF Poll
  <2>2. scan' = "scanning" => offset + remaining' = Len(log)
    <3>1. offset \in Nat /\ Len(log) \in Nat
      BY <1>1 DEF LogTypeOK
    <3> QED
      BY <1>6, <3>1 DEF Poll
  <2>3. Written(offset)' <=> Written(offset)
    BY <2>1 DEF Written, OccursAt
  <2> QED
    <3>1. Written(offset)' <=> scan' = "found"
      BY <1>2, <2>1, <2>3 DEF LogInv
    <3>2. scan' = "scanning" => offset' + remaining' <= Len(log')
      BY <1>1, <2>1, <2>2 DEF LogTypeOK
    <3> QED
      BY <1>1, <1>2, <2>1, <3>1, <3>2 DEF LogInv
<1>7. CASE Scan
  BY <1>1, <1>2, <1>7, ScanIsExact DEF Scan
<1>8. CASE ScanPastEnd \/ ScanDone \/ GiveUp
  <2>1. /\ UNCHANGED <<log, replaced, start, intact, offset, tail, remaining>>
        /\ scan # "found" /\ scan' \in {"lost", "polling", "stopped"}
    BY <1>8 DEF ScanPastEnd, ScanDone, GiveUp
  <2>2. Written(offset)' <=> Written(offset)
    BY <2>1 DEF Written, OccursAt
  <2> QED
    BY <1>1, <1>2, <2>1, <2>2 DEF LogInv
<1>9. CASE UNCHANGED logVars
  <2>1. Written(offset)' <=> Written(offset)
    BY <1>9 DEF logVars, reader, Written, OccursAt
  <2> QED
    BY <1>1, <1>2, <1>9, <2>1 DEF LogInv, logVars, reader
<1> QED
  BY <1>3, <1>4, <1>5, <1>6, <1>7, <1>8, <1>9 DEF LogNext, Reader

(* What the wait finds is what this launch wrote, and what it wrote and    *)
(* the scan has read is found, also across chunks and polls and while the  *)
(* server writes (server_readiness.py, LaunchLog).                         *)
THEOREM SearchSafety == LogSpec => []SearchIsExact
<1>1. LogInit => LogInv
  <2> SUFFICES ASSUME LogInit
               PROVE  LogInv
    OBVIOUS
  <2>1. log \in Seq(Byte) /\ Len(log) \in Nat /\ Len(Needle) \in Nat \ {0}
    BY LogAssumption, NeedleAssumption DEF LogInit
  <2>2. LogTypeOK
    <3>1. tail = <<>> /\ Len(tail) = 0 /\ tail \in Seq(Byte)
      BY DEF LogInit
    <3>2. Len(tail) < Len(Needle) /\ start \in Nat /\ offset \in Nat /\ remaining \in Nat
      BY <2>1, <3>1 DEF LogInit
    <3>3. replaced \in BOOLEAN /\ intact \in BOOLEAN /\ scan = "polling"
      BY DEF LogInit
    <3> QED
      BY <2>1, <3>1, <3>2, <3>3 DEF LogTypeOK
  <2>3. ~Written(offset)
    BY <2>1 DEF LogInit, Written
  <2> QED
    BY <2>1, <2>2, <2>3 DEF LogInit, LogInv
<1>2. LogInv /\ [LogNext]_logVars => LogInv'
  BY LogInvNext
<1>3. LogInv => SearchIsExact
  BY DEF LogInv, SearchIsExact, FoundIsFresh, NothingMissed
<1> QED
  BY <1>1, <1>2, <1>3, PTL DEF LogSpec

-----------------------------------------------------------------------------
(* A comparison that matched is with the pinned checkpoint, for any number   *)
(* of runners, invocations, references and later weights.  The invariant     *)
(* says what a runner may expect at each step: in "generate" the tokens of   *)
(* weights not older than the pinned ones, and from then on, since the       *)
(* checkpoint was found unmoved and weights do not come back, those of the   *)
(* pinned ones.  The lock of the cache is not needed for it.                 *)

Tokens == DOMAIN KeyOf
PinnedTokens(q) == <<q.contract.checkpoint, q.prompts>>

SmokeTypeOK ==
  /\ weights \in 1..LastWeights
  /\ entries \in Seq(File)
  /\ at \in [Runner -> {"out", "clean", "lookup", "generate", "evict", "create", "dump", "rename"}]
  /\ key \in [Runner -> Key]
  /\ job \in [Runner -> Invocations \cup {NoJob}]
  /\ expect \in [Runner -> Tokens \cup {NoJob}]
  /\ held \in [Key -> Tokens \cup {NoJob}]
  /\ output = [r \in Runner |-> output[r]]

Granted(q) == MatchesGrant(q) /\ IsGrantedTarget(q)

JobInv(r) ==
  LET q == job[r]
  IN /\ Granted(q) /\ q.contract.checkpoint \in 1..weights
     /\ key[r] = KeyOf[PinnedTokens(q)]
     /\ at[r] \in {"clean", "lookup"} => expect[r] = NoJob
     /\ at[r] = "generate" /\ expect[r] # NoJob =>
          \E w \in q.contract.checkpoint..weights : expect[r] = <<w, q.prompts>>
     /\ at[r] \in {"evict", "create", "dump", "rename", "out"} => expect[r] = PinnedTokens(q)

RunnerInv(r) ==
  IF job[r] = NoJob THEN at[r] = "out" /\ expect[r] = NoJob ELSE JobInv(r)
JobsInv == \A r \in Runner : RunnerInv(r)

HeldInv ==
  /\ \A k \in Key : held[k] # NoJob => KeyOf[held[k]] = k
  /\ \A i \in DOMAIN entries : held[entries[i].key] # NoJob

SoundOutput(document) ==
  document.state = "matched" =>
    Granted(document.by) /\ document.by.target.tokens = PinnedTokens(document.by)
OutputInv == \A r \in Runner : SoundOutput(output[r])

SmokeInv == SmokeTypeOK /\ JobsInv /\ HeldInv /\ OutputInv

-----------------------------------------------------------------------------
(* What does not look at the state. *)

LEMMA RefusalIsOne ==
  ASSUME NEW q
  PROVE  Refusal(q) \in {"missing_evidence", "unsupported_tooling", "none"}
  BY DEF Refusal

LEMMA AcceptedIsGranted ==
  ASSUME NEW q, Refusal(q) = "none"
  PROVE  Granted(q) /\ Pinned(q.contract)
<1>1. MatchesGrant(q)
  BY DEF Refusal
<1>2. ExactGreedy(q.contract)
  BY <1>1 DEF Refusal
<1> QED
  BY <1>1, <1>2 DEF Refusal, Granted

(* Of the files after a step of the cache each was there or is added.      *)
LEMMA Removed ==
  ASSUME NEW S, NEW s \in Seq(S), NEW i \in DOMAIN s
  PROVE  /\ RemoveAt(s, i) \in Seq(S)
         /\ \A j \in DOMAIN RemoveAt(s, i) : \E k \in DOMAIN s : RemoveAt(s, i)[j] = s[k]
<1> DEFINE front == SubSeq(s, 1, i - 1)
           after == SubSeq(s, i + 1, Len(s))
<1>1. Len(s) \in Nat /\ i \in 1..Len(s) /\ DOMAIN s = 1..Len(s)
  OBVIOUS
<1>2. /\ front \in Seq(S) /\ Len(front) <= i - 1
      /\ \A j \in 1..Len(front) : front[j] = s[j]
  <2>1. \A j \in 1..(i - 1) : s[j] \in S
    BY <1>1
  <2>2. /\ front \in Seq(S) /\ Len(front) = IF 1 <= i - 1 THEN i - 1 - 1 + 1 ELSE 0
        /\ \A j \in 1..(i - 1 - 1 + 1) : front[j] = s[1 + j - 1]
    BY <1>1, <2>1, SubSeqProperties
  <2> QED
    BY <1>1, <2>2
<1>3. /\ after \in Seq(S) /\ Len(after) <= Len(s) - i
      /\ \A j \in 1..Len(after) : after[j] = s[i + j]
  <2>1. \A j \in (i + 1)..Len(s) : s[j] \in S
    BY <1>1
  <2>2. /\ after \in Seq(S) /\ Len(after) = IF i + 1 <= Len(s) THEN Len(s) - (i + 1) + 1 ELSE 0
        /\ \A j \in 1..(Len(s) - (i + 1) + 1) : after[j] = s[i + 1 + j - 1]
    BY <1>1, <2>1, SubSeqProperties
  <2> QED
    BY <1>1, <2>2
<1> HIDE DEF front, after
<1>4. /\ front \o after \in Seq(S)
      /\ Len(front \o after) = Len(front) + Len(after)
      /\ \A j \in 1..(Len(front) + Len(after)) :
           (front \o after)[j] = IF j <= Len(front) THEN front[j] ELSE after[j - Len(front)]
  BY <1>2, <1>3, ConcatProperties
<1>5. ASSUME NEW j \in 1..(Len(front) + Len(after))
      PROVE  \E k \in 1..Len(s) : (front \o after)[j] = s[k]
  <2>0. Len(front) \in Nat /\ Len(after) \in Nat
    BY <1>2, <1>3
  <2>1. CASE j <= Len(front)
    BY <1>1, <1>2, <1>4, <2>0, <2>1
  <2>2. CASE j > Len(front)
    <3>1. j - Len(front) \in 1..Len(after)
      BY <2>0, <2>2
    <3>2. (front \o after)[j] = s[i + (j - Len(front))]
      BY <1>3, <1>4, <2>0, <2>2, <3>1
    <3>3. i + (j - Len(front)) \in 1..Len(s)
      BY <1>1, <1>3, <2>0, <3>1
    <3> QED
      BY <3>2, <3>3
  <2> QED
    BY <2>0, <2>1, <2>2
<1>6. RemoveAt(s, i) = front \o after
  BY DEF RemoveAt, front, after
<1>7. DOMAIN (front \o after) = 1..(Len(front) + Len(after))
  BY <1>4
<1> QED
  BY <1>1, <1>4, <1>5, <1>6, <1>7

LEMMA Appended ==
  ASSUME NEW S, NEW s \in Seq(S), NEW x \in S
  PROVE  /\ Append(s, x) \in Seq(S)
         /\ \A j \in DOMAIN Append(s, x) :
              Append(s, x)[j] = x \/ \E k \in DOMAIN s : Append(s, x)[j] = s[k]
  BY AppendProperties

LEMMA Behead ==
  ASSUME NEW S, NEW s \in Seq(S), s # <<>>
  PROVE  /\ Tail(s) \in Seq(S)
         /\ \A j \in DOMAIN Tail(s) : \E k \in DOMAIN s : Tail(s)[j] = s[k]
<1>1. /\ Tail(s) \in Seq(S) /\ Len(Tail(s)) = Len(s) - 1 /\ Len(s) \in Nat
      /\ \A j \in 1..Len(Tail(s)) : Tail(s)[j] = s[j + 1]
  BY HeadTailProperties
<1>2. \A j \in 1..Len(Tail(s)) : j + 1 \in 1..Len(s)
  BY <1>1
<1> QED
  BY <1>1, <1>2
-----------------------------------------------------------------------------
(* The steps. *)

(* A runner that is left alone.                                            *)
LEMMA OthersKeep ==
  ASSUME NEW r, RunnerInv(r), UNCHANGED <<weights, at[r], key[r], job[r], expect[r]>>
  PROVE  RunnerInv(r)'
  BY DEF RunnerInv, JobInv

(* A document that says that a comparison did not take place.              *)
LEMMA FailureIsSound ==
  ASSUME NEW state, state # "matched"
  PROVE  SoundOutput(Failed(state))
  BY DEF SoundOutput, Failed

LEMMA IdentityOfJob ==
  ASSUME SmokeTypeOK, NEW r \in Runner, RunnerInv(r), job[r] # NoJob
  PROVE  /\ job[r] \in Invocations
         /\ job[r].contract.checkpoint \in 1..LastWeights
         /\ PinnedTokens(job[r]) \in Tokens /\ PinnedTokens(job[r]) # NoJob
<1>1. job[r] \in Invocations
  BY DEF SmokeTypeOK
<1>2. job[r].contract.checkpoint \in 1..LastWeights
  BY WeightsAssumption DEF SmokeTypeOK, RunnerInv, JobInv
<1>3. PinnedTokens(job[r]) \in Tokens
  BY <1>1, <1>2, DigestAssumption DEF PinnedTokens, Tokens
<1> QED
  BY <1>1, <1>2, <1>3, NoJobAssumption DEF Tokens

(* An invocation that is refused, or finds the cache busy.                 *)
LEMMA DeclineKeeps ==
  ASSUME SmokeInv, NEW r \in Runner, NEW q \in Invocations, Decline(r, q) \/ FindBusy(r, q)
  PROVE  SmokeInv'
<1>1. PICK state \in {"missing_evidence", "unsupported_tooling", "execution_failed"} :
        output' = [output EXCEPT ![r] = Failed(state)]
  BY RefusalIsOne DEF Decline, FindBusy, Answer
<1>2. UNCHANGED <<weights, entries, at, key, job, expect, held>>
  BY DEF Decline, FindBusy, Refuse, cacheVars
<1>3. SmokeTypeOK'
  BY <1>1, <1>2 DEF SmokeInv, SmokeTypeOK
<1>4. JobsInv'
  BY <1>2, OthersKeep DEF SmokeInv, JobsInv
<1>5. HeldInv'
  BY <1>2 DEF SmokeInv, HeldInv
<1>6. OutputInv'
  BY <1>1, FailureIsSound DEF SmokeInv, OutputInv, SmokeTypeOK
<1> QED
  BY <1>3, <1>4, <1>5, <1>6 DEF SmokeInv

LEMMA ServeKeeps ==
  ASSUME SmokeInv, NEW r \in Runner, NEW q \in Invocations, Serve(r, q)
  PROVE  SmokeInv'
<1>1. /\ at' = [at EXCEPT ![r] = "clean"]
      /\ key' = [key EXCEPT ![r] = KeyOf[PinnedTokens(q)]]
      /\ job' = [job EXCEPT ![r] = q]
      /\ UNCHANGED <<weights, entries, expect, held, output>>
  BY DEF Serve, Enter, Goto, PinnedTokens
<1>2. Granted(q) /\ q.contract.checkpoint = weights /\ job[r] = NoJob
  BY AcceptedIsGranted DEF Serve, Idle, Pinned
<1>3. PinnedTokens(q) \in DOMAIN KeyOf /\ KeyOf[PinnedTokens(q)] \in Key
  BY <1>2, DigestAssumption DEF PinnedTokens, SmokeInv, SmokeTypeOK
<1>4. SmokeTypeOK'
  BY <1>1, <1>3 DEF SmokeInv, SmokeTypeOK
<1>5. JobsInv'
  <2>1. \A t \in Runner \ {r} : UNCHANGED <<at[t], key[t], job[t], expect[t]>>
    BY <1>1 DEF SmokeInv, SmokeTypeOK
  <2>2. \A t \in Runner \ {r} : RunnerInv(t)'
    BY <1>1, <2>1, OthersKeep DEF SmokeInv, JobsInv
  <2>3. at'[r] = "clean" /\ key'[r] = KeyOf[PinnedTokens(q)] /\ job'[r] = q /\ expect'[r] = expect[r]
    BY <1>1 DEF SmokeInv, SmokeTypeOK
  <2>4. expect[r] = NoJob /\ q # NoJob
    BY <1>2, NoJobAssumption DEF SmokeInv, JobsInv, RunnerInv
  <2>5. q.contract.checkpoint \in 1..weights'
    BY <1>1, <1>2 DEF SmokeInv, SmokeTypeOK
  <2>6. RunnerInv(r)'
    BY <1>2, <2>3, <2>4, <2>5 DEF RunnerInv, JobInv
  <2> QED
    BY <2>2, <2>6 DEF JobsInv
<1>6. HeldInv' /\ OutputInv'
  BY <1>1 DEF SmokeInv, HeldInv, OutputInv
<1> QED
  BY <1>4, <1>5, <1>6 DEF SmokeInv

(* What keeps the files and what the runner knows, and moves it on.        *)
LEMMA MovingKeeps ==
  ASSUME SmokeInv, NEW r \in Runner, job[r] # NoJob,
         NEW next \in {"lookup", "generate", "evict", "create", "dump", "rename"},
         at' = [at EXCEPT ![r] = next],
         RunnerInv(r)',
         entries' \in Seq(File),
         \A j \in DOMAIN entries' : \E k \in DOMAIN entries : entries'[j] = entries[k],
         UNCHANGED <<key, weights, job, expect, held, output>>
  PROVE  SmokeInv'
<1>1. SmokeTypeOK'
  BY DEF SmokeInv, SmokeTypeOK
<1>2. \A t \in Runner \ {r} : at'[t] = at[t]
  BY DEF SmokeInv, SmokeTypeOK
<1>3. JobsInv'
  BY <1>2, OthersKeep DEF SmokeInv, JobsInv
<1>4. HeldInv' /\ OutputInv'
  BY DEF SmokeInv, HeldInv, OutputInv
<1> QED
  BY <1>1, <1>3, <1>4 DEF SmokeInv

LEMMA ProceedKeeps ==
  ASSUME SmokeInv, NEW r \in Runner, job[r] # NoJob, Proceed(r)
  PROVE  SmokeInv'
<1>1. UNCHANGED <<key, weights, job, expect, held, output>>
  BY DEF Proceed, RemoveLeftovers, Miss, Evict, Create, Dump
<1>2. PICK next \in {"lookup", "generate", "evict", "create", "dump", "rename"} :
        /\ at' = [at EXCEPT ![r] = next]
        /\ next = "lookup" => at[r] = "clean"
        /\ next = "generate" => at[r] = "lookup"
        /\ next \in {"evict", "create", "dump", "rename"} => at[r] \in {"evict", "create", "dump"}
  <2>1. CASE RemoveLeftovers(r)
    BY <2>1 DEF RemoveLeftovers, Goto
  <2>2. CASE Miss(r)
    BY <2>2 DEF Miss, Goto
  <2>3. CASE Evict(r)
    <3>1. CASE entries # <<>> /\ Full(r)
      <4>1. at' = [at EXCEPT ![r] = "evict"] /\ at[r] = "evict"
        BY <2>3, <3>1 DEF Evict, SmokeInv, SmokeTypeOK
      <4> QED
        BY <4>1
    <3>2. CASE ~(entries # <<>> /\ Full(r))
      BY <2>3, <3>2 DEF Evict, Goto
    <3> QED
      BY <3>1, <3>2
  <2>4. CASE Create(r)
    BY <2>4 DEF Create, Goto
  <2>5. CASE Dump(r)
    BY <2>5 DEF Dump, Goto
  <2> QED
    BY <2>1, <2>2, <2>3, <2>4, <2>5 DEF Proceed
<1>3. at'[r] = next
  BY <1>2 DEF SmokeInv, SmokeTypeOK
<1>4. RunnerInv(r)'
  BY <1>1, <1>2, <1>3 DEF SmokeInv, JobsInv, RunnerInv, JobInv
<1>5. entries' = entries \/ (entries # <<>> /\ entries' = Tail(entries))
  BY DEF Proceed, RemoveLeftovers, Miss, Evict, Create, Dump
<1>6. entries \in Seq(File)
  BY DEF SmokeInv, SmokeTypeOK
<1>7. /\ entries' \in Seq(File)
      /\ \A j \in DOMAIN entries' : \E k \in DOMAIN entries : entries'[j] = entries[k]
  BY <1>5, <1>6, Behead
<1> QED
  BY <1>1, <1>2, <1>4, <1>7, MovingKeeps

(* The model was run on the pinned weights if they are still there.        *)
LEMMA RunModelKeeps ==
  ASSUME SmokeInv, NEW r \in Runner, job[r] # NoJob, RunModel(r)
  PROVE  SmokeInv'
<1>1. /\ at' = [at EXCEPT ![r] = "evict"] /\ at[r] = "generate" /\ expect[r] # NoJob
      /\ job[r].contract.checkpoint = weights
      /\ UNCHANGED <<key, weights, job, expect, held, output, entries>>
  BY DEF RunModel, Generate, Goto, Unmoved, Pinned
<1>2. at'[r] = "evict" /\ weights \in Nat
  BY <1>1 DEF SmokeInv, SmokeTypeOK
<1>3. JobInv(r)
  BY DEF SmokeInv, JobsInv, RunnerInv
<1>4. PICK w \in job[r].contract.checkpoint..weights : expect[r] = <<w, job[r].prompts>>
  BY <1>1, <1>3 DEF JobInv
<1>5. expect[r] = PinnedTokens(job[r])
  BY <1>1, <1>2, <1>4 DEF PinnedTokens
<1>6. RunnerInv(r)'
  BY <1>1, <1>2, <1>3, <1>5 DEF RunnerInv, JobInv
<1>7. entries \in Seq(File)
  BY DEF SmokeInv, SmokeTypeOK
<1> QED
  BY <1>1, <1>6, <1>7, MovingKeeps

LEMMA LoadModelKeeps ==
  ASSUME SmokeInv, NEW r \in Runner, job[r] # NoJob, LoadModel(r)
  PROVE  SmokeInv'
<1>1. /\ at[r] = "generate" /\ expect' = [expect EXCEPT ![r] = <<weights, job[r].prompts>>]
      /\ UNCHANGED <<entries, at, key, weights, job, held, output>>
  BY DEF LoadModel, cacheVars
<1>2. JobInv(r) /\ weights \in 1..LastWeights /\ job[r] \in Invocations
  BY DEF SmokeInv, SmokeTypeOK, JobsInv, RunnerInv
<1>3. <<weights, job[r].prompts>> \in Tokens
  BY <1>2, DigestAssumption DEF Tokens
<1>4. SmokeTypeOK'
  BY <1>1, <1>3 DEF SmokeInv, SmokeTypeOK
<1>5. /\ expect'[r] = <<weights, job[r].prompts>>
      /\ \A t \in Runner \ {r} : expect'[t] = expect[t]
  BY <1>1 DEF SmokeInv, SmokeTypeOK
<1>6. weights \in job[r].contract.checkpoint..weights
  BY <1>2 DEF JobInv
<1>7. RunnerInv(r)'
  BY <1>1, <1>2, <1>5, <1>6 DEF RunnerInv, JobInv
<1>8. JobsInv'
  BY <1>1, <1>5, <1>7, OthersKeep DEF SmokeInv, JobsInv
<1>9. HeldInv' /\ OutputInv'
  BY <1>1 DEF SmokeInv, HeldInv, OutputInv
<1> QED
  BY <1>4, <1>8, <1>9 DEF SmokeInv
(* What is cached was published under the digest of its own tokens.        *)
LEMMA ReuseKeeps ==
  ASSUME SmokeInv, NEW r \in Runner, job[r] # NoJob, Reuse(r)
  PROVE  SmokeInv'
<1>1. /\ at[r] = "lookup" /\ at' = [at EXCEPT ![r] = "out"]
      /\ expect' = [expect EXCEPT ![r] = held[key[r]]]
      /\ UNCHANGED <<key, weights, job, held, output>>
  BY DEF Reuse, Hit, LeaveCache, Goto
<1>2. PICK i \in DOMAIN entries :
        /\ entries[i].key = key[r]
        /\ entries' = entries \/ entries' = Append(RemoveAt(entries, i), entries[i])
  BY DEF Reuse, Hit
<1>3. entries \in Seq(File)
  BY DEF SmokeInv, SmokeTypeOK
<1>4. /\ entries' \in Seq(File)
      /\ \A j \in DOMAIN entries' : \E k \in DOMAIN entries : entries'[j] = entries[k]
  <2>1. /\ RemoveAt(entries, i) \in Seq(File) /\ entries[i] \in File
        /\ \A j \in DOMAIN RemoveAt(entries, i) :
             \E k \in DOMAIN entries : RemoveAt(entries, i)[j] = entries[k]
    BY <1>3, Removed
  <2> DEFINE rest == RemoveAt(entries, i)
  <2> HIDE DEF rest
  <2>2. /\ rest \in Seq(File) /\ entries[i] \in File
        /\ \A j \in DOMAIN rest : \E k \in DOMAIN entries : rest[j] = entries[k]
    BY <2>1 DEF rest
  <2>3. entries' = entries \/ entries' = Append(rest, entries[i])
    BY <1>2 DEF rest
  <2>4. CASE entries' = entries
    BY <1>3, <2>4
  <2>5. CASE entries' = Append(rest, entries[i])
    <3>1. /\ Append(rest, entries[i]) \in Seq(File)
          /\ \A j \in DOMAIN Append(rest, entries[i]) :
               \/ Append(rest, entries[i])[j] = entries[i]
               \/ \E k \in DOMAIN rest : Append(rest, entries[i])[j] = rest[k]
      BY <2>2, Appended
    <3> QED
      BY <2>2, <2>5, <3>1
  <2> QED
    BY <2>3, <2>4, <2>5
<1>5. key[r] \in Key /\ held[key[r]] \in Tokens /\ KeyOf[held[key[r]]] = key[r]
  BY <1>2 DEF SmokeInv, SmokeTypeOK, HeldInv
<1>6. JobInv(r) /\ RunnerInv(r)
  BY DEF SmokeInv, JobsInv, RunnerInv
<1>7. held[key[r]] = PinnedTokens(job[r])
  <2>1. PinnedTokens(job[r]) \in Tokens
    BY <1>6, IdentityOfJob DEF SmokeInv
  <2>2. KeyOf[PinnedTokens(job[r])] = key[r]
    BY <1>6 DEF JobInv
  <2> QED
    BY <1>5, <2>1, <2>2, DigestAssumption DEF Tokens
<1>8. /\ at'[r] = "out" /\ expect'[r] = held[key[r]]
      /\ \A t \in Runner \ {r} : at'[t] = at[t] /\ expect'[t] = expect[t]
  BY <1>1 DEF SmokeInv, SmokeTypeOK
<1>9. RunnerInv(r)'
  BY <1>1, <1>6, <1>7, <1>8 DEF RunnerInv, JobInv
<1>10. SmokeTypeOK'
  BY <1>1, <1>4, <1>5 DEF SmokeInv, SmokeTypeOK
<1>11. JobsInv'
  BY <1>1, <1>8, <1>9, OthersKeep DEF SmokeInv, JobsInv
<1>12. HeldInv' /\ OutputInv'
  BY <1>1, <1>4 DEF SmokeInv, HeldInv, OutputInv
<1> QED
  BY <1>10, <1>11, <1>12 DEF SmokeInv

LEMMA PublishKeeps ==
  ASSUME SmokeInv, NEW r \in Runner, job[r] # NoJob, Publish(r)
  PROVE  SmokeInv'
<1>1. /\ at[r] = "rename" /\ at' = [at EXCEPT ![r] = "out"]
      /\ held' = [held EXCEPT ![key[r]] = expect[r]]
      /\ entries' = Append(entries, Dumped(r))
      /\ UNCHANGED <<key, weights, job, expect, output>>
  BY DEF Publish, Rename, LeaveCache, Goto
<1>2. entries \in Seq(File) /\ key[r] \in Key /\ Dumped(r) \in File /\ Dumped(r).key = key[r]
  BY SizeAssumption DEF SmokeInv, SmokeTypeOK, Dumped, File
<1>3. /\ entries' \in Seq(File)
      /\ \A j \in DOMAIN entries' : entries'[j] = Dumped(r) \/ \E k \in DOMAIN entries : entries'[j] = entries[k]
  BY <1>1, <1>2, Appended
<1>4. JobInv(r) /\ RunnerInv(r)
  BY DEF SmokeInv, JobsInv, RunnerInv
<1>5. /\ expect[r] = PinnedTokens(job[r]) /\ expect[r] \in Tokens /\ expect[r] # NoJob
      /\ KeyOf[expect[r]] = key[r]
  BY <1>1, <1>4, IdentityOfJob DEF SmokeInv, JobInv
<1>6. SmokeTypeOK'
  BY <1>1, <1>3, <1>5 DEF SmokeInv, SmokeTypeOK
<1>7. at'[r] = "out" /\ \A t \in Runner \ {r} : at'[t] = at[t]
  BY <1>1 DEF SmokeInv, SmokeTypeOK
<1>8. RunnerInv(r)'
  BY <1>1, <1>4, <1>5, <1>7 DEF RunnerInv, JobInv
<1>9. JobsInv'
  BY <1>1, <1>7, <1>8, OthersKeep DEF SmokeInv, JobsInv
<1>10. HeldInv'
  <2>1. \A k \in Key : held'[k] = IF k = key[r] THEN expect[r] ELSE held[k]
    BY <1>1, <1>2 DEF SmokeInv, SmokeTypeOK
  <2>2. \A k \in Key : held'[k] # NoJob => KeyOf[held'[k]] = k
    BY <1>5, <2>1 DEF SmokeInv, HeldInv
  <2>3. \A j \in DOMAIN entries : entries[j].key \in Key
    <3>1. \A j \in DOMAIN entries : entries[j] \in File
      BY <1>2
    <3> QED
      BY <3>1 DEF File
  <2>4. \A j \in DOMAIN entries' : held'[entries'[j].key] # NoJob
    BY <1>2, <1>3, <1>5, <2>1, <2>3 DEF SmokeInv, HeldInv
  <2> QED
    BY <2>2, <2>4 DEF HeldInv
<1>11. OutputInv'
  BY <1>1 DEF SmokeInv, OutputInv
<1> QED
  BY <1>6, <1>9, <1>10, <1>11 DEF SmokeInv

(* The end of an invocation: it answers soundly or dies, and is forgotten. *)
LEMMA EndKeeps ==
  ASSUME SmokeInv, NEW r \in Runner, Forget(r), at' = [at EXCEPT ![r] = "out"],
         NEW document, SoundOutput(document), output' = [output EXCEPT ![r] = document],
         UNCHANGED <<weights, entries, key, held>>
  PROVE  SmokeInv'
<1>1. SmokeTypeOK'
  BY DEF SmokeInv, SmokeTypeOK, Forget
<1>2. /\ job'[r] = NoJob /\ expect'[r] = NoJob /\ at'[r] = "out"
      /\ \A t \in Runner \ {r} : job'[t] = job[t] /\ expect'[t] = expect[t] /\ at'[t] = at[t]
  BY DEF SmokeInv, SmokeTypeOK, Forget
<1>3. RunnerInv(r)'
  BY <1>2 DEF RunnerInv
<1>4. JobsInv'
  BY <1>2, <1>3, OthersKeep DEF SmokeInv, JobsInv
<1>5. HeldInv'
  BY DEF SmokeInv, HeldInv
<1>6. OutputInv'
  BY DEF SmokeInv, SmokeTypeOK, OutputInv
<1> QED
  BY <1>1, <1>4, <1>5, <1>6 DEF SmokeInv

LEMMA FailureKeeps ==
  ASSUME SmokeInv, NEW r \in Runner, ModelFails(r) \/ PublishFails(r) \/ ReferenceLost(r)
  PROVE  SmokeInv'
<1>1. PICK state \in {"execution_failed", "missing_evidence"} : Fail(r, state)
  BY DEF ModelFails, PublishFails, ReferenceLost
<1>2. Forget(r) /\ output' = [output EXCEPT ![r] = Failed(state)] /\ SoundOutput(Failed(state))
  BY <1>1, FailureIsSound DEF Fail, Answer
<1>3. at' = [at EXCEPT ![r] = "out"]
  BY DEF ModelFails, GenerateFails, PublishFails, WriteFails, ReferenceLost, LeaveCache, Goto,
         cacheVars, SmokeInv, SmokeTypeOK
<1>4. UNCHANGED <<weights, entries, key, held>>
  BY DEF ModelFails, GenerateFails, PublishFails, WriteFails, ReferenceLost, cacheVars
<1> QED
  BY <1>2, <1>3, <1>4, EndKeeps

LEMMA CompareKeeps ==
  ASSUME SmokeInv, NEW r \in Runner, job[r] # NoJob, Compare(r)
  PROVE  SmokeInv'
<1> DEFINE document == [state |-> IF expect[r] = job[r].target.tokens THEN "matched" ELSE "mismatch",
                        by |-> job[r]]
<1>1. /\ at[r] = "out" /\ output' = [output EXCEPT ![r] = document] /\ Forget(r)
      /\ UNCHANGED <<at, weights, entries, key, held>>
  BY DEF Compare, Answer, cacheVars
<1>2. at' = [at EXCEPT ![r] = "out"]
  BY <1>1 DEF SmokeInv, SmokeTypeOK
<1>3. Granted(job[r]) /\ expect[r] = PinnedTokens(job[r])
  BY <1>1 DEF SmokeInv, JobsInv, RunnerInv, JobInv
<1>4. document.state = "matched" => job[r].target.tokens = expect[r]
  OBVIOUS
<1>5. SoundOutput(document)
  BY <1>3, <1>4 DEF SoundOutput
<1> QED
  BY <1>1, <1>2, <1>5, EndKeeps

LEMMA DieKeeps ==
  ASSUME SmokeInv, NEW r \in Runner, Die(r)
  PROVE  SmokeInv'
<1>1. Forget(r) /\ UNCHANGED <<weights, entries, key, held, output>>
  BY DEF Die, Crash, cacheVars
<1>2. at' = [at EXCEPT ![r] = "out"]
  BY DEF Die, Crash, LeaveCache, Goto, cacheVars, SmokeInv, SmokeTypeOK
<1>3. output' = [output EXCEPT ![r] = output[r]]
  BY <1>1 DEF SmokeInv, SmokeTypeOK
<1>4. SoundOutput(output[r])
  BY DEF SmokeInv, OutputInv
<1> QED
  BY <1>1, <1>2, <1>3, <1>4, EndKeeps

(* Later weights are newer than those that anyone was granted or has read. *)
LEMMA OverwriteKeeps ==
  ASSUME SmokeInv, Overwrite
  PROVE  SmokeInv'
<1>1. /\ weights < LastWeights /\ weights' = weights + 1 /\ weights \in 1..LastWeights
      /\ UNCHANGED <<entries, at, key, job, expect, held, output>>
  BY DEF Overwrite, cacheVars, SmokeInv, SmokeTypeOK
<1>2. weights' \in 1..LastWeights /\ 1..weights \subseteq 1..weights'
  BY <1>1, WeightsAssumption
<1>3. SmokeTypeOK'
  BY <1>1, <1>2 DEF SmokeInv, SmokeTypeOK
<1>4. ASSUME NEW r \in Runner
      PROVE  RunnerInv(r)'
  <2>1. RunnerInv(r)
    BY DEF SmokeInv, JobsInv
  <2>2. CASE job[r] = NoJob
    BY <1>1, <2>1, <2>2 DEF RunnerInv
  <2>3. CASE job[r] # NoJob
    <3>1. JobInv(r)
      BY <2>1, <2>3 DEF RunnerInv
    <3>2. job[r].contract.checkpoint \in 1..weights'
      BY <1>2, <3>1 DEF JobInv
    <3>3. job[r].contract.checkpoint..weights \subseteq job[r].contract.checkpoint..weights'
      BY <1>1, <3>1 DEF JobInv
    <3>4. JobInv(r)'
      BY <1>1, <3>1, <3>2, <3>3 DEF JobInv
    <3> QED
      BY <1>1, <2>3, <3>4 DEF RunnerInv
  <2> QED
    BY <2>2, <2>3
<1>5. JobsInv' /\ HeldInv' /\ OutputInv'
  BY <1>1, <1>4 DEF SmokeInv, JobsInv, HeldInv, OutputInv
<1> QED
  BY <1>3, <1>5 DEF SmokeInv

LEMMA StutterKeeps ==
  ASSUME SmokeInv, UNCHANGED smokeVars
  PROVE  SmokeInv'
<1>1. UNCHANGED <<weights, entries, at, key, job, expect, held, output>>
  BY DEF smokeVars, cacheVars
<1>2. SmokeTypeOK' /\ HeldInv' /\ OutputInv'
  BY <1>1 DEF SmokeInv, SmokeTypeOK, HeldInv, OutputInv
<1>3. JobsInv'
  BY <1>1, OthersKeep DEF SmokeInv, JobsInv
<1> QED
  BY <1>2, <1>3 DEF SmokeInv

LEMMA SmokeNextKeeps ==
  ASSUME SmokeInv, [SmokeNext]_smokeVars
  PROVE  SmokeInv'
<1>1. CASE Overwrite
  BY <1>1, OverwriteKeeps
<1>2. ASSUME NEW r \in Runner, Work(r)
      PROVE  SmokeInv'
  BY <1>2, ProceedKeeps, ReuseKeeps, LoadModelKeeps, RunModelKeeps, FailureKeeps,
     PublishKeeps, CompareKeeps DEF Work
<1>3. ASSUME NEW r \in Runner, Die(r)
      PROVE  SmokeInv'
  BY <1>3, DieKeeps
<1>4. ASSUME NEW r \in Runner, NEW q \in Invocations, Decline(r, q) \/ FindBusy(r, q) \/ Serve(r, q)
      PROVE  SmokeInv'
  BY <1>4, DeclineKeeps, ServeKeeps
<1>5. CASE UNCHANGED smokeVars
  BY <1>5, StutterKeeps
<1> QED
  BY <1>1, <1>2, <1>3, <1>4, <1>5 DEF SmokeNext

LEMMA SmokeInitHolds ==
  ASSUME SmokeInit
  PROVE  SmokeInv
<1>1. SmokeTypeOK
  BY WeightsAssumption DEF SmokeInit, CacheInit, SmokeTypeOK
<1>2. JobsInv
  BY DEF SmokeInit, CacheInit, JobsInv, RunnerInv
<1>3. HeldInv
  BY DEF SmokeInit, CacheInit, HeldInv
<1>4. OutputInv
  BY FailureIsSound DEF SmokeInit, OutputInv
<1> QED
  BY <1>1, <1>2, <1>3, <1>4 DEF SmokeInv

LEMMA SmokeInvIsEnough ==
  ASSUME SmokeInv
  PROVE  MatchedIsPinned
<1>1. ASSUME NEW r \in Runner, output[r].state = "matched"
      PROVE  LET q == output[r].by
             IN /\ q.sealed /\ q.task.contract = q.contract
                /\ q.target.run = q.task.run /\ q.target.source = q.task.source
                /\ q.target.tokens = <<q.contract.checkpoint, q.contract.prompts>>
  BY <1>1 DEF SmokeInv, OutputInv, SoundOutput, Granted, MatchesGrant, IsGrantedTarget, PinnedTokens
<1>2. ASSUME NEW i \in DOMAIN entries
      PROVE  LET k == entries[i].key IN held[k] # NoJob => KeyOf[held[k]] = k
  <2>1. entries[i] \in File
    BY DEF SmokeInv, SmokeTypeOK
  <2>2. entries[i].key \in Key
    BY <2>1 DEF File
  <2> QED
    BY <2>2 DEF SmokeInv, HeldInv
<1> QED
  BY <1>1, <1>2 DEF MatchedIsPinned

(* Whoever generated the reference, whenever, and whatever has become of   *)
(* the checkpoint, a target that matched has the tokens of the checkpoint  *)
(* and the prompts that its contract froze (run_stage1.py).                *)
THEOREM ResultsArePinned == SmokeSpec => []MatchedIsPinned
<1>1. SmokeInit => SmokeInv
  BY SmokeInitHolds
<1>2. SmokeInv /\ [SmokeNext]_smokeVars => SmokeInv'
  BY SmokeNextKeeps
<1>3. SmokeInv => MatchedIsPinned
  BY SmokeInvIsEnough
<1> QED
  BY <1>1, <1>2, <1>3, PTL DEF SmokeSpec

-----------------------------------------------------------------------------
(* Every profile run is accountable, and a second attempt begins only where  *)
(* nothing was profiled and nothing runs.  What each holds by depends on how *)
(* far the driver has come, so the invariant says it position by position.   *)

\* The try block, and what comes after its last step.
Trying == {"launch", "launched", "wait", "confirm", "arm", "pollBench", "pollLog",
           "start", "bench", "stop", "validate"}
Leaving == {"evidence", "manifest", "teardown", "caught", "exit"}

\* An exception is raised by leaving; the profiler is started at "start".
NothingFailedYet == pc \in Trying \cup {"main"} => failure = None
NoWindowYet ==
  pc \in {"main", "launch", "launched", "wait", "confirm", "arm", "pollBench", "pollLog", "start"}
    \/ failure = "arming"
  => window = None

\* Until the server is launched there is neither one that runs nor a runfile;
\* from then on the server is of the mode of the attempt.  A launch that was
\* cut short has failed for good.
NoServerYet == /\ pc \in {"launch", "launched"} => runfile = None
               /\ pc = "launch" => ~Live
CutIsFailed == cut => pc \in Leaving /\ failure = "other"
NothingBefore == pc = "main" => server = None /\ said = {} /\ bench = "none"
ServerIsOfMode == Live => server.mode = mode
ServerIsThere ==
  pc \in Trying \ {"launch"} \/ (pc \in Leaving /\ failure = None) =>
    server # None /\ server.mode = mode

\* After a teardown that did not raise nothing runs.
TornDown == pc \in {"caught", "exit"} /\ failure # "other" => ~Live

\* What the log says of skipping prefill, the server of this attempt says.
SaidIsSo ==
  "decodeOnly" \in said =>
    /\ mode = "isolated" /\ pc # "launch"
    /\ server # None /\ server.decodeOnly /\ server.state # "booting"
Confirmed ==
  /\ mode = "isolated"
  /\ \/ pc \in Trying \ {"launch", "launched", "wait", "confirm"}
     \/ pc \in Leaving /\ failure = None
  => "decodeOnly" \in said

\* The benchmark of this attempt is the one that wrote the result, if it was ok.
BenchIsRunning ==
  /\ pc \in {"pollBench", "pollLog", "bench"} \/ (pc = "start" /\ phase = "decode")
     => bench # "none"
  /\ phase = "prefill" /\ pc \in {"launch", "launched", "wait", "confirm", "arm", "start"} => bench = "none"
  /\ phase = "prefill" => pc \notin {"pollBench", "pollLog"}
ResultIsOwn ==
  pc \in {"pollBench", "pollLog", "start", "bench"} /\ bench = "ok" => result = mode

\* What was measured, and the traces beyond those there were before.
MeasuredIsOwn ==
  pc \in {"stop", "validate"} \/ (pc \in Leaving /\ failure = None) =>
    measured = [of |-> mode, mode |-> mode]
TracesAreOwn ==
  /\ pc \notin {"main", "exit"} => traces \subseteq before \cup {mode}
  /\ pc \in Leaving /\ failure = None => mode \in traces

ServersKnown == /\ NoServerYet /\ CutIsFailed /\ NothingBefore
                /\ ServerIsOfMode /\ ServerIsThere /\ TornDown
ModesKnown == SaidIsSo /\ Confirmed
StepsKnown == NothingFailedYet /\ NoWindowYet
ResultsKnown == BenchIsRunning /\ ResultIsOwn /\ MeasuredIsOwn /\ TracesAreOwn

RunInv == /\ RunTypeOK /\ ServerIsNamed
          /\ ServersKnown /\ ModesKnown /\ StepsKnown /\ ResultsKnown

-----------------------------------------------------------------------------

LEMMA RunInvInit == RunInit => RunInv
  BY NoneAssumption
  DEF RunInit, RunInv, ServersKnown, ModesKnown, StepsKnown, ResultsKnown,
      RunTypeOK, ServerIsNamed, NoServerYet, CutIsFailed, NothingBefore, ServerIsOfMode, ServerIsThere, TornDown, SaidIsSo, Confirmed, NothingFailedYet, NoWindowYet, BenchIsRunning, ResultIsOwn, MeasuredIsOwn, TracesAreOwn,
      Modes, Owners, Failures, Positions, Trying, Leaving, Server, Live

LEMMA RunInvStep == RunInv /\ [RunNext]_runVars => RunInv'
  <1> SUFFICES ASSUME RunInv, [RunNext]_runVars PROVE RunInv'
    OBVIOUS
  <1> USE NoneAssumption
      DEF RunInv, ServersKnown, ModesKnown, StepsKnown, ResultsKnown,
          RunTypeOK, ServerIsNamed, NoServerYet, CutIsFailed, NothingBefore, ServerIsOfMode, ServerIsThere, TornDown, SaidIsSo, Confirmed, NothingFailedYet, NoWindowYet, BenchIsRunning, ResultIsOwn, MeasuredIsOwn, TracesAreOwn,
          Modes, Owners, Failures, Positions, Trying, Leaving, Live, Ready,
          config, files, history, Leave, Advance, Persist, MayFallBack
  <1>1. CASE Main
    <2>a. before' \subseteq Owners /\ traces' \subseteq Owners
      BY <1>1 DEF Main
    <2>1. RunTypeOK'
      BY <1>1, <2>a DEF Main
    <2>2. ServerIsNamed' /\ ServersKnown'
      BY <1>1 DEF Main
    <2>3. ModesKnown'
      BY <1>1 DEF Main
    <2>4. StepsKnown'
      BY <1>1 DEF Main
    <2>5. ResultsKnown'
      BY <1>1 DEF Main
    <2> QED
      BY <2>1, <2>2, <2>3, <2>4, <2>5
  <1>2. CASE LaunchServer
    <2>a. /\ server' = [mode |-> mode, state |-> "booting", steady |-> FALSE, decodeOnly |-> FALSE]
      BY <1>2 DEF LaunchServer
    <2>b. /\ server' \in Server /\ server' # None /\ server'.mode = mode
          /\ server'.state = "booting" /\ ~server'.decodeOnly
      <3>1. server' \in Server
        BY <2>a DEF Server
      <3>2. QED
        BY <2>a, <3>1
    <2>1. RunTypeOK'
      BY <1>2, <2>b DEF LaunchServer
    <2>2. ServerIsNamed' /\ ServersKnown'
      BY <1>2, <2>b DEF LaunchServer
    <2>3. ModesKnown'
      BY <1>2, <2>b DEF LaunchServer
    <2>4. StepsKnown'
      BY <1>2, <2>b DEF LaunchServer
    <2>5. ResultsKnown'
      BY <1>2, <2>b DEF LaunchServer
    <2> QED
      BY <2>1, <2>2, <2>3, <2>4, <2>5
  <1>3. CASE LaunchFails
    <2>1. RunTypeOK'
      BY <1>3 DEF LaunchFails
    <2>2. ServerIsNamed' /\ ServersKnown'
      BY <1>3 DEF LaunchFails
    <2>3. ModesKnown'
      BY <1>3 DEF LaunchFails
    <2>4. StepsKnown'
      BY <1>3 DEF LaunchFails
    <2>5. ResultsKnown'
      BY <1>3 DEF LaunchFails
    <2> QED
      BY <2>1, <2>2, <2>3, <2>4, <2>5
  <1>4. CASE WaitReady
    <2>1. RunTypeOK'
      BY <1>4 DEF WaitReady
    <2>2. ServerIsNamed' /\ ServersKnown'
      BY <1>4 DEF WaitReady
    <2>3. ModesKnown'
      BY <1>4 DEF WaitReady
    <2>4. StepsKnown'
      BY <1>4 DEF WaitReady
    <2>5. ResultsKnown'
      BY <1>4 DEF WaitReady
    <2> QED
      BY <2>1, <2>2, <2>3, <2>4, <2>5
  <1>5. CASE ConfirmDecodeOnly
    <2>1. RunTypeOK'
      BY <1>5 DEF ConfirmDecodeOnly
    <2>2. ServerIsNamed' /\ ServersKnown'
      BY <1>5 DEF ConfirmDecodeOnly
    <2>3. ModesKnown'
      BY <1>5 DEF ConfirmDecodeOnly
    <2>4. StepsKnown'
      BY <1>5 DEF ConfirmDecodeOnly
    <2>5. ResultsKnown'
      BY <1>5 DEF ConfirmDecodeOnly
    <2> QED
      BY <2>1, <2>2, <2>3, <2>4, <2>5
  <1>6. CASE Arm
    <2>1. RunTypeOK'
      BY <1>6 DEF Arm
    <2>2. ServerIsNamed' /\ ServersKnown'
      BY <1>6 DEF Arm
    <2>3. ModesKnown'
      BY <1>6 DEF Arm
    <2>4. StepsKnown'
      BY <1>6 DEF Arm
    <2>5. ResultsKnown'
      BY <1>6 DEF Arm
    <2> QED
      BY <2>1, <2>2, <2>3, <2>4, <2>5
  <1>7. CASE PollBench
    <2>1. RunTypeOK'
      BY <1>7 DEF PollBench
    <2>2. ServerIsNamed' /\ ServersKnown'
      BY <1>7 DEF PollBench
    <2>3. ModesKnown'
      BY <1>7 DEF PollBench
    <2>4. StepsKnown'
      BY <1>7 DEF PollBench
    <2>5. ResultsKnown'
      BY <1>7 DEF PollBench
    <2> QED
      BY <2>1, <2>2, <2>3, <2>4, <2>5
  <1>8. CASE PollLog
    <2>1. RunTypeOK'
      BY <1>8 DEF PollLog
    <2>2. ServerIsNamed' /\ ServersKnown'
      BY <1>8 DEF PollLog
    <2>3. ModesKnown'
      BY <1>8 DEF PollLog
    <2>4. StepsKnown'
      BY <1>8 DEF PollLog
    <2>5. ResultsKnown'
      BY <1>8 DEF PollLog
    <2> QED
      BY <2>1, <2>2, <2>3, <2>4, <2>5
  <1>9. CASE StartProfile
    <2>a. Ready => server.steady \in BOOLEAN
      BY DEF Server
    <2>b. window' \in [mode : Modes, steady : BOOLEAN] \cup {None}
      BY <1>9, <2>a DEF StartProfile
    <2>1. RunTypeOK'
      BY <1>9, <2>b DEF StartProfile
    <2>2. ServerIsNamed' /\ ServersKnown'
      BY <1>9 DEF StartProfile
    <2>3. ModesKnown'
      BY <1>9 DEF StartProfile
    <2>4. StepsKnown'
      BY <1>9 DEF StartProfile
    <2>5. ResultsKnown'
      BY <1>9 DEF StartProfile
    <2> QED
      BY <2>1, <2>2, <2>3, <2>4, <2>5
  <1>10. CASE BenchDone
    <2>1. RunTypeOK'
      BY <1>10 DEF BenchDone
    <2>2. ServerIsNamed' /\ ServersKnown'
      BY <1>10 DEF BenchDone
    <2>3. ModesKnown'
      BY <1>10 DEF BenchDone
    <2>4. StepsKnown'
      BY <1>10 DEF BenchDone
    <2>5. ResultsKnown'
      BY <1>10 DEF BenchDone
    <2> QED
      BY <2>1, <2>2, <2>3, <2>4, <2>5
  <1>11. CASE StopProfile
    <2>1. RunTypeOK'
      BY <1>11 DEF StopProfile
    <2>2. ServerIsNamed' /\ ServersKnown'
      BY <1>11 DEF StopProfile
    <2>3. ModesKnown'
      BY <1>11 DEF StopProfile
    <2>4. StepsKnown'
      BY <1>11 DEF StopProfile
    <2>5. ResultsKnown'
      BY <1>11 DEF StopProfile
    <2> QED
      BY <2>1, <2>2, <2>3, <2>4, <2>5
  <1>12. CASE ValidateCapture
    <2>1. RunTypeOK'
      BY <1>12 DEF ValidateCapture
    <2>2. ServerIsNamed' /\ ServersKnown'
      BY <1>12 DEF ValidateCapture
    <2>3. ModesKnown'
      BY <1>12 DEF ValidateCapture
    <2>4. StepsKnown'
      BY <1>12 DEF ValidateCapture
    <2>5. ResultsKnown'
      BY <1>12 DEF ValidateCapture
    <2> QED
      BY <2>1, <2>2, <2>3, <2>4, <2>5
  <1>13. CASE EmitManifest
    <2>1. RunTypeOK'
      BY <1>13 DEF EmitManifest
    <2>2. ServerIsNamed' /\ ServersKnown'
      BY <1>13 DEF EmitManifest
    <2>3. ModesKnown'
      BY <1>13 DEF EmitManifest
    <2>4. StepsKnown'
      BY <1>13 DEF EmitManifest
    <2>5. ResultsKnown'
      BY <1>13 DEF EmitManifest
    <2> QED
      BY <2>1, <2>2, <2>3, <2>4, <2>5
  <1>14. CASE Teardown
    <2>a. /\ Live => server \in Server
          /\ server' = server \/ (Live /\ server' = [server EXCEPT !.state = "down"])
      BY <1>14 DEF Teardown
    <2>b. Live => LET s == [server EXCEPT !.state = "down"]
                  IN /\ s \in Server /\ s # None /\ s.mode = server.mode
                     /\ s.state = "down" /\ s.decodeOnly = server.decodeOnly
      BY <2>a DEF Server
    <2>1. RunTypeOK'
      BY <1>14, <2>a, <2>b DEF Teardown
    <2>2. ServerIsNamed' /\ ServersKnown'
      BY <1>14, <2>a, <2>b DEF Teardown
    <2>3. ModesKnown'
      BY <1>14, <2>a, <2>b DEF Teardown
    <2>4. StepsKnown'
      BY <1>14, <2>a, <2>b DEF Teardown
    <2>5. ResultsKnown'
      BY <1>14, <2>a, <2>b DEF Teardown
    <2> QED
      BY <2>1, <2>2, <2>3, <2>4, <2>5
  <1>15. CASE FallBack
    <2>1. RunTypeOK'
      BY <1>15 DEF FallBack
    <2>2. ServerIsNamed' /\ ServersKnown'
      BY <1>15 DEF FallBack
    <2>3. ModesKnown'
      BY <1>15 DEF FallBack
    <2>4. StepsKnown'
      BY <1>15 DEF FallBack
    <2>5. ResultsKnown'
      BY <1>15 DEF FallBack
    <2> QED
      BY <2>1, <2>2, <2>3, <2>4, <2>5
  <1>16. CASE Exit
    <2>1. RunTypeOK'
      BY <1>16 DEF Exit
    <2>2. ServerIsNamed' /\ ServersKnown'
      BY <1>16 DEF Exit
    <2>3. ModesKnown'
      BY <1>16 DEF Exit
    <2>4. StepsKnown'
      BY <1>16 DEF Exit
    <2>5. ResultsKnown'
      BY <1>16 DEF Exit
    <2> QED
      BY <2>1, <2>2, <2>3, <2>4, <2>5
  <1>17. CASE Interrupt
    <2>1. RunTypeOK'
      BY <1>17 DEF Interrupt
    <2>2. ServerIsNamed' /\ ServersKnown'
      BY <1>17 DEF Interrupt
    <2>3. ModesKnown'
      BY <1>17 DEF Interrupt
    <2>4. StepsKnown'
      BY <1>17 DEF Interrupt
    <2>5. ResultsKnown'
      BY <1>17 DEF Interrupt
    <2> QED
      BY <2>1, <2>2, <2>3, <2>4, <2>5
  <1>18. CASE ServerReady
    <2>a. PICK ok \in BOOLEAN :
            /\ ok => server.mode = "isolated"
            /\ server' = [server EXCEPT !.state = "ready", !.decodeOnly = ok]
            /\ said' = IF ok THEN said \cup {"decodeOnly"} ELSE said
      BY <1>18 DEF ServerReady, Server
    <2>b. /\ server' \in Server /\ server' # None /\ server'.mode = server.mode
          /\ server'.state = "ready" /\ server'.decodeOnly = ok
          /\ server # None /\ server.state = "booting"
      <3>1. server \in Server /\ server # None /\ server.state = "booting"
        BY <1>18 DEF ServerReady
      <3>2. /\ server' \in Server /\ server'.mode = server.mode
            /\ server'.state = "ready" /\ server'.decodeOnly = ok
        BY <2>a, <3>1 DEF Server
      <3>3. QED
        BY <3>1, <3>2
    <2>1. RunTypeOK'
      BY <1>18, <2>a, <2>b DEF ServerReady
    <2>2. ServerIsNamed' /\ ServersKnown'
      BY <1>18, <2>a, <2>b DEF ServerReady
    <2>3. ModesKnown'
      BY <1>18, <2>a, <2>b DEF ServerReady
    <2>4. StepsKnown'
      BY <1>18, <2>a, <2>b DEF ServerReady
    <2>5. ResultsKnown'
      BY <1>18, <2>a, <2>b DEF ServerReady
    <2> QED
      BY <2>1, <2>2, <2>3, <2>4, <2>5
  <1>19. CASE ServerSteady
    <2>a. /\ server' \in Server /\ server' # None /\ server'.mode = server.mode
          /\ server'.state = server.state /\ server'.decodeOnly = server.decodeOnly
      BY <1>19 DEF ServerSteady, Server
    <2>1. RunTypeOK'
      BY <1>19, <2>a DEF ServerSteady
    <2>2. ServerIsNamed' /\ ServersKnown'
      BY <1>19, <2>a DEF ServerSteady
    <2>3. ModesKnown'
      BY <1>19, <2>a DEF ServerSteady
    <2>4. StepsKnown'
      BY <1>19, <2>a DEF ServerSteady
    <2>5. ResultsKnown'
      BY <1>19, <2>a DEF ServerSteady
    <2> QED
      BY <2>1, <2>2, <2>3, <2>4, <2>5
  <1>20. CASE ServerDies
    <2>a. /\ server' \in Server /\ server' # None /\ server'.mode = server.mode
          /\ server'.state = "down" /\ server'.decodeOnly = server.decodeOnly
      BY <1>20 DEF ServerDies, Server
    <2>1. RunTypeOK'
      BY <1>20, <2>a DEF ServerDies
    <2>2. ServerIsNamed' /\ ServersKnown'
      BY <1>20, <2>a DEF ServerDies
    <2>3. ModesKnown'
      BY <1>20, <2>a DEF ServerDies
    <2>4. StepsKnown'
      BY <1>20, <2>a DEF ServerDies
    <2>5. ResultsKnown'
      BY <1>20, <2>a DEF ServerDies
    <2> QED
      BY <2>1, <2>2, <2>3, <2>4, <2>5
  <1>21. CASE WriteTrace
    <2>a. server.mode \in Modes
      BY <1>21 DEF WriteTrace, Server
    <2>b. traces' \subseteq Owners
      BY <1>21, <2>a DEF WriteTrace
    <2>1. RunTypeOK'
      BY <1>21, <2>b DEF WriteTrace
    <2>2. ServerIsNamed' /\ ServersKnown'
      BY <1>21, <2>a DEF WriteTrace
    <2>3. ModesKnown'
      BY <1>21, <2>a DEF WriteTrace
    <2>4. StepsKnown'
      BY <1>21, <2>a DEF WriteTrace
    <2>5. ResultsKnown'
      BY <1>21, <2>a DEF WriteTrace
    <2> QED
      BY <2>1, <2>2, <2>3, <2>4, <2>5
  <1>22. CASE BenchEnds
    <2>1. RunTypeOK'
      BY <1>22 DEF BenchEnds
    <2>2. ServerIsNamed' /\ ServersKnown'
      BY <1>22 DEF BenchEnds
    <2>3. ModesKnown'
      BY <1>22 DEF BenchEnds
    <2>4. StepsKnown'
      BY <1>22 DEF BenchEnds
    <2>5. ResultsKnown'
      BY <1>22 DEF BenchEnds
    <2> QED
      BY <2>1, <2>2, <2>3, <2>4, <2>5
  <1>23. CASE RecordLaunch
    <2>1. RunTypeOK'
      BY <1>23 DEF RecordLaunch
    <2>2. ServerIsNamed' /\ ServersKnown'
      BY <1>23 DEF RecordLaunch
    <2>3. ModesKnown'
      BY <1>23 DEF RecordLaunch
    <2>4. StepsKnown'
      BY <1>23 DEF RecordLaunch
    <2>5. ResultsKnown'
      BY <1>23 DEF RecordLaunch
    <2> QED
      BY <2>1, <2>2, <2>3, <2>4, <2>5
  <1>24. CASE AbortLaunch
    <2>a. /\ Live => server \in Server
          /\ server' = server \/ (Live /\ server' = [server EXCEPT !.state = "down"])
      BY <1>24 DEF AbortLaunch
    <2>b. Live => LET s == [server EXCEPT !.state = "down"]
                  IN /\ s \in Server /\ s # None /\ s.mode = server.mode
                     /\ s.state = "down" /\ s.decodeOnly = server.decodeOnly
      BY <2>a DEF Server
    <2>1. RunTypeOK'
      BY <1>24, <2>a, <2>b DEF AbortLaunch
    <2>2. ServerIsNamed' /\ ServersKnown'
      BY <1>24, <2>a, <2>b DEF AbortLaunch
    <2>3. ModesKnown'
      BY <1>24, <2>a, <2>b DEF AbortLaunch
    <2>4. StepsKnown'
      BY <1>24, <2>a, <2>b DEF AbortLaunch
    <2>5. ResultsKnown'
      BY <1>24, <2>a, <2>b DEF AbortLaunch
    <2> QED
      BY <2>1, <2>2, <2>3, <2>4, <2>5
  <1>25. CASE WriteEvidence
    <2>1. RunTypeOK'
      BY <1>25 DEF WriteEvidence
    <2>2. ServerIsNamed' /\ ServersKnown'
      BY <1>25 DEF WriteEvidence
    <2>3. ModesKnown'
      BY <1>25 DEF WriteEvidence
    <2>4. StepsKnown'
      BY <1>25 DEF WriteEvidence
    <2>5. ResultsKnown'
      BY <1>25 DEF WriteEvidence
    <2> QED
      BY <2>1, <2>2, <2>3, <2>4, <2>5
  <1>26. CASE UNCHANGED runVars
    BY <1>26 DEF runVars
  <1> QED
    BY <1>1, <1>2, <1>3, <1>4, <1>5, <1>6, <1>7, <1>8, <1>9, <1>10, <1>11, <1>12, <1>13, <1>14, <1>15, <1>16, <1>17, <1>18, <1>19, <1>20, <1>21, <1>22, <1>23, <1>24, <1>25, <1>26 DEF RunNext, Driver

(* However a run goes on or ends, its traces and its numbers are accounted for,
   and so is a server that lives, but between Popen and write_runfile and after
   an interrupt there (profile_run.py: main, the finally blocks;
   server_lifecycle.py: _launch_process). *)
THEOREM EveryRunIsAccountable == RunSpec => []RunIsAccountable
  <1>1. RunInv => RunIsAccountable
    BY NoneAssumption
    DEF RunInv, RunIsAccountable, ServersKnown, ModesKnown, ResultsKnown,
           SuccessIsComplete, TornDown, ServerIsThere, SaidIsSo, Confirmed,
           MeasuredIsOwn, TracesAreOwn, RunTypeOK, Leaving, Failures
  <1>2. QED
    BY <1>1, RunInvInit, RunInvStep, PTL DEF RunSpec

(* The second attempt begins only when the first took no profile and its
   server is gone (profile_run.py: the decode fallback). *)
THEOREM FallbackIsUnarmed == RunSpec => FallbackOnlyUnarmed
  <1>1. RunInv /\ [RunNext]_runVars => [mode' # mode => window = None /\ ~Live]_runVars
    <2> SUFFICES ASSUME RunInv, [RunNext]_runVars, mode' # mode
                 PROVE  window = None /\ ~Live
      OBVIOUS
    <2>1. FallBack
      BY DEF RunNext, Driver, runVars, Main, LaunchServer, LaunchFails, RecordLaunch,
             AbortLaunch, WriteEvidence, WaitReady,
             ConfirmDecodeOnly, Arm, PollBench, PollLog, StartProfile, BenchDone,
             StopProfile, ValidateCapture, EmitManifest, Teardown, Exit, Interrupt,
             ServerReady, ServerSteady, ServerDies, WriteTrace, BenchEnds
    <2>2. QED
      BY <2>1 DEF FallBack, MayFallBack, RunInv, StepsKnown, NoWindowYet,
                  ServersKnown, TornDown
  <1>2. QED
    BY <1>1, RunInvInit, RunInvStep, PTL DEF RunSpec, FallbackOnlyUnarmed


-----------------------------------------------------------------------------
(* The bytes of the cache's files. *)

Bytes(listed) == [i \in DOMAIN listed |-> listed[i].bytes]

LEMMA FilesAreFinite ==
  ASSUME NEW listed \in Seq(File)
  PROVE  /\ DOMAIN listed = 1..Len(listed) /\ Len(listed) \in Nat /\ IsFiniteSet(DOMAIN listed)
         /\ \A i \in DOMAIN listed : listed[i] \in File /\ listed[i].bytes \in Nat
         /\ \A i \in DOMAIN listed : Bytes(listed)[i] = listed[i].bytes
<1>1. DOMAIN listed = 1..Len(listed) /\ Len(listed) \in Nat
  OBVIOUS
<1>2. IsFiniteSet(DOMAIN listed)
  BY <1>1, FS_Interval
<1>3. \A f \in File : f.bytes \in Nat
  BY DEF File
<1>4. \A i \in DOMAIN listed : listed[i] \in File
  OBVIOUS
<1> QED
  BY <1>1, <1>2, <1>3, <1>4 DEF Bytes

LEMMA TotalIsSum ==
  ASSUME NEW listed \in Seq(File)
  PROVE  \E h : SumsOver(h, Bytes(listed), DOMAIN listed) /\ Total(listed) = h[DOMAIN listed]
<1> DEFINE R(g) == g = [s \in SUBSET DOMAIN listed |->
                          IF s = {} THEN 0 ELSE listed[CHOOSE x \in s : TRUE].bytes + g[s \ {CHOOSE x \in s : TRUE}]]
<1>1. \A i \in DOMAIN listed : Bytes(listed)[i] = listed[i].bytes
  BY FilesAreFinite
<1>2. ASSUME NEW g
      PROVE  Adds(g, Bytes(listed), DOMAIN listed) <=> R(g)
  <2>1. \A s \in SUBSET DOMAIN listed : s # {} => Bytes(listed)[OneOf(s)] = listed[CHOOSE x \in s : TRUE].bytes
    BY <1>1, OneIsIn DEF OneOf
  <2>2. \A s \in SUBSET DOMAIN listed :
          (IF s = {} THEN 0 ELSE Bytes(listed)[OneOf(s)] + g[s \ {OneOf(s)}])
          = (IF s = {} THEN 0 ELSE listed[CHOOSE x \in s : TRUE].bytes + g[s \ {CHOOSE x \in s : TRUE}])
    BY <2>1 DEF OneOf
  <2>3. [s \in SUBSET DOMAIN listed |-> IF s = {} THEN 0 ELSE Bytes(listed)[OneOf(s)] + g[s \ {OneOf(s)}]]
        = [s \in SUBSET DOMAIN listed |->
             IF s = {} THEN 0 ELSE listed[CHOOSE x \in s : TRUE].bytes + g[s \ {CHOOSE x \in s : TRUE}]]
    BY <2>2, Zenon
  <2> QED
    BY <2>3, Zenon DEF Adds
<1>3. \E h : Adds(h, Bytes(listed), DOMAIN listed)
  BY FilesAreFinite, SumExists DEF SumsOver
<1>4. Total(listed) = (CHOOSE g : R(g))[DOMAIN listed]
  BY ONLY Zenon DEF Total, FoldSeq, FoldFunction, FoldFunctionOnSet, MapThenFoldSet, R
<1>5. R(CHOOSE g : R(g))
  <2> HIDE DEF R
  <2> QED
    BY <1>2, <1>3
<1> HIDE DEF R
<1>6. SumsOver(CHOOSE g : R(g), Bytes(listed), DOMAIN listed)
  BY <1>2, <1>5, FilesAreFinite DEF SumsOver
<1> QED
  BY <1>4, <1>6

\* p is q without the i-th of its files: file j of p is file b[j] of q.
Lacks(p, b, q, i) == Carries(b, DOMAIN p, p, DOMAIN q, q) /\ {b[j] : j \in DOMAIN p} = DOMAIN q \ {i}

LEMMA TotalWithout ==
  ASSUME NEW p \in Seq(File), NEW q \in Seq(File), NEW i \in DOMAIN q, NEW b, Lacks(p, b, q, i)
  PROVE  Total(p) \in Nat /\ Total(q) = q[i].bytes + Total(p)
<1>1. PICK h : SumsOver(h, Bytes(p), DOMAIN p) /\ Total(p) = h[DOMAIN p]
  BY TotalIsSum
<1>2. PICK g : SumsOver(g, Bytes(q), DOMAIN q) /\ Total(q) = g[DOMAIN q]
  BY TotalIsSum
<1>3. /\ \A j \in DOMAIN p : Bytes(p)[j] = p[j].bytes
      /\ \A j \in DOMAIN q : Bytes(q)[j] = q[j].bytes
  BY FilesAreFinite
<1>4. Carries(b, DOMAIN p, Bytes(p), DOMAIN q, Bytes(q)) /\ {b[x] : x \in DOMAIN p} = DOMAIN q \ {i}
  BY <1>3 DEF Lacks, Carries
<1>5. h[DOMAIN p] \in Nat /\ g[DOMAIN q] = Bytes(q)[i] + h[DOMAIN p]
  BY <1>1, <1>2, <1>4, SumOfOneMore
<1> QED
  BY <1>1, <1>2, <1>3, <1>5

LEMMA TotalOfNone ==
  /\ Total(<<>>) = 0
  /\ \A listed \in Seq(File) : Total(listed) \in Nat
<1>1. <<>> \in Seq(File) /\ DOMAIN <<>> = {}
  OBVIOUS
<1>2. ASSUME NEW listed \in Seq(File)
      PROVE  Total(listed) \in Nat /\ (DOMAIN listed = {} => Total(listed) = 0)
  <2>1. PICK h : SumsOver(h, Bytes(listed), DOMAIN listed) /\ Total(listed) = h[DOMAIN listed]
    BY TotalIsSum
  <2>2. h[{}] = 0 /\ \A s \in SUBSET DOMAIN listed : h[s] \in Nat
    BY <2>1, SumStep
  <2> QED
    BY <2>1, <2>2
<1> QED
  BY <1>1, <1>2

LEMMA TotalAppended ==
  ASSUME NEW listed \in Seq(File), NEW f \in File
  PROVE  Total(Append(listed, f)) = Total(listed) + f.bytes
<1> DEFINE q == Append(listed, f)
           n == Len(listed) + 1
           b == [j \in DOMAIN listed |-> j]
<1>1. /\ q \in Seq(File) /\ Len(q) = n /\ DOMAIN q = 1..n /\ n \in Nat
      /\ DOMAIN listed = 1..Len(listed) /\ Len(listed) \in Nat
      /\ q[n] = f /\ \A j \in 1..Len(listed) : q[j] = listed[j]
  BY AppendProperties
<1>2. \A j \in DOMAIN listed : b[j] = j /\ b[j] \in DOMAIN q /\ listed[j] = q[b[j]]
  BY <1>1
<1>3. {b[j] : j \in DOMAIN listed} = DOMAIN q \ {n}
  BY <1>1
<1>4. n \in DOMAIN q /\ \A j, k \in DOMAIN listed : b[j] = b[k] => j = k
  BY <1>1
<1>a. Lacks(listed, b, q, n)
  BY <1>2, <1>3, <1>4, Zenon DEF Lacks, Carries
<1> HIDE DEF q, n, b
<1>5. Total(listed) \in Nat /\ Total(q) = q[n].bytes + Total(listed)
  BY <1>1, <1>4, <1>a, TotalWithout
<1>6. f.bytes \in Nat
  BY DEF File
<1> QED
  BY <1>1, <1>5, <1>6 DEF q

LEMMA TotalOfTail ==
  ASSUME NEW listed \in Seq(File), listed # <<>>
  PROVE  Total(listed) = Head(listed).bytes + Total(Tail(listed))
<1> DEFINE p == Tail(listed)
           b == [j \in DOMAIN p |-> j + 1]
<1>1. /\ p \in Seq(File) /\ Len(p) = Len(listed) - 1 /\ Len(listed) \in Nat \ {0}
      /\ DOMAIN p = 1..Len(p) /\ DOMAIN listed = 1..Len(listed) /\ Head(listed) = listed[1]
      /\ \A j \in 1..Len(p) : p[j] = listed[j + 1]
  BY HeadTailProperties
<1>2. \A j \in DOMAIN p : b[j] = j + 1 /\ b[j] \in DOMAIN listed /\ p[j] = listed[b[j]]
  BY <1>1
<1>3. {b[j] : j \in DOMAIN p} = DOMAIN listed \ {1}
  <2>1. \A k \in DOMAIN listed \ {1} : k - 1 \in DOMAIN p /\ b[k - 1] = k
    BY <1>1
  <2>2. \A j \in DOMAIN p : b[j] \in DOMAIN listed \ {1}
    BY <1>1
  <2>3. \A k : k \in DOMAIN listed \ {1} => k \in {b[j] : j \in DOMAIN p}
    <3> SUFFICES ASSUME NEW k \in DOMAIN listed \ {1}
                 PROVE  \E j \in DOMAIN p : b[j] = k
      OBVIOUS
    <3> QED
      BY <2>1
  <2> HIDE DEF p, b
  <2> QED
    BY <2>2, <2>3
<1>4. 1 \in DOMAIN listed /\ \A j, k \in DOMAIN p : b[j] = b[k] => j = k
  BY <1>1
<1>a. Lacks(p, b, listed, 1)
  BY <1>2, <1>3, <1>4, Zenon DEF Lacks, Carries
<1> HIDE DEF p, b
<1>5. Total(listed) = listed[1].bytes + Total(p)
  BY <1>1, <1>4, <1>a, TotalWithout
<1> QED
  BY <1>1, <1>5 DEF p

LEMMA TotalWithoutOne ==
  ASSUME NEW listed \in Seq(File), NEW i \in DOMAIN listed
  PROVE  /\ RemoveAt(listed, i) \in Seq(File)
         /\ Total(listed) = listed[i].bytes + Total(RemoveAt(listed, i))
         /\ Len(RemoveAt(listed, i)) = Len(listed) - 1
         /\ \A j \in 1..Len(listed) - 1 : RemoveAt(listed, i)[j] = IF j < i THEN listed[j] ELSE listed[j + 1]
<1> DEFINE front == SubSeq(listed, 1, i - 1)
           rear == SubSeq(listed, i + 1, Len(listed))
           p == RemoveAt(listed, i)
           b == [j \in 1..Len(listed) - 1 |-> IF j < i THEN j ELSE j + 1]
<1>1. Len(listed) \in Nat /\ i \in 1..Len(listed) /\ DOMAIN listed = 1..Len(listed)
  OBVIOUS
<1>2. front \in Seq(File) /\ Len(front) = i - 1 /\ \A j \in 1..i - 1 : front[j] = listed[j]
  <2>1. \A j \in 1..i - 1 : listed[j] \in File
    BY <1>1
  <2>2. /\ front \in Seq(File) /\ Len(front) = IF 1 <= i - 1 THEN i - 1 - 1 + 1 ELSE 0
        /\ \A j \in 1..(i - 1 - 1 + 1) : front[j] = listed[1 + j - 1]
    BY <1>1, <2>1, SubSeqProperties
  <2> QED
    BY <1>1, <2>2
<1>3. /\ rear \in Seq(File) /\ Len(rear) = Len(listed) - i
      /\ \A j \in 1..Len(listed) - i : rear[j] = listed[i + j]
  <2>1. \A j \in i + 1..Len(listed) : listed[j] \in File
    BY <1>1
  <2>2. /\ rear \in Seq(File) /\ Len(rear) = IF i + 1 <= Len(listed) THEN Len(listed) - (i + 1) + 1 ELSE 0
        /\ \A j \in 1..(Len(listed) - (i + 1) + 1) : rear[j] = listed[i + 1 + j - 1]
    BY <1>1, <2>1, SubSeqProperties
  <2> QED
    BY <1>1, <2>2
<1>4. p = front \o rear
  BY DEF RemoveAt
<1> HIDE DEF front, rear, p
<1>5. /\ p \in Seq(File) /\ Len(p) = Len(listed) - 1 /\ DOMAIN p = 1..Len(listed) - 1
      /\ \A j \in 1..Len(listed) - 1 : p[j] = IF j < i THEN listed[j] ELSE listed[j + 1]
  <2>1. /\ front \o rear \in Seq(File) /\ Len(front \o rear) = Len(front) + Len(rear)
        /\ \A j \in 1..(Len(front) + Len(rear)) :
             (front \o rear)[j] = IF j <= Len(front) THEN front[j] ELSE rear[j - Len(front)]
    BY <1>2, <1>3, ConcatProperties
  <2>2. Len(front) + Len(rear) = Len(listed) - 1
    BY <1>1, <1>2, <1>3
  <2>3. ASSUME NEW j \in 1..Len(listed) - 1
        PROVE  p[j] = IF j < i THEN listed[j] ELSE listed[j + 1]
    <3>1. CASE j < i
      <4>1. j \in 1..i - 1 /\ j <= Len(front)
        BY <1>1, <1>2, <3>1
      <4>2. p[j] = front[j]
        BY <1>4, <2>1, <2>2, <4>1
      <4> QED
        BY <1>2, <3>1, <4>1, <4>2
    <3>2. CASE j >= i
      <4>1. j - (i - 1) \in 1..Len(listed) - i /\ i + (j - (i - 1)) = j + 1
        BY <1>1, <3>2
      <4>2. ~(j <= Len(front)) /\ j - Len(front) = j - (i - 1)
        BY <1>1, <1>2, <3>2
      <4>3. p[j] = rear[j - (i - 1)]
        BY <1>4, <2>1, <2>2, <4>2
      <4> QED
        BY <1>1, <1>3, <3>2, <4>1, <4>3
    <3> QED
      BY <1>1, <3>1, <3>2
  <2>4. p \in Seq(File) /\ Len(p) = Len(listed) - 1
    BY <1>4, <2>1, <2>2
  <2> QED
    BY <2>3, <2>4
<1>6. \A j \in 1..Len(listed) - 1 : b[j] = IF j < i THEN j ELSE j + 1
  OBVIOUS
<1> HIDE DEF b
<1>7. Carries(b, DOMAIN p, p, DOMAIN listed, listed)
  BY <1>1, <1>5, <1>6 DEF Carries
<1>8. {b[j] : j \in DOMAIN p} = DOMAIN listed \ {i}
  <2>1. \A j \in DOMAIN p : b[j] \in DOMAIN listed \ {i}
    BY <1>1, <1>5, <1>6
  <2>2. ASSUME NEW k \in DOMAIN listed \ {i}
        PROVE  \E j \in DOMAIN p : b[j] = k
    <3>1. CASE k < i
      BY <1>1, <1>5, <1>6, <3>1
    <3>2. CASE k > i
      <4>1. k - 1 \in DOMAIN p /\ b[k - 1] = k
        BY <1>1, <1>5, <1>6, <3>2
      <4> QED
        BY <4>1
    <3> QED
      BY <1>1, <3>1, <3>2
  <2> QED
    BY <2>1, <2>2
<1>9. Lacks(p, b, listed, i)
  BY <1>7, <1>8 DEF Lacks
<1>10. Total(listed) = listed[i].bytes + Total(p)
  BY <1>5, <1>9, TotalWithout
<1> QED
  BY <1>5, <1>10 DEF p

\* What lies in the directory under temporary names: one file at most.
TempBytes(T) == MapThenSumSet(LAMBDA f : f.bytes, T)

LEMMA TempsAdd ==
  ASSUME NEW T
  PROVE  /\ T = {} => TempBytes(T) = 0
         /\ \A t \in File : T = {t} => TempBytes(T) = t.bytes
<1> DEFINE R(g) == g = [s \in SUBSET T |->
                          IF s = {} THEN 0 ELSE (CHOOSE x \in s : TRUE).bytes + g[s \ {CHOOSE x \in s : TRUE}]]
           v == [f \in T |-> f.bytes]
           c == CHOOSE g : R(g)
<1>1. TempBytes(T) = c[T]
  BY ONLY Zenon DEF TempBytes, MapThenSumSet, MapThenFoldSet, R, c
<1>2. ASSUME IsFiniteSet(T), \A f \in T : f.bytes \in Nat
      PROVE  SumsOver(c, v, T)
  <2>1. PICK h : SumsOver(h, v, T)
    BY <1>2, SumExists
  <2>2. ASSUME NEW g
        PROVE  Adds(g, v, T) <=> R(g)
    <3>1. \A s \in SUBSET T : s # {} => v[OneOf(s)] = (CHOOSE x \in s : TRUE).bytes
      BY OneIsIn DEF OneOf
    <3>2. \A s \in SUBSET T :
            (IF s = {} THEN 0 ELSE v[OneOf(s)] + g[s \ {OneOf(s)}])
            = (IF s = {} THEN 0 ELSE (CHOOSE x \in s : TRUE).bytes + g[s \ {CHOOSE x \in s : TRUE}])
      BY <3>1 DEF OneOf
    <3>3. [s \in SUBSET T |-> IF s = {} THEN 0 ELSE v[OneOf(s)] + g[s \ {OneOf(s)}]]
          = [s \in SUBSET T |->
               IF s = {} THEN 0 ELSE (CHOOSE x \in s : TRUE).bytes + g[s \ {CHOOSE x \in s : TRUE}]]
      BY <3>2, Zenon
    <3> QED
      BY <3>3, Zenon DEF Adds
  <2>3. R(h)
    BY <2>1, <2>2 DEF SumsOver
  <2>4. R(c)
    <3> HIDE DEF R
    <3> QED
      BY <2>3
  <2>5. Adds(c, v, T)
    <3> HIDE DEF R
    <3> QED
      BY <2>2, <2>4
  <2> QED
    BY <1>2, <2>5 DEF SumsOver
<1>3. ASSUME T = {}
      PROVE  TempBytes(T) = 0
  <2>1. SumsOver(c, v, T)
    BY <1>2, <1>3, FS_EmptySet
  <2> HIDE DEF c, v
  <2>2. c[{}] = 0
    BY <2>1, SumStep
  <2> QED
    BY <1>1, <1>3, <2>2
<1>4. ASSUME NEW t \in File, T = {t}
      PROVE  TempBytes(T) = t.bytes
  <2>1. t.bytes \in Nat
    BY DEF File
  <2>2. SumsOver(c, v, T) /\ v[t] = t.bytes
    BY <1>2, <1>4, <2>1, FS_Singleton
  <2> HIDE DEF c, v
  <2>3. FoldsOver(c, Plus, 0, v, T, Nat)
    BY <2>2, SumIsFold
  <2>4. c[{}] = 0
    BY <2>2, SumStep
  <2>5. c[T] = Plus[<<v[t], c[T \ {t}]>>]
    <3>1. \A s \in SUBSET T : \A x \in s : c[s] = Plus[<<v[x], c[s \ {x}]>>]
      BY <2>3, FoldStep
    <3> QED
      BY <1>4, <3>1
  <2>6. T \ {t} = {}
    BY <1>4
  <2>7. Plus[<<t.bytes, 0>>] = t.bytes + 0
    BY <2>1, PlusCombines
  <2>8. c[T] = Plus[<<t.bytes, 0>>]
    BY <2>2, <2>4, <2>5, <2>6
  <2> QED
    BY <1>1, <2>1, <2>7, <2>8
<1> QED
  BY <1>3, <1>4

-----------------------------------------------------------------------------
(* The cache is sound.  The invariant says what the runner inside may rely   *)
(* on: before it writes, nothing is left of a dead one; what it asks for is  *)
(* not cached; from the last eviction on, its document fits.                 *)

HolderInv(r) ==
  /\ at[r] # "out" => lock = r
  /\ at[r] \in {"lookup", "generate", "evict", "create"} => temps = {}
  /\ at[r] = "dump" => temps = {Temp(r)}
  /\ at[r] = "rename" => temps = {Dumped(r)}
  /\ at[r] \in {"generate", "evict", "create", "dump", "rename"} => ~Cached(key[r])
  /\ at[r] \in {"evict", "create", "dump", "rename"} => Size[key[r]] <= MaxBytes
  /\ at[r] \in {"create", "dump", "rename"} =>
       Len(entries) < MaxEntries /\ Total(entries) + Size[key[r]] <= MaxBytes

\* At most one file is left of all the runners that died.
LeftoverInv == temps = {} \/ \E t \in File : temps = {t}

CacheInv == CacheIsSound /\ LeftoverInv /\ \A r \in Runner : HolderInv(r)

LEMMA BytesWithin ==
  /\ WithinBytes <=> Total(entries) + TempBytes(temps) <= MaxBytes
  /\ WithinBytes' <=> Total(entries') + TempBytes(temps') <= MaxBytes
<1>1. WithinBytes <=> Total(entries) + TempBytes(temps) <= MaxBytes
  BY Zenon DEF WithinBytes, TempBytes
<1>2. WithinBytes' <=> Total(entries') + TempBytes(temps') <= MaxBytes
  <2>1. WithinBytes' <=> (Total(entries) + TempBytes(temps) <= MaxBytes)'
    BY <1>1, PTL
  <2> QED
    BY <2>1
<1> QED
  BY <1>1, <1>2

LEMMA HolderFacts ==
  ASSUME CacheInv, NEW r \in Runner
  PROVE  /\ key[r] \in Key /\ Size[key[r]] \in Nat \ {0} /\ HolderInv(r)
         /\ Temp(r) \in File /\ Temp(r).bytes = 0
         /\ Dumped(r) \in File /\ Dumped(r).bytes = Size[key[r]] /\ Dumped(r).key = key[r]
         /\ entries \in Seq(File) /\ Len(entries) \in Nat /\ Len(entries) <= MaxEntries
         /\ Total(entries) \in Nat /\ MaxEntries \in Nat \ {0} /\ MaxBytes \in Nat \ {0}
         /\ at \in [Runner -> {"out", "clean", "lookup", "generate", "evict", "create", "dump", "rename"}]
         /\ Total(entries) <= MaxBytes
<1>1. /\ key[r] \in Key /\ Size[key[r]] \in Nat \ {0} /\ HolderInv(r) /\ MaxEntries \in Nat \ {0} /\ MaxBytes \in Nat \ {0}
      /\ entries \in Seq(File) /\ Len(entries) <= MaxEntries
      /\ at \in [Runner -> {"out", "clean", "lookup", "generate", "evict", "create", "dump", "rename"}]
  BY SizeAssumption, BoundAssumption DEF CacheInv, CacheIsSound, CacheTypeOK
<1>2. Len(entries) \in Nat /\ Total(entries) \in Nat
  BY <1>1, TotalOfNone
<1>3. Temp(r) \in File /\ Temp(r).bytes = 0
  BY <1>1 DEF Temp, File
<1>4. Dumped(r) \in File /\ Dumped(r).bytes = Size[key[r]] /\ Dumped(r).key = key[r]
  BY <1>1 DEF Dumped, File
<1>5. Total(entries) + TempBytes(temps) <= MaxBytes
  BY BytesWithin DEF CacheInv, CacheIsSound
<1>6. TempBytes(temps) \in Nat
  <2>1. CASE temps = {}
    BY <2>1, TempsAdd
  <2>2. ASSUME NEW t \in File, temps = {t}
        PROVE  TempBytes(temps) \in Nat
    <3>1. t.bytes \in Nat
      BY DEF File
    <3> QED
      BY <2>2, <3>1, TempsAdd
  <2> QED
    BY <2>1, <2>2 DEF CacheInv, LeftoverInv
<1> QED
  BY <1>1, <1>2, <1>3, <1>4, <1>5, <1>6

\* While one is inside, the others are not.
LEMMA OthersAreOut ==
  ASSUME CacheInv, NEW r \in Runner, lock = r \/ lock = NoRunner, NEW step, Goto(r, step),
         NEW p \in Runner, p # r
  PROVE  HolderInv(p)'
<1>1. at[p] = "out"
  BY RunnerAssumption DEF CacheInv, HolderInv
<1>2. at'[p] = "out"
  BY <1>1 DEF CacheInv, CacheIsSound, CacheTypeOK, Goto
<1> QED
  BY <1>2 DEF HolderInv

\* A step that leaves the files alone.
LEMMA SameFiles ==
  ASSUME CacheInv, UNCHANGED <<entries, temps>>
  PROVE  /\ WithinBytes' /\ EntriesAreWhole' /\ LeftoverInv'
         /\ (entries \in Seq(File) /\ Len(entries) <= MaxEntries /\ temps \subseteq File)'
<1>1. Total(entries) + TempBytes(temps) <= MaxBytes
  BY BytesWithin DEF CacheInv, CacheIsSound
<1>2. WithinBytes'
  BY <1>1, BytesWithin
<1> QED
  BY <1>2 DEF CacheInv, CacheIsSound, CacheTypeOK, EntriesAreWhole, LeftoverInv

LEMMA EnterKeeps ==
  ASSUME CacheInv, NEW r \in Runner, NEW k \in Key, Enter(r, k)
  PROVE  CacheInv'
<1>1. /\ at[r] = "out" /\ lock = NoRunner /\ lock' = r /\ Goto(r, "clean")
      /\ key' = [key EXCEPT ![r] = k] /\ UNCHANGED <<entries, temps>>
  BY DEF Enter
<1>2. CacheTypeOK'
  BY <1>1, SameFiles DEF CacheInv, CacheIsSound, CacheTypeOK, Goto
<1>3. HolderInv(r)'
  BY <1>1 DEF HolderInv, Goto, CacheInv, CacheIsSound, CacheTypeOK
<1>4. \A p \in Runner : p # r => HolderInv(p)'
  BY <1>1, OthersAreOut
<1> QED
  BY <1>1, <1>2, <1>3, <1>4, SameFiles DEF CacheInv, CacheIsSound

\* The holder goes on, or leaves, without a change of the files.
LEMMA QuietKeeps ==
  ASSUME CacheInv, NEW r \in Runner,
         \/ Miss(r) \/ Generate(r) \/ GenerateFails(r) \/ Crash(r)
         \/ Evict(r) /\ UNCHANGED entries
  PROVE  CacheInv'
<1>1. /\ at[r] # "out" /\ lock = r /\ UNCHANGED <<entries, temps, key>>
  BY DEF Miss, Generate, GenerateFails, Crash, Evict, CacheInv, HolderInv
<1>2. PICK step \in {"out", "generate", "evict", "create"} : Goto(r, step)
  <2>1. CASE Evict(r) /\ UNCHANGED entries
    <3>1. ~(entries # <<>> /\ Full(r))
      <4> SUFFICES ASSUME entries # <<>>, Full(r)
                   PROVE  FALSE
        OBVIOUS
      <4>1. entries' = Tail(entries)
        BY <2>1 DEF Evict
      <4>2. entries \in Seq(File)
        BY HolderFacts
      <4>3. Len(Tail(entries)) # Len(entries)
        BY <4>2, HeadTailProperties
      <4> QED
        BY <2>1, <4>1, <4>3
    <3> QED
      BY <2>1, <3>1 DEF Evict
  <2> QED
    BY <2>1 DEF Miss, Generate, GenerateFails, Crash, LeaveCache
<1>3. lock' \in {r, NoRunner} /\ (step # "out" => lock' = r)
  BY <1>1, <1>2 DEF Miss, Generate, GenerateFails, Crash, Evict, LeaveCache, Goto, CacheInv, CacheIsSound, CacheTypeOK
<1>4. CacheTypeOK'
  BY <1>1, <1>2, <1>3, SameFiles DEF CacheInv, CacheIsSound, CacheTypeOK, Goto
<1>5. \A p \in Runner : p # r => HolderInv(p)'
  BY <1>1, <1>2, OthersAreOut
<1>6. HolderInv(r)'
  <2>0. at'[r] = step /\ key'[r] = key[r]
    BY <1>1, <1>2 DEF Goto, CacheInv, CacheIsSound, CacheTypeOK
  <2>1. CASE step = "out"
    BY <2>0, <2>1 DEF HolderInv
  <2>2. CASE step = "generate"
    <3>1. at[r] = "lookup" /\ ~Cached(key[r])
      BY <2>0, <2>2, <1>1 DEF Miss, Generate, GenerateFails, Crash, Evict, LeaveCache, Goto, CacheInv, CacheIsSound, CacheTypeOK
    <3>2. temps = {}
      BY <3>1 DEF CacheInv, HolderInv
    <3> QED
      BY <1>1, <1>3, <2>0, <2>2, <3>1, <3>2 DEF HolderInv, Cached
  <2>3. CASE step = "evict"
    <3>1. at[r] = "generate" /\ Size[key[r]] <= MaxBytes
      BY <2>0, <2>3, <1>1 DEF Miss, Generate, GenerateFails, Crash, Evict, LeaveCache, Goto, CacheInv, CacheIsSound, CacheTypeOK
    <3>2. temps = {} /\ ~Cached(key[r])
      BY <3>1 DEF CacheInv, HolderInv
    <3> QED
      BY <1>1, <1>3, <2>0, <2>3, <3>1, <3>2 DEF HolderInv, Cached
  <2>4. CASE step = "create"
    <3>1. at[r] = "evict" /\ (entries = <<>> \/ ~Full(r))
      BY <2>0, <2>4, <1>1 DEF Miss, Generate, GenerateFails, Crash, Evict, LeaveCache, Goto, CacheInv, CacheIsSound, CacheTypeOK
    <3>2. temps = {} /\ ~Cached(key[r]) /\ Size[key[r]] <= MaxBytes
      BY <3>1 DEF CacheInv, HolderInv
    <3>3. Len(entries) < MaxEntries /\ Total(entries) + Size[key[r]] <= MaxBytes
      <4>1. CASE entries = <<>>
        BY <3>2, <4>1, HolderFacts, TotalOfNone
      <4>2. CASE ~Full(r)
        BY <4>2, HolderFacts DEF Full
      <4> QED
        BY <3>1, <4>1, <4>2
    <3> QED
      BY <1>1, <1>3, <2>0, <2>4, <3>1, <3>2, <3>3 DEF HolderInv, Cached
  <2> QED
    BY <2>1, <2>2, <2>3, <2>4
<1> QED
  BY <1>1, <1>4, <1>5, <1>6, SameFiles DEF CacheInv, CacheIsSound

\* A step of the holder that keeps the entries.
LEMMA TempsKeep ==
  ASSUME CacheInv, NEW r \in Runner, lock = r,
         NEW step, Goto(r, step),
         step \in {"out", "clean", "lookup", "generate", "evict", "create", "dump", "rename"},
         lock' \in {r, NoRunner}, UNCHANGED <<entries, key>>,
         \/ temps' = {}
         \/ \E t \in File : temps' = {t} /\ Total(entries) + t.bytes <= MaxBytes,
         HolderInv(r)'
  PROVE  CacheInv'
<1>1. temps' \subseteq File /\ LeftoverInv'
  BY DEF LeftoverInv
<1>2. CacheTypeOK'
  BY <1>1 DEF CacheInv, CacheIsSound, CacheTypeOK, Goto
<1>3. EntriesAreWhole'
  BY DEF CacheInv, CacheIsSound, EntriesAreWhole
<1>4. Total(entries) \in Nat /\ Total(entries) <= MaxBytes
  BY HolderFacts
<1>5. Total(entries') + TempBytes(temps') <= MaxBytes
  <2>1. CASE temps' = {}
    <3>1. TempBytes(temps') = 0
      BY <2>1, TempsAdd
    <3> QED
      BY <1>4, <3>1
  <2>2. ASSUME NEW t \in File, temps' = {t}, Total(entries) + t.bytes <= MaxBytes
        PROVE  Total(entries') + TempBytes(temps') <= MaxBytes
    <3>1. TempBytes(temps') = t.bytes
      BY <2>2, TempsAdd
    <3> QED
      BY <2>2, <3>1
  <2> QED
    BY <2>1, <2>2
<1>6. WithinBytes'
  BY <1>5, BytesWithin
<1>7. \A p \in Runner : p # r => HolderInv(p)'
  BY OthersAreOut
<1> QED
  BY <1>1, <1>2, <1>3, <1>6, <1>7 DEF CacheInv, CacheIsSound

LEMMA CleanKeeps ==
  ASSUME CacheInv, NEW r \in Runner, RemoveLeftovers(r)
  PROVE  CacheInv'
<1>1. lock = r /\ Goto(r, "lookup") /\ temps' = {} /\ UNCHANGED <<lock, entries, key>>
  BY HolderFacts DEF RemoveLeftovers, HolderInv
<1>2. at'[r] = "lookup"
  BY <1>1, HolderFacts DEF Goto
<1>3. HolderInv(r)'
  BY <1>1, <1>2 DEF HolderInv
<1> QED
  BY <1>1, <1>3, TempsKeep

LEMMA WriteKeeps ==
  ASSUME CacheInv, NEW r \in Runner, Create(r) \/ Dump(r) \/ WriteFails(r)
  PROVE  CacheInv'
<1>1. /\ at[r] \in {"create", "dump", "rename"} /\ lock = r /\ UNCHANGED <<entries, key>>
      /\ ~Cached(key[r]) /\ Size[key[r]] <= MaxBytes
      /\ Len(entries) < MaxEntries /\ Total(entries) + Size[key[r]] <= MaxBytes
  BY HolderFacts DEF Create, Dump, WriteFails, HolderInv
<1>2. ~Cached(key[r])'
  BY <1>1 DEF Cached
<1>3. Total(entries) \in Nat /\ Total(entries) <= MaxBytes
  BY HolderFacts
<1>4. CASE Create(r)
  <2>1. /\ temps = {} /\ temps' = {Temp(r)} /\ Goto(r, "dump") /\ lock' = r
    BY <1>1, <1>4, HolderFacts DEF Create, HolderInv
  <2>2. at'[r] = "dump" /\ Temp(r)' = Temp(r)
    BY <1>1, <2>1, HolderFacts DEF Goto, Temp
  <2>3. HolderInv(r)'
    BY <1>1, <1>2, <2>1, <2>2 DEF HolderInv
  <2>4. Temp(r) \in File /\ Total(entries) + Temp(r).bytes <= MaxBytes
    BY <1>3, HolderFacts
  <2>5. \E t \in File : temps' = {t} /\ Total(entries) + t.bytes <= MaxBytes
    BY <2>1, <2>4
  <2> QED
    BY <1>1, <2>1, <2>3, <2>5, TempsKeep
<1>5. CASE Dump(r)
  <2>1. /\ temps = {Temp(r)} /\ Goto(r, "rename") /\ lock' = r
        /\ temps' = (temps \ {Temp(r)}) \cup {Dumped(r)}
    BY <1>1, <1>5, HolderFacts DEF Dump, HolderInv
  <2>2. at'[r] = "rename" /\ Dumped(r)' = Dumped(r) /\ temps' = {Dumped(r)}
    BY <1>1, <2>1, HolderFacts DEF Goto, Dumped
  <2>3. HolderInv(r)'
    BY <1>1, <1>2, <2>1, <2>2 DEF HolderInv
  <2>4. Dumped(r) \in File /\ Total(entries) + Dumped(r).bytes <= MaxBytes
    BY <1>1, HolderFacts
  <2>5. \E t \in File : temps' = {t} /\ Total(entries) + t.bytes <= MaxBytes
    BY <2>2, <2>4
  <2> QED
    BY <1>1, <2>1, <2>3, <2>5, TempsKeep
<1>6. CASE WriteFails(r)
  <2>1. Goto(r, "out") /\ lock' = NoRunner /\ temps' = temps \ {Temp(r), Dumped(r)}
    BY <1>6 DEF WriteFails, LeaveCache
  <2>2. temps' = {}
    BY <1>6, <2>1, HolderFacts DEF WriteFails, HolderInv
  <2>3. at'[r] = "out"
    BY <2>1, HolderFacts DEF Goto
  <2>4. HolderInv(r)'
    BY <2>3 DEF HolderInv
  <2> QED
    BY <1>1, <2>1, <2>2, <2>4, TempsKeep
<1> QED
  BY <1>4, <1>5, <1>6

\* A step of the holder that changes the entries while no temporary file is
\* left, or renames the one there is.
LEMMA EntriesKeep ==
  ASSUME CacheInv, NEW r \in Runner, lock = r,
         NEW step, at' = [at EXCEPT ![r] = step],
         step \in {"out", "evict"},
         lock' \in {r, NoRunner}, UNCHANGED key, temps' = {},
         entries' \in Seq(File), Len(entries') <= MaxEntries,
         Total(entries') <= MaxBytes, EntriesAreWhole',
         HolderInv(r)'
  PROVE  CacheInv'
<1>1. CacheTypeOK'
  BY DEF CacheInv, CacheIsSound, CacheTypeOK
<1>2. Total(entries') \in Nat /\ TempBytes(temps') = 0
  BY TotalOfNone, TempsAdd
<1>3. Total(entries') + TempBytes(temps') <= MaxBytes
  BY <1>2, HolderFacts
<1>4. WithinBytes' /\ LeftoverInv'
  BY <1>3, BytesWithin DEF LeftoverInv
<1>5. \A p \in Runner : p # r => HolderInv(p)'
  BY OthersAreOut DEF Goto
<1> QED
  BY <1>1, <1>4, <1>5 DEF CacheInv, CacheIsSound

LEMMA RenameKeeps ==
  ASSUME CacheInv, NEW r \in Runner, Rename(r)
  PROVE  CacheInv'
<1>1. /\ lock = r /\ lock' = NoRunner /\ Goto(r, "out") /\ UNCHANGED key
      /\ temps = {Dumped(r)} /\ temps' = temps \ {Dumped(r)} /\ entries' = Append(entries, Dumped(r))
      /\ ~Cached(key[r]) /\ Len(entries) < MaxEntries /\ Total(entries) + Size[key[r]] <= MaxBytes
  BY HolderFacts DEF Rename, LeaveCache, HolderInv
<1>2. at'[r] = "out" /\ temps' = {}
  BY <1>1, HolderFacts DEF Goto
<1>3. HolderInv(r)'
  BY <1>2 DEF HolderInv
<1>4. PICK f : f = Dumped(r)
  OBVIOUS
<1>5. f \in File /\ f.key = key[r] /\ f.bytes = Size[key[r]] /\ entries \in Seq(File) /\ Len(entries) \in Nat
  BY <1>4, HolderFacts
<1>6. /\ entries' \in Seq(File) /\ Len(entries') = Len(entries) + 1 /\ DOMAIN entries' = 1..Len(entries) + 1
      /\ entries'[Len(entries) + 1] = f /\ \A i \in 1..Len(entries) : entries'[i] = entries[i]
  BY <1>1, <1>4, <1>5, AppendProperties
<1>7. Len(entries') <= MaxEntries
  BY <1>1, <1>5, <1>6, HolderFacts
<1>8. Total(entries') <= MaxBytes
  <2>1. Total(entries') = Total(entries) + f.bytes
    BY <1>1, <1>4, <1>5, TotalAppended
  <2> QED
    BY <1>1, <1>5, <2>1
<1>9. EntriesAreWhole'
  <2>1. \A i \in 1..Len(entries) : entries[i].bytes = Size[entries[i].key] /\ entries[i].key # key[r]
    BY <1>1, <1>5 DEF CacheInv, CacheIsSound, EntriesAreWhole, Cached
  <2>2. \A i, j \in 1..Len(entries) : entries[i].key = entries[j].key => i = j
    BY <1>5 DEF CacheInv, CacheIsSound, EntriesAreWhole
  <2>3. \A i \in DOMAIN entries' : i \in 1..Len(entries) \/ i = Len(entries) + 1
    BY <1>5, <1>6
  <2>4. \A i \in DOMAIN entries' : entries'[i].bytes = Size[entries'[i].key]
    BY <1>5, <1>6, <2>1, <2>3
  <2>5. \A i, j \in DOMAIN entries' : entries'[i].key = entries'[j].key => i = j
    BY <1>5, <1>6, <2>1, <2>2, <2>3
  <2> QED
    BY <2>4, <2>5 DEF EntriesAreWhole
<1> QED
  BY <1>1, <1>2, <1>3, <1>6, <1>7, <1>8, <1>9, EntriesKeep DEF Goto

LEMMA EvictKeeps ==
  ASSUME CacheInv, NEW r \in Runner, Evict(r), ~UNCHANGED entries
  PROVE  CacheInv'
<1>1. /\ at[r] = "evict" /\ lock = r /\ temps = {} /\ ~Cached(key[r]) /\ Size[key[r]] <= MaxBytes
      /\ entries # <<>> /\ entries' = Tail(entries) /\ UNCHANGED <<lock, temps, key, at>>
  BY HolderFacts DEF Evict, HolderInv
<1>2. PICK e : e = entries'
  OBVIOUS
<1>3. /\ entries \in Seq(File) /\ Len(entries) \in Nat /\ e \in Seq(File) /\ Len(e) = Len(entries) - 1
      /\ DOMAIN e = 1..Len(entries) - 1 /\ \A i \in 1..Len(entries) - 1 : e[i] = entries[i + 1]
  BY <1>1, <1>2, HolderFacts, HeadTailProperties
<1>4. Total(e) <= MaxBytes
  <2>1. PICK f \in File : f = Head(entries)
    BY <1>1, <1>3, HeadTailProperties
  <2>2. Total(entries) = f.bytes + Total(e) /\ Total(e) \in Nat
    BY <1>1, <1>2, <1>3, <2>1, TotalOfTail, TotalOfNone
  <2>3. f.bytes \in Nat
    BY DEF File
  <2> QED
    BY <2>2, <2>3, HolderFacts
<1>5. \A i \in DOMAIN e : i + 1 \in DOMAIN entries /\ e[i] = entries[i + 1] /\ i \in Nat
  BY <1>3
<1>6. EntriesAreWhole'
  <2>1. \A i \in DOMAIN e : e[i].bytes = Size[e[i].key]
    BY <1>5 DEF CacheInv, CacheIsSound, EntriesAreWhole
  <2>2. ASSUME NEW i \in DOMAIN e, NEW j \in DOMAIN e, e[i].key = e[j].key
        PROVE  i = j
    <3>1. i + 1 = j + 1
      BY <1>5, <2>2 DEF CacheInv, CacheIsSound, EntriesAreWhole
    <3> QED
      BY <1>5, <3>1
  <2> QED
    BY <1>2, <2>1, <2>2 DEF EntriesAreWhole
<1>7. HolderInv(r)'
  <2>1. ~Cached(key[r])'
    BY <1>1, <1>2, <1>5 DEF Cached
  <2> QED
    BY <1>1, <2>1 DEF HolderInv
<1>8. at' = [at EXCEPT ![r] = "evict"]
  BY <1>1, HolderFacts
<1>9. Len(e) <= MaxEntries
  BY <1>3, HolderFacts
<1> QED
  BY <1>1, <1>2, <1>3, <1>4, <1>6, <1>7, <1>8, <1>9, EntriesKeep

LEMMA HitKeeps ==
  ASSUME CacheInv, NEW r \in Runner, Hit(r)
  PROVE  CacheInv'
<1>1. /\ at[r] = "lookup" /\ lock = r /\ temps = {} /\ temps' = {} /\ UNCHANGED key
      /\ lock' = NoRunner /\ Goto(r, "out")
  BY HolderFacts DEF Hit, LeaveCache, HolderInv
<1>2. at'[r] = "out" /\ HolderInv(r)'
  BY <1>1, HolderFacts DEF Goto, HolderInv
<1>3. CASE UNCHANGED entries
  BY <1>1, <1>2, <1>3, TempsKeep
<1>4. ASSUME NEW i \in DOMAIN entries, entries' = Append(RemoveAt(entries, i), entries[i])
      PROVE  CacheInv'
  <2>0. PICK n : n = Len(entries)
    OBVIOUS
  <2>1. PICK p : p = RemoveAt(entries, i)
    OBVIOUS
  <2>2. PICK e : e = entries'
    OBVIOUS
  <2>3. /\ entries \in Seq(File) /\ n \in Nat /\ DOMAIN entries = 1..n /\ i \in 1..n
        /\ entries[i] \in File /\ entries[i].bytes \in Nat
    BY <2>0, HolderFacts, FilesAreFinite
  <2>4. /\ p \in Seq(File) /\ Len(p) = n - 1 /\ Total(entries) = entries[i].bytes + Total(p)
        /\ \A j \in 1..n - 1 : p[j] = IF j < i THEN entries[j] ELSE entries[j + 1]
    BY <2>0, <2>1, <2>3, TotalWithoutOne
  <2>5. /\ e \in Seq(File) /\ Len(e) = (n - 1) + 1 /\ DOMAIN e = 1..(n - 1) + 1
        /\ e[(n - 1) + 1] = entries[i] /\ \A j \in 1..n - 1 : e[j] = p[j]
    <3>1. n - 1 \in Nat
      BY <2>3
    <3>2. e = Append(p, entries[i])
      BY <1>4, <2>1, <2>2
    <3> QED
      BY <2>3, <2>4, <3>1, <3>2, AppendProperties
  <2>6. DOMAIN e = 1..n /\ Len(e) = n /\ e[n] = entries[i]
    BY <2>3, <2>5
  <2>7. Total(e) = Total(entries)
    <3>1. Total(e) = Total(p) + entries[i].bytes
      BY <1>4, <2>1, <2>2, <2>3, <2>4, TotalAppended
    <3>2. Total(p) \in Nat
      BY <2>4, TotalOfNone
    <3> QED
      BY <2>3, <2>4, <3>1, <3>2
  <2> DEFINE old == [j \in 1..n |-> IF j = n THEN i ELSE IF j < i THEN j ELSE j + 1]
  <2>8. \A j \in 1..n : old[j] \in 1..n /\ e[j] = entries[old[j]]
    <3> SUFFICES ASSUME NEW j \in 1..n
                 PROVE  old[j] \in 1..n /\ e[j] = entries[old[j]]
      OBVIOUS
    <3>1. CASE j = n
      BY <2>3, <2>6, <3>1
    <3>2. CASE j # n
      <4>1. j \in 1..n - 1
        BY <2>3, <3>2
      <4>2. e[j] = IF j < i THEN entries[j] ELSE entries[j + 1]
        BY <2>4, <2>5, <4>1
      <4>3. old[j] = IF j < i THEN j ELSE j + 1
        BY <3>2
      <4> HIDE DEF old
      <4> QED
        BY <2>3, <4>1, <4>2, <4>3
    <3> QED
      BY <3>1, <3>2
  <2>9. ASSUME NEW j \in 1..n, NEW k \in 1..n, old[j] = old[k]
        PROVE  j = k
    <3>0. \A x \in 1..n : old[x] = IF x = n THEN i ELSE IF x < i THEN x ELSE x + 1
      OBVIOUS
    <3>1. ASSUME NEW x \in 1..n, NEW y \in Int, y = old[x]
          PROVE  (x = n /\ y = i) \/ (x # n /\ x < i /\ y = x) \/ (x # n /\ x >= i /\ y = x + 1)
      <4>1. y = IF x = n THEN i ELSE IF x < i THEN x ELSE x + 1
        BY <3>0, <3>1
      <4>2. x \in Int /\ n \in Int /\ i \in Int
        BY <2>3
      <4> HIDE DEF old
      <4> QED
        BY ONLY <4>1, <4>2
    <3>2. PICK y \in Int : y = old[j] /\ y = old[k]
      BY <2>8, <2>9
    <3>3. j \in Int /\ k \in Int /\ n \in Int /\ i \in Int
      BY <2>3
    <3> HIDE DEF old
    <3>4. (j = n /\ y = i) \/ (j # n /\ j < i /\ y = j) \/ (j # n /\ j >= i /\ y = j + 1)
      BY <3>1, <3>2
    <3>5. (k = n /\ y = i) \/ (k # n /\ k < i /\ y = k) \/ (k # n /\ k >= i /\ y = k + 1)
      BY <3>1, <3>2
    <3> QED
      BY <3>3, <3>4, <3>5
  <2> HIDE DEF old
  <2>10. EntriesAreWhole'
    <3>1. \A j \in 1..n : e[j].bytes = Size[e[j].key]
      BY <2>3, <2>8 DEF CacheInv, CacheIsSound, EntriesAreWhole
    <3>2. ASSUME NEW j \in 1..n, NEW k \in 1..n, e[j].key = e[k].key
          PROVE  j = k
      <4>1. old[j] = old[k]
        BY <2>3, <2>8, <3>2 DEF CacheInv, CacheIsSound, EntriesAreWhole
      <4> QED
        BY <2>9, <4>1
    <3> QED
      BY <2>2, <2>6, <3>1, <3>2 DEF EntriesAreWhole
  <2>11. Len(e) <= MaxEntries /\ Total(e) <= MaxBytes
    BY <2>0, <2>6, <2>7, HolderFacts
  <2> QED
    BY <1>1, <1>2, <2>2, <2>5, <2>10, <2>11, EntriesKeep DEF Goto
<1> QED
  BY <1>3, <1>4 DEF Hit

LEMMA CacheStep == CacheInv /\ [CacheNext]_cacheVars => CacheInv'
<1> SUFFICES ASSUME CacheInv, [CacheNext]_cacheVars
             PROVE  CacheInv'
  OBVIOUS
<1>1. CASE UNCHANGED cacheVars
  BY <1>1, SameFiles DEF cacheVars, CacheInv, CacheIsSound, CacheTypeOK, HolderInv, Cached, Temp, Dumped
<1>2. ASSUME NEW r \in Runner, Step(r)
      PROVE  CacheInv'
  BY <1>2, CleanKeeps, HitKeeps, QuietKeeps, EvictKeeps, WriteKeeps, RenameKeeps DEF Step
<1>3. ASSUME NEW r \in Runner, Crash(r)
      PROVE  CacheInv'
  BY <1>3, QuietKeeps
<1>4. ASSUME NEW r \in Runner, Refuse(r)
      PROVE  CacheInv'
  BY <1>1, <1>4 DEF Refuse
<1>5. ASSUME NEW r \in Runner, NEW k \in Key, Enter(r, k)
      PROVE  CacheInv'
  BY <1>5, EnterKeeps
<1> QED
  BY <1>1, <1>2, <1>3, <1>4, <1>5 DEF CacheNext

\* For any number of runners, references and crashes, the directory stays
\* within its bytes and entries, and a file with the name of a reference is the
\* whole reference (reference_cache.py).
THEOREM CacheStaysSound == CacheSpec => []CacheIsSound
<1>1. CacheInit => CacheInv
  <2> SUFFICES ASSUME CacheInit
               PROVE  CacheInv
    OBVIOUS
  <2>1. /\ entries = <<>> /\ temps = {} /\ lock = NoRunner /\ key \in [Runner -> Key]
        /\ at = [r \in Runner |-> "out"] /\ <<>> \in Seq(File) /\ DOMAIN <<>> = {} /\ Len(<<>>) = 0
    BY DEF CacheInit
  <2>2. CacheTypeOK
    BY <2>1, BoundAssumption DEF CacheTypeOK
  <2>3. EntriesAreWhole /\ LeftoverInv /\ \A r \in Runner : HolderInv(r)
    BY <2>1 DEF EntriesAreWhole, LeftoverInv, HolderInv
  <2>4. Total(entries) = 0 /\ TempBytes(temps) = 0
    BY <2>1, TotalOfNone, TempsAdd
  <2>5. WithinBytes
    BY <2>4, BytesWithin, BoundAssumption
  <2> QED
    BY <2>2, <2>3, <2>5 DEF CacheInv, CacheIsSound
<1>2. CacheInv => CacheIsSound
  BY DEF CacheInv
<1> QED
  BY <1>1, <1>2, CacheStep, PTL DEF CacheSpec
=============================================================================
