------------------------------ MODULE FindNonzero ------------------------------
(***************************************************************************)
(* The kernel find_nonzero_indices (core/subkernels): two NeuronCores,     *)
(* each with half of the columns, write the positions of the nonzero       *)
(* elements of every column and their number to shared HBM.  A round       *)
(* serves one column per GpSimd core; a quadrant of the partitions has two *)
(* GpSimd cores, and a store reads the first partition of a quadrant only. *)
(* Elements are nonzero or not; buffers start with anything in them.       *)
(***************************************************************************)
EXTENDS Integers, Sequences, FiniteSets

CONSTANTS
    Matrices,  \* inputs: sequences, one per column, of the sets of nonzero positions
    Tokens,    \* T_DIM
    Chunks,    \* values of chunk_size; each divides Tokens
    Columns,   \* C: n_cols, or all columns
    Starts,    \* values of col_start_id; 0 for none
    Quadrants  \* quadrants with two GpSimd cores each (_NUM_QUADRANTS)

Shards == {0, 1}
PerShard == Columns \div 2
Lanes == 2 * Quadrants

ASSUME FindAssumption ==
    /\ Tokens \in Nat \ {0} /\ Quadrants \in Nat \ {0} /\ Starts \subseteq Nat
    /\ Columns \in Nat \ {0} /\ Columns % 2 = 0
    /\ \A c \in Chunks : c \in 1..Tokens /\ Tokens % c = 0
    /\ \A m \in Matrices : m \in Seq(SUBSET (0..Tokens - 1)) /\ \A s \in Starts : Len(m) >= s + Columns

VARIABLES
    matrix, chunkSize, colStart,  \* the call
    indices, counts,              \* the outputs in shared HBM
    at,                           \* what each core does next
    round, chunk,                 \* the loops of each core
    offsets,                      \* offsets of each core: written so far in each column of the round
    readable, behind,             \* indices_sbuf: the two partitions of each quadrant that hold results
    localCounts                   \* nonzero_counts_local

findVars == <<matrix, chunkSize, colStart, indices, counts, at, round, chunk, offsets, readable, behind, localCounts>>
call == <<matrix, chunkSize, colStart>>

Pad == -1
Junk == -2  \* memory that nothing has been written to

NumChunks == Tokens \div chunkSize
FirstColumn(s) == PerShard * s
ColumnsThisRound(s) == LET left == PerShard - Lanes * round[s] IN IF Lanes <= left THEN Lanes ELSE left
OutColumn(s, lane) == FirstColumn(s) + round[s] * Lanes + lane

\* The numbers of S, each after those below it.
Below(S, x) == {y \in S : y < x}
Ascending(S) == [i \in 1..Cardinality(S) |-> CHOOSE x \in S : Cardinality(Below(S, x)) = i - 1]

\* nonzero_with_count: positions, then padding; the count comes last.
NonzeroWithCount(column, first) ==
    LET found == Ascending(column \cap first..first + chunkSize - 1)
    IN [list |-> [i \in 0..chunkSize - 1 |-> IF i < Len(found) THEN found[i + 1] ELSE Pad], count |-> Len(found)]
NoResult == [list |-> [i \in 0..Tokens - 1 |-> Junk], count |-> Junk]

FindInit ==
    /\ matrix \in Matrices /\ chunkSize \in Chunks /\ colStart \in Starts
    /\ indices = [c \in 0..Columns - 1 |-> [i \in 0..Tokens - 1 |-> Junk]]
    /\ counts = [c \in 0..Columns - 1 |-> Junk]
    /\ at = [s \in Shards |-> "pad"]
    /\ round = [s \in Shards |-> 0] /\ chunk = [s \in Shards |-> 0]
    /\ offsets = [s \in Shards |-> [l \in 0..Lanes - 1 |-> 0]]
    /\ readable = [s \in Shards |-> [q \in 0..Quadrants - 1 |-> NoResult]]
    /\ behind = [s \in Shards |-> [q \in 0..Quadrants - 1 |-> NoResult]]
    /\ localCounts = [s \in Shards |-> [c \in 0..PerShard - 1 |-> 0]]

\* Mutant: a chunk's padding is taken to be enough.
NoPadding(s) ==
    /\ at[s] = "pad"
    /\ at' = [at EXCEPT ![s] = "find"]
    /\ UNCHANGED <<call, indices, counts, round, chunk, offsets, readable, behind, localCounts>>

\* With several chunks the core's half of the output is filled with padding.
PadOutput(s) ==
    /\ at[s] = "pad"
    /\ at' = [at EXCEPT ![s] = "find"]
    /\ indices' = [c \in 0..Columns - 1 |->
                     IF NumChunks > 1 /\ c \in FirstColumn(s)..FirstColumn(s) + PerShard - 1
                     THEN [i \in 0..Tokens - 1 |-> Pad] ELSE indices[c]]
    /\ UNCHANGED <<call, counts, round, chunk, offsets, readable, behind, localCounts>>

\* Load, scatter to the GpSimd partitions, transpose, search.
FindChunk(s) ==
    /\ at[s] = "find"
    /\ LET result(lane) ==
               IF lane < ColumnsThisRound(s)
               THEN NonzeroWithCount(matrix[colStart + OutColumn(s, lane) + 1], chunk[s] * chunkSize) ELSE NoResult
       IN /\ readable' = [readable EXCEPT ![s] = [q \in DOMAIN @ |-> result(2 * q)]]
          /\ behind' = [behind EXCEPT ![s] = [q \in DOMAIN @ |-> result(2 * q + 1)]]
    /\ at' = [at EXCEPT ![s] = "store even"]
    /\ UNCHANGED <<call, indices, counts, round, chunk, offsets, localCounts>>

\* _store_indices_and_count for one parity of the columns: chunk_size values
\* from where the column's last store ended.
Store(s, parity) ==
    LET lanes == {l \in 0..ColumnsThisRound(s) - 1 : l % 2 = parity}
        stored(l) == readable[s][l \div 2]
    IN /\ indices' = [c \in 0..Columns - 1 |->
              IF \E l \in lanes : OutColumn(s, l) = c
              THEN LET l == CHOOSE x \in lanes : OutColumn(s, x) = c
                   IN [i \in 0..Tokens - 1 |->
                         IF i - offsets[s][l] \in 0..chunkSize - 1 THEN stored(l).list[i - offsets[s][l]] ELSE indices[c][i]]
              ELSE indices[c]]
       /\ offsets' = [offsets EXCEPT ![s] = [l \in DOMAIN @ |-> IF l \in lanes THEN @[l] + stored(l).count ELSE @[l]]]

StoreEven(s) ==
    /\ at[s] = "store even" /\ Store(s, 0)
    /\ at' = [at EXCEPT ![s] = "shuffle"]
    /\ UNCHANGED <<call, counts, round, chunk, readable, behind, localCounts>>

\* nc_stream_shuffle: the second result of every quadrant, over the first.
Shuffle(s) ==
    /\ at[s] = "shuffle"
    /\ readable' = [readable EXCEPT ![s] = behind[s]]
    /\ at' = [at EXCEPT ![s] = "store odd"]
    /\ UNCHANGED <<call, indices, counts, round, chunk, offsets, behind, localCounts>>

StoreOdd(s) ==
    /\ at[s] = "store odd" /\ Store(s, 1)
    /\ at' = [at EXCEPT ![s] = IF chunk[s] + 1 < NumChunks THEN "find" ELSE "count"]
    /\ chunk' = [chunk EXCEPT ![s] = IF @ + 1 < NumChunks THEN @ + 1 ELSE 0]
    /\ UNCHANGED <<call, counts, round, readable, behind, localCounts>>

EndRound(s) ==
    /\ at[s] = "count"
    /\ localCounts' = [localCounts EXCEPT ![s] =
           [c \in DOMAIN @ |-> IF c - round[s] * Lanes \in 0..ColumnsThisRound(s) - 1 THEN offsets[s][c - round[s] * Lanes] ELSE @[c]]]
    /\ offsets' = [offsets EXCEPT ![s] = [l \in DOMAIN @ |-> 0]]
    /\ round' = [round EXCEPT ![s] = @ + 1]
    /\ at' = [at EXCEPT ![s] = IF (round[s] + 1) * Lanes < PerShard THEN "find" ELSE "write"]
    /\ UNCHANGED <<call, indices, counts, chunk, readable, behind>>

WriteCounts(s) ==
    /\ at[s] = "write"
    /\ counts' = [c \in 0..Columns - 1 |->
                    IF c - FirstColumn(s) \in 0..PerShard - 1 THEN localCounts[s][c - FirstColumn(s)] ELSE counts[c]]
    /\ at' = [at EXCEPT ![s] = "done"]
    /\ UNCHANGED <<call, indices, round, chunk, offsets, readable, behind, localCounts>>

FindNext == \E s \in Shards : PadOutput(s) \/ FindChunk(s) \/ StoreEven(s) \/ Shuffle(s) \/ StoreOdd(s) \/ EndRound(s) \/ WriteCounts(s)
FindSpec == FindInit /\ [][FindNext]_findVars

-----------------------------------------------------------------------------
\* When both cores are done the outputs are what the kernel's pseudocode says:
\* every column's positions in ascending order, padding after them, and their
\* number, whatever the memory held before and however the cores interleave.
FindsAllNonzeros ==
    (\A s \in Shards : at[s] = "done") =>
        \A c \in 0..Columns - 1 :
            LET column == matrix[colStart + c + 1]
            IN /\ counts[c] = Cardinality(column)
               /\ \A i \in 0..Tokens - 1 :
                    IF i < Cardinality(column)
                    THEN /\ indices[c][i] \in column
                         /\ Cardinality({t \in column : t < indices[c][i]}) = i
                    ELSE indices[c][i] = Pad
===============================================================================
