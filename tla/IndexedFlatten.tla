---------------------------- MODULE IndexedFlatten ----------------------------
(***************************************************************************)
(* The kernel indexed_flatten (core/subkernels): the rows of a tensor are  *)
(* written, block by block, where each row's offset says.  Two NeuronCores *)
(* each write half of the rows to a buffer of their own, exchange it and   *)
(* keep the element-wise maximum; core 0 writes the output.  A block is    *)
(* one value here, f_len equal elements of the real one.                   *)
(***************************************************************************)
EXTENDS Integers, Sequences

CONSTANTS
    Flattens,  \* the calls: [rows, offsets, start, blocks, padding]
    PMax       \* partitions written by one DMA (nl.tile_size.pmax)

\* `rows` are equally long sequences of blocks, `blocks` is output_len \div f_len,
\* `start` is row_offsets_start, 0 for none.
ASSUME FlattenAssumption ==
    /\ PMax \in Nat \ {0}
    /\ \A f \in Flattens :
         /\ f.rows \in Seq(Seq(Int)) /\ f.rows # <<>> /\ f.rows[1] # <<>> /\ f.offsets \in Seq(Int)
         /\ f.blocks \in Nat \ {0} /\ f.start \in Nat /\ f.padding \in Int
         /\ Len(f.offsets) >= f.start + Len(f.rows) /\ (f.start = 0 => Len(f.offsets) = Len(f.rows))
         /\ \A i \in DOMAIN f.rows : Len(f.rows[i]) = Len(f.rows[1])

VARIABLES
    flatten,   \* the call
    step,      \* what each core does next
    row,       \* row_idx_local of each core
    tile,      \* partition_tile_idx of each core
    partial,   \* flattened_array_partial of each core
    sent,      \* what each core sent to the other; <<>> before
    output     \* flattened_array; <<>> before

flattenVars == <<flatten, step, row, tile, partial, sent, output>>

Cores == {0, 1}
NumRows == Len(flatten.rows)
PartitionsPerRow == Len(flatten.rows[1])
PartitionTiles == (PartitionsPerRow + PMax - 1) \div PMax

\* Core 0 gets the odd row; both loop as often as core 0.
RowsOfFirst == (NumRows + 1) \div 2
RowsOf(c) == IF c = 0 THEN RowsOfFirst ELSE NumRows \div 2
RowOffset(c) == IF c = 0 THEN 0 ELSE RowsOfFirst

InvalidOffset == -1000000

\* Mutant: row_offsets_start is forgotten.
OffsetOfFirst(c) == IF row[c] < RowsOf(c) THEN flatten.offsets[RowOffset(c) + row[c] + 1] ELSE InvalidOffset

\* row_offsets_local: a core without a row in an iteration has an offset that
\* no block of it survives.
OffsetOf(c) == IF row[c] < RowsOf(c) THEN flatten.offsets[flatten.start + RowOffset(c) + row[c] + 1] ELSE InvalidOffset
\* row_idx is clamped to the last row.
RowRead(c) == LET r == row[c] + RowOffset(c) IN flatten.rows[(IF r <= NumRows - 1 THEN r ELSE NumRows - 1) + 1]

FlattenInit ==
    /\ flatten \in Flattens
    /\ step = [c \in Cores |-> "fill"]
    /\ row = [c \in Cores |-> 0] /\ tile = [c \in Cores |-> 0]
    /\ partial = [c \in Cores |-> <<>>] /\ sent = [c \in Cores |-> <<>>] /\ output = <<>>

Fill(c) ==
    /\ step[c] = "fill"
    /\ partial' = [partial EXCEPT ![c] = [b \in 0..flatten.blocks - 1 |-> flatten.padding]]
    /\ step' = [step EXCEPT ![c] = "rows"]
    /\ UNCHANGED <<flatten, row, tile, sent, output>>

\* One DMA: the tile's blocks, those out of bounds skipped.
WriteTile(c) ==
    /\ step[c] = "rows"
    /\ LET first == tile[c] * PMax
           count == IF PMax <= PartitionsPerRow - first THEN PMax ELSE PartitionsPerRow - first
       IN partial' = [partial EXCEPT ![c] = [b \in DOMAIN @ |->
              LET p == b - OffsetOf(c)
              IN IF p \in first..first + count - 1 THEN RowRead(c)[p + 1] ELSE @[b]]]
    /\ LET lastTile == tile[c] + 1 = PartitionTiles
           lastRow == row[c] + 1 = RowsOfFirst
       IN /\ tile' = [tile EXCEPT ![c] = IF lastTile THEN 0 ELSE @ + 1]
          /\ row' = [row EXCEPT ![c] = IF lastTile THEN @ + 1 ELSE @]
          /\ step' = [step EXCEPT ![c] = IF lastTile /\ lastRow THEN "send" ELSE @]
    /\ UNCHANGED <<flatten, sent, output>>

\* sendrecv: the send, then the receive, which waits for the other core.
Send(c) ==
    /\ step[c] = "send"
    /\ sent' = [sent EXCEPT ![c] = partial[c]]
    /\ step' = [step EXCEPT ![c] = "receive"]
    /\ UNCHANGED <<flatten, row, tile, partial, output>>

Receive(c) ==
    /\ step[c] = "receive" /\ sent[1 - c] # <<>>
    /\ partial' = [partial EXCEPT ![c] = [b \in DOMAIN @ |-> IF @[b] >= sent[1 - c][b] THEN @[b] ELSE sent[1 - c][b]]]
    /\ output' = IF c = 0 THEN partial'[c] ELSE output
    /\ step' = [step EXCEPT ![c] = "done"]
    /\ UNCHANGED <<flatten, row, tile, sent>>

FlattenNext == \E c \in Cores : Fill(c) \/ WriteTile(c) \/ Send(c) \/ Receive(c)
FlattenSpec == FlattenInit /\ [][FlattenNext]_flattenVars

-----------------------------------------------------------------------------
\* indexed_flatten_torch_ref: a later row overwrites an earlier one.
Flattened(f) ==
    [b \in 0..f.blocks - 1 |->
        LET hits == {e \in DOMAIN f.rows : b - f.offsets[f.start + e] \in 0..Len(f.rows[e]) - 1}
        IN IF hits = {} THEN f.padding
           ELSE LET last == CHOOSE e \in hits : \A d \in hits : d <= e
                IN f.rows[last][b - f.offsets[f.start + last] + 1]]

\* The output is that of the reference, indexed_flatten_torch.py.
FlattensLikeReference == output # <<>> => output = Flattened(flatten)
===============================================================================
