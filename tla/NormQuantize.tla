---------------------------- MODULE NormQuantize ----------------------------
(***************************************************************************)
(* rmsnorm_mx_quantize_tkg: residual add, RMS normalisation and MX         *)
(* quantization of the tokens of two cores, each its half, gathered on     *)
(* both, and the sums spilled to HBM.  As in NormKernels what moves is     *)
(* modelled element by element, and arithmetic is abstracted away: a sum   *)
(* is the pair of the addresses of its terms.                              *)
(*                                                                         *)
(* The arrays are kept by token: [H0, B*S, H1] is a function from token to *)
(* a function from <<h0, h1>>.  Buffers that the code addresses by a flat  *)
(* pattern (.ap) are functions from the flat address.                      *)
(***************************************************************************)
EXTENDS Integers, Sequences, FiniteSetsExt

CONSTANTS
    Partitions,         \* nl.tile_size.pmax
    QWidth,             \* _q_width: values quantized into one element; 512 is QWidth * Partitions
    MinTile, MaxTile,   \* of tokens, powers of two
    Quantizations       \* the calls: [tokens, groups, residual, half], with H = 512 * groups

ASSUME QuantizeAssumption ==
    /\ {Partitions, MinTile, MaxTile} \subseteq Nat \ {0} /\ QWidth \in {1, 2, 4}
    /\ \A q \in Quantizations : {q.tokens, q.groups} \subseteq Nat \ {0} /\ {q.residual, q.half} \subseteq BOOLEAN

VARIABLES
    quant,      \* the call
    doing,      \* per core: what it does next
    finished,   \* per core: tiles of tokens
    sums,       \* per core: residual_sb
    rows,       \* per core: output
    packed,     \* per core: <<output_quant, output_scale>>
    shipped,    \* per core: what it sent on either pipe
    turned,     \* per core: residual_transposed_sb
    spilled     \* output_residual

quantVars == <<quant, doing, finished, sums, rows, packed, shipped, turned, spilled>>

Both == {0, 1}
Groups == quant.groups
QH1 == QWidth * Groups
QH == Partitions * QH1
Half == quant.tokens \div 2             \* shard_size
HalfOf(c) == c * Half                   \* BxS_offset
Nothing0 == <<>>                        \* memory that nobody wrote
Hidden == (0..Partitions - 1) \X (0..QH1 - 1)

\* validate_shapes_quantize_mx, and the alignment of the halves.
Accepted(q) ==
    /\ q.tokens % 4 = 0
    /\ q.residual => (QWidth * q.groups) % 8 = 0 /\ q.tokens >= 2 * Partitions

\* get_token_tile_size: the largest that divides the tokens, or all of them.
\* MaxTile is a power of two, and halving it gives its divisors.
TokenTile(tokens) ==
    LET fitting == {size \in MinTile..MaxTile : MaxTile % size = 0 /\ tokens % size = 0}
    IN  IF fitting = {} THEN tokens ELSE Max(fitting)

QuantizeInit ==
    /\ quant \in {q \in Quantizations : Accepted(q)}
    /\ doing = [c \in Both |-> "tile"] /\ finished = [c \in Both |-> 0]
    /\ sums = [c \in Both |-> [a \in 0..Partitions * Half * QH1 - 1 |-> Nothing0]]
    /\ rows = [c \in Both |-> [t \in 0..quant.tokens - 1 |-> Nothing0]]
    /\ packed = [c \in Both |-> [pipe \in 1..2 |-> [t \in 0..quant.tokens - 1 |-> Nothing0]]]
    /\ shipped = [c \in Both |-> <<Nothing0, Nothing0>>]
    /\ turned = [c \in Both |-> Nothing0]
    /\ spilled = [a \in 0..quant.tokens * QH - 1 |-> Nothing0]

-----------------------------------------------------------------------------
(* Steps 4 and 5: tiles of tokens, and the exchange of what was quantized. *)

\* dma_transpose of the rows (token * H1 + h1) of the (B*S*H1, H0) tensor; the
\* residual is loaded from the same place and added.
Loaded(token, h) ==
    LET address == (token * QH1 + h[2]) * Partitions + h[1]
    IN <<address, IF quant.residual THEN address ELSE 0>>

\* Squares are reduced over H1, then by a matrix of ones over the partitions;
\* gamma is loaded transposed too.
NormalisedRow(token) ==
    [over |-> {Loaded(token, h) : h \in Hidden},
     at |-> [h \in Hidden |-> [of |-> Loaded(token, h), gamma |-> h[2] * Partitions + h[1]]]]

\* The swizzle, and quantize_mx of each group of 512: what partition h0 of
\* group g packs.
Quantized(row) ==
    [over |-> row.over,
     at |-> [x \in (0..Partitions - 1) \X (0..Groups - 1) |->
                [q \in 0..QWidth - 1 |-> row.at[<<x[1], q * Groups + x[2]>>]]]]

QuantizeTile(c) ==
    /\ doing[c] = "tile"
    /\ LET size == TokenTile(Half)
           start == finished[c] * size
           tokens == HalfOf(c) + start..HalfOf(c) + start + size - 1
           new == [t \in tokens |-> NormalisedRow(t)]
       IN /\ sums' = IF quant.residual
                     THEN [sums EXCEPT ![c] = [a \in DOMAIN @ |->
                             LET t == (a \div QH1) % Half
                             IN IF t \in start..start + size - 1
                                THEN Loaded(HalfOf(c) + t, <<a \div (Half * QH1), a % QH1>>) ELSE @[a]]]
                     ELSE sums
          /\ rows' = [rows EXCEPT ![c] = [t \in DOMAIN @ |-> IF t \in tokens THEN new[t] ELSE @[t]]]
          /\ packed' = [packed EXCEPT ![c] = [pipe \in 1..2 |->
                          [t \in DOMAIN @[pipe] |-> IF t \in tokens THEN Quantized(new[t]) ELSE @[pipe][t]]]]
          /\ doing' = [doing EXCEPT ![c] = IF start + size < Half THEN "tile" ELSE "ship quant"]
    /\ finished' = [finished EXCEPT ![c] = @ + 1]
    /\ UNCHANGED <<quant, shipped, turned, spilled>>

Ship(c, pipe, from, to) ==
    /\ doing[c] = from
    /\ shipped' = [shipped EXCEPT ![c][pipe] = [t \in HalfOf(c)..HalfOf(c) + Half - 1 |-> packed[c][pipe][t]]]
    /\ doing' = [doing EXCEPT ![c] = to]
    /\ UNCHANGED <<quant, finished, sums, rows, packed, turned, spilled>>

\* The other's tokens go to the other's place.
Take(c, pipe, from, to) ==
    /\ doing[c] = from /\ shipped[1 - c][pipe] # Nothing0
    /\ packed' = [packed EXCEPT ![c][pipe] = [t \in DOMAIN @ |->
                    IF t \in HalfOf(1 - c)..HalfOf(1 - c) + Half - 1 THEN shipped[1 - c][pipe][t] ELSE @[t]]]
    /\ doing' = [doing EXCEPT ![c] = to]
    /\ UNCHANGED <<quant, finished, sums, rows, shipped, turned, spilled>>

ShipQuant(c) == Ship(c, 1, "ship quant", "take quant")
TakeQuant(c) == Take(c, 1, "take quant", "ship scale")
ShipScale(c) == Ship(c, 2, "ship scale", "take scale")
TakeScale(c) == Take(c, 2, "take scale", IF quant.residual THEN "transpose" ELSE "done")

-----------------------------------------------------------------------------
(* Step 6: the sums, transposed and spilled. *)

TurnedTiles == (Half + Partitions - 1) \div Partitions
FullTiles == Half \div Partitions
Remainder == Half % Partitions

\* Mutant: the tiles of a 16-bit residual are as wide as those of 32 bits.
NarrowTransposeTile == QWidth * Partitions

\* A PSUM bank holds 512 elements, or twice as many of 16 bits.
TransposeTile == QWidth * Partitions * (IF quant.half THEN 2 ELSE 1)
TransposeTiles == IF quant.half THEN Groups \div 2 ELSE Groups

\* [H0, shard_size, H1] to [pmax, tiles, H]: PE transposes, one h1 at a time, the
\* pattern [[shard_size*H1, H0], [H1, tokens]].
TransposeResidual(c) ==
    /\ doing[c] = "transpose"
    /\ turned' = [turned EXCEPT ![c] =
          [a \in 0..Partitions * TurnedTiles * QH - 1 |->
             LET token == a \div (TurnedTiles * QH)
                 tile == (a \div QH) % TurnedTiles
                 h == a % QH
                 column == h % TransposeTile
                 h1 == (h \div TransposeTile) * (TransposeTile \div Partitions) + column \div Partitions
             IN IF tile * Partitions + token < Half /\ h < TransposeTiles * TransposeTile
                THEN sums[c][(column % Partitions) * (Half * QH1) + tile * Partitions * QH1 + h1 + token * QH1]
                ELSE Nothing0]]
    /\ doing' = [doing EXCEPT ![c] = "spill"]
    /\ UNCHANGED <<quant, finished, sums, rows, packed, shipped, spilled>>

\* dma_copy into rows first.. of the residual: row n of the source begins at from(n).
Written(first, from) ==
    [a \in DOMAIN spilled |->
        LET row == a \div QH - first
        IN IF row \in DOMAIN from THEN from[row] + (a % QH) ELSE -1]

\* The full tiles: several are one DMA with the pattern [[N*H, pmax], [H, N], [1, H]],
\* one is sliced.
SpillFull(c) ==
    /\ doing[c] = "spill"
    /\ LET width == IF FullTiles > 1 THEN FullTiles ELSE TurnedTiles
           source == Written(HalfOf(c), [row \in 0..FullTiles * Partitions - 1 |->
                                           (row % Partitions) * width * QH + (row \div Partitions) * QH])
       IN spilled' = [a \in DOMAIN spilled |-> IF source[a] >= 0 THEN turned[c][source[a]] ELSE spilled[a]]
    /\ doing' = [doing EXCEPT ![c] = IF Remainder = 0 THEN "done" ELSE "spill rest"]
    /\ UNCHANGED <<quant, finished, sums, rows, packed, shipped, turned>>

\* The partial last tile.
SpillRest(c) ==
    /\ doing[c] = "spill rest"
    /\ LET source == Written(HalfOf(c) + FullTiles * Partitions,
                             [row \in 0..Remainder - 1 |-> (row * TurnedTiles + FullTiles) * QH])
       IN spilled' = [a \in DOMAIN spilled |-> IF source[a] >= 0 THEN turned[c][source[a]] ELSE spilled[a]]
    /\ doing' = [doing EXCEPT ![c] = "done"]
    /\ UNCHANGED <<quant, finished, sums, rows, packed, shipped, turned>>

QuantizeNext == \E c \in Both :
    \/ QuantizeTile(c) \/ ShipQuant(c) \/ TakeQuant(c) \/ ShipScale(c) \/ TakeScale(c)
    \/ TransposeResidual(c) \/ SpillFull(c) \/ SpillRest(c)
QuantizeSpec == QuantizeInit /\ [][QuantizeNext]_quantVars

-----------------------------------------------------------------------------
\* The value of token t at hidden position p, and its weight.
TokenSum(t, p) == <<t * QH + p, IF quant.residual THEN t * QH + p ELSE 0>>
TokenSums(t) == {TokenSum(t, p) : p \in 0..QH - 1}

\* When the cores are done, each has the normalised values of its own tokens in
\* the documented place; both have, for every token, each of its values packed
\* exactly once, normalised over exactly that token; and output_residual holds
\* every sum at its token and position.  The exception is the code's: with
\* several full tiles and a rest the pattern of the one DMA takes a buffer of N
\* tiles per partition for granted, and the buffer has N + 1.
QuantizedInPlace ==
    (\A c \in Both : doing[c] = "done") =>
      /\ \A c \in Both : \A t \in HalfOf(c)..HalfOf(c) + Half - 1 :
           /\ rows[c][t].over = TokenSums(t)
           /\ \A h \in Hidden : LET p == h[2] * Partitions + h[1]
                                IN rows[c][t].at[h] = [of |-> TokenSum(t, p), gamma |-> p]
      /\ packed[0] = packed[1]
      /\ \A pipe \in 1..2, t \in 0..quant.tokens - 1 :
           LET pack == packed[0][pipe][t]
           IN /\ pack.over = TokenSums(t)
              /\ UNION {{pack.at[x][q] : q \in 0..QWidth - 1} : x \in DOMAIN pack.at}
                   = {[of |-> TokenSum(t, p), gamma |-> p] : p \in 0..QH - 1}
      /\ quant.residual /\ ~(FullTiles > 1 /\ Remainder > 0) =>
           \A t \in 0..quant.tokens - 1, p \in 0..QH - 1 : spilled[t * QH + p] = TokenSum(t, p)
=============================================================================
