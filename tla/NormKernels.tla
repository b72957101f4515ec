----------------------------- MODULE NormKernels -----------------------------
(***************************************************************************)
(* The normalisation kernels for token generation (core/subkernels:        *)
(* rmsnorm_tkg, layernorm_tkg, norm_tkg_utils), on one or two NeuronCores. *)
(* What moves is modelled element by element, by the views that the code   *)
(* hands to its DMAs (TensorView): an element is its address in the input, *)
(* a normalised one says also which elements its statistics were summed    *)
(* over and which weight it was scaled by.  Arithmetic is abstracted away. *)
(***************************************************************************)
EXTENDS TensorView, Tiling

CONSTANTS
    H0,                 \* nl.tile_size.pmax: partitions
    Norms,              \* the calls: [kernel, b, s, h1, lnc, tp, inSb, outSb, forced]
    ShardingThreshold,  \* tokens from which two cores share the work
    FullTile,           \* BxS_FULL_TILE_SIZE
    ContiguousBelow,    \* _CONTIGUOUS_LOAD_H_THRESHOLD
    PsumMax,            \* nl.tile_size.psum_fmax: columns of a PSUM bank
    PsumAlign           \* elements in _PSUM_ALIGNMENT_BYTES

ASSUME NormAssumption ==
    /\ {H0, FullTile, PsumMax, PsumAlign} \subseteq Nat \ {0} /\ {ShardingThreshold, ContiguousBelow} \subseteq Nat
    /\ \A n \in Norms :
         /\ {n.b, n.s, n.h1} \subseteq Nat \ {0} /\ n.lnc \in {1, 2} /\ n.h1 % n.lnc = 0
         /\ n.kernel \in {"rmsnorm", "layernorm"} /\ (n.kernel = "layernorm" => ~n.tp /\ ~n.forced)

VARIABLES
    norm,     \* the call
    phase0,   \* what each core does next
    tiles,    \* tiles of its tokens that each core has normalised
    result,   \* output_sb of each core: from address to element, <<>> before
    posted,   \* what each core has sent
    hbm       \* output, when it is in HBM

normVars == <<norm, phase0, tiles, result, posted, hbm>>

BxS == norm.b * norm.s
H1 == norm.h1
H == H0 * H1
Cores0 == 0..norm.lnc - 1

\* The number of parts of H that the output keeps apart.
HShards == IF norm.kernel = "rmsnorm" /\ (norm.tp \/ norm.forced) THEN 1 ELSE norm.lnc
H2 == H1 \div HShards

NumShards == IF norm.forced THEN 1 ELSE norm.lnc
DoShard == NumShards = 2 /\ BxS > ShardingThreshold /\ BxS % norm.lnc = 0
ShardSize == IF DoShard THEN BxS \div 2 ELSE BxS
FirstToken(c) == IF DoShard THEN c * ShardSize ELSE 0

Raw(e) == [of |-> e, over |-> {}, gamma |-> Wild]
NothingThere == Raw(Wild)

-----------------------------------------------------------------------------
(* The views that the DMAs are given. *)

SbTensor == NewView([shape |-> <<H0, BxS, H1>>, hbm |-> FALSE, bytes |-> 1])
TokensOf(v, d, c) == Slice(v, d, FirstToken(c), FirstToken(c) + ShardSize, 1)
SbShard(c) == TokensOf(SbTensor, 2, c)
HbmShard(c) == TokensOf(FlattenDims(NewView([shape |-> <<norm.b, norm.s, H>>, hbm |-> TRUE, bytes |-> 1]), 1, 2), 1, c)

\* dma_copy: the k-th element of one view to the k-th of the other.
Copy(dst, src) ==
    LET to == Addresses(dst)
        from == Addresses(src)
    IN [a \in ToSet(to) |-> from[CHOOSE k \in DOMAIN to : to[k] = a]]

\* dma_transpose: four dimensions, the outer two exchanged with the inner one.
DmaTranspose(dst, src) ==
    [a \in ToSet(Addresses(dst)) |->
        LET k == CHOOSE j \in 1..Product(dst.shape) : Address(dst, Coord(dst.shape, j)) = a
            c == Coord(dst.shape, k)
        IN Address(src, <<c[4], 0, 0, c[1]>>)]

FourDims(v) == ExpandDim(ExpandDim(v, 2), 2)

\* load_input_to_sbuf, hidden_dim_tp: (BxS, H) -> (BxS*H1, H0) -> (H0, BxS, H1).
TransposeLoad(in, sb) ==
    DmaTranspose(FourDims(FlattenDims(sb, 2, 3)), FourDims(FlattenDims(ReshapeDim(in, 2, <<H1, H0>>), 1, 2)))

\* (BxS, H) -> (BxS, HShards, H0, H2) -> (H0, BxS, HShards, H2); layernorm_tkg too.
StridedLoad(in, sb) ==
    Copy(ReshapeDim(sb, 3, <<HShards, H2>>), Permute(ReshapeDim(in, 2, <<HShards, H0, H2>>), <<3, 1, 2, 4>>))

\* The [tokens, H0] block that PE transposes as (shard, h2) tile number t.
TileOf(in, t) ==
    Select(Select(ReshapeDim(in, 2, <<HShards, H0, H2>>), 2, t \div H2), 3, t % H2)

\* contiguous_load_transpose: by tiles of tokens, and of as many (shard, h2)
\* tiles as a PSUM bank holds, each padded to the alignment.
PaddedTile(n) == CeilAligned(n, PsumAlign)
ContiguousLoad(in, sb) ==
    LET part(bxs, psum) ==
            LET dst == Slice(Permute(Slice(sb, 2, bxs.start, bxs.start + bxs.size, 1), <<1, 3, 2>>),
                             2, psum.start, psum.start + psum.size, 1)
                bank == [column \in 0..psum.size * PaddedTile(bxs.size) - 1 |->
                            [t |-> psum.start + column \div PaddedTile(bxs.size), b |-> bxs.start + (column % PaddedTile(bxs.size))]]
            IN [a \in ToSet(Addresses(dst)) |->
                  LET k == CHOOSE j \in 1..Product(dst.shape) : Address(dst, Coord(dst.shape, j)) = a
                      c == Coord(dst.shape, k)
                      from == bank[c[2] * PaddedTile(bxs.size) + c[3]]
                  IN Address(TileOf(in, from.t), <<from.b, c[1]>>)]
        bxsTiles == TiledRange(Whole0(sb.shape[2]), H0)
        psumTiles(bxs) == TiledRange(Whole0(HShards * H2), PsumMax \div PaddedTile(bxs.size))
        parts == UNION {{part(bxsTiles[i], psumTiles(bxsTiles[i])[j]) : j \in DOMAIN psumTiles(bxsTiles[i])} : i \in DOMAIN bxsTiles}
    IN [a \in UNION {DOMAIN p : p \in parts} |-> (CHOOSE p \in parts : a \in DOMAIN p)[a]]

LoadInput(in, sb) ==
    IF norm.tp THEN TransposeLoad(in, sb)
    ELSE IF norm.kernel = "rmsnorm" /\ H <= ContiguousBelow THEN ContiguousLoad(in, sb)
    ELSE StridedLoad(in, sb)

\* load_gamma_to_sbuf: the weight of hidden position h at [h0, h1].
GammaTensor == FlattenDims(NewView([shape |-> <<1, H>>, hbm |-> TRUE, bytes |-> 1]), 1, 2)
GammaSb == NewView([shape |-> <<H0, H1>>, hbm |-> FALSE, bytes |-> 1])
LoadGamma ==
    IF norm.tp THEN DmaTranspose(FourDims(GammaSb), FourDims(ReshapeDim(GammaTensor, 1, <<H1, H0>>)))
    ELSE Copy(ReshapeDim(GammaSb, 2, <<HShards, H2>>), Permute(ReshapeDim(GammaTensor, 1, <<HShards, H0, H2>>), <<2, 1, 3>>))

-----------------------------------------------------------------------------
At(h0, b, h1) == (h0 * BxS + b) * H1 + h1
TokenAt(a) == (a \div H1) % BxS

NormInit ==
    /\ norm \in Norms
    /\ phase0 = [c \in Cores0 |-> "load"] /\ tiles = [c \in Cores0 |-> 0]
    /\ result = [c \in Cores0 |-> [a \in 0..H0 * BxS * H1 - 1 |-> NothingThere]]
    /\ posted = [c \in Cores0 |-> <<>>]
    /\ hbm = [a \in 0..H0 * BxS * H1 - 1 |-> NothingThere]

\* The input, loaded or already on chip in the layout of the result.
Load0(c) ==
    /\ phase0[c] = "load"
    /\ LET moves == LoadInput(HbmShard(c), SbShard(c))
           there == ToSet(Addresses(SbShard(c)))
       IN result' = [result EXCEPT ![c] = [a \in DOMAIN @ |->
              IF norm.inSb THEN (IF a \in there THEN Raw(a) ELSE @[a])
              ELSE IF a \in DOMAIN moves THEN Raw(moves[a]) ELSE @[a]]]
    /\ phase0' = [phase0 EXCEPT ![c] = "tile"]
    /\ UNCHANGED <<norm, tiles, posted, hbm>>

Columns0(c, b) == {result[c][At(h0, b, h1)].of : h0 \in 0..H0 - 1, h1 \in 0..H1 - 1}

\* Tokens first..first + size - 1 of core c: reduced along H1 by tensor_reduce
\* and across partitions by nc_matmul, scaled by the weight at the same [h0, h1].
Normalised(c, first, size) ==
    LET gamma == LoadGamma
    IN [a \in DOMAIN result[c] |->
          IF TokenAt(a) \in first..first + size - 1
          THEN [of |-> result[c][a].of, over |-> Columns0(c, TokenAt(a)),
                gamma |-> gamma[(a \div (BxS * H1)) * H1 + (a % H1)]]
          ELSE result[c][a]]
AfterLastTile == IF ~norm.outSb THEN "store" ELSE IF DoShard THEN "send" ELSE "done"

TokenTiles == TiledRange(Whole0(ShardSize), FullTile)

\* process_rmsnorm_tile, for one tile of at most FullTile tokens.
NormaliseTile(c) ==
    /\ norm.kernel = "rmsnorm" /\ phase0[c] = "tile"
    /\ LET range == TokenTiles[tiles[c] + 1]
       IN result' = [result EXCEPT ![c] = Normalised(c, FirstToken(c) + range.start, range.size)]
    /\ tiles' = [tiles EXCEPT ![c] = @ + 1]
    /\ phase0' = [phase0 EXCEPT ![c] = IF tiles'[c] < Len(TokenTiles) THEN "tile" ELSE AfterLastTile]
    /\ UNCHANGED <<norm, posted, hbm>>

\* layernorm_tkg takes its tokens all at once; beta is loaded and added as
\* gamma is loaded and multiplied.
LayerNormalise(c) ==
    /\ norm.kernel = "layernorm" /\ phase0[c] = "tile"
    /\ result' = [result EXCEPT ![c] = Normalised(c, FirstToken(c), ShardSize)]
    /\ phase0' = [phase0 EXCEPT ![c] = AfterLastTile]
    /\ UNCHANGED <<norm, tiles, posted, hbm>>

\* sendrecv: each core's tokens go to the other core.
SendShard(c) ==
    /\ phase0[c] = "send"
    /\ posted' = [posted EXCEPT ![c] = [a \in ToSet(Addresses(SbShard(c))) |-> result[c][a]]]
    /\ phase0' = [phase0 EXCEPT ![c] = "receive"]
    /\ UNCHANGED <<norm, tiles, result, hbm>>

ReceiveShard(c) ==
    /\ phase0[c] = "receive" /\ posted[1 - c] # <<>>
    /\ result' = [result EXCEPT ![c] = [a \in DOMAIN @ |-> IF a \in DOMAIN posted[1 - c] THEN posted[1 - c][a] ELSE @[a]]]
    /\ phase0' = [phase0 EXCEPT ![c] = "done"]
    /\ UNCHANGED <<norm, tiles, posted, hbm>>

\* Mutant: a core stores the tokens of the first.
StoreFirst(c) ==
    /\ phase0[c] = "store"
    /\ hbm' = [a \in DOMAIN hbm |-> IF TokenAt(a) \in 0..ShardSize - 1 THEN result[c][a] ELSE hbm[a]]
    /\ phase0' = [phase0 EXCEPT ![c] = "done"]
    /\ UNCHANGED <<norm, tiles, result, posted>>

StoreShard(c) ==
    /\ phase0[c] = "store"
    /\ hbm' = [a \in DOMAIN hbm |->
                 IF TokenAt(a) \in FirstToken(c)..FirstToken(c) + ShardSize - 1 THEN result[c][a] ELSE hbm[a]]
    /\ phase0' = [phase0 EXCEPT ![c] = "done"]
    /\ UNCHANGED <<norm, tiles, result, posted>>

NormNext == \E c \in Cores0 : Load0(c) \/ NormaliseTile(c) \/ LayerNormalise(c) \/ SendShard(c) \/ ReceiveShard(c) \/ StoreShard(c)
NormSpec == NormInit /\ [][NormNext]_normVars

-----------------------------------------------------------------------------
\* The hidden position at [h0, h1] of the output: the pseudocode of rmsnorm_tkg
\* and layernorm_tkg, and of the transposed layout.
HiddenAt(h0, h1) ==
    IF norm.tp THEN h1 * H0 + h0 ELSE (h1 \div H2) * (H0 * H2) + h0 * H2 + (h1 % H2)

\* When the cores are done every element of the output is in its documented
\* place, normalised over exactly its own token and scaled by its own weight:
\* on both cores when the output stays on chip, once in HBM when it does not.
NormalisedInPlace ==
    (\A c \in Cores0 : phase0[c] = "done") =>
        \A c \in Cores0, h0 \in 0..H0 - 1, b \in 0..BxS - 1, h1 \in 0..H1 - 1 :
            LET a == At(h0, b, h1)
                element(g0, g1) == IF norm.inSb THEN At(g0, b, g1) ELSE b * H + HiddenAt(g0, g1)
            IN (IF norm.outSb THEN result[c] ELSE hbm)[a] =
                  [of |-> element(h0, h1), gamma |-> HiddenAt(h0, h1),
                   over |-> {element(g0, g1) : g0 \in 0..H0 - 1, g1 \in 0..H1 - 1}]
==============================================================================
