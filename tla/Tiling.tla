-------------------------------- MODULE Tiling --------------------------------
(***************************************************************************)
(* How a kernel of nkilib cuts a dimension into tiles and rotates buffers  *)
(* for them: TiledRange and TiledDimInfo (core/utils/tiled_range.py,       *)
(* tile_info.py), the quotients of kernel_helpers.py, and the              *)
(* ModularAllocator (modular_allocator.py), whose logical tiles share      *)
(* addresses modulo the number of free tiles.                              *)
(***************************************************************************)
EXTENDS Integers, Sequences, FiniteSets, Functions

CONSTANTS
    Extents,   \* dimensions that are tiled, and sizes of tiles and subtiles
    TileBytes, \* bytes of one tile in a partition: prod(shape[1:]) * itemsize
    FreeTiles, \* numbers of physical tiles asked for in each dimension
    AlignTos,  \* values of align_to; 1 stands for None
    MaxAllocs  \* bound: allocations of one kernel

ASSUME TilingAssumption ==
    /\ \A s \in {Extents, TileBytes, FreeTiles, AlignTos} : s \subseteq Nat \ {0}
    /\ MaxAllocs \in Nat

VARIABLES
    cut,       \* [dim, tile, sub]: the tiling of the kernel's loops
    current,   \* _current_address
    buffers    \* what the kernel was given: one function from logical index to address per allocation

tilingVars == <<cut, current, buffers>>

-----------------------------------------------------------------------------
CeilQuotient(n, d) == (n + d - 1) \div d
CeilAligned(n, multiple) == CeilQuotient(n, multiple) * multiple
AtMost(a, b) == IF a <= b THEN a ELSE b

Whole0(n) == [start |-> 0, size |-> n]

\* Mutant: nested tiles start at zero.
TiledRangeFromZero(range, tile) ==
    [i \in 1..CeilQuotient(range.size, tile) |->
        [start |-> (i - 1) * tile, size |-> AtMost(tile, range.size - (i - 1) * tile)]]

\* The last tile may be smaller; nested tiles start where the outer one does.
TiledRange(range, tile) ==
    [i \in 1..CeilQuotient(range.size, tile) |->
        [start |-> range.start + (i - 1) * tile, size |-> AtMost(tile, range.size - (i - 1) * tile)]]

\* TiledDimInfo, with tile and subtile indices from 0.
TileBound(c, t) == AtMost(c.dim - t * c.tile, c.tile)
LocalSubtileStart(c, u) == u * c.sub
SubtileStart(c, t, u) == t * c.tile + LocalSubtileStart(c, u)
LocalSubtileBound(c, t, u) == AtMost(c.sub, TileBound(c, t) - LocalSubtileStart(c, u))
SubtileBound(c, t, u) == AtMost(c.dim - SubtileStart(c, t, u), c.sub)
ActualSubtiles(c, t) == CeilQuotient(TileBound(c, t), c.sub)

\* The tiles of a two-level loop over TiledDimInfo, each with its bound.
Subtiles(c) ==
    UNION {{[start |-> SubtileStart(c, t, u), size |-> SubtileBound(c, t, u)] : u \in 0..ActualSubtiles(c, t) - 1} :
             t \in 0..CeilQuotient(c.dim, c.tile) - 1}

-----------------------------------------------------------------------------
(* The modular allocator.  A logical index is a sequence, one entry per      *)
(* dimension of block_dim.                                                   *)

LogicalIndices(blockDim) ==
    {x \in [DOMAIN blockDim -> 0..FoldFunction(LAMBDA a, b : IF a > b THEN a ELSE b, 1, blockDim) - 1] :
        \A d \in DOMAIN blockDim : x[d] < blockDim[d]}

\* The innermost dimension has stride 1.
FreeStride(free, d) == FoldFunctionOnSet(LAMBDA a, b : a * b, 1, free, {e \in DOMAIN free : e > d})
PhysicalTiles(free) == FoldFunction(LAMBDA a, b : a * b, 1, free)

\* Mutant: the strides are those of the logical dimensions.
TileOffsetLogical(x, blockDim, free) ==
    FoldFunction(LAMBDA a, b : a + b, 0, [d \in DOMAIN free |-> (x[d] % free[d]) * FreeStride(blockDim, d)])

TileOffset(x, blockDim, free) ==
    FoldFunction(LAMBDA a, b : a + b, 0, [d \in DOMAIN free |-> (x[d] % free[d]) * FreeStride(free, d)])

\* alloc_sbuf_tensor
AllocTiles(blockDim, free, bytes, align) ==
    LET sca == CeilAligned(current, align)
    IN /\ buffers' = Append(buffers, [free |-> free, bytes |-> bytes,
                                      at |-> [x \in LogicalIndices(blockDim) |-> sca + TileOffset(x, blockDim, free) * bytes]])
       /\ current' = sca + PhysicalTiles(free) * bytes
       /\ UNCHANGED cut

TilingInit ==
    /\ cut \in {c \in [dim : Extents, tile : Extents, sub : Extents] : c.sub <= c.tile /\ c.tile <= c.dim}
    /\ current = 0 /\ buffers = <<>>

\* One buffer per tile, or per tile and subtile, of the loop.
TilingNext ==
    /\ Len(buffers) < MaxAllocs
    /\ \E bytes \in TileBytes, align \in AlignTos, k \in FreeTiles, l \in FreeTiles :
         LET tiles == CeilQuotient(cut.dim, cut.tile)
             subtiles == CeilQuotient(cut.tile, cut.sub)
         IN \/ k <= tiles /\ AllocTiles(<<tiles>>, <<k>>, bytes, align)
            \/ k <= tiles /\ l <= subtiles /\ AllocTiles(<<tiles, subtiles>>, <<k, l>>, bytes, align)

TilingSpec == TilingInit /\ [][TilingNext]_tilingVars

-----------------------------------------------------------------------------
Elements(range) == range.start..range.start + range.size - 1
Partition(ranges, range) ==
    /\ UNION {Elements(r) : r \in ranges} = Elements(range)
    /\ \A r, s \in ranges : r # s => Elements(r) \cap Elements(s) = {}

\* The loops visit every element once (tiled-range.md, tile-info.md): the tiles
\* of a range, the tiles nested in each of them, and the subtiles of a tiled
\* dimension, with the bounds that the loops load and store by.  Only whole
\* subtiles fit a tile: otherwise the bound of a tile's last subtile ignores the
\* tile's end.
TilesCoverOnce ==
    LET outer == TiledRange(Whole0(cut.dim), cut.tile)
    IN /\ Partition(Range(outer), Whole0(cut.dim))
       /\ \A i \in DOMAIN outer : Partition(Range(TiledRange(outer[i], cut.sub)), outer[i])
       /\ cut.tile % cut.sub = 0 =>
            /\ Partition(Subtiles(cut), Whole0(cut.dim))
            /\ \A i \in DOMAIN outer : \A u \in 0..ActualSubtiles(cut, i - 1) - 1 :
                 SubtileBound(cut, i - 1, u) = LocalSubtileBound(cut, i - 1, u)

\* Two logical tiles of an allocation share bytes only when their indices are
\* congruent modulo the free tiles in every dimension, and then they are the
\* same buffer; tiles of two allocations never share any (modular_allocator.py).
BuffersRotate ==
    \A i, j \in DOMAIN buffers :
        \A x \in DOMAIN buffers[i].at, y \in DOMAIN buffers[j].at :
            LET a == buffers[i].at[x]
                b == buffers[j].at[y]
                same == i = j /\ \A d \in DOMAIN x : x[d] % buffers[i].free[d] = y[d] % buffers[i].free[d]
            IN IF same THEN a = b
               ELSE a + buffers[i].bytes <= b \/ b + buffers[j].bytes <= a
===============================================================================
