------------------------------ MODULE TensorView ------------------------------
(***************************************************************************)
(* nkilib/core/utils/tensor_view.py: a view of a base tensor is a shape,   *)
(* a stride per dimension and an offset, and every operation of the class  *)
(* rewrites those three numbers without touching the data.  Can... is what *)
(* an operation refuses, Means... what it stands for without strides: the  *)
(* addresses, in row-major order, of the elements its caller asked for.    *)
(* Dimensions are numbered from 1 here and from 0 in the code.             *)
(***************************************************************************)
EXTENDS Integers, Sequences, FiniteSets, SequencesExt, FiniteSetsExt

NoIndex == <<>>     \* no scalar_offset and no vector_offset

Product(s) ==
    LET upTo[i \in 0..Len(s)] == IF i = 0 THEN 1 ELSE upTo[i - 1] * s[i] IN upTo[Len(s)]

\* get_trivial_strides: row-major strides above a base stride.
TrivialStrides(shape, base) ==
    [i \in DOMAIN shape |-> base * Product(SubSeq(shape, i + 1, Len(shape)))]

\* The coordinates (from 0) of the k-th element (from 1) in row-major order,
\* and back.
Coord(shape, k) ==
    [i \in DOMAIN shape |-> ((k - 1) \div Product(SubSeq(shape, i + 1, Len(shape)))) % shape[i]]
Position(shape, c) ==
    LET horner[i \in 0..Len(shape)] == IF i = 0 THEN 0 ELSE horner[i - 1] * shape[i] + c[i]
    IN  1 + horner[Len(shape)]

-----------------------------------------------------------------------------
(* The object. *)

NewView(b) ==
    [shape |-> b.shape, strides |-> TrivialStrides(b.shape, 1), offset |-> 0,
     bytes |-> b.bytes, base |-> b, index |-> NoIndex, indirect |-> 0, vector |-> FALSE]

Dims(v) == DOMAIN v.shape
NoVectorDim(v, d) == v.vector => d # 1
FreeDim(v, d) == ~v.base.hbm => d # 1

\* _copy refuses a negative stride or offset and a shape of another rank.
Copyable(v) ==
    /\ Len(v.shape) = Len(v.strides) /\ v.offset >= 0
    /\ \A i \in DOMAIN v.strides : v.strides[i] >= 0

\* base_tensor.ap(...): byte address of element c.  The index of an indirect
\* view is scaled by the stride of base dimension `indirect`, in elements of
\* the BASE tensor; the pattern is in elements of the view's dtype.
Address(v, c) ==
    LET pattern[i \in 0..Len(v.shape)] ==
            IF i = 0 THEN v.offset
            ELSE pattern[i - 1] + (IF v.vector /\ i = 1 THEN 0 ELSE c[i] * v.strides[i])
        index == IF v.index = NoIndex THEN 0
                 ELSE IF v.vector THEN v.index[c[1] + 1] ELSE v.index[1]
        scale == IF v.index = NoIndex THEN 0 ELSE TrivialStrides(v.base.shape, 1)[v.indirect]
    IN  pattern[Len(v.shape)] * v.bytes + index * scale * v.base.bytes

Addresses(v) == [k \in 1..Product(v.shape) |-> Address(v, Coord(v.shape, k))]

-----------------------------------------------------------------------------
(* The operations: what each refuses, and the view it returns. *)

CanSlice(v, d, start, end, step) ==
    d \in Dims(v) /\ NoVectorDim(v, d) /\ start >= 0 /\ end > start
\* Mutant: the stride forgets the step.
SliceKeepingStride(v, d, start, end, step) ==
    LET stop == IF end < v.shape[d] THEN end ELSE v.shape[d]
    IN  [v EXCEPT !.shape[d] = (stop - start + step - 1) \div step,
                  !.offset = @ + v.strides[d] * start]
Slice(v, d, start, end, step) ==
    LET stop == IF end < v.shape[d] THEN end ELSE v.shape[d]
    IN  [v EXCEPT !.shape[d] = (stop - start + step - 1) \div step,
                  !.strides[d] = @ * step,
                  !.offset = @ + v.strides[d] * start]

CanPermute(v, p) ==
    /\ p # <<>> /\ Len(p) = Len(v.shape) /\ ToSet(p) = Dims(v)
    /\ (~v.base.hbm \/ v.vector) => p[1] = 1
Permute(v, p) == [v EXCEPT !.shape = [i \in DOMAIN p |-> v.shape[p[i]]],
                           !.strides = [i \in DOMAIN p |-> v.strides[p[i]]]]

CanBroadcast(v, d) == d \in Dims(v) /\ v.shape[d] = 1 /\ NoVectorDim(v, d) /\ FreeDim(v, d)
Broadcast(v, d, size) == [v EXCEPT !.shape[d] = size, !.strides[d] = 0]

\* _reshape_dim_handle_minus_one: the one -1 stands for what the others leave.
Wild == -1
Known(shape) == Product(SelectSeq(shape, LAMBDA n : n # Wild))
CanFill(size, shape) ==
    LET wild == {i \in DOMAIN shape : shape[i] = Wild}
    IN  wild # {} => Cardinality(wild) = 1 /\ size % Known(shape) = 0
Filled(size, shape) ==
    [i \in DOMAIN shape |-> IF shape[i] = Wild THEN size \div Known(shape) ELSE shape[i]]

CanReshapeDim(v, d, shape) ==
    /\ d \in Dims(v) /\ NoVectorDim(v, d) /\ (FreeDim(v, d) \/ Len(shape) = 1)
    /\ CanFill(v.shape[d], shape)
    /\ Product(Filled(v.shape[d], shape)) = v.shape[d]
Splice(s, d, e, t) == SubSeq(s, 1, d - 1) \o t \o SubSeq(s, e + 1, Len(s))
ReshapeDim(v, d, shape) ==
    LET sizes == Filled(v.shape[d], shape)
    IN  [v EXCEPT !.shape = Splice(@, d, d, sizes),
                  !.strides = Splice(@, d, d, TrivialStrides(sizes, v.strides[d]))]

CanFlatten(v, a, b) ==
    /\ a < b /\ {a, b} \subseteq Dims(v) /\ NoVectorDim(v, a) /\ FreeDim(v, a)
    /\ \A i \in a..(b - 1) : v.strides[i] = v.shape[i + 1] * v.strides[i + 1]
FlattenDims(v, a, b) ==
    [v EXCEPT !.shape = Splice(@, a, b, <<Product(SubSeq(@, a, b))>>),
              !.strides = Splice(@, a, b, <<v.strides[b]>>)]

CanExpand(v, d) == d \in 1..(Len(v.shape) + 1) /\ NoVectorDim(v, d) /\ FreeDim(v, d)
ExpandDim(v, d) ==
    LET stride == IF d > Len(v.shape) THEN 1 ELSE v.strides[d] * v.shape[d]
    IN  [v EXCEPT !.shape = Splice(@, d, d - 1, <<1>>), !.strides = Splice(@, d, d - 1, <<stride>>)]

CanSqueeze(v, d) == d \in Dims(v) /\ v.shape[d] = 1 /\ NoVectorDim(v, d) /\ FreeDim(v, d)
SqueezeDim(v, d) == [v EXCEPT !.shape = Splice(@, d, d, <<>>), !.strides = Splice(@, d, d, <<>>)]

\* select by a static index.
CanSelect(v, d, i) == CanSlice(v, d, i, i + 1, 1) /\ CanSqueeze(Slice(v, d, i, i + 1, 1), d)
Select(v, d, i) == SqueezeDim(Slice(v, d, i, i + 1, 1), d)

\* _find_or_create_base_dim_for_stride: the last base dimension with that
\* stride, else the last one that splits into [outer, stride].
BaseMatches(b, stride) == {i \in DOMAIN b.shape : TrivialStrides(b.shape, 1)[i] = stride}
BaseSplits(b, stride) ==
    {i \in DOMAIN b.shape :
        LET own == TrivialStrides(b.shape, 1)[i]
            factor == stride \div own
        IN  /\ b.hbm \/ i > 1
            /\ stride % own = 0 /\ b.shape[i] >= factor /\ b.shape[i] % factor = 0}
HasBaseDim(b, stride) == BaseMatches(b, stride) # {} \/ BaseSplits(b, stride) # {}
BaseDim(b, stride) ==
    IF BaseMatches(b, stride) # {} THEN <<b, Max(BaseMatches(b, stride))>>
    ELSE LET i == Max(BaseSplits(b, stride))
             factor == stride \div TrivialStrides(b.shape, 1)[i]
         IN  <<[b EXCEPT !.shape = Splice(@, i, i, <<b.shape[i] \div factor, factor>>)], i>>

\* select by an index tensor: _dynamic_select.
CanDynamicSelect(v, d) ==
    d \in Dims(v) /\ v.indirect = 0 /\ v.strides[d] # 0 /\ HasBaseDim(v.base, v.strides[d])
DynamicSelect(v, d, i) ==
    LET found == BaseDim(v.base, v.strides[d])
    IN  [v EXCEPT !.shape = Splice(@, d, d, <<>>), !.strides = Splice(@, d, d, <<>>),
                  !.base = found[1], !.indirect = found[2], !.index = <<i>>]

CanVectorSelect(v) ==
    /\ v.shape # <<>> /\ v.indirect = 0 /\ v.strides[1] # 0
    /\ \A i \in Dims(v) : v.strides[1] >= v.strides[i]
    /\ HasBaseDim(v.base, v.strides[1])
VectorSelect(v, index) ==
    LET found == BaseDim(v.base, v.strides[1])
    IN  [v EXCEPT !.shape[1] = Len(index), !.vector = TRUE,
                  !.base = found[1], !.indirect = found[2], !.index = index]

CanCast(v, bytes) ==
    LET last == Len(v.shape)
        ratio == bytes \div v.bytes
    IN  /\ v.shape # <<>>
        /\ bytes # v.bytes => v.indirect = 0 /\ v.strides[last] = 1
        /\ bytes > v.bytes =>
              /\ v.shape[last] % ratio = 0 /\ v.offset % ratio = 0
              /\ \A i \in 1..(last - 1) : v.strides[i] % ratio = 0
ReinterpretCast(v, bytes) ==
    LET last == Len(v.shape)
        Scale(n) == (n * v.bytes) \div bytes
    IN  IF bytes = v.bytes THEN v
        ELSE [v EXCEPT !.shape[last] = Scale(@), !.offset = Scale(@), !.bytes = bytes,
                       !.strides = [i \in DOMAIN @ |-> IF i = last THEN 1 ELSE Scale(@[i])]]

-----------------------------------------------------------------------------
(* reshape: drop unit dimensions, merge contiguous ones into blocks, then    *)
(* hand the blocks out to the new dimensions from the innermost.             *)

\* _reshape_validate
ReshapeValid(v, shape) ==
    /\ Product(shape) = Product(v.shape)
    /\ ~v.base.hbm /\ v.shape # <<>> => shape[1] = v.shape[1]

\* _reshape_remove_unit_dims, as <<size, stride>> pairs
WithoutUnitDims(v) ==
    LET dims == [i \in Dims(v) |-> <<v.shape[i], v.strides[i], ~v.base.hbm /\ i = 1>>]
    IN  SelectSeq(dims, LAMBDA d : d[1] # 1 \/ d[3])

\* _reshape_collapse_contiguous_blocks: <<size, innermost stride>> per block;
\* the partition dimension of an on-chip tensor stays a block of its own.
Blocks(v) ==
    LET Merge(bs, d) ==
            IF bs # <<>> /\ ~Last(bs)[3] /\ Last(bs)[2] = d[2] * d[1]
            THEN Append(Front(bs), <<Last(bs)[1] * d[1], d[2], FALSE>>)
            ELSE Append(bs, d)
        bs == FoldLeft(Merge, <<>>, WithoutUnitDims(v))
    IN  IF bs = <<>> THEN <<<<1, 1, FALSE>>>> ELSE bs

\* _reshape_repartition_blocks: `ok` turns false where the code asserts.
Repartition(blocks, shape) ==
    LET At(b) == [b |-> b, size |-> blocks[b][1], stride |-> blocks[b][2]]
        Take(d, acc) ==
            LET a == acc.at
                left == a.size \div d
            IN  IF ~acc.ok \/ d > a.size \/ a.size % d # 0 THEN [acc EXCEPT !.ok = FALSE]
                ELSE [ok |-> TRUE, strides |-> <<a.stride>> \o acc.strides,
                      at |-> IF left = 1 /\ a.b > 1 THEN At(a.b - 1)
                             ELSE [a EXCEPT !.size = left, !.stride = @ * d]]
    IN  FoldRight(Take, shape, [ok |-> TRUE, strides |-> <<>>, at |-> At(Len(blocks))])

CanReshape(v, shape) ==
    /\ ReshapeValid(v, shape) /\ \A i \in Dims(v) : v.shape[i] > 0
    /\ Repartition(Blocks(v), shape).ok
Reshape(v, shape) ==
    [v EXCEPT !.shape = shape, !.strides = Repartition(Blocks(v), shape).strides]

-----------------------------------------------------------------------------
(* rearrange: src and dst are sequences of groups of names; a group of one   *)
(* name is a plain dimension.  `fixed` gives the sizes the caller names.     *)

\* _rearrange_expand_pattern
Names(pattern) == FlattenSeq(pattern)

\* _rearrange_detect_src_reshapes, applied: split every grouped dimension.
SplitGroups(v, src, fixed) ==
    LET Sizing(g) == [j \in DOMAIN g |-> IF g[j] \in DOMAIN fixed THEN fixed[g[j]] ELSE Wild]
        Split(acc, g) ==
            IF Len(g) = 1 THEN [acc EXCEPT !.dim = @ + 1]
            ELSE IF ~acc.ok \/ ~CanReshapeDim(acc.v, acc.dim, Sizing(g)) THEN [acc EXCEPT !.ok = FALSE]
            ELSE [ok |-> TRUE, v |-> ReshapeDim(acc.v, acc.dim, Sizing(g)), dim |-> acc.dim + Len(g)]
    IN  FoldLeft(Split, [ok |-> TRUE, v |-> v, dim |-> 1], src)

\* _rearrange_get_permutation
PermutationOf(src, dst) == [i \in DOMAIN dst |-> SelectInSeq(src, LAMBDA n : n = dst[i])]

\* _rearrange_detect_dst_flattens, applied in order: every start counts the
\* names of the groups before it, though those have been flattened by then.
MergeGroups(v, dst) ==
    LET Merge(acc, g) ==
            IF Len(g) = 1 THEN [acc EXCEPT !.dim = @ + 1]
            ELSE IF ~acc.ok \/ ~CanFlatten(acc.v, acc.dim, acc.dim + Len(g) - 1) THEN [acc EXCEPT !.ok = FALSE]
            ELSE [ok |-> TRUE, v |-> FlattenDims(acc.v, acc.dim, acc.dim + Len(g) - 1),
                  dim |-> acc.dim + Len(g)]
    IN  FoldLeft(Merge, [ok |-> TRUE, v |-> v, dim |-> 1], dst)

Rearranged(v, src, dst, fixed) ==
    LET split == SplitGroups(v, src, fixed)
        p == PermutationOf(Names(src), Names(dst))
    IN  IF split.ok /\ CanPermute(split.v, p)
        THEN MergeGroups(Permute(split.v, p), dst)
        ELSE [split EXCEPT !.ok = FALSE]
CanRearrange(v, src, dst, fixed) == Rearranged(v, src, dst, fixed).ok
Rearrange(v, src, dst, fixed) == Rearranged(v, src, dst, fixed).v

-----------------------------------------------------------------------------
(* What the operations mean, without strides. *)

\* The tensor of shape `shape` whose element c is element From(c) of m.
Gathered(m, shape, From(_)) ==
    [shape |-> shape,
     flat |-> [k \in 1..Product(shape) |-> m.flat[Position(m.shape, From(Coord(shape, k)))]]]

MeansSlice(m, d, start, end, step) ==
    LET stop == IF end < m.shape[d] THEN end ELSE m.shape[d]
        size == Cardinality({i \in start..(stop - 1) : (i - start) % step = 0})
        From(c) == [c EXCEPT ![d] = start + @ * step]
    IN  Gathered(m, [m.shape EXCEPT ![d] = size], From)
MeansPermute(m, p) ==
    LET From(c) == [d \in DOMAIN p |-> c[CHOOSE i \in DOMAIN p : p[i] = d]]
    IN  Gathered(m, [i \in DOMAIN p |-> m.shape[p[i]]], From)
MeansBroadcast(m, d, size) ==
    LET From(c) == [c EXCEPT ![d] = 0] IN Gathered(m, [m.shape EXCEPT ![d] = size], From)
MeansReshape(m, shape) == [m EXCEPT !.shape = shape]
MeansSelect(m, d, i) ==
    LET From(c) == Splice(c, d, d - 1, <<i>>) IN Gathered(m, Splice(m.shape, d, d, <<>>), From)
MeansVectorSelect(m, index) ==
    LET From(c) == [c EXCEPT ![1] = index[@ + 1]] IN Gathered(m, [m.shape EXCEPT ![1] = Len(index)], From)
MeansCast(m, bytes, old) ==
    LET last == Len(m.shape)
        n == (Product(m.shape) * old) \div bytes
        At(k) == LET byte == (k - 1) * bytes IN m.flat[(byte \div old) + 1] + (byte % old)
    IN  [shape |-> [m.shape EXCEPT ![last] = (@ * old) \div bytes], flat |-> [k \in 1..n |-> At(k)]]
MeansRearrange(m, src, dst, SizeOf(_)) ==
    LET named == MeansReshape(m, [i \in DOMAIN Names(src) |-> SizeOf(Names(src)[i])])
        moved == MeansPermute(named, PermutationOf(Names(src), Names(dst)))
    IN  MeansReshape(moved, [i \in DOMAIN dst |->
            Product([j \in DOMAIN dst[i] |-> SizeOf(dst[i][j])])])
==============================================================================
