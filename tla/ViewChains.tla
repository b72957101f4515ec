------------------------------ MODULE ViewChains ------------------------------
(***************************************************************************)
(* A kernel that holds one TensorView and applies operations to it.        *)
(* Beside the view the model keeps what the kernel believes it holds: the  *)
(* byte address of every element in row-major order, transformed by what   *)
(* each operation means, never by strides.  The two must agree after any   *)
(* chain of operations.                                                    *)
(***************************************************************************)
EXTENDS TensorView

CONSTANTS
    Bases,      \* the base tensors: records [shape, hbm, bytes]
    Sizes,      \* the sizes offered to broadcast, reshape_dim and slice
    SplitSizes, \* the sizes a rearrange pattern fixes
    DtypeBytes, \* the element sizes offered to reinterpret_cast
    MaxOps,     \* bound: operations applied to one base tensor
    MaxDims,    \* bound: dimensions of a view
    Uses        \* uses the code does not refuse and its arithmetic cannot serve

ASSUME ViewConstants ==
    /\ \A b \in Bases : b.shape # <<>> /\ b.hbm \in BOOLEAN /\ b.bytes \in Nat \ {0}
    /\ Sizes \cup SplitSizes \subseteq Nat \ {0} /\ DtypeBytes \subseteq Nat \ {0}
    /\ MaxOps \in Nat /\ MaxDims \in Nat
    /\ Uses \subseteq {"select after cast", "two destination groups"}

VARIABLES
    view,       \* the TensorView object
    meant,      \* [shape, flat]: the addresses its holder means by it
    ops         \* operations applied so far

viewVars == <<view, meant, ops>>

Orders == [m \in 0..MaxDims |-> {p \in [1..m -> 1..m] : ToSet(p) = 1..m}]

ViewInit ==
    \E b \in Bases :
        /\ view = NewView(b)
        /\ meant = [shape |-> b.shape, flat |-> [k \in 1..Product(b.shape) |-> (k - 1) * b.bytes]]
        /\ ops = 0

Becomes(v, m) ==
    /\ ops' = ops + 1
    /\ Len(v.shape) <= MaxDims /\ Copyable(v)
    /\ view' = v /\ meant' = m

DoSlice ==
    \E d \in Dims(view), start \in 0..2, extent, step \in Sizes :
        /\ CanSlice(view, d, start, start + extent, step)
        /\ start < view.shape[d]      \* tensor-view.md: 0 <= start < end <= shape[dim]
        /\ Becomes(Slice(view, d, start, start + extent, step),
                   MeansSlice(meant, d, start, start + extent, step))

DoPermute ==
    \E p \in Orders[Len(view.shape)] :
        CanPermute(view, p) /\ Becomes(Permute(view, p), MeansPermute(meant, p))

DoBroadcast ==
    \E d \in Dims(view), size \in Sizes :
        CanBroadcast(view, d) /\ Becomes(Broadcast(view, d, size), MeansBroadcast(meant, d, size))

DoReshapeDim ==
    \E d \in Dims(view), n \in Sizes : \E shape \in {<<n, Wild>>, <<Wild, n>>, <<n, 1, Wild>>} :
        /\ CanReshapeDim(view, d, shape)
        /\ Becomes(ReshapeDim(view, d, shape),
                   MeansReshape(meant, Splice(meant.shape, d, d, Filled(meant.shape[d], shape))))

DoFlatten ==
    \E a, b \in Dims(view) :
        /\ CanFlatten(view, a, b)
        /\ Becomes(FlattenDims(view, a, b),
                   MeansReshape(meant, Splice(meant.shape, a, b, <<Product(SubSeq(meant.shape, a, b))>>)))

DoExpand ==
    \E d \in 1..(Len(view.shape) + 1) :
        /\ CanExpand(view, d)
        /\ Becomes(ExpandDim(view, d), MeansReshape(meant, Splice(meant.shape, d, d - 1, <<1>>)))

DoSqueeze ==
    \E d \in Dims(view) :
        /\ CanSqueeze(view, d)
        /\ Becomes(SqueezeDim(view, d), MeansReshape(meant, Splice(meant.shape, d, d, <<>>)))

DoSelect ==
    \E d \in Dims(view) : \E i \in 0..(view.shape[d] - 1) :
        CanSelect(view, d, i) /\ Becomes(Select(view, d, i), MeansSelect(meant, d, i))

\* An index tensor is in units of the base tensor's elements.
SelectsInBaseUnits == view.bytes = view.base.bytes \/ "select after cast" \in Uses

DoDynamicSelect ==
    \E d \in Dims(view) : \E i \in 0..(view.shape[d] - 1) :
        /\ SelectsInBaseUnits /\ CanDynamicSelect(view, d)
        /\ Becomes(DynamicSelect(view, d, i), MeansSelect(meant, d, i))

DoVectorSelect ==
    /\ SelectsInBaseUnits /\ CanVectorSelect(view)
    /\ LET last == view.shape[1] - 1
       IN  \E index \in {<<last>>, <<last, 0>>} :
              Becomes(VectorSelect(view, index), MeansVectorSelect(meant, index))

DoCast ==
    \E bytes \in DtypeBytes :
        /\ CanCast(view, bytes)
        /\ Becomes(ReinterpretCast(view, bytes), MeansCast(meant, bytes, view.bytes))

\* Nothing in reshape itself keeps the vector dimension in place: callers do.
DoReshape ==
    \E n \in Sizes :
        LET first == IF view.shape = <<>> THEN 1 ELSE view.shape[1]
        IN  \E shape \in {<<n, Product(view.shape) \div n>>, <<first, n, Product(view.shape) \div (n * first)>>} :
            /\ view.vector => shape[1] = view.shape[1]
            /\ CanReshape(view, shape)
            /\ Becomes(Reshape(view, shape), MeansReshape(meant, shape))

\* Names 1..n in source order; dimension d is split in two when split = d.
SourcePattern(n, split) ==
    [i \in 1..n |-> IF i = split THEN <<i, n + 1>> ELSE <<i>>]
\* The permuted names, with the pairs that start at the positions in `starts`.
TargetPattern(p, starts) ==
    LET heads == SelectSeq([i \in DOMAIN p |-> i], LAMBDA i : i - 1 \notin starts)
    IN  [j \in DOMAIN heads |-> IF heads[j] \in starts THEN <<p[heads[j]], p[heads[j] + 1]>>
                                ELSE <<p[heads[j]]>>]

DoRearrange ==
    LET n == Len(view.shape)
    IN  \E split \in 0..n, size \in SplitSizes :
        LET src == SourcePattern(n, split)
            m == Len(Names(src))
            fixed == IF split = 0 THEN <<>> ELSE [x \in {split} |-> size]
            SizeOf(x) == IF x = n + 1 THEN view.shape[split] \div size
                         ELSE IF x = split THEN size ELSE view.shape[x]
        IN  m <= MaxDims /\ \E p \in Orders[m], starts \in {{}, {1}, {2}, {1, 3}} :
            /\ \A s \in starts : s < m
            /\ Cardinality(starts) > 1 => "two destination groups" \in Uses
            /\ LET dst == TargetPattern(p, starts)
               IN  /\ CanRearrange(view, src, dst, fixed)
                   /\ Becomes(Rearrange(view, src, dst, fixed), MeansRearrange(meant, src, dst, SizeOf))

ViewNext == ops < MaxOps /\
  ( \/ DoSlice \/ DoPermute \/ DoBroadcast \/ DoReshapeDim \/ DoFlatten \/ DoExpand
    \/ DoSqueeze \/ DoSelect \/ DoDynamicSelect \/ DoVectorSelect \/ DoCast
    \/ DoReshape \/ DoRearrange )

ViewSpec == ViewInit /\ [][ViewNext]_viewVars

-----------------------------------------------------------------------------
(* After any chain of operations the pattern handed to the hardware visits  *)
(* exactly the elements, in the order, that the chain of operations means:  *)
(* TensorView.get_view of tensor_view.py.                                   *)
ViewIsWhatItMeans ==
    /\ view.shape = meant.shape
    /\ Addresses(view) = meant.flat
==============================================================================
