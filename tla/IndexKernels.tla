------------------------------ MODULE IndexKernels ------------------------------
(***************************************************************************)
(* The two kernels of core/subkernels that move indices for the experts of *)
(* a layer, side by side: the search for nonzero positions and the         *)
(* flattening of the rows it finds.  They share no state.                  *)
(***************************************************************************)
EXTENDS FindNonzero, IndexedFlatten

\* Row e of the call f has a value for block b, and which.
Lands(f, e, b) == b - f.offsets[f.start + e] \in 0..Len(f.rows[e]) - 1
ValueAt(f, e, b) == f.rows[e][b - f.offsets[f.start + e] + 1]

\* The buffers of the two cores are merged by maximum, where the reference
\* lets the later row overwrite the earlier one.  The two agree on the calls
\* in which the later core's row has the larger value on every block both
\* write, and no value is below the padding; rows are too short for
\* InvalidOffset to bring them back into the output.
Mergeable(f) ==
  /\ Len(f.rows[1]) + InvalidOffset <= 0
  /\ \A b \in 0..f.blocks - 1 : \A e \in DOMAIN f.rows : Lands(f, e, b) =>
       /\ f.padding <= ValueAt(f, e, b)
       /\ \A d \in DOMAIN f.rows :
            d <= (Len(f.rows) + 1) \div 2 /\ (Len(f.rows) + 1) \div 2 < e /\ Lands(f, d, b) =>
              ValueAt(f, d, b) <= ValueAt(f, e, b)

IndexSpec == FindSpec /\ FlattenSpec

(* The searching kernel and the flattening one agree with their references:  *)
(* find_nonzero_indices.py, indexed_flatten.py.                              *)
IndicesMatchReference == FindsAllNonzeros /\ FlattensLikeReference
=================================================================================
