------------------------------- MODULE MCNkilib -------------------------------
(* The parts of nkilib, each on instances small enough for TLC: the SBUF     *)
(* allocator, chains of views, tiling and rotating buffers, the kernels.     *)
(* They share nothing but operators; a behaviour is one of one of them, and  *)
(* the others rest.                                                          *)
EXTENDS RotatingBuffers, ViewChains, NormKernels, NormQuantize, IndexKernels

CONSTANTS
    Aligns,     \* explicit alignments that callers of the allocator ask for
    ViewBases,  \* the names of the sets of base tensors below
    Parts       \* the parts that run

VARIABLE part

\* One item of each size, and three bytes: an odd end for the next tensor.
MCRequests ==
  [bytes : {1, 3}, item : {1}, align : Aligns \cup {Natural}]
  \cup [bytes : {2}, item : {2}, align : Aligns \cup {Natural}]
  \cup [bytes : {4}, item : {4}, align : Aligns \cup {Natural}]

MCLoopRequest == [bytes |-> 2, item |-> 2, align |-> Natural]

\* Tensors in HBM and on chip, and one of rank 5, the smallest on which merging
\* two pairs of dimensions goes wrong.
MCBases == CASE ViewBases = "several" -> {[shape |-> <<2, 6>>, hbm |-> TRUE, bytes |-> 2],
                                          [shape |-> <<2, 4>>, hbm |-> FALSE, bytes |-> 2],
                                          [shape |-> <<2, 1, 3>>, hbm |-> TRUE, bytes |-> 1]}
             [] ViewBases = "rank five" -> {[shape |-> <<2, 1, 3, 2, 1>>, hbm |-> TRUE, bytes |-> 1]}

\* Every column has another pattern, or an empty or a full one.
Patterns == <<{0, 3}, {}, {1}, {0, 1, 2, 3}, {2, 3}, {0}, {1, 2}, {0, 1, 3}>>
MCMatrices == {[c \in 1..8 |-> Patterns[((c + k) % 8) + 1]] : k \in 0..7}

\* Rows as a router leaves them: positions, then padding; offsets in blocks,
\* one row after the other, so that a row's padding lies under the next row.
Packed(counts_, start) ==
    [rows |-> [e \in DOMAIN counts_ |-> [p \in 1..3 |-> IF p <= counts_[e] THEN 10 * e + p ELSE -1]],
     offsets |-> [e \in 1..start |-> 2] \o
                 [e \in DOMAIN counts_ |-> FoldFunctionOnSet(LAMBDA a, b : a + b, 0, counts_, {d \in DOMAIN counts_ : d < e})],
     start |-> start, blocks |-> 6, padding |-> -1]
\* Rows that no other overlaps, some of them outside of the output.
Apart0 == {[rows |-> <<<<5, 6>>, <<7, 8>>, <<9, 4>>>>, offsets |-> o, start |-> 0, blocks |-> 5, padding |-> 0] :
             o \in {<<0, 2, 4>>, <<3, -1, 1>>, <<-2, 5, 1>>}}
MCFlattens == {Packed(<<k, l, m>>, start) : k, l, m \in 0..3, start \in {0, 1}} \cup {Packed(<<3, 2>>, 0)} \cup Apart0
ASSUME MergeableAssumption == \A f \in MCFlattens : Mergeable(f)

MCNorms ==
    {n \in [kernel : {"rmsnorm", "layernorm"}, b : {1, 2}, s : {1, 2, 3}, h1 : {2, 4}, lnc : {1, 2},
            tp : BOOLEAN, inSb : BOOLEAN, outSb : BOOLEAN, forced : BOOLEAN] :
       n.kernel = "layernorm" => ~n.tp /\ ~n.forced}

\* Halves of one, of several and of partly filled tiles.
MCQuantizations ==
    [tokens : {4, 8, 12, 24}, groups : {1, 2}, residual : {FALSE}, half : {FALSE}]
    \cup [tokens : {8, 12, 16, 20, 24}, groups : {1, 2}, residual : {TRUE}, half : BOOLEAN]

TheNorm == CHOOSE n \in MCNorms : n.lnc = 1
SbufRests == stack = 0 /\ heap = 0 /\ scopes = <<>> /\ held = <<>> /\ tensors = {}
ViewRests == /\ view = NewView([shape |-> <<1>>, hbm |-> TRUE, bytes |-> 1])
             /\ meant = [shape |-> <<1>>, flat |-> <<0>>] /\ ops = 0
TilingRests == cut = [dim |-> 1, tile |-> 1, sub |-> 1] /\ current = 0 /\ buffers = <<>>
FindRests == /\ matrix = <<>> /\ chunkSize = Tokens /\ colStart = 0 /\ indices = <<>> /\ counts = <<>>
             /\ at = [s \in Shards |-> "idle"] /\ round = <<>> /\ chunk = <<>> /\ offsets = <<>>
             /\ readable = <<>> /\ behind = <<>> /\ localCounts = <<>>
FlattenRests == /\ flatten = <<>> /\ step = <<>> /\ row = <<>> /\ tile = <<>>
                /\ partial = <<>> /\ sent = <<>> /\ output = <<>>
NormRests == /\ norm = TheNorm /\ phase0 = [c \in {0} |-> "idle"] /\ tiles = <<>>
             /\ result = <<>> /\ posted = <<>> /\ hbm = <<>>
QuantizeRests == /\ quant = [tokens |-> 0] /\ doing = [c \in Both |-> "idle"] /\ finished = <<>> /\ sums = <<>>
                 /\ rows = <<>> /\ packed = <<>> /\ shipped = <<>> /\ turned = <<>> /\ spilled = <<>>

MCInit ==
    \/ part = "sbuf" /\ SbufInit /\ ViewRests /\ TilingRests /\ FindRests /\ FlattenRests /\ NormRests /\ QuantizeRests
    \/ part = "view" /\ ViewInit /\ SbufRests /\ TilingRests /\ FindRests /\ FlattenRests /\ NormRests /\ QuantizeRests
    \/ part = "tiling" /\ TilingInit /\ SbufRests /\ ViewRests /\ FindRests /\ FlattenRests /\ NormRests /\ QuantizeRests
    \/ part = "find" /\ FindInit /\ SbufRests /\ ViewRests /\ TilingRests /\ FlattenRests /\ NormRests /\ QuantizeRests
    \/ part = "flatten" /\ FlattenInit /\ SbufRests /\ ViewRests /\ TilingRests /\ FindRests /\ NormRests /\ QuantizeRests
    \/ part = "norm" /\ NormInit /\ SbufRests /\ ViewRests /\ TilingRests /\ FindRests /\ FlattenRests /\ QuantizeRests
    \/ part = "quantize" /\ QuantizeInit /\ SbufRests /\ ViewRests /\ TilingRests /\ FindRests /\ FlattenRests /\ NormRests

MCNext ==
    \/ part = "sbuf" /\ SbufNext /\ UNCHANGED <<part, viewVars, tilingVars, findVars, flattenVars, normVars, quantVars>>
    \/ part = "view" /\ ViewNext /\ UNCHANGED <<part, sbufVars, tilingVars, findVars, flattenVars, normVars, quantVars>>
    \/ part = "tiling" /\ TilingNext /\ UNCHANGED <<part, sbufVars, viewVars, findVars, flattenVars, normVars, quantVars>>
    \/ part = "find" /\ FindNext /\ UNCHANGED <<part, sbufVars, viewVars, tilingVars, flattenVars, normVars, quantVars>>
    \/ part = "flatten" /\ FlattenNext /\ UNCHANGED <<part, sbufVars, viewVars, tilingVars, findVars, normVars, quantVars>>
    \/ part = "norm" /\ NormNext /\ UNCHANGED <<part, sbufVars, viewVars, tilingVars, findVars, flattenVars, quantVars>>
    \/ part = "quantize" /\ QuantizeNext /\ UNCHANGED <<part, sbufVars, viewVars, tilingVars, findVars, flattenVars, normVars>>

(* The kernels that normalise, with and without quantization, leave every    *)
(* element in its place: rmsnorm_tkg.py, layernorm_tkg.py,                   *)
(* rmsnorm_mx_quantize_tkg.py.                                               *)
KernelsNormalise == NormalisedInPlace /\ QuantizedInPlace

MCPartsInit == part \in Parts /\ MCInit
MCSpec == MCPartsInit /\ [][MCNext]_<<part, sbufVars, viewVars, tilingVars, findVars, flattenVars, normVars, quantVars>>
===============================================================================
