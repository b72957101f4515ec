----------------------------- MODULE SbufManager -----------------------------
(***************************************************************************)
(* The SBUF allocator of nkilib (core/utils/allocator.py): one range of    *)
(* on-chip memory with a stack of scopes that grows up and a heap that     *)
(* grows down.  Addresses are bytes within a partition.  The tensors that  *)
(* a kernel holds are history: the allocator keeps the heap's tensors, of  *)
(* the stack only the scopes.  A failed kernel_assert ends the kernel: the *)
(* call is not a step.  With use_auto_alloc there are no addresses, and    *)
(* nothing to model.                                                       *)
(***************************************************************************)
EXTENDS Integers, Sequences

CONSTANTS
  Lower, Upper,  \* sb_lower_bound, sb_upper_bound
  Requests,      \* what callers allocate: [bytes, item, align]
  Alignments,    \* what align_stack_curr_addr is called with
  LoopRequest,   \* what each section of a multi-buffered scope allocates
  MaxSections,   \* bound: interleave_degree
  MaxScopes      \* bound: scopes open at a time

\* align = None
Natural == 0

\* `item` is sizeinbytes(dtype), bytes_per_partition a multiple of it.
Request == {r \in [bytes : Nat \ {0}, item : {1, 2, 4}, align : Nat] :
              r.bytes % r.item = 0}

ASSUME RangeAssumption ==
  Lower \in Nat /\ Upper \in Nat /\ Lower <= Upper /\ Upper % 4 = 0
ASSUME RequestsAssumption == Requests \subseteq Request /\ LoopRequest \in Request
ASSUME AlignmentsAssumption == Alignments \subseteq Nat \ {0}
ASSUME SectionsAssumption == MaxSections \in Nat \ {0} /\ MaxScopes \in Nat

VARIABLES
  stack,   \* stack_curr_addr
  heap,    \* heap_curr_addr
  scopes,  \* the open scopes
  held,    \* the heap's tensors, in the order they were allocated
  tensors  \* history: the stack's tensors that the kernel may still use

sbufVars == <<stack, heap, scopes, held, tensors>>

Scope == [start : Nat, sections : 1..MaxSections, section : Nat]
HeapTensor == [base : Int, bytes : Nat]

\* `age` counts the increments of the section since the allocation; once the
\* sections have wrapped the allocator does not count the tensor any more.
StackTensor == [base : Nat, bytes : Nat, depth : 1..MaxScopes,
                age : 0..MaxSections, counted : BOOLEAN]

SbufTypeOK == /\ stack \in Nat /\ heap \in Int
              /\ scopes \in Seq(Scope) /\ Len(scopes) <= MaxScopes
              /\ held \in Seq(HeapTensor)
              /\ tensors \subseteq StackTensor

SbufInit == /\ stack = Lower /\ heap = Upper
            /\ scopes = <<>> /\ held = <<>> /\ tensors = {}

-----------------------------------------------------------------------------

AlignTo(value, alignment) == ((value + alignment - 1) \div alignment) * alignment

Alignment(r) == IF r.align = Natural THEN r.item ELSE r.align

\* Both pointers meet after the allocation, alignment aside.
Fits(r) == stack + r.bytes <= heap

Depth == Len(scopes)
Top == scopes[Depth]
Pop(s) == SubSeq(s, 1, Len(s) - 1)

OpenScope(degree) ==
  /\ Depth < MaxScopes
  /\ scopes' = Append(scopes, [start |-> stack, sections |-> degree, section |-> 0])
  /\ UNCHANGED <<stack, heap, held, tensors>>

\* The buffers of the iteration in progress of the innermost scope.
Current == {t \in tensors : t.depth = Depth /\ t.age = 0}

\* A loop over a multi-buffered scope does the same in every iteration: it
\* allocates its buffer (allocator.md, Pattern 2).
MultiBuffered == Depth > 0 /\ Top.sections > 1
RepeatsItself(r) == MultiBuffered => r = LoopRequest /\ Current = {}

AllocStack(r) ==
  /\ Fits(r) /\ Depth > 0 /\ RepeatsItself(r)
  /\ LET base == AlignTo(stack, Alignment(r))
     IN /\ stack' = base + r.bytes
        /\ tensors' = tensors \cup
             {[base |-> base, bytes |-> r.bytes, depth |-> Depth,
              age |-> 0, counted |-> TRUE]}
  /\ UNCHANGED <<heap, scopes, held>>

\* An iteration is over: the buffers of the last `sections` iterations remain.
Older(sections, wraps) ==
  {t \in {IF u.depth = Depth THEN [u EXCEPT !.age = @ + 1, !.counted = @ /\ ~wraps]
                             ELSE u : u \in tensors} :
     t.depth = Depth => t.age < sections}

Wraps == Top.section + 1 = Top.sections

IncrementSection ==
  /\ Depth > 0 /\ (MultiBuffered => Current # {})
  /\ stack' = IF Wraps THEN Top.start ELSE stack
  /\ scopes' = [scopes EXCEPT ![Depth].section = IF Wraps THEN 0 ELSE @ + 1]
  /\ tensors' = Older(Top.sections, Wraps)
  /\ UNCHANGED <<heap, held>>

CloseScope ==
  /\ Depth > 0
  /\ stack' = Top.start /\ scopes' = Pop(scopes)
  /\ tensors' = {t \in tensors : t.depth < Depth}
  /\ UNCHANGED <<heap, held>>

\* Mutant: the pointer of the heap is not aligned.
PushHeapUnaligned(r) ==
  /\ held' = Append(held, [base |-> heap - r.bytes, bytes |-> r.bytes])
  /\ heap' = heap - r.bytes

\* An explicit alignment moves the pointer up first; the next tensor starts
\* below a multiple of 4.
PushHeap(r) ==
  LET top == IF r.align = Natural THEN heap ELSE AlignTo(heap, r.align)
  IN /\ held' = Append(held, [base |-> top - r.bytes, bytes |-> r.bytes])
     /\ heap' = AlignTo(top - r.bytes - 3, 4)

AllocHeap(r) == Fits(r) /\ PushHeap(r) /\ UNCHANGED <<stack, scopes, tensors>>

PopHeap ==
  /\ held # <<>>
  /\ heap' = AlignTo(heap + held[Len(held)].bytes - 3, 4)
  /\ held' = Pop(held)
  /\ UNCHANGED <<stack, scopes, tensors>>

\* align_stack_curr_addr: nothing is allocated, and nothing is checked.
AlignStack(align) ==
  /\ ~MultiBuffered
  /\ stack' = AlignTo(stack, align)
  /\ UNCHANGED <<heap, scopes, held, tensors>>

SbufNext == \/ \E degree \in 1..MaxSections : OpenScope(degree)
            \/ \E r \in Requests : AllocStack(r) \/ AllocHeap(r)
            \/ \E align \in Alignments : AlignStack(align)
            \/ IncrementSection \/ CloseScope \/ PopHeap

SbufSpec == SbufInit /\ [][SbufNext]_sbufVars

-----------------------------------------------------------------------------
(* Safety.                                                                  *)

End(t) == t.base + t.bytes
Apart(t, u) == End(t) <= u.base \/ End(u) <= t.base

OnStack == {t \in tensors : t.counted}

\* No two tensors that are allocated share a byte, and all lie in the range:
\* on the stack, on the heap, or one on each.
LiveTensorsDisjoint ==
  /\ \A t, u \in OnStack : t # u => Apart(t, u)
  /\ \A i, j \in DOMAIN held : i # j => Apart(held[i], held[j])
  /\ \A t \in OnStack, i \in DOMAIN held : End(t) <= held[i].base
  /\ \A t \in tensors : Lower <= t.base
  /\ \A i \in DOMAIN held : End(held[i]) <= Upper

\* A multi-buffered scope keeps the buffers of its last iterations apart: an
\* iteration may still read what the one before it loaded.
BuffersAlternate ==
  \A t, u \in tensors : t.depth = u.depth /\ t.age # u.age => Apart(t, u)
=============================================================================
