----------------------------- MODULE NkilibProofs -----------------------------
(***************************************************************************)
(* The allocator and the tiling of nkilib, for any memory, requests and    *)
(* extents.  SbufManager's tensors stay apart as long as what is put on    *)
(* the stack fits after it is aligned, and what is put on the heap finds   *)
(* the pointer aligned; its multi-buffered scopes keep the buffers of      *)
(* different iterations apart whatever the alignments; the tiles of a      *)
(* dimension visit each of its elements once; and the modular allocator's  *)
(* tiles share bytes only when they are the same buffer.  The quantizing   *)
(* normalisation, which tiles its tokens, leaves each token's row where    *)
(* the next layer looks for it.                                            *)
(***************************************************************************)
EXTENDS RotatingBuffers, NormQuantize, SequenceTheorems, FoldProofs, TLAPS

\* The pointers at which an alignment does no harm: of the stack the aligned
\* tensor still ends below the heap, of the heap there is nothing to align.
StackFits(r) == AlignTo(stack, Alignment(r)) + r.bytes <= heap
HeapAligned(r) == r.align = Natural \/ heap % r.align = 0

\* A step that allocates, allocates there.
Careful ==
  \A r \in Requests :
    /\ AllocStack(r) => StackFits(r)
    /\ AllocHeap(r) => HeapAligned(r)

\* The alignments that dtypes have by themselves.
WellAligned(r) == Alignment(r) \in {1, 2, 4} /\ r.bytes % Alignment(r) = 0

\* Where the allocations of scope d go on.
Level(d) == IF d < Depth THEN scopes[d + 1].start ELSE stack

ScopesNest ==
  /\ Lower <= stack
  /\ \A d \in 1..Depth :
       /\ Lower <= scopes[d].start /\ scopes[d].start <= stack
       /\ scopes[d].section < scopes[d].sections
  /\ \A d, e \in 1..Depth : d < e => scopes[d].start <= scopes[e].start

TensorsNest ==
  \A t \in tensors :
    /\ t.depth <= Depth /\ scopes[t.depth].start <= t.base
    /\ t.counted => End(t) <= Level(t.depth)
    /\ t.age < scopes[t.depth].sections

StackInv == SbufTypeOK /\ ScopesNest /\ TensorsNest

StackApart == \A t, u \in OnStack : t # u => Apart(t, u)

HeapNests ==
  /\ heap % 4 = 0 /\ heap <= Upper
  /\ \A i \in DOMAIN held : heap <= held[i].base /\ End(held[i]) <= Upper
  /\ \A i, j \in DOMAIN held : i < j => End(held[j]) <= held[i].base

StackBelowHeap == \A t \in OnStack, i \in DOMAIN held : End(t) <= held[i].base

SharingInv == StackInv /\ StackApart /\ HeapNests /\ StackBelowHeap

-----------------------------------------------------------------------------
(* The places of the buffers of a multi-buffered scope. *)

LoopAlign == Alignment(LoopRequest)
Stride == AlignTo(LoopRequest.bytes, LoopAlign)
Place(start, k) == AlignTo(start, LoopAlign) + k * Stride

InProgress(d) == \E t \in tensors : t.depth = d /\ t.age = 0
Slot(t) == LET s == scopes[t.depth]
           IN IF t.age <= s.section THEN s.section - t.age ELSE s.section - t.age + s.sections

\* The number of buffers that the scope has allocated since its start.
Filled(d) == IF InProgress(d) THEN scopes[d].section + 1 ELSE scopes[d].section

IsPlaced(t) ==
  scopes[t.depth].sections > 1 =>
    t.bytes = LoopRequest.bytes /\ t.base = Place(scopes[t.depth].start, Slot(t))

HasReached(d) ==
  scopes[d].sections > 1 =>
    Level(d) = IF Filled(d) = 0 THEN scopes[d].start
               ELSE Place(scopes[d].start, Filled(d) - 1) + LoopRequest.bytes

LoopsRepeat == (\A t \in tensors : IsPlaced(t)) /\ (\A d \in 1..Depth : HasReached(d))

LoopInv == StackInv /\ LoopsRepeat

-----------------------------------------------------------------------------
(* Alignment. *)

LEMMA Euclid ==
  ASSUME NEW x \in Int, NEW a \in Nat \ {0}
  PROVE  /\ x \div a \in Int
         /\ (x \div a) * a <= x /\ x < (x \div a) * a + a
  OBVIOUS

\* Between two multiples of a lies a multiple of a.
LEMMA QuotientIsUnique ==
  ASSUME NEW a \in Nat \ {0}, NEW p \in Int, NEW q \in Int,
         p * a < q * a + a, q * a < p * a + a
  PROVE  p = q
<1>1. CASE p >= q + 1
  <2>1. p * a >= (q + 1) * a
    BY <1>1
  <2>2. (q + 1) * a = q * a + a
    OBVIOUS
  <2> QED
    BY <2>1, <2>2
<1>2. CASE q >= p + 1
  <2>1. q * a >= (p + 1) * a
    BY <1>2
  <2>2. (p + 1) * a = p * a + a
    OBVIOUS
  <2> QED
    BY <2>1, <2>2
<1> QED
  BY <1>1, <1>2

LEMMA AlignsUp ==
  ASSUME NEW x \in Int, NEW a \in Nat \ {0}
  PROVE  AlignTo(x, a) \in Int /\ x <= AlignTo(x, a) /\ AlignTo(x, a) < x + a
<1>1. x + a - 1 \in Int
  OBVIOUS
<1> DEFINE q == (x + a - 1) \div a
<1>2. q \in Int /\ q * a <= x + a - 1 /\ x + a - 1 < q * a + a
  BY <1>1, Euclid
<1>3. AlignTo(x, a) = q * a
  BY DEF AlignTo
<1> HIDE DEF q
<1>4. q * a \in Int
  BY <1>2
<1> QED
  BY <1>2, <1>3, <1>4

\* Aligning commutes with a shift by a multiple.
LEMMA AlignsRelatively ==
  ASSUME NEW x \in Int, NEW m \in Int, NEW a \in Nat \ {0}
  PROVE  AlignTo(m * a + x, a) = m * a + AlignTo(x, a)
<1> DEFINE y == x + a - 1
           z == m * a + x + a - 1
           p == y \div a
           q == z \div a
<1>1. m * a \in Int /\ y \in Int /\ z \in Int /\ z = m * a + y
  OBVIOUS
<1>2. /\ p \in Int /\ p * a <= y /\ y < p * a + a
      /\ q \in Int /\ q * a <= z /\ z < q * a + a
  <2> HIDE DEF y, z
  <2> QED
    BY <1>1, Euclid
<1>3. AlignTo(x, a) = p * a /\ AlignTo(m * a + x, a) = q * a
  BY DEF AlignTo
<1> HIDE DEF y, z, p, q
<1>4. (m + p) * a = m * a + p * a /\ p * a \in Int /\ q * a \in Int /\ m + p \in Int
  BY <1>2
<1>5. m + p = q
  BY <1>1, <1>2, <1>4, QuotientIsUnique
<1> QED
  BY <1>3, <1>4, <1>5

LEMMA HeapAligns ==
  ASSUME NEW x \in Int
  PROVE  /\ AlignTo(x - 3, 4) \in Int /\ AlignTo(x - 3, 4) % 4 = 0
         /\ AlignTo(x - 3, 4) <= x
BY DEF AlignTo

\* What fits below the heap before it is aligned fits after that.
LEMMA StackAligns ==
  ASSUME NEW s \in Int, NEW b \in Nat, NEW h \in Int, NEW a \in {1, 2, 4},
         h % 4 = 0, b % a = 0, s + b <= h
  PROVE  AlignTo(s, a) + b <= h
<1>1. CASE a = 1
  BY <1>1 DEF AlignTo
<1>2. CASE a = 2
  BY <1>2 DEF AlignTo
<1>3. CASE a = 4
  BY <1>3 DEF AlignTo
<1> QED
  BY <1>1, <1>2, <1>3

\* What is aligned already stays where it is.
LEMMA AlignedStays ==
  ASSUME NEW v \in Int, NEW a \in Nat \ {0}, v % a = 0
  PROVE  AlignTo(v, a) = v
<1>1. PICK q : q = v \div a
  OBVIOUS
<1>2. q \in Int /\ v = q * a
  BY <1>1
<1>3. (v + a - 1) \div a = q
  BY <1>2
<1> QED
  BY <1>2, <1>3 DEF AlignTo

-----------------------------------------------------------------------------
(* The stack: scopes nest, and so do their tensors. *)

LEMMA RequestFacts ==
  ASSUME NEW r \in Request
  PROVE  /\ r.bytes \in Nat \ {0} /\ r.item \in {1, 2, 4} /\ r.bytes % r.item = 0
         /\ Alignment(r) \in Nat \ {0}
         /\ r.align = Natural => WellAligned(r)
BY DEF Request, Alignment, Natural, WellAligned

LEMMA StackTypes ==
  ASSUME StackInv
  PROVE  /\ stack \in Nat /\ heap \in Int /\ Depth \in 0..MaxScopes
         /\ Lower \in Nat /\ MaxScopes \in Nat /\ MaxSections \in Nat
         /\ DOMAIN scopes = 1..Depth
         /\ \A d \in 1..Depth : /\ scopes[d] \in Scope /\ scopes[d].start \in Nat
                                /\ scopes[d].sections \in 1..MaxSections
                                /\ scopes[d].section \in Nat
         /\ \A t \in tensors : /\ t.base \in Nat /\ t.bytes \in Nat /\ t.depth \in 1..Depth
                               /\ t.age \in 0..MaxSections /\ t.counted \in BOOLEAN
         /\ \A d \in 1..Depth : /\ Level(d) \in Nat /\ Level(d) <= stack
                                /\ scopes[d].start <= Level(d)
<1>1. /\ stack \in Nat /\ heap \in Int /\ Depth \in 0..MaxScopes
      /\ Lower \in Nat /\ MaxScopes \in Nat /\ MaxSections \in Nat
      /\ DOMAIN scopes = 1..Depth
  BY RangeAssumption, SectionsAssumption DEF StackInv, SbufTypeOK, Depth
<1>2. \A d \in 1..Depth : /\ scopes[d] \in Scope /\ scopes[d].start \in Nat
                          /\ scopes[d].sections \in 1..MaxSections
                          /\ scopes[d].section \in Nat
  <2> TAKE d \in 1..Depth
  <2>1. scopes \in Seq(Scope) /\ d \in 1..Len(scopes)
    BY DEF StackInv, SbufTypeOK, Depth
  <2>2. scopes[d] \in Scope
    BY <2>1
  <2> QED
    BY <2>2 DEF Scope
<1>3. \A t \in tensors : /\ t.base \in Nat /\ t.bytes \in Nat /\ t.depth \in 1..Depth
                         /\ t.age \in 0..MaxSections /\ t.counted \in BOOLEAN
  <2> TAKE t \in tensors
  <2>1. t \in StackTensor /\ t.depth <= Depth
    BY DEF StackInv, SbufTypeOK, TensorsNest
  <2> QED
    BY <1>1, <2>1 DEF StackTensor
<1>4. \A d \in 1..Depth : /\ Level(d) \in Nat /\ Level(d) <= stack
                          /\ scopes[d].start <= Level(d)
  BY <1>1, <1>2 DEF Level, StackInv, ScopesNest
<1> QED
  BY <1>1, <1>2, <1>3, <1>4

LEMMA SbufStart == SbufInit => StackInv /\ StackApart /\ HeapNests /\ StackBelowHeap /\ LoopsRepeat
<1> SUFFICES ASSUME SbufInit
             PROVE  StackInv /\ StackApart /\ HeapNests /\ StackBelowHeap /\ LoopsRepeat
  OBVIOUS
<1>1. /\ stack = Lower /\ heap = Upper /\ scopes = <<>> /\ held = <<>> /\ tensors = {}
      /\ Depth = 0 /\ DOMAIN held = {}
  BY DEF SbufInit, Depth
<1>2. SbufTypeOK
  BY <1>1, RangeAssumption, SectionsAssumption DEF SbufTypeOK
<1>3. ScopesNest /\ TensorsNest
  BY <1>1, RangeAssumption DEF ScopesNest, TensorsNest
<1>4. StackApart /\ StackBelowHeap
  BY <1>1 DEF StackApart, StackBelowHeap, OnStack
<1>5. HeapNests
  BY <1>1, RangeAssumption DEF HeapNests
<1>6. LoopsRepeat
  BY <1>1 DEF LoopsRepeat
<1> QED
  BY <1>2, <1>3, <1>4, <1>5, <1>6 DEF StackInv

-----------------------------------------------------------------------------
(* What each step does to scopes, levels and tensors. *)

LEMMA OpenScopeStep ==
  ASSUME StackInv, NEW degree \in 1..MaxSections, OpenScope(degree)
  PROVE  /\ Depth' = Depth + 1 /\ Depth + 1 <= MaxScopes /\ scopes' \in Seq(Scope)
         /\ \A d \in 1..Depth : scopes'[d] = scopes[d]
         /\ scopes'[Depth + 1].start = stack /\ scopes'[Depth + 1].section = 0
         /\ scopes'[Depth + 1].sections = degree
         /\ \A d \in 1..Depth : Level(d)' = Level(d)
         /\ \A d : d = Depth + 1 => Level(d)' = stack
         /\ UNCHANGED <<stack, heap, held, tensors>>
<1> DEFINE new == [start |-> stack, sections |-> degree, section |-> 0]
<1>1. /\ scopes \in Seq(Scope) /\ scopes' = Append(scopes, new) /\ Depth < MaxScopes
      /\ UNCHANGED <<stack, heap, held, tensors>>
  BY DEF OpenScope, StackInv, SbufTypeOK
<1>2. new \in Scope
  BY StackTypes DEF Scope
<1>3. new.start = stack /\ new.section = 0 /\ new.sections = degree
  OBVIOUS
<1> HIDE DEF new
<1>4. /\ Depth' = Depth + 1 /\ scopes' \in Seq(Scope)
      /\ \A d \in 1..Depth : scopes'[d] = scopes[d]
      /\ scopes'[Depth + 1] = new
  BY <1>1, <1>2 DEF Depth
<1>5. Depth \in Nat /\ MaxScopes \in Nat
  BY StackTypes
<1>6. \A d \in 1..Depth : Level(d)' = Level(d)
  <2> TAKE d \in 1..Depth
  <2>1. CASE d < Depth
    BY <1>4, <1>5, <2>1 DEF Level
  <2>2. CASE d = Depth
    <3>1. Level(d) = stack
      BY <1>5, <2>2 DEF Level
    <3>2. d < Depth' /\ scopes'[d + 1].start = stack
      BY <1>3, <1>4, <1>5, <2>2
    <3>3. Level(d)' = stack
      BY <3>2 DEF Level
    <3> QED
      BY <3>1, <3>3
  <2> QED
    BY <1>5, <2>1, <2>2
<1>7. \A d : d = Depth + 1 => Level(d)' = stack
  <2> SUFFICES ASSUME NEW d, d = Depth + 1
               PROVE  Level(d)' = stack
    OBVIOUS
  <2>1. ~(d < Depth') /\ stack' = stack
    BY <1>1, <1>4, <1>5
  <2> QED
    BY <2>1 DEF Level
<1>8. Depth + 1 <= MaxScopes
  BY <1>1, <1>5
<1>9. /\ scopes'[Depth + 1].start = stack /\ scopes'[Depth + 1].section = 0
      /\ scopes'[Depth + 1].sections = degree
  BY <1>3, <1>4
<1> QED
  BY <1>1, <1>4, <1>6, <1>7, <1>8, <1>9

LEMMA AllocStackStep ==
  ASSUME StackInv, NEW r \in Requests, AllocStack(r)
  PROVE  \E t \in StackTensor :
           /\ tensors' = tensors \cup {t}
           /\ t.base = AlignTo(stack, Alignment(r)) /\ t.bytes = r.bytes
           /\ t.depth = Depth /\ t.age = 0 /\ t.counted
           /\ stack <= t.base /\ stack' = End(t) /\ End(t) \in Nat /\ stack < stack'
           /\ Depth \in 1..MaxScopes /\ Depth' = Depth
           /\ \A d \in 1..Depth : Level(d)' = IF d = Depth THEN End(t) ELSE Level(d)
           /\ UNCHANGED <<heap, scopes, held>>
<1> DEFINE base == AlignTo(stack, Alignment(r))
           t == [base |-> base, bytes |-> r.bytes, depth |-> Depth, age |-> 0, counted |-> TRUE]
<1>1. r.bytes \in Nat \ {0} /\ Alignment(r) \in Nat \ {0}
  BY RequestFacts, RequestsAssumption
<1>2. stack \in Nat /\ Depth \in 0..MaxScopes /\ MaxSections \in Nat /\ MaxScopes \in Nat
  BY StackTypes
<1>3. base \in Int /\ stack <= base
  <2>1. stack \in Int
    BY <1>2
  <2> QED
    BY <1>1, <2>1, AlignsUp
<1>4. /\ stack' = base + r.bytes /\ tensors' = tensors \cup {t} /\ Depth > 0
      /\ UNCHANGED <<heap, scopes, held>>
  BY DEF AllocStack
<1> HIDE DEF base
<1>5. /\ t.base = base /\ t.bytes = r.bytes /\ t.depth = Depth /\ t.age = 0 /\ t.counted
      /\ t \in StackTensor
  BY <1>1, <1>2, <1>3, <1>4 DEF StackTensor
<1>6. End(t) = base + r.bytes
  BY <1>5 DEF End
<1>7. Depth' = Depth
  BY <1>4 DEF Depth
<1> HIDE DEF t
<1>8. \A d \in 1..Depth : Level(d)' = IF d = Depth THEN End(t) ELSE Level(d)
  BY <1>2, <1>4, <1>6, <1>7 DEF Level
<1> QED
  BY <1>1, <1>2, <1>3, <1>4, <1>5, <1>6, <1>7, <1>8 DEF base

LEMMA CloseScopeStep ==
  ASSUME StackInv, CloseScope
  PROVE  /\ Depth' = Depth - 1 /\ Depth' \in Nat /\ scopes' \in Seq(Scope)
         /\ \A d \in 1..Depth' : scopes'[d] = scopes[d] /\ Level(d)' = Level(d)
         /\ stack' = scopes[Depth].start /\ Depth \in 1..MaxScopes
         /\ \A t : t \in tensors' <=> t \in tensors /\ t.depth < Depth
         /\ UNCHANGED <<heap, held>>
<1>1. /\ scopes \in Seq(Scope) /\ scopes' = SubSeq(scopes, 1, Len(scopes) - 1) /\ Depth > 0
      /\ stack' = scopes[Depth].start /\ UNCHANGED <<heap, held>>
      /\ tensors' = {t \in tensors : t.depth < Depth}
  BY DEF CloseScope, Pop, Top, StackInv, SbufTypeOK
<1>2. Depth \in 0..MaxScopes /\ MaxScopes \in Nat
  BY StackTypes
<1>3. /\ Depth' = Depth - 1 /\ scopes' \in Seq(Scope)
      /\ \A d \in 1..Depth - 1 : scopes'[d] = scopes[d]
  <2>1. scopes \in Seq(Scope) /\ scopes # <<>> /\ Depth = Len(scopes) /\ Depth \in Nat \ {0}
    BY <1>1, <1>2 DEF Depth
  <2>2. /\ SubSeq(scopes, 1, Depth - 1) \in Seq(Scope)
        /\ Len(SubSeq(scopes, 1, Depth - 1)) = Depth - 1
        /\ \A d \in 1..Depth - 1 : SubSeq(scopes, 1, Depth - 1)[d] = scopes[d]
    BY <2>1
  <2>3. scopes' = SubSeq(scopes, 1, Depth - 1)
    BY <1>1, <2>1
  <2> QED
    BY <2>2, <2>3 DEF Depth
<1>4. \A d \in 1..Depth - 1 : Level(d)' = Level(d)
  <2> TAKE d \in 1..Depth - 1
  <2>1. CASE d < Depth - 1
    <3>1. scopes'[d + 1] = scopes[d + 1] /\ d < Depth' /\ d < Depth
      BY <1>2, <1>3, <2>1
    <3> QED
      BY <3>1 DEF Level
  <2>2. CASE d = Depth - 1
    <3>1. ~(d < Depth') /\ d < Depth /\ d + 1 = Depth
      BY <1>2, <1>3, <2>2
    <3> QED
      BY <1>1, <3>1 DEF Level
  <2> QED
    BY <1>2, <2>1, <2>2
<1>5. Depth' \in Nat /\ Depth \in 1..MaxScopes
  BY <1>1, <1>2, <1>3
<1> QED
  BY <1>1, <1>3, <1>4, <1>5

\* A tensor after its section is over.
Aged(u) == IF u.depth = Depth THEN [u EXCEPT !.age = @ + 1, !.counted = @ /\ ~Wraps] ELSE u

LEMMA IncrementStep ==
  ASSUME StackInv, IncrementSection
  PROVE  /\ Depth \in 1..MaxScopes /\ Depth' = Depth /\ scopes' \in Seq(Scope)
         /\ \A d \in 1..Depth : /\ scopes'[d].start = scopes[d].start
                                /\ scopes'[d].sections = scopes[d].sections
                                /\ d # Depth => scopes'[d].section = scopes[d].section
         /\ scopes'[Depth].section = IF Wraps THEN 0 ELSE scopes[Depth].section + 1
         /\ stack' = IF Wraps THEN scopes[Depth].start ELSE stack
         /\ \A d \in 1..Depth : Level(d)' = IF d = Depth THEN stack' ELSE Level(d)
         /\ UNCHANGED <<heap, held>>
<1>1. /\ scopes \in Seq(Scope) /\ Depth > 0 /\ UNCHANGED <<heap, held>>
      /\ scopes' = [scopes EXCEPT ![Depth].section = IF Wraps THEN 0 ELSE @ + 1]
      /\ stack' = IF Wraps THEN scopes[Depth].start ELSE stack
  BY DEF IncrementSection, Top, StackInv, SbufTypeOK
<1>2. /\ Depth \in 0..MaxScopes /\ MaxScopes \in Nat
      /\ \A d \in 1..Depth : scopes[d] \in Scope
  BY StackTypes
<1>3. Depth' = Depth /\ DOMAIN scopes' = 1..Depth
  BY <1>1 DEF Depth
<1>4. /\ \A d \in 1..Depth : d # Depth => scopes'[d] = scopes[d]
      /\ scopes'[Depth] = [scopes[Depth] EXCEPT !.section = IF Wraps THEN 0 ELSE @ + 1]
  BY <1>1, <1>2 DEF Depth
<1>5. scopes[Depth] \in Scope
  BY <1>1, <1>2
<1>6. /\ scopes'[Depth].start = scopes[Depth].start
      /\ scopes'[Depth].sections = scopes[Depth].sections
      /\ scopes'[Depth].section = IF Wraps THEN 0 ELSE scopes[Depth].section + 1
      /\ scopes'[Depth] \in Scope
  BY <1>4, <1>5 DEF Scope
<1>7. scopes' \in Seq(Scope)
  BY <1>1, <1>2, <1>3, <1>4, <1>6 DEF Depth
<1>8. \A d \in 1..Depth : Level(d)' = IF d = Depth THEN stack' ELSE Level(d)
  BY <1>1, <1>2, <1>3, <1>4, <1>6 DEF Level
<1> QED
  BY <1>1, <1>2, <1>3, <1>4, <1>6, <1>7, <1>8

LEMMA IncrementTensors ==
  ASSUME StackInv, IncrementSection
  PROVE  /\ \A t \in tensors' : \E u \in tensors : t = Aged(u)
         /\ \A u \in tensors : u.depth # Depth => u \in tensors' /\ Aged(u) = u
         /\ \A u \in tensors : u.depth = Depth /\ Aged(u) \in tensors' =>
              u.age + 1 < scopes[Depth].sections
         /\ \A u \in tensors :
              /\ Aged(u).base = u.base /\ Aged(u).bytes = u.bytes
              /\ Aged(u).depth = u.depth /\ End(Aged(u)) = End(u)
              /\ Aged(u).counted => u.counted
              /\ u.depth = Depth => /\ Aged(u).age = u.age + 1
                                    /\ Aged(u).counted => ~Wraps
         /\ \A u \in tensors : Aged(u) \in tensors' => Aged(u) \in StackTensor
<1>1. tensors' = {t \in {Aged(u) : u \in tensors} : t.depth = Depth => t.age < scopes[Depth].sections}
  BY DEF IncrementSection, Older, Aged, Top
<1>2. \A u \in tensors : u \in StackTensor
  BY DEF StackInv, SbufTypeOK
<1>3. ASSUME NEW u \in tensors
      PROVE  /\ Aged(u).base = u.base /\ Aged(u).bytes = u.bytes /\ Aged(u).depth = u.depth
             /\ Aged(u).counted => u.counted
             /\ u.depth = Depth => /\ Aged(u).age = u.age + 1
                                   /\ Aged(u).counted => ~Wraps
             /\ u.depth # Depth => Aged(u) = u
  BY <1>2 DEF Aged, StackTensor
<1>4. \A u \in tensors : End(Aged(u)) = End(u)
  BY <1>3 DEF End
<1>5. ASSUME NEW u \in tensors, Aged(u) \in tensors'
      PROVE  Aged(u) \in StackTensor
  <2>1. CASE u.depth = Depth
    <3>1. u.age + 1 < scopes[Depth].sections
      BY <1>1, <1>3, <1>5, <2>1
    <3>2. u.depth \in 1..Depth /\ scopes[u.depth].sections \in 1..MaxSections /\ MaxSections \in Nat
      BY StackTypes
    <3>3. u.age \in Nat /\ u.age + 1 \in 0..MaxSections
      BY <1>2, <2>1, <3>1, <3>2 DEF StackTensor
    <3> QED
      BY <1>2, <2>1, <3>3 DEF Aged, StackTensor
  <2>2. CASE u.depth # Depth
    BY <1>2, <1>3, <2>2
  <2> QED
    BY <2>1, <2>2
<1> QED
  BY <1>1, <1>3, <1>4, <1>5

LEMMA PushHeapStep ==
  ASSUME StackInv, NEW r \in Requests, AllocHeap(r)
  PROVE  /\ held \in Seq(HeapTensor) /\ held' \in Seq(HeapTensor) /\ heap' \in Int
         /\ \E top \in Int :
              /\ top = IF r.align = Natural THEN heap ELSE AlignTo(heap, r.align)
              /\ held' = Append(held, [base |-> top - r.bytes, bytes |-> r.bytes])
              /\ heap' = AlignTo(top - r.bytes - 3, 4)
         /\ stack + r.bytes <= heap /\ UNCHANGED <<stack, scopes, tensors>>
<1>1. r.bytes \in Nat \ {0} /\ r.align \in Nat /\ heap \in Int /\ held \in Seq(HeapTensor)
  BY RequestsAssumption DEF Request, StackInv, SbufTypeOK
<1>2. PICK top : top = IF r.align = Natural THEN heap ELSE AlignTo(heap, r.align)
  OBVIOUS
<1>3. top \in Int
  <2>1. CASE r.align = Natural
    BY <1>1, <1>2, <2>1
  <2>2. CASE r.align # Natural
    BY <1>1, <1>2, <2>2, AlignsUp DEF Natural
  <2> QED
    BY <2>1, <2>2
<1>4. /\ held' = Append(held, [base |-> top - r.bytes, bytes |-> r.bytes])
      /\ heap' = AlignTo(top - r.bytes - 3, 4)
      /\ stack + r.bytes <= heap /\ UNCHANGED <<stack, scopes, tensors>>
  BY <1>2 DEF AllocHeap, PushHeap, Fits
<1>5. heap' \in Int
  <2>1. top - r.bytes \in Int
    BY <1>1, <1>3
  <2> QED
    BY <1>4, <2>1, HeapAligns
<1>6. [base |-> top - r.bytes, bytes |-> r.bytes] \in HeapTensor
  BY <1>1, <1>3 DEF HeapTensor
<1>7. held' \in Seq(HeapTensor)
  BY <1>1, <1>4, <1>6
<1> QED
  BY <1>1, <1>2, <1>3, <1>4, <1>5, <1>7

LEMMA PopHeapStep ==
  ASSUME StackInv, PopHeap
  PROVE  /\ held \in Seq(HeapTensor) /\ Len(held) \in Nat \ {0}
         /\ held' \in Seq(HeapTensor) /\ Len(held') = Len(held) - 1
         /\ \A i \in 1..Len(held) - 1 : held'[i] = held[i]
         /\ heap' \in Int /\ heap' % 4 = 0 /\ heap' <= heap + held[Len(held)].bytes
         /\ held[Len(held)].bytes \in Nat /\ held[Len(held)].base \in Int
         /\ UNCHANGED <<stack, scopes, tensors>>
<1>1. /\ held \in Seq(HeapTensor) /\ held # <<>> /\ heap \in Int
      /\ heap' = AlignTo(heap + held[Len(held)].bytes - 3, 4)
      /\ held' = SubSeq(held, 1, Len(held) - 1)
      /\ UNCHANGED <<stack, scopes, tensors>>
  BY DEF PopHeap, Pop, StackInv, SbufTypeOK
<1>2. Len(held) \in Nat \ {0} /\ held[Len(held)] \in HeapTensor
  BY <1>1
<1>3. held[Len(held)].bytes \in Nat /\ held[Len(held)].base \in Int
  BY <1>2 DEF HeapTensor
<1>4. PICK n : n = Len(held) - 1
  OBVIOUS
<1>5. /\ SubSeq(held, 1, n) \in Seq(HeapTensor) /\ Len(SubSeq(held, 1, n)) = n
      /\ \A i \in 1..n : SubSeq(held, 1, n)[i] = held[i]
  BY <1>1, <1>2, <1>4
<1>6. PICK x : x = heap + held[Len(held)].bytes
  OBVIOUS
<1>7. x \in Int
  BY <1>1, <1>3, <1>6
<1>8. heap' \in Int /\ heap' % 4 = 0 /\ heap' <= x
  <2>1. heap + held[Len(held)].bytes - 3 = x - 3
    BY <1>1, <1>3, <1>6
  <2>2. heap' = AlignTo(x - 3, 4)
    BY <1>1, <2>1
  <2> QED
    BY <1>7, <2>2, HeapAligns
<1> QED
  BY <1>1, <1>2, <1>3, <1>4, <1>5, <1>6, <1>8

-----------------------------------------------------------------------------
(* Every step keeps scopes and tensors nested. *)

LEMMA OpenScopeNests ==
  ASSUME StackInv, NEW degree \in 1..MaxSections, OpenScope(degree)
  PROVE  StackInv'
<1>1. /\ Depth' = Depth + 1 /\ Depth + 1 <= MaxScopes /\ scopes' \in Seq(Scope)
      /\ \A d \in 1..Depth : scopes'[d] = scopes[d]
      /\ scopes'[Depth + 1].start = stack /\ scopes'[Depth + 1].section = 0
      /\ scopes'[Depth + 1].sections = degree
      /\ \A d \in 1..Depth : Level(d)' = Level(d)
      /\ UNCHANGED <<stack, heap, held, tensors>>
  BY OpenScopeStep
<1>2. /\ stack \in Nat /\ Depth \in Nat /\ MaxSections \in Nat /\ Lower \in Nat
      /\ \A t \in tensors : t.depth \in 1..Depth
      /\ \A d \in 1..Depth : scopes[d].start \in Nat
  BY StackTypes
<1>3. SbufTypeOK'
  BY <1>1 DEF StackInv, SbufTypeOK, Depth
<1>4. ScopesNest'
  <2>1. Lower <= stack' /\ Depth' = Depth + 1
    BY <1>1 DEF StackInv, ScopesNest
  <2>2. ASSUME NEW d \in 1..Depth
        PROVE  /\ Lower <= scopes'[d].start /\ scopes'[d].start <= stack'
               /\ scopes'[d].section < scopes'[d].sections /\ scopes'[d].start \in Nat
    BY <1>1, <1>2 DEF StackInv, ScopesNest
  <2>3. /\ Lower <= scopes'[Depth + 1].start /\ scopes'[Depth + 1].start <= stack'
        /\ scopes'[Depth + 1].section < scopes'[Depth + 1].sections
    BY <1>1, <1>2, <2>1
  <2>4. \A d \in 1..Depth' : d \in 1..Depth \/ d = Depth + 1
    BY <1>2, <2>1
  <2>5. \A d \in 1..Depth' :
          /\ Lower <= scopes'[d].start /\ scopes'[d].start <= stack'
          /\ scopes'[d].section < scopes'[d].sections
    BY <2>2, <2>3, <2>4
  <2>6. ASSUME NEW d \in 1..Depth', NEW e \in 1..Depth', d < e
        PROVE  scopes'[d].start <= scopes'[e].start
    <3>1. d \in 1..Depth
      BY <1>2, <2>1, <2>6
    <3>2. CASE e \in 1..Depth
      BY <1>1, <2>6, <3>1, <3>2 DEF StackInv, ScopesNest
    <3>3. CASE e = Depth + 1
      BY <1>1, <2>2, <3>1, <3>3
    <3> QED
      BY <2>4, <3>2, <3>3
  <2> QED
    BY <2>1, <2>5, <2>6 DEF ScopesNest
<1>5. TensorsNest'
  BY <1>1, <1>2 DEF StackInv, TensorsNest, End
<1> QED
  BY <1>3, <1>4, <1>5 DEF StackInv

LEMMA AllocStackNests ==
  ASSUME StackInv, NEW r \in Requests, AllocStack(r)
  PROVE  StackInv'
<1>1. PICK t \in StackTensor :
        /\ tensors' = tensors \cup {t}
        /\ t.depth = Depth /\ t.age = 0
        /\ stack <= t.base /\ stack' = End(t) /\ End(t) \in Nat /\ stack < stack'
        /\ Depth \in 1..MaxScopes /\ Depth' = Depth
        /\ \A d \in 1..Depth : Level(d)' = IF d = Depth THEN End(t) ELSE Level(d)
        /\ UNCHANGED <<heap, scopes, held>>
  BY AllocStackStep
<1>2. /\ stack \in Nat /\ Depth \in Nat /\ Lower \in Nat /\ t.base \in Nat
      /\ \A d \in 1..Depth : /\ scopes[d].start \in Nat /\ Level(d) \in Nat /\ Level(d) <= stack
                             /\ scopes[d].sections > 0
      /\ \A u \in tensors : u.depth \in 1..Depth /\ u.base \in Nat /\ u.bytes \in Nat
  BY <1>1, StackTypes DEF StackTensor
<1>3. SbufTypeOK'
  BY <1>1 DEF StackInv, SbufTypeOK
<1>4. ScopesNest'
  <2>1. \A d \in 1..Depth : scopes[d].start <= stack'
    BY <1>1, <1>2 DEF StackInv, ScopesNest
  <2> QED
    BY <1>1, <1>2, <2>1 DEF StackInv, ScopesNest
<1>5. ASSUME NEW u \in tensors'
      PROVE  (/\ u.depth <= Depth /\ scopes[u.depth].start <= u.base
              /\ u.counted => End(u) <= Level(u.depth)
              /\ u.age < scopes[u.depth].sections)'
  <2>1. CASE u \in tensors
    <3>1. End(u) \in Nat /\ u.depth \in 1..Depth
      BY <1>2, <2>1 DEF End
    <3>2. /\ u.depth <= Depth /\ scopes[u.depth].start <= u.base
          /\ u.counted => End(u) <= Level(u.depth)
          /\ u.age < scopes[u.depth].sections
      BY <2>1 DEF StackInv, TensorsNest
    <3>3. Level(u.depth) <= Level(u.depth)'
      BY <1>1, <1>2, <3>1
    <3>4. u.counted => End(u) <= Level(u.depth)'
      BY <1>1, <1>2, <3>1, <3>2, <3>3
    <3> QED
      BY <1>1, <3>2, <3>4
  <2>2. CASE u = t
    <3>1. scopes[u.depth].start <= u.base
      BY <1>1, <1>2, <2>2 DEF StackInv, ScopesNest
    <3>2. End(u) <= Level(u.depth)'
      BY <1>1, <1>2, <2>2
    <3> QED
      BY <1>1, <1>2, <2>2, <3>1, <3>2
  <2> QED
    BY <1>1, <2>1, <2>2
<1>6. TensorsNest'
  BY <1>5 DEF TensorsNest
<1> QED
  BY <1>3, <1>4, <1>6 DEF StackInv

LEMMA CloseScopeNests ==
  ASSUME StackInv, CloseScope
  PROVE  StackInv'
<1>1. /\ Depth' = Depth - 1 /\ Depth' \in Nat /\ scopes' \in Seq(Scope)
      /\ \A d \in 1..Depth' : scopes'[d] = scopes[d] /\ Level(d)' = Level(d)
      /\ stack' = scopes[Depth].start /\ Depth \in 1..MaxScopes
      /\ \A t : t \in tensors' <=> t \in tensors /\ t.depth < Depth
      /\ UNCHANGED <<heap, held>>
  BY CloseScopeStep
<1>2. /\ stack \in Nat /\ Depth \in Nat /\ Lower \in Nat /\ MaxScopes \in Nat
      /\ \A d \in 1..Depth : scopes[d].start \in Nat
      /\ \A u \in tensors : u.depth \in 1..Depth
  BY StackTypes
<1>3. SbufTypeOK'
  <2>1. stack' \in Nat /\ Depth' <= MaxScopes
    BY <1>1, <1>2
  <2> QED
    BY <1>1, <2>1 DEF StackInv, SbufTypeOK, Depth
<1>4. ScopesNest'
  <2>1. \A d \in 1..Depth' : d \in 1..Depth /\ d < Depth
    BY <1>1, <1>2
  <2>2. \A d \in 1..Depth' : scopes[d].start <= scopes[Depth].start
    BY <1>1, <2>1 DEF StackInv, ScopesNest
  <2>3. Lower <= scopes[Depth].start
    BY <1>1 DEF StackInv, ScopesNest
  <2> QED
    BY <1>1, <2>1, <2>2, <2>3 DEF StackInv, ScopesNest
<1>5. TensorsNest'
  <2>1. \A t \in tensors' : t \in tensors /\ t.depth \in 1..Depth'
    BY <1>1, <1>2
  <2> QED
    BY <1>1, <1>2, <2>1 DEF StackInv, TensorsNest
<1> QED
  BY <1>3, <1>4, <1>5 DEF StackInv

LEMMA IncrementNests ==
  ASSUME StackInv, IncrementSection
  PROVE  StackInv'
<1>1. /\ Depth \in 1..MaxScopes /\ Depth' = Depth /\ scopes' \in Seq(Scope)
      /\ \A d \in 1..Depth : /\ scopes'[d].start = scopes[d].start
                             /\ scopes'[d].sections = scopes[d].sections
                             /\ d # Depth => scopes'[d].section = scopes[d].section
      /\ scopes'[Depth].section = IF Wraps THEN 0 ELSE scopes[Depth].section + 1
      /\ stack' = IF Wraps THEN scopes[Depth].start ELSE stack
      /\ \A d \in 1..Depth : Level(d)' = IF d = Depth THEN stack' ELSE Level(d)
      /\ UNCHANGED <<heap, held>>
  BY IncrementStep
<1>2. /\ stack \in Nat /\ Depth \in Nat /\ Lower \in Nat /\ MaxScopes \in Nat
      /\ \A d \in 1..Depth : /\ scopes[d].start \in Nat /\ Level(d) \in Nat /\ Level(d) <= stack
                             /\ scopes[d].section \in Nat /\ scopes[d].sections \in Nat \ {0}
      /\ \A u \in tensors : u.depth \in 1..Depth
  BY StackTypes
<1>3. SbufTypeOK'
  <2>1. tensors' \subseteq StackTensor
    BY IncrementTensors
  <2>2. stack' \in Nat
    BY <1>1, <1>2
  <2> QED
    BY <1>1, <2>1, <2>2 DEF StackInv, SbufTypeOK, Depth
<1>4. ScopesNest'
  <2>1. scopes[Depth].section < scopes[Depth].sections
    BY <1>1 DEF StackInv, ScopesNest
  <2>2. scopes'[Depth].section < scopes'[Depth].sections
    <3>1. scopes[Depth].section \in Nat /\ scopes[Depth].sections \in Nat \ {0}
      BY <1>1, <1>2
    <3>2. Wraps <=> scopes[Depth].section + 1 = scopes[Depth].sections
      BY DEF Wraps, Top
    <3> QED
      BY <1>1, <2>1, <3>1, <3>2
  <2>3. \A d \in 1..Depth : scopes[d].start <= stack'
    <3>1. \A d \in 1..Depth : d < Depth => scopes[d].start <= scopes[Depth].start
      BY <1>1 DEF StackInv, ScopesNest
    <3> QED
      BY <1>1, <1>2, <3>1 DEF StackInv, ScopesNest
  <2>4. Lower <= stack'
    BY <1>1 DEF StackInv, ScopesNest
  <2> QED
    BY <1>1, <2>2, <2>3, <2>4 DEF StackInv, ScopesNest
<1>5. ASSUME NEW t \in tensors'
      PROVE  (/\ t.depth <= Depth /\ scopes[t.depth].start <= t.base
              /\ t.counted => End(t) <= Level(t.depth)
              /\ t.age < scopes[t.depth].sections)'
  <2>1. PICK u \in tensors : t = Aged(u)
    BY IncrementTensors
  <2>2. /\ t.base = u.base /\ t.depth = u.depth /\ End(t) = End(u)
        /\ t.counted => u.counted
        /\ u.depth = Depth => /\ t.age = u.age + 1
                              /\ t.counted => ~Wraps
                              /\ t.age < scopes[Depth].sections
        /\ u.depth # Depth => t = u
    BY <2>1, IncrementTensors
  <2>3. /\ u.depth \in 1..Depth /\ scopes[u.depth].start <= u.base
        /\ u.counted => End(u) <= Level(u.depth)
        /\ u.age < scopes[u.depth].sections
    BY <1>2 DEF StackInv, TensorsNest
  <2>4. t.counted => End(t) <= Level(t.depth)'
    <3>1. CASE u.depth = Depth
      <4>1. Level(Depth) = stack
        BY <1>2 DEF Level
      <4>2. u.counted => End(u) <= stack
        BY <2>3, <3>1, <4>1
      <4>3. t.counted => stack' = stack
        <5>1. t.counted => ~Wraps
          BY <2>2, <3>1
        <5>2. ~Wraps => stack' = stack
          BY <1>1
        <5> QED
          BY <5>1, <5>2
      <4> QED
        BY <1>1, <2>2, <2>3, <3>1, <4>2, <4>3
    <3>2. CASE u.depth # Depth
      BY <1>1, <2>2, <2>3, <3>2
    <3> QED
      BY <3>1, <3>2
  <2> QED
    BY <1>1, <2>2, <2>3, <2>4
<1>6. TensorsNest'
  BY <1>5 DEF TensorsNest
<1> QED
  BY <1>3, <1>4, <1>6 DEF StackInv

\* The heap's steps and align_stack_curr_addr leave the scopes alone.
LEMMA OthersNest ==
  ASSUME StackInv, UNCHANGED <<scopes, tensors>>, stack' \in Nat, stack <= stack',
         heap' \in Int, held' \in Seq(HeapTensor)
  PROVE  StackInv'
<1>1. /\ stack \in Nat /\ Depth \in Nat /\ Lower \in Nat
      /\ \A d \in 1..Depth : /\ scopes[d].start \in Nat /\ Level(d) \in Nat /\ Level(d) <= stack
      /\ \A u \in tensors : u.depth \in 1..Depth /\ u.base \in Nat /\ u.bytes \in Nat
  BY StackTypes
<1>2. Depth' = Depth
  BY DEF Depth
<1>3. \A d \in 1..Depth : Level(d) <= Level(d)' /\ Level(d)' \in Nat
  BY <1>1, <1>2 DEF Level
<1>4. SbufTypeOK'
  BY DEF StackInv, SbufTypeOK
<1>5. ScopesNest'
  <2>1. Lower <= stack' /\ \A d \in 1..Depth : scopes[d].start <= stack'
    BY <1>1 DEF StackInv, ScopesNest
  <2> QED
    BY <1>2, <2>1 DEF StackInv, ScopesNest
<1>6. ASSUME NEW u \in tensors, u.counted
      PROVE  End(u) <= Level(u.depth)'
  <2>1. End(u) <= Level(u.depth) /\ End(u) \in Nat /\ u.depth \in 1..Depth
    BY <1>1, <1>6 DEF StackInv, TensorsNest, End
  <2> QED
    BY <1>1, <1>3, <2>1
<1>7. TensorsNest'
  BY <1>1, <1>2, <1>6 DEF StackInv, TensorsNest
<1> QED
  BY <1>4, <1>5, <1>7 DEF StackInv

LEMMA StackStep == StackInv /\ [SbufNext]_sbufVars => StackInv'
<1> SUFFICES ASSUME StackInv, [SbufNext]_sbufVars
             PROVE  StackInv'
  OBVIOUS
<1>1. ASSUME NEW r \in Requests, AllocHeap(r)
      PROVE  StackInv'
  <2>1. UNCHANGED <<stack, scopes, tensors>> /\ held' \in Seq(HeapTensor) /\ heap' \in Int
    BY <1>1, PushHeapStep
  <2> QED
    BY <2>1, StackTypes, OthersNest
<1>2. ASSUME PopHeap
      PROVE  StackInv'
  <2>1. UNCHANGED <<stack, scopes, tensors>> /\ held' \in Seq(HeapTensor) /\ heap' \in Int
    BY <1>2, PopHeapStep
  <2> QED
    BY <2>1, StackTypes, OthersNest
<1>3. ASSUME NEW align \in Alignments, AlignStack(align)
      PROVE  StackInv'
  <2>1. stack \in Int /\ stack \in Nat /\ align \in Nat \ {0}
    BY StackTypes, AlignmentsAssumption
  <2>2. stack' = AlignTo(stack, align) /\ UNCHANGED <<heap, scopes, held, tensors>>
    BY <1>3 DEF AlignStack
  <2>3. stack' \in Int /\ stack <= stack'
    BY <2>1, <2>2, AlignsUp
  <2>4. stack' \in Nat /\ heap' \in Int /\ held' \in Seq(HeapTensor)
    BY <2>1, <2>2, <2>3 DEF StackInv, SbufTypeOK
  <2> QED
    BY <2>2, <2>3, <2>4, OthersNest
<1>4. CASE UNCHANGED sbufVars
  <2>1. UNCHANGED <<stack, heap, scopes, held, tensors>>
    BY <1>4 DEF sbufVars
  <2>2. stack' \in Nat /\ stack <= stack' /\ heap' \in Int /\ held' \in Seq(HeapTensor)
    BY <2>1 DEF StackInv, SbufTypeOK
  <2> QED
    BY <2>1, <2>2, OthersNest
<1> QED
  BY <1>1, <1>2, <1>3, <1>4, OpenScopeNests, AllocStackNests, CloseScopeNests, IncrementNests
     DEF SbufNext

-----------------------------------------------------------------------------
(* Every step keeps the tensors apart. *)

\* What is on the stack ends below what is allocated above it.
LEMMA StackEnds ==
  ASSUME StackInv, NEW t \in OnStack
  PROVE  /\ t \in tensors /\ t.counted /\ End(t) \in Nat /\ End(t) <= stack
         /\ \A u \in tensors : t.depth < u.depth => End(t) <= u.base
<1>1. t \in tensors /\ t.counted
  BY DEF OnStack
<1>2. /\ End(t) \in Nat /\ t.depth \in 1..Depth /\ stack \in Nat /\ Depth \in Nat
      /\ Level(t.depth) \in Nat /\ Level(t.depth) <= stack
  BY <1>1, StackTypes DEF End
<1>3. End(t) <= Level(t.depth)
  BY <1>1 DEF StackInv, TensorsNest
<1>4. ASSUME NEW u \in tensors, t.depth < u.depth
      PROVE  End(t) <= u.base
  <2>1. u.depth \in 1..Depth /\ u.base \in Nat /\ scopes[u.depth].start \in Nat
    BY StackTypes
  <2>2. scopes[u.depth].start <= u.base
    BY DEF StackInv, TensorsNest
  <2>3. Level(t.depth) = scopes[t.depth + 1].start /\ t.depth + 1 \in 1..Depth
    BY <1>2, <1>4, <2>1 DEF Level
  <2>4. scopes[t.depth + 1].start <= scopes[u.depth].start
    <3>1. CASE t.depth + 1 = u.depth
      BY <2>1, <3>1
    <3>2. CASE t.depth + 1 < u.depth
      BY <2>1, <2>3, <3>2 DEF StackInv, ScopesNest
    <3> QED
      BY <1>2, <1>4, <2>1, <3>1, <3>2
  <2> QED
    BY <1>2, <1>3, <2>1, <2>2, <2>3, <2>4
<1> QED
  BY <1>1, <1>2, <1>3, <1>4

LEMMA SameStackTensors ==
  ASSUME UNCHANGED tensors
  PROVE  /\ OnStack' = OnStack /\ (StackApart => StackApart')
         /\ UNCHANGED held /\ StackBelowHeap => StackBelowHeap'
  BY DEF OnStack, StackApart, StackBelowHeap, Apart, End

\* No step moves a tensor of the stack; what is counted was counted before.
LEMMA AllocStackApart ==
  ASSUME SharingInv, NEW r \in Requests, StackFits(r), AllocStack(r)
  PROVE  StackApart' /\ HeapNests' /\ StackBelowHeap'
<1>1. PICK t \in StackTensor :
        /\ tensors' = tensors \cup {t}
        /\ t.base = AlignTo(stack, Alignment(r)) /\ t.bytes = r.bytes
        /\ stack <= t.base /\ stack' = End(t) /\ UNCHANGED <<heap, scopes, held>>
  BY AllocStackStep DEF SharingInv
<1>2. stack \in Nat /\ heap \in Int /\ t.base \in Nat /\ r.bytes \in Nat /\ stack + r.bytes <= heap
  BY <1>1, StackTypes, RequestFacts, RequestsAssumption DEF SharingInv, AllocStack, Fits, StackTensor
<1>3. End(t) <= heap
  BY <1>1 DEF StackFits, End
<1>4. \A u \in OnStack : End(u) \in Nat /\ End(u) <= t.base
  BY <1>1, <1>2, StackEnds DEF SharingInv
<1>5. OnStack' \subseteq OnStack \cup {t}
  BY <1>1 DEF OnStack
<1>6. StackApart'
  BY <1>4, <1>5 DEF SharingInv, StackApart, Apart
<1>7. HeapNests'
  BY <1>1 DEF SharingInv, HeapNests, End
<1>8. \A i \in DOMAIN held : End(t) <= held[i].base
  <2> TAKE i \in DOMAIN held
  <2>1. held \in Seq(HeapTensor) /\ heap <= held[i].base
    BY DEF SharingInv, StackInv, SbufTypeOK, HeapNests
  <2>2. held[i] \in HeapTensor
    BY <2>1
  <2>3. held[i].base \in Int
    BY <2>2 DEF HeapTensor
  <2>4. End(t) \in Nat
    BY <1>1, <1>2 DEF End, StackTensor
  <2> QED
    BY <1>2, <1>3, <2>1, <2>3, <2>4
<1>9. StackBelowHeap'
  BY <1>1, <1>5, <1>8 DEF SharingInv, StackBelowHeap, End
<1> QED
  BY <1>6, <1>7, <1>9

LEMMA CloseScopeApart ==
  ASSUME SharingInv, CloseScope
  PROVE  StackApart' /\ HeapNests' /\ StackBelowHeap'
<1>1. /\ \A t : t \in tensors' <=> t \in tensors /\ t.depth < Depth
      /\ UNCHANGED <<heap, held>>
  BY CloseScopeStep DEF SharingInv
<1>2. OnStack' \subseteq OnStack
  BY <1>1 DEF OnStack
<1> QED
  BY <1>1, <1>2 DEF SharingInv, StackApart, HeapNests, StackBelowHeap, Apart, End

LEMMA IncrementApart ==
  ASSUME SharingInv, IncrementSection
  PROVE  StackApart' /\ HeapNests' /\ StackBelowHeap'
<1>1. UNCHANGED <<heap, held>>
  BY IncrementStep DEF SharingInv
<1>2. \A t \in OnStack' : \E u \in OnStack : t = Aged(u)
  <2> TAKE t \in OnStack'
  <2>1. t \in tensors' /\ t.counted
    BY DEF OnStack
  <2>2. PICK u \in tensors : t = Aged(u)
    BY <2>1, IncrementTensors DEF SharingInv
  <2>3. u.counted
    BY <2>1, <2>2, IncrementTensors DEF SharingInv
  <2> QED
    BY <2>2, <2>3 DEF OnStack
<1>3. \A u \in OnStack : Aged(u).base = u.base /\ End(Aged(u)) = End(u)
  BY IncrementTensors DEF SharingInv, OnStack
<1>4. StackApart'
  <2> SUFFICES ASSUME NEW t \in OnStack', NEW w \in OnStack', t # w
               PROVE  Apart(t, w)
    BY DEF StackApart, Apart, End
  <2>1. PICK u \in OnStack : t = Aged(u)
    BY <1>2
  <2>2. PICK v \in OnStack : w = Aged(v)
    BY <1>2
  <2>3. Apart(u, v)
    BY <2>1, <2>2 DEF SharingInv, StackApart
  <2> QED
    BY <1>3, <2>1, <2>2, <2>3 DEF Apart
<1>5. StackBelowHeap'
  <2> SUFFICES ASSUME NEW t \in OnStack', NEW i \in DOMAIN held
               PROVE  End(t) <= held[i].base
    BY <1>1 DEF StackBelowHeap, End
  <2>1. PICK u \in OnStack : t = Aged(u)
    BY <1>2
  <2> QED
    BY <1>3, <2>1 DEF SharingInv, StackBelowHeap
<1>6. HeapNests'
  BY <1>1 DEF SharingInv, HeapNests, End
<1> QED
  BY <1>4, <1>5, <1>6

LEMMA AllocHeapApart ==
  ASSUME SharingInv, NEW r \in Requests, HeapAligned(r), AllocHeap(r)
  PROVE  StackApart' /\ HeapNests' /\ StackBelowHeap'
<1>1. r.bytes \in Nat \ {0} /\ heap \in Int /\ stack \in Nat
  BY StackTypes, RequestFacts, RequestsAssumption DEF SharingInv
<1>2. PICK top \in Int :
        /\ top = IF r.align = Natural THEN heap ELSE AlignTo(heap, r.align)
        /\ held' = Append(held, [base |-> top - r.bytes, bytes |-> r.bytes])
        /\ heap' = AlignTo(top - r.bytes - 3, 4)
  BY PushHeapStep DEF SharingInv
<1>3. /\ held \in Seq(HeapTensor) /\ held' \in Seq(HeapTensor) /\ heap' \in Int
      /\ stack + r.bytes <= heap /\ UNCHANGED <<stack, scopes, tensors>>
  BY PushHeapStep DEF SharingInv
<1>4. top = heap
  <2>1. CASE r.align = Natural
    BY <1>2, <2>1
  <2>2. CASE r.align # Natural
    <3>1. r.align \in Nat \ {0} /\ heap % r.align = 0
      BY <2>2, RequestsAssumption DEF Request, Natural, HeapAligned
    <3> QED
      BY <1>1, <1>2, <2>2, <3>1, AlignedStays
  <2> QED
    BY <2>1, <2>2
<1>5. PICK new : new = [base |-> heap - r.bytes, bytes |-> r.bytes]
  OBVIOUS
<1>6. new.base = heap - r.bytes /\ End(new) = heap /\ new \in HeapTensor
  BY <1>1, <1>5 DEF End, HeapTensor
<1>7. PICK n : n = Len(held)
  OBVIOUS
<1>8. /\ n \in Nat /\ DOMAIN held = 1..n /\ DOMAIN held' = 1..(n + 1)
      /\ \A i \in 1..n : held'[i] = held[i] /\ held[i] \in HeapTensor
      /\ held'[n + 1] = new
  BY <1>2, <1>3, <1>4, <1>5, <1>6, <1>7
<1>9. heap' % 4 = 0 /\ heap' <= heap - r.bytes
  <2>1. heap - r.bytes \in Int
    BY <1>1
  <2> QED
    BY <1>2, <1>4, <2>1, HeapAligns
<1>10. \A i \in 1..n : /\ held[i].base \in Int /\ End(held[i]) \in Int
                       /\ heap <= held[i].base /\ End(held[i]) <= Upper
  BY <1>8 DEF SharingInv, HeapNests, End, HeapTensor
<1>11. heap <= Upper /\ Upper \in Nat
  BY RangeAssumption DEF SharingInv, HeapNests
<1>12. ASSUME NEW i \in 1..(n + 1)
       PROVE  heap' <= held'[i].base /\ End(held'[i]) <= Upper
  BY <1>1, <1>3, <1>6, <1>8, <1>9, <1>10, <1>11
<1>13. ASSUME NEW i \in 1..(n + 1), NEW j \in 1..(n + 1), i < j
       PROVE  End(held'[j]) <= held'[i].base
  <2>1. CASE j \in 1..n
    BY <1>8, <1>13, <2>1 DEF SharingInv, HeapNests
  <2>2. CASE j = n + 1
    BY <1>6, <1>8, <1>10, <1>13, <2>2
  <2> QED
    BY <1>8, <2>1, <2>2
<1>14. HeapNests'
  <2>1. heap' <= Upper
    BY <1>1, <1>3, <1>9, <1>11
  <2> QED
    BY <1>8, <1>9, <1>12, <1>13, <2>1 DEF HeapNests, End
<1>15. ASSUME NEW t \in OnStack, NEW i \in 1..(n + 1)
       PROVE  End(t) <= held'[i].base
  <2>1. End(t) \in Nat /\ End(t) <= stack
    BY StackEnds DEF SharingInv
  <2>2. CASE i \in 1..n
    BY <1>8, <2>2 DEF SharingInv, StackBelowHeap
  <2>3. CASE i = n + 1
    BY <1>1, <1>3, <1>6, <1>8, <2>1, <2>3
  <2> QED
    BY <1>8, <2>2, <2>3
<1>16. StackApart' /\ StackBelowHeap'
  BY <1>3, <1>8, <1>15, SameStackTensors DEF SharingInv, StackBelowHeap, End
<1> QED
  BY <1>14, <1>16

LEMMA PopHeapApart ==
  ASSUME SharingInv, PopHeap
  PROVE  StackApart' /\ HeapNests' /\ StackBelowHeap'
<1>1. PICK n : n = Len(held)
  OBVIOUS
<1>2. /\ held \in Seq(HeapTensor) /\ n \in Nat \ {0}
      /\ held' \in Seq(HeapTensor) /\ Len(held') = n - 1
      /\ \A i \in 1..n - 1 : held'[i] = held[i]
      /\ heap' \in Int /\ heap' % 4 = 0 /\ heap' <= heap + held[n].bytes
      /\ held[n].bytes \in Nat /\ held[n].base \in Int
      /\ UNCHANGED <<stack, scopes, tensors>>
  BY <1>1, PopHeapStep DEF SharingInv
<1>3. DOMAIN held = 1..n /\ DOMAIN held' = 1..(n - 1) /\ 1..(n - 1) \subseteq 1..n /\ n \in 1..n
  BY <1>1, <1>2
<1>4. heap' <= End(held[n]) /\ End(held[n]) \in Int
  <2>1. heap <= held[n].base /\ heap \in Int
    BY <1>3, StackTypes DEF SharingInv, HeapNests
  <2> QED
    BY <1>2, <2>1 DEF End
<1>5. \A i \in 1..(n - 1) : held[i] \in HeapTensor /\ End(held[n]) <= held[i].base
  BY <1>2, <1>3 DEF SharingInv, HeapNests
<1>6. \A i \in 1..(n - 1) : heap' <= held'[i].base
  <2> TAKE i \in 1..(n - 1)
  <2>1. held[i].base \in Int
    BY <1>5 DEF HeapTensor
  <2> QED
    BY <1>2, <1>4, <1>5, <2>1
<1>7. heap' <= Upper
  <2>1. End(held[n]) <= Upper
    BY <1>3 DEF SharingInv, HeapNests
  <2>2. heap' \in Int
    BY <1>2
  <2>3. Upper \in Int
    BY RangeAssumption
  <2> QED
    BY <1>4, <2>1, <2>2, <2>3
<1>8. HeapNests'
  <2>1. \A i \in 1..(n - 1) : End(held'[i]) <= Upper
    BY <1>2, <1>3 DEF SharingInv, HeapNests
  <2>2. \A i, j \in 1..(n - 1) : i < j => End(held'[j]) <= held'[i].base
    BY <1>2, <1>3 DEF SharingInv, HeapNests
  <2> QED
    BY <1>2, <1>3, <1>6, <1>7, <2>1, <2>2 DEF HeapNests, End
<1>9. StackApart' /\ StackBelowHeap'
  BY <1>2, <1>3, SameStackTensors DEF SharingInv, StackBelowHeap, End
<1> QED
  BY <1>8, <1>9

LEMMA SharingStep ==
  SharingInv /\ [SbufNext]_sbufVars /\ [Careful]_sbufVars => SharingInv'
<1> SUFFICES ASSUME SharingInv, [SbufNext]_sbufVars, [Careful]_sbufVars
             PROVE  StackApart' /\ HeapNests' /\ StackBelowHeap'
  BY StackStep DEF SharingInv
<1>1. ASSUME NEW degree \in 1..MaxSections, OpenScope(degree)
      PROVE  UNCHANGED <<heap, held, tensors>>
  BY <1>1 DEF OpenScope
<1>2. ASSUME NEW align \in Alignments, AlignStack(align)
      PROVE  UNCHANGED <<heap, held, tensors>>
  BY <1>2 DEF AlignStack
<1>3. CASE UNCHANGED <<heap, held, tensors>>
  <2>1. StackApart' /\ StackBelowHeap'
    BY <1>3, SameStackTensors DEF SharingInv
  <2>2. HeapNests'
    BY <1>3 DEF SharingInv, HeapNests, End
  <2> QED
    BY <2>1, <2>2
<1>4. CASE UNCHANGED sbufVars
  BY <1>3, <1>4 DEF sbufVars
<1>5. CASE Careful
  <2>1. ASSUME NEW r \in Requests, AllocStack(r)
        PROVE  StackFits(r)
    BY <1>5, <2>1 DEF Careful
  <2>2. ASSUME NEW r \in Requests, AllocHeap(r)
        PROVE  HeapAligned(r)
    BY <1>5, <2>2 DEF Careful
  <2> QED
    BY <1>1, <1>2, <1>3, <1>4, <2>1, <2>2, AllocStackApart, AllocHeapApart, 
       CloseScopeApart, IncrementApart, PopHeapApart DEF SbufNext
<1> QED
  BY <1>4, <1>5

LEMMA SharingIsDisjoint == SharingInv => LiveTensorsDisjoint
<1> SUFFICES ASSUME SharingInv
             PROVE  LiveTensorsDisjoint
  OBVIOUS
<1>1. held \in Seq(HeapTensor)
  BY DEF SharingInv, StackInv, SbufTypeOK
<1>2. \A i, j \in DOMAIN held : i # j => Apart(held[i], held[j])
  BY <1>1 DEF SharingInv, HeapNests, Apart
<1>3. ASSUME NEW t \in tensors
      PROVE  Lower <= t.base
  <2>1. /\ t.depth \in 1..Depth /\ t.base \in Nat /\ scopes[t.depth].start \in Nat
        /\ Lower \in Nat
    BY StackTypes DEF SharingInv
  <2>2. Lower <= scopes[t.depth].start /\ scopes[t.depth].start <= t.base
    BY <2>1 DEF SharingInv, StackInv, ScopesNest, TensorsNest
  <2> QED
    BY <2>1, <2>2
<1> QED
  BY <1>2, <1>3 DEF SharingInv, StackApart, HeapNests, StackBelowHeap, LiveTensorsDisjoint

\* Of the tensors that are allocated no two share a byte, and all lie in the
\* range of the manager, whatever the order of scopes, sections, heap calls and
\* alignments of the pointer, as long as every stack tensor fits after it is
\* aligned and every aligned heap tensor is asked for at an aligned pointer
\* (alloc_stack, alloc_heap, pop_heap, open_scope, increment_section,
\* close_scope).
THEOREM AllocationsStayApart ==
  SbufSpec /\ [][Careful]_sbufVars => []LiveTensorsDisjoint
<1>1. SbufInit => SharingInv
  BY SbufStart DEF SharingInv
<1>2. SharingInv /\ [SbufNext]_sbufVars /\ [Careful]_sbufVars => SharingInv'
  BY SharingStep
<1> QED
  BY <1>1, <1>2, SharingIsDisjoint, PTL DEF SbufSpec

\* As long as the pointer of the heap is a multiple of 4, a request that is
\* aligned as its dtype is asks for nothing else.
LEMMA WellAlignedIsCareful ==
  ASSUME \A r \in Requests : WellAligned(r), SharingInv
  PROVE  Careful
<1>1. ASSUME NEW r \in Requests, AllocStack(r)
      PROVE  StackFits(r)
  <2>1. stack \in Int /\ heap \in Int /\ heap % 4 = 0
    BY StackTypes DEF SharingInv, HeapNests
  <2>2. r.bytes \in Nat /\ stack + r.bytes <= heap
    BY <1>1, RequestFacts, RequestsAssumption DEF AllocStack, Fits
  <2>3. Alignment(r) \in {1, 2, 4} /\ r.bytes % Alignment(r) = 0
    BY DEF WellAligned
  <2> QED
    BY <2>1, <2>2, <2>3, StackAligns DEF StackFits
<1>2. ASSUME NEW r \in Requests
      PROVE  HeapAligned(r)
  <2>1. heap \in Int /\ heap % 4 = 0
    BY StackTypes DEF SharingInv, HeapNests
  <2>2. r.align # Natural => r.align \in {1, 2, 4}
    BY DEF WellAligned, Alignment
  <2>3. heap % 1 = 0 /\ heap % 2 = 0
    BY <2>1
  <2> QED
    BY <2>1, <2>2, <2>3 DEF HeapAligned
<1> QED
  BY <1>1, <1>2 DEF Careful

\* Without any such care, if every request is aligned as dtypes are: by 1, 2 or
\* 4, which its size is a multiple of (alloc_stack, alloc_heap).
COROLLARY NaturalAllocationsStayApart ==
  ASSUME \A r \in Requests : WellAligned(r)
  PROVE  SbufSpec => []LiveTensorsDisjoint
<1>1. SbufInit => SharingInv
  BY SbufStart DEF SharingInv
<1>2. SharingInv /\ [SbufNext]_sbufVars => SharingInv'
  BY SharingStep, WellAlignedIsCareful
<1> QED
  BY <1>1, <1>2, SharingIsDisjoint, PTL DEF SbufSpec

-----------------------------------------------------------------------------
(* Multi-buffered scopes: every iteration's buffer has a place of its own. *)

LEMMA LoopFacts ==
  /\ LoopAlign \in Nat \ {0} /\ LoopRequest.bytes \in Nat \ {0}
  /\ Stride \in Nat /\ LoopRequest.bytes <= Stride
<1>1. LoopAlign \in Nat \ {0} /\ LoopRequest.bytes \in Nat \ {0}
  BY RequestsAssumption, RequestFacts DEF LoopAlign
<1>2. LoopRequest.bytes \in Int
  BY <1>1
<1>3. Stride \in Int /\ LoopRequest.bytes <= Stride
  BY <1>1, <1>2, AlignsUp DEF Stride
<1> QED
  BY <1>1, <1>3

\* Each place is a stride above the one before.
LEMMA PlacesFollow ==
  ASSUME NEW start \in Nat, NEW k \in Nat
  PROVE  /\ Place(start, k) \in Int /\ start <= Place(start, k)
         /\ Place(start, 0) = AlignTo(start, LoopAlign)
         /\ AlignTo(Place(start, k) + LoopRequest.bytes, LoopAlign) = Place(start, k + 1)
<1>1. PICK a \in Nat \ {0} : a = LoopAlign
  BY LoopFacts
<1>2. PICK b \in Nat \ {0} : b = LoopRequest.bytes
  BY LoopFacts
<1>3. PICK p \in Int : AlignTo(start, a) = p * a
  <2>1. (start + a - 1) \div a \in Int
    OBVIOUS
  <2> QED
    BY <2>1 DEF AlignTo
<1>4. PICK m \in Int : Stride = m * a
  <2>1. (b + a - 1) \div a \in Int
    OBVIOUS
  <2> QED
    BY <1>1, <1>2, <2>1 DEF Stride, AlignTo
<1>5. start \in Int /\ start <= p * a
  BY <1>3, AlignsUp
<1>6. k * (m * a) = (k * m) * a /\ (k + 1) * (m * a) = k * (m * a) + m * a
  OBVIOUS
<1>7. p * a + (k * m) * a = (p + k * m) * a
  OBVIOUS
<1>8. Place(start, k) = (p + k * m) * a
  BY <1>1, <1>3, <1>4, <1>6, <1>7 DEF Place
<1>9. Place(start, k + 1) = (p + k * m) * a + m * a
  <2>1. (p * a + k * (m * a)) + m * a = p * a + (k + 1) * (m * a)
    BY <1>6
  <2>2. Place(start, k + 1) = p * a + (k + 1) * (m * a)
    BY <1>1, <1>3, <1>4 DEF Place
  <2> QED
    BY <1>6, <1>7, <2>1, <2>2
<1>10. AlignTo((p + k * m) * a + b, a) = (p + k * m) * a + AlignTo(b, a)
  <2>1. p + k * m \in Int /\ b \in Int
    OBVIOUS
  <2> QED
    BY <2>1, AlignsRelatively
<1>11. AlignTo(b, a) = m * a
  BY <1>1, <1>2, <1>4 DEF Stride
<1>12. 0 * Stride = 0 /\ p * a \in Int
  BY <1>4
<1>13. k * Stride >= 0
  BY LoopFacts
<1> QED
  BY <1>1, <1>2, <1>3, <1>5, <1>8, <1>9, <1>10, <1>11, <1>12, <1>13, LoopFacts DEF Place

LEMMA PlacesApart ==
  ASSUME NEW start \in Nat, NEW k \in Nat, NEW l \in Nat, k < l
  PROVE  Place(start, k) + LoopRequest.bytes <= Place(start, l)
<1>1. PICK s \in Nat : s = Stride
  BY LoopFacts
<1>2. k * s + s <= l * s
  <2>1. (k + 1) * s <= l * s
    OBVIOUS
  <2> QED
    BY <2>1
<1>3. start \in Int /\ AlignTo(start, LoopAlign) \in Int
  BY LoopFacts, AlignsUp
<1> QED
  BY <1>1, <1>2, <1>3, LoopFacts DEF Place

LEMMA SlotFacts ==
  ASSUME StackInv, NEW t \in tensors
  PROVE  /\ Slot(t) \in Nat /\ t.age < scopes[t.depth].sections
         /\ \A u \in tensors : u.depth = t.depth /\ Slot(u) = Slot(t) => u.age = t.age
<1>1. PICK s \in Scope : s = scopes[t.depth]
  BY StackTypes
<1>2. /\ s.section \in Nat /\ s.sections \in Nat /\ s.section < s.sections
  BY <1>1, StackTypes DEF StackInv, ScopesNest
<1>3. \A u \in tensors : u.depth = t.depth => u.age \in Nat /\ u.age < s.sections
  BY <1>1, StackTypes DEF StackInv, TensorsNest
<1>4. \A u : u.depth = t.depth =>
        Slot(u) = IF u.age <= s.section THEN s.section - u.age ELSE s.section - u.age + s.sections
  BY <1>1 DEF Slot
<1> QED
  BY <1>1, <1>2, <1>3, <1>4

LEMMA LoopsAlternate == LoopInv => BuffersAlternate
<1> SUFFICES ASSUME LoopInv, NEW t \in tensors, NEW u \in tensors,
                    t.depth = u.depth, t.age # u.age
             PROVE  Apart(t, u)
  BY DEF BuffersAlternate
<1>1. Slot(t) \in Nat /\ Slot(u) \in Nat /\ Slot(t) # Slot(u)
  BY SlotFacts DEF LoopInv
<1>2. t.depth \in 1..Depth /\ t.age \in Nat /\ u.age \in Nat
  BY StackTypes DEF LoopInv
<1>3. scopes[t.depth].sections > 1 /\ scopes[t.depth].start \in Nat
  <2>1. t.age < scopes[t.depth].sections /\ u.age < scopes[t.depth].sections
    BY SlotFacts DEF LoopInv
  <2>2. scopes[t.depth].sections \in Nat /\ scopes[t.depth].start \in Nat
    BY <1>2, StackTypes DEF LoopInv
  <2> QED
    BY <1>2, <2>1, <2>2
<1>4. /\ t.bytes = LoopRequest.bytes /\ t.base = Place(scopes[t.depth].start, Slot(t))
      /\ u.bytes = LoopRequest.bytes /\ u.base = Place(scopes[t.depth].start, Slot(u))
  BY <1>3 DEF LoopInv, LoopsRepeat, IsPlaced
<1>5. CASE Slot(t) < Slot(u)
  BY <1>1, <1>3, <1>4, <1>5, PlacesApart DEF Apart, End
<1>6. CASE Slot(u) < Slot(t)
  BY <1>1, <1>3, <1>4, <1>6, PlacesApart DEF Apart, End
<1> QED
  BY <1>1, <1>5, <1>6

LEMMA ScopeStaysPlaced ==
  ASSUME NEW t, scopes'[t.depth] = scopes[t.depth], IsPlaced(t)
  PROVE  IsPlaced(t)'
BY DEF IsPlaced, Slot

LEMMA ScopeStaysReached ==
  ASSUME NEW d, scopes'[d] = scopes[d], Level(d)' = Level(d), InProgress(d)' <=> InProgress(d),
         HasReached(d)
  PROVE  HasReached(d)'
<1>1. Filled(d)' = Filled(d)
  BY DEF Filled
<1> QED
  BY <1>1 DEF HasReached

LEMMA OpenScopeRepeats ==
  ASSUME LoopInv, NEW degree \in 1..MaxSections, OpenScope(degree)
  PROVE  LoopsRepeat'
<1>1. /\ Depth' = Depth + 1
      /\ \A d \in 1..Depth : scopes'[d] = scopes[d]
      /\ scopes'[Depth + 1].start = stack /\ scopes'[Depth + 1].section = 0
      /\ \A d \in 1..Depth : Level(d)' = Level(d)
      /\ \A d : d = Depth + 1 => Level(d)' = stack
      /\ UNCHANGED <<stack, heap, held, tensors>>
  BY OpenScopeStep DEF LoopInv
<1>2. Depth \in Nat /\ \A t \in tensors : t.depth \in 1..Depth
  BY StackTypes DEF LoopInv
<1>3. \A t \in tensors' : IsPlaced(t)'
  BY <1>1, <1>2, ScopeStaysPlaced DEF LoopInv, LoopsRepeat
<1>4. \A d : InProgress(d)' <=> InProgress(d)
  BY <1>1 DEF InProgress
<1>5. ASSUME NEW d \in 1..Depth'
      PROVE  HasReached(d)'
  <2>1. CASE d \in 1..Depth
    BY <1>1, <1>4, <2>1, ScopeStaysReached DEF LoopInv, LoopsRepeat
  <2>2. CASE d = Depth + 1
    <3>1. ~InProgress(d)
      BY <1>2, <2>2 DEF InProgress
    <3>2. Filled(d)' = 0
      BY <1>1, <1>4, <2>2, <3>1 DEF Filled
    <3> QED
      BY <1>1, <2>2, <3>2 DEF HasReached
  <2> QED
    BY <1>1, <1>2, <2>1, <2>2
<1> QED
  BY <1>3, <1>5 DEF LoopsRepeat

LEMMA CloseScopeRepeats ==
  ASSUME LoopInv, CloseScope
  PROVE  LoopsRepeat'
<1>1. /\ Depth' = Depth - 1 /\ Depth' \in Nat
      /\ \A d \in 1..Depth' : scopes'[d] = scopes[d] /\ Level(d)' = Level(d)
      /\ \A t : t \in tensors' <=> t \in tensors /\ t.depth < Depth
  BY CloseScopeStep DEF LoopInv
<1>2. Depth \in Nat /\ \A t \in tensors : t.depth \in 1..Depth
  BY StackTypes DEF LoopInv
<1>3. \A t \in tensors' : t \in tensors /\ scopes'[t.depth] = scopes[t.depth]
  BY <1>1, <1>2
<1>4. \A t \in tensors' : IsPlaced(t)'
  BY <1>3, ScopeStaysPlaced DEF LoopInv, LoopsRepeat
<1>5. ASSUME NEW d \in 1..Depth'
      PROVE  HasReached(d)'
  <2>1. d \in 1..Depth /\ d < Depth
    BY <1>1, <1>2
  <2>2. InProgress(d)' <=> InProgress(d)
    BY <1>1, <2>1 DEF InProgress
  <2> QED
    BY <1>1, <2>1, <2>2, ScopeStaysReached DEF LoopInv, LoopsRepeat
<1> QED
  BY <1>4, <1>5 DEF LoopsRepeat

LEMMA AllocStackRepeats ==
  ASSUME LoopInv, NEW r \in Requests, AllocStack(r)
  PROVE  LoopsRepeat'
<1>1. PICK t \in StackTensor :
        /\ tensors' = tensors \cup {t}
        /\ t.base = AlignTo(stack, Alignment(r)) /\ t.bytes = r.bytes
        /\ t.depth = Depth /\ t.age = 0
        /\ Depth \in 1..MaxScopes /\ Depth' = Depth
        /\ \A d \in 1..Depth : Level(d)' = IF d = Depth THEN End(t) ELSE Level(d)
        /\ UNCHANGED <<heap, scopes, held>>
  BY AllocStackStep DEF LoopInv
<1>2. PICK s : s = scopes[Depth]
  OBVIOUS
<1>3. /\ Depth \in Nat \ {0} /\ Depth \in 1..Depth
      /\ s.start \in Nat /\ s.section \in Nat /\ s.sections \in Nat \ {0}
  BY <1>1, <1>2, StackTypes DEF LoopInv
<1>4. ASSUME s.sections > 1
      PROVE  /\ t.bytes = LoopRequest.bytes /\ t.base = Place(s.start, s.section)
  <2>1. r = LoopRequest /\ ~InProgress(Depth)
    BY <1>2, <1>3, <1>4 DEF AllocStack, RepeatsItself, MultiBuffered, Top, Current, InProgress
  <2>2. Filled(Depth) = s.section /\ Level(Depth) = stack
    BY <1>2, <1>3, <2>1 DEF Filled, Level
  <2>3. stack = IF s.section = 0 THEN s.start ELSE Place(s.start, s.section - 1) + LoopRequest.bytes
    BY <1>2, <1>3, <1>4, <2>2 DEF LoopInv, LoopsRepeat, HasReached
  <2>4. t.base = AlignTo(stack, LoopAlign)
    BY <1>1, <2>1 DEF LoopAlign
  <2>5. ASSUME s.section = 0
        PROVE  t.base = Place(s.start, s.section)
    BY <1>3, <2>3, <2>4, <2>5, PlacesFollow
  <2>6. ASSUME s.section # 0
        PROVE  t.base = Place(s.start, s.section)
    <3>1. s.section - 1 \in Nat /\ (s.section - 1) + 1 = s.section
      BY <1>3, <2>6
    <3>2. AlignTo(Place(s.start, s.section - 1) + LoopRequest.bytes, LoopAlign)
            = Place(s.start, (s.section - 1) + 1)
      BY <1>3, <3>1, PlacesFollow
    <3> QED
      BY <2>3, <2>4, <2>6, <3>1, <3>2
  <2> QED
    BY <1>1, <2>1, <2>5, <2>6
<1>5. IsPlaced(t)'
  <2>1. Slot(t)' = s.section
    BY <1>1, <1>2, <1>3 DEF Slot
  <2> QED
    BY <1>1, <1>2, <1>4, <2>1 DEF IsPlaced
<1>6. \A u \in tensors' : IsPlaced(u)'
  BY <1>1, <1>5, ScopeStaysPlaced DEF LoopInv, LoopsRepeat
<1>7. ASSUME NEW d \in 1..Depth
      PROVE  HasReached(d)'
  <2>1. CASE d = Depth
    <3>1. Filled(d)' = s.section + 1
      BY <1>1, <1>2, <2>1 DEF Filled, InProgress
    <3>2. Level(d)' = t.base + t.bytes
      BY <1>1, <1>3, <2>1 DEF End
    <3>3. s.section + 1 # 0 /\ (s.section + 1) - 1 = s.section
      BY <1>3
    <3> QED
      BY <1>1, <1>2, <1>4, <2>1, <3>1, <3>2, <3>3 DEF HasReached
  <2>2. CASE d # Depth
    <3>1. InProgress(d)' <=> InProgress(d)
      BY <1>1, <2>2 DEF InProgress
    <3> QED
      BY <1>1, <2>2, <3>1, ScopeStaysReached DEF LoopInv, LoopsRepeat
  <2> QED
    BY <2>1, <2>2
<1> QED
  BY <1>1, <1>6, <1>7 DEF LoopsRepeat

LEMMA IncrementRepeats ==
  ASSUME LoopInv, IncrementSection
  PROVE  LoopsRepeat'
<1>1. /\ Depth \in 1..MaxScopes /\ Depth' = Depth /\ scopes \in Seq(Scope) /\ scopes' \in Seq(Scope)
      /\ \A d \in 1..Depth : /\ scopes'[d].start = scopes[d].start
                             /\ scopes'[d].sections = scopes[d].sections
      /\ scopes'[Depth].section = IF Wraps THEN 0 ELSE scopes[Depth].section + 1
      /\ stack' = IF Wraps THEN scopes[Depth].start ELSE stack
      /\ \A d \in 1..Depth : Level(d)' = IF d = Depth THEN stack' ELSE Level(d)
  BY IncrementStep DEF LoopInv, StackInv, SbufTypeOK
<1>2. \A d \in 1..Depth : d # Depth => scopes'[d] = scopes[d]
  <2>1. /\ scopes' = [scopes EXCEPT ![Depth].section = IF Wraps THEN 0 ELSE @ + 1]
        /\ DOMAIN scopes = 1..Depth
    BY StackTypes DEF LoopInv, IncrementSection
  <2> QED
    BY <2>1
<1>3. PICK s : s = scopes[Depth]
  OBVIOUS
<1>4. /\ Depth \in Nat \ {0} /\ Depth \in 1..Depth
      /\ s.start \in Nat /\ s.section \in Nat /\ s.sections \in Nat \ {0}
      /\ s.section < s.sections
      /\ \A u \in tensors : u.age \in Nat /\ u.depth \in 1..Depth
  <2>1. Depth \in 1..Depth
    BY <1>1, StackTypes DEF LoopInv
  <2>2. s.section < s.sections
    BY <1>3, <2>1 DEF LoopInv, StackInv, ScopesNest
  <2> QED
    BY <1>3, <2>1, <2>2, StackTypes DEF LoopInv
<1>5. Wraps <=> s.section + 1 = s.sections
  BY <1>3 DEF Wraps, Top
<1>6. ASSUME NEW t \in tensors'
      PROVE  IsPlaced(t)'
  <2>1. PICK u \in tensors : t = Aged(u)
    BY IncrementTensors DEF LoopInv
  <2>2. /\ t.base = u.base /\ t.bytes = u.bytes /\ t.depth = u.depth
        /\ u.depth = Depth => t.age = u.age + 1 /\ t.age < s.sections
        /\ u.depth # Depth => t = u
    BY <1>3, <2>1, IncrementTensors DEF LoopInv
  <2>3. IsPlaced(u)
    BY DEF LoopInv, LoopsRepeat
  <2>4. CASE u.depth = Depth
    <3>1. Slot(u) = IF u.age <= s.section THEN s.section - u.age ELSE s.section - u.age + s.sections
      BY <1>3, <2>4 DEF Slot
    <3>2. scopes'[Depth].section = IF Wraps THEN 0 ELSE s.section + 1
      BY <1>1, <1>3
    <3>3. scopes'[Depth].sections = s.sections /\ scopes'[Depth].start = s.start
      BY <1>1, <1>3, <1>4
    <3>4. Slot(t)' = IF t.age <= scopes'[Depth].section THEN scopes'[Depth].section - t.age
                     ELSE scopes'[Depth].section - t.age + s.sections
      BY <2>2, <2>4, <3>3 DEF Slot
    <3>5. Slot(t)' = Slot(u)
      BY <1>4, <1>5, <2>2, <2>4, <3>1, <3>2, <3>4
    <3> QED
      BY <1>3, <2>2, <2>3, <2>4, <3>3, <3>5 DEF IsPlaced
  <2>5. CASE u.depth # Depth
    BY <1>2, <1>4, <2>2, <2>3, <2>5, ScopeStaysPlaced
  <2> QED
    BY <2>4, <2>5
<1>7. ASSUME NEW d \in 1..Depth, d # Depth
      PROVE  HasReached(d)'
  <2>1. InProgress(d) => InProgress(d)'
    BY <1>7, IncrementTensors DEF LoopInv, InProgress
  <2>2. InProgress(d)' => InProgress(d)
    <3> SUFFICES ASSUME NEW t \in tensors', t.depth = d, t.age = 0
                 PROVE  InProgress(d)
      BY DEF InProgress
    <3>1. PICK u \in tensors : t = Aged(u)
      BY IncrementTensors DEF LoopInv
    <3>2. u.depth = d
      BY <3>1, IncrementTensors DEF LoopInv
    <3>3. t = u
      BY <1>7, <3>1, <3>2, IncrementTensors DEF LoopInv
    <3> QED
      BY <3>2, <3>3 DEF InProgress
  <2> QED
    BY <1>1, <1>2, <1>7, <2>1, <2>2, ScopeStaysReached DEF LoopInv, LoopsRepeat
<1>8. ASSUME NEW d, d = Depth
      PROVE  HasReached(d)'
  <2> SUFFICES ASSUME s.sections > 1
               PROVE  Level(d)' = IF Filled(d)' = 0 THEN s.start
                                  ELSE Place(s.start, Filled(d)' - 1) + LoopRequest.bytes
    BY <1>1, <1>3, <1>4, <1>8 DEF HasReached
  <2>1. InProgress(Depth)
    BY <1>3, <1>4 DEF IncrementSection, MultiBuffered, Top, Current, InProgress
  <2>2. Filled(Depth) = s.section + 1 /\ Level(Depth) = stack
    BY <1>3, <1>4, <2>1 DEF Filled, Level
  <2>3. stack = Place(s.start, s.section) + LoopRequest.bytes
    <3>1. s.section + 1 # 0 /\ (s.section + 1) - 1 = s.section
      BY <1>4
    <3> QED
      BY <1>3, <1>4, <2>2, <3>1 DEF LoopInv, LoopsRepeat, HasReached
  <2>4. ~InProgress(d)'
    <3> SUFFICES ASSUME NEW t \in tensors', t.depth = d, t.age = 0
                 PROVE  FALSE
      BY DEF InProgress
    <3>1. PICK u \in tensors : t = Aged(u)
      BY IncrementTensors DEF LoopInv
    <3>2. u.depth = Depth /\ t.age = u.age + 1
      BY <1>8, <3>1, IncrementTensors DEF LoopInv
    <3> QED
      BY <1>4, <3>2
  <2>5. Filled(d)' = IF Wraps THEN 0 ELSE s.section + 1
    BY <1>1, <1>3, <1>8, <2>4 DEF Filled
  <2>6. Level(d)' = IF Wraps THEN s.start ELSE stack
    BY <1>1, <1>3, <1>4, <1>8
  <2>7. s.section + 1 # 0 /\ (s.section + 1) - 1 = s.section
    BY <1>4
  <2> QED
    BY <2>3, <2>5, <2>6, <2>7
<1> QED
  BY <1>1, <1>6, <1>7, <1>8 DEF LoopsRepeat

\* Between scopes and in single-buffered ones the pointer may be aligned.
LEMMA OthersRepeat ==
  ASSUME LoopInv, UNCHANGED <<scopes, tensors>>, MultiBuffered => UNCHANGED stack
  PROVE  LoopsRepeat'
<1>1. \A d : InProgress(d)' <=> InProgress(d)
  BY DEF InProgress
<1>2. Depth' = Depth /\ Depth \in Nat
  BY StackTypes DEF LoopInv, Depth
<1>3. ASSUME NEW d \in 1..Depth
      PROVE  HasReached(d)'
  <2>1. CASE d = Depth /\ ~MultiBuffered
    BY <1>2, <2>1 DEF MultiBuffered, Top, HasReached
  <2>2. CASE d < Depth \/ MultiBuffered
    <3>1. Level(d)' = Level(d)
      BY <1>2, <2>2 DEF Level
    <3> QED
      BY <1>1, <3>1, ScopeStaysReached DEF LoopInv, LoopsRepeat
  <2> QED
    BY <1>2, <2>1, <2>2
<1>4. \A t \in tensors : IsPlaced(t)'
  BY ScopeStaysPlaced DEF LoopInv, LoopsRepeat
<1> QED
  BY <1>2, <1>3, <1>4 DEF LoopsRepeat

LEMMA LoopStep == LoopInv /\ [SbufNext]_sbufVars => LoopInv'
<1> SUFFICES ASSUME LoopInv, [SbufNext]_sbufVars
             PROVE  LoopsRepeat'
  BY StackStep DEF LoopInv
<1>1. ASSUME NEW r \in Requests, AllocHeap(r)
      PROVE  UNCHANGED <<stack, scopes, tensors>>
  BY <1>1 DEF AllocHeap
<1>2. ASSUME PopHeap
      PROVE  UNCHANGED <<stack, scopes, tensors>>
  BY <1>2 DEF PopHeap
<1>3. ASSUME NEW align \in Alignments, AlignStack(align)
      PROVE  UNCHANGED <<scopes, tensors>> /\ ~MultiBuffered
  BY <1>3 DEF AlignStack
<1>4. CASE UNCHANGED sbufVars
  BY <1>4, OthersRepeat DEF sbufVars
<1> QED
  BY <1>1, <1>2, <1>3, <1>4, OthersRepeat, OpenScopeRepeats, AllocStackRepeats, CloseScopeRepeats,
     IncrementRepeats DEF SbufNext

\* A multi-buffered scope keeps the buffers of its last iterations apart,
\* whatever they are aligned to and whatever scopes open inside of an
\* iteration; and the manager's state keeps its type (increment_section).
THEOREM IterationsStayApart == SbufSpec => [](SbufTypeOK /\ BuffersAlternate)
<1>1. SbufInit => LoopInv
  BY SbufStart DEF LoopInv
<1>2. LoopInv => SbufTypeOK /\ BuffersAlternate
  BY LoopsAlternate DEF LoopInv, StackInv
<1> QED
  BY <1>1, <1>2, LoopStep, PTL DEF SbufSpec

-----------------------------------------------------------------------------
(* Tiles. *)

LEMMA CeilFacts ==
  ASSUME NEW n \in Nat, NEW d \in Nat \ {0}
  PROVE  /\ CeilQuotient(n, d) \in Nat /\ n <= CeilQuotient(n, d) * d
         /\ \A i \in Int : i < CeilQuotient(n, d) => i * d < n
<1> DEFINE x == n + d - 1
<1>1. x \in Int /\ x = n + d - 1
  OBVIOUS
<1>2. PICK q : q = x \div d
  OBVIOUS
<1>3. q \in Int /\ q * d <= x /\ x < q * d + d
  <2> HIDE DEF x
  <2> QED
    BY <1>1, <1>2, Euclid
<1>4. CeilQuotient(n, d) = q
  BY <1>2 DEF CeilQuotient
<1> HIDE DEF x
<1>5. q * d \in Int
  BY <1>3
<1>6. n <= q * d
  BY <1>1, <1>3, <1>5
<1>7. q >= 0
  <2> SUFFICES ASSUME q <= -1
               PROVE  FALSE
    BY <1>3
  <2>1. q * d <= (-1) * d
    BY <1>3
  <2> QED
    BY <1>5, <1>6, <2>1
<1>8. ASSUME NEW i \in Int, i < q
      PROVE  i * d < n
  <2>1. (i + 1) * d <= q * d
    BY <1>3, <1>8
  <2>2. (i + 1) * d = i * d + d /\ i * d \in Int
    OBVIOUS
  <2> QED
    BY <1>1, <1>3, <1>5, <2>1, <2>2
<1> QED
  BY <1>3, <1>4, <1>6, <1>7, <1>8

\* Below a multiple of d there is a multiple for each part of it.
LEMMA PartIsCounted ==
  ASSUME NEW n \in Nat, NEW d \in Nat \ {0}, NEW y \in Nat, y < n
  PROVE  \E i \in 0..CeilQuotient(n, d) - 1 : i * d <= y /\ y < i * d + d
<1>1. PICK i \in Int : i * d <= y /\ y < i * d + d
  <2>1. y \in Int
    OBVIOUS
  <2>2. y \div d \in Int /\ (y \div d) * d <= y /\ y < (y \div d) * d + d
    BY <2>1, Euclid
  <2> QED
    BY <2>2
<1>2. PICK q \in Nat : q = CeilQuotient(n, d) /\ n <= q * d
  BY CeilFacts
<1>3. i < q
  <2> SUFFICES ASSUME i >= q
               PROVE  FALSE
    BY <1>2
  <2>1. i * d >= q * d
    BY <1>2
  <2> QED
    BY <1>1, <1>2, <2>1
<1>4. i >= 0
  <2> SUFFICES ASSUME i <= -1
               PROVE  FALSE
    OBVIOUS
  <2>1. (i + 1) * d <= 0 * d
    OBVIOUS
  <2>2. (i + 1) * d = i * d + d
    OBVIOUS
  <2> QED
    BY <1>1, <2>1, <2>2
<1> QED
  BY <1>1, <1>2, <1>3, <1>4

LEMMA ElementsOf ==
  ASSUME NEW r, r.start \in Int, r.size \in Int
  PROVE  \A x : x \in Elements(r) <=> x \in Int /\ r.start <= x /\ x < r.start + r.size
BY DEF Elements

\* The tiles of a range, one by one.
LEMMA TileFacts ==
  ASSUME NEW range, range.start \in Nat, range.size \in Nat, NEW tile \in Nat \ {0},
         NEW i \in 1..CeilQuotient(range.size, tile)
  PROVE  /\ DOMAIN TiledRange(range, tile) = 1..CeilQuotient(range.size, tile)
         /\ TiledRange(range, tile)[i].start \in Nat /\ TiledRange(range, tile)[i].size \in Nat
         /\ \A x : x \in Elements(TiledRange(range, tile)[i]) <=>
              /\ x \in Int
              /\ range.start + (i - 1) * tile <= x
              /\ x < range.start + (i - 1) * tile + tile
              /\ x < range.start + range.size
<1>1. PICK q \in Nat : q = CeilQuotient(range.size, tile) /\ \A j \in Int : j < q => j * tile < range.size
  BY CeilFacts
<1>2. PICK o : o = (i - 1) * tile
  OBVIOUS
<1>3. o \in Nat /\ o < range.size
  <2>1. i - 1 \in Nat /\ i - 1 < q
    BY <1>1
  <2> QED
    BY <1>1, <1>2, <2>1
<1>4. PICK r : r = TiledRange(range, tile)[i]
  OBVIOUS
<1>5. r.start = range.start + o /\ r.size = AtMost(tile, range.size - o)
  BY <1>2, <1>4 DEF TiledRange
<1>6. r.start \in Nat /\ r.size \in Nat
  BY <1>3, <1>5 DEF AtMost
<1>7. \A x : x \in Elements(r) <=> x \in Int /\ r.start <= x /\ x < r.start + r.size
  BY <1>6, ElementsOf
<1>8. DOMAIN TiledRange(range, tile) = 1..CeilQuotient(range.size, tile)
  BY DEF TiledRange
<1>9. \A x \in Int : x < r.start + r.size <=> x < range.start + o + tile /\ x < range.start + range.size
  BY <1>3, <1>5 DEF AtMost
<1> QED
  BY <1>2, <1>4, <1>5, <1>6, <1>7, <1>8, <1>9

LEMMA TilesPartition ==
  ASSUME NEW range, range.start \in Nat, range.size \in Nat, NEW tile \in Nat \ {0}
  PROVE  Partition(Range(TiledRange(range, tile)), range)
<1> DEFINE q == CeilQuotient(range.size, tile)
           T(i) == TiledRange(range, tile)[i]
<1>1. \A r : r \in Range(TiledRange(range, tile)) <=> \E i \in 1..q : r = T(i)
  BY DEF Range, TiledRange
<1>2. \A i \in 1..q : \A x : x \in Elements(T(i)) <=>
        /\ x \in Int
        /\ range.start + (i - 1) * tile <= x
        /\ x < range.start + (i - 1) * tile + tile
        /\ x < range.start + range.size
  BY TileFacts
<1>3. \A x : x \in Elements(range) <=> x \in Int /\ range.start <= x /\ x < range.start + range.size
  BY ElementsOf
<1>4. q \in Nat
  BY CeilFacts
<1> HIDE DEF q, T
<1>5. ASSUME NEW x \in Elements(range)
      PROVE  \E i \in 1..q : x \in Elements(T(i))
  <2>1. PICK y \in Nat : y = x - range.start /\ y < range.size
    BY <1>3
  <2>2. PICK i \in 0..q - 1 : i * tile <= y /\ y < i * tile + tile
    BY <2>1, PartIsCounted DEF q
  <2>3. i + 1 \in 1..q /\ (i + 1) - 1 = i /\ i * tile \in Int
    BY <1>4
  <2>4. x \in Elements(T(i + 1))
    BY <1>2, <1>3, <2>1, <2>2, <2>3
  <2> QED
    BY <2>3, <2>4
<1>6. ASSUME NEW i \in 1..q, NEW x \in Elements(T(i))
      PROVE  x \in Elements(range)
  <2>1. i - 1 \in Nat /\ (i - 1) * tile \in Nat
    BY <1>4
  <2> QED
    BY <1>2, <1>3, <2>1
<1>7. ASSUME NEW i \in 1..q, NEW j \in 1..q, NEW x \in Elements(T(i)), x \in Elements(T(j))
      PROVE  i = j
  <2>1. PICK k \in Int : k = i - 1
    BY <1>4
  <2>2. PICK l \in Int : l = j - 1
    BY <1>4
  <2>3. k * tile < l * tile + tile /\ l * tile < k * tile + tile
    <3>1. k * tile \in Int /\ l * tile \in Int
      OBVIOUS
    <3> QED
      BY <1>2, <1>7, <2>1, <2>2, <3>1
  <2>4. k = l
    BY <2>3, QuotientIsUnique
  <2> QED
    BY <1>4, <2>1, <2>2, <2>4
<1>8. UNION {Elements(r) : r \in Range(TiledRange(range, tile))} = Elements(range)
  BY <1>1, <1>5, <1>6
<1>9. ASSUME NEW r \in Range(TiledRange(range, tile)), NEW s \in Range(TiledRange(range, tile)), r # s
      PROVE  Elements(r) \cap Elements(s) = {}
  BY <1>1, <1>7, <1>9
<1> QED
  BY <1>8, <1>9 DEF Partition

\* A tile of whole subtiles: what a subtile holds, and that its two bounds agree.
LEMMA SubtileFacts ==
  ASSUME NEW c, c.dim \in Nat \ {0}, c.tile \in Nat \ {0}, c.sub \in Nat \ {0},
         NEW m \in Nat, c.tile = m * c.sub,
         NEW t \in 0..CeilQuotient(c.dim, c.tile) - 1, NEW u \in 0..ActualSubtiles(c, t) - 1
  PROVE  /\ TileBound(c, t) \in Nat
         /\ SubtileBound(c, t, u) = LocalSubtileBound(c, t, u)
         /\ u * c.sub + c.sub <= c.tile
         /\ SubtileStart(c, t, u) = t * c.tile + u * c.sub
         /\ \A x : x \in Elements([start |-> SubtileStart(c, t, u), size |-> SubtileBound(c, t, u)]) <=>
              /\ x \in Int
              /\ t * c.tile + u * c.sub <= x
              /\ x < t * c.tile + u * c.sub + c.sub
              /\ x < c.dim
<1>1. PICK o : o = t * c.tile
  OBVIOUS
<1>2. \A j \in Int : j < CeilQuotient(c.dim, c.tile) => j * c.tile < c.dim
  BY CeilFacts
<1>3. t \in Nat /\ u \in Nat /\ t < CeilQuotient(c.dim, c.tile)
  <2>1. CeilQuotient(c.dim, c.tile) \in Nat
    BY CeilFacts
  <2> QED
    BY <2>1
<1>4. o \in Nat /\ o < c.dim
  BY <1>1, <1>2, <1>3
<1>5. PICK b : b = TileBound(c, t)
  OBVIOUS
<1>6. b \in Nat /\ b <= c.tile /\ b <= c.dim - o /\ (b = c.tile \/ b = c.dim - o)
  BY <1>1, <1>4, <1>5 DEF TileBound, AtMost
<1>7. PICK w : w = u * c.sub
  OBVIOUS
<1>8. w \in Nat /\ w < b
  <2>1. CeilQuotient(b, c.sub) \in Nat /\ \A j \in Int : j < CeilQuotient(b, c.sub) => j * c.sub < b
    BY <1>6, CeilFacts
  <2>2. u < CeilQuotient(b, c.sub)
    BY <1>3, <1>5, <2>1 DEF ActualSubtiles
  <2> QED
    BY <1>3, <1>7, <2>1, <2>2
<1>9. w + c.sub <= c.tile
  <2>1. u < m
    <3> SUFFICES ASSUME u >= m
                 PROVE  FALSE
      BY <1>3
    <3>1. u * c.sub >= m * c.sub
      BY <1>3
    <3> QED
      BY <1>6, <1>7, <1>8, <3>1
  <2>2. (u + 1) * c.sub <= m * c.sub
    BY <1>3, <2>1
  <2>3. (u + 1) * c.sub = u * c.sub + c.sub
    <3>1. \A x, y \in Nat : (x + 1) * y = x * y + y
      OBVIOUS
    <3> QED
      BY <1>3, <3>1
  <2> QED
    BY <1>7, <2>2, <2>3
<1>10. SubtileStart(c, t, u) = o + w
  BY <1>1, <1>7 DEF SubtileStart, LocalSubtileStart
<1>11. SubtileBound(c, t, u) = AtMost(c.dim - (o + w), c.sub) /\ LocalSubtileBound(c, t, u) = AtMost(c.sub, b - w)
  BY <1>5, <1>7, <1>10 DEF SubtileBound, LocalSubtileBound, LocalSubtileStart
<1>12. SubtileBound(c, t, u) = LocalSubtileBound(c, t, u)
  BY <1>4, <1>6, <1>8, <1>9, <1>11 DEF AtMost
<1>13. PICK r : r = [start |-> SubtileStart(c, t, u), size |-> SubtileBound(c, t, u)]
  OBVIOUS
<1>14. r.start = o + w /\ r.size = AtMost(c.dim - (o + w), c.sub)
  BY <1>10, <1>11, <1>13
<1>15. r.start \in Int /\ r.size \in Int
  BY <1>4, <1>8, <1>14 DEF AtMost
<1>16. \A x : x \in Elements(r) <=> x \in Int /\ r.start <= x /\ x < r.start + r.size
  BY <1>15, ElementsOf
<1>17. \A x \in Int : x < r.start + r.size <=> x < o + w + c.sub /\ x < c.dim
  BY <1>4, <1>8, <1>14 DEF AtMost
<1> QED
  BY <1>1, <1>5, <1>6, <1>7, <1>9, <1>10, <1>12, <1>13, <1>14, <1>16, <1>17

\* The subtiles of all tiles cover the dimension once.
LEMMA SubtilesPartition ==
  ASSUME NEW c, c.dim \in Nat \ {0}, c.tile \in Nat \ {0}, c.sub \in Nat \ {0},
         NEW m \in Nat, c.tile = m * c.sub
  PROVE  Partition(Subtiles(c), Whole0(c.dim))
<1> DEFINE tiles == 0..CeilQuotient(c.dim, c.tile) - 1
           subs(t) == 0..ActualSubtiles(c, t) - 1
           S(t, u) == [start |-> SubtileStart(c, t, u), size |-> SubtileBound(c, t, u)]
<1>1. \A r : r \in Subtiles(c) <=> \E t \in tiles : \E u \in subs(t) : r = S(t, u)
  BY DEF Subtiles
<1>2. \A t \in tiles : \A u \in subs(t) :
        /\ u * c.sub + c.sub <= c.tile
        /\ \A x : x \in Elements(S(t, u)) <=>
             /\ x \in Int
             /\ t * c.tile + u * c.sub <= x
             /\ x < t * c.tile + u * c.sub + c.sub
             /\ x < c.dim
  BY SubtileFacts
<1>3. \A x : x \in Elements(Whole0(c.dim)) <=> x \in Int /\ 0 <= x /\ x < c.dim
  BY DEF Elements, Whole0
<1>4. \A t \in tiles : t \in Nat
  BY CeilFacts
<1>5. \A t \in tiles : TileBound(c, t) \in Nat /\ t * c.tile < c.dim /\ t * c.tile \in Nat
  <2> SUFFICES ASSUME NEW t \in tiles
               PROVE  TileBound(c, t) \in Nat /\ t * c.tile < c.dim /\ t * c.tile \in Nat
    OBVIOUS
  <2>1. PICK q \in Nat : q = CeilQuotient(c.dim, c.tile) /\ \A j \in Int : j < q => j * c.tile < c.dim
    BY CeilFacts
  <2>2. t \in Int /\ t < q
    BY <2>1
  <2>3. PICK o : o = t * c.tile
    OBVIOUS
  <2>4. o \in Nat /\ o < c.dim
    BY <1>4, <2>1, <2>2, <2>3
  <2>5. TileBound(c, t) \in Nat
    BY <2>3, <2>4 DEF TileBound, AtMost
  <2> QED
    BY <2>3, <2>4, <2>5
<1>6. \A t \in tiles : \A u \in subs(t) : u \in Nat
  BY <1>5, CeilFacts DEF ActualSubtiles
<1>7. ASSUME NEW x \in Nat, x < c.dim
      PROVE  \E t \in tiles : \E u \in subs(t) :
               t * c.tile + u * c.sub <= x /\ x < t * c.tile + u * c.sub + c.sub
  <2>1. PICK t \in tiles : t * c.tile <= x /\ x < t * c.tile + c.tile
    BY <1>7, PartIsCounted
  <2>2. PICK o \in Nat : o = t * c.tile
    BY <1>5
  <2>3. PICK y \in Nat : y = x - o
    BY <2>1, <2>2
  <2>4. y < TileBound(c, t)
    BY <1>7, <2>1, <2>2, <2>3 DEF TileBound, AtMost
  <2>5. PICK u \in subs(t) : u * c.sub <= y /\ y < u * c.sub + c.sub
    BY <1>5, <2>4, PartIsCounted DEF ActualSubtiles
  <2>6. u * c.sub \in Int
    BY <1>6
  <2>7. o + u * c.sub <= x /\ x < o + u * c.sub + c.sub
    BY <2>3, <2>5, <2>6
  <2> QED
    BY <2>2, <2>7
<1> HIDE DEF tiles, subs, S
<1>8. ASSUME NEW x \in Elements(Whole0(c.dim))
      PROVE  \E t \in tiles : \E u \in subs(t) : x \in Elements(S(t, u))
  <2>1. x \in Nat /\ x < c.dim
    BY <1>3
  <2>2. PICK t \in tiles : \E u \in subs(t) : t * c.tile + u * c.sub <= x /\ x < t * c.tile + u * c.sub + c.sub
    BY <1>7, <2>1
  <2>3. PICK u \in subs(t) : t * c.tile + u * c.sub <= x /\ x < t * c.tile + u * c.sub + c.sub
    BY <2>2
  <2> QED
    BY <1>2, <2>1, <2>3
<1>9. ASSUME NEW t \in tiles, NEW u \in subs(t), NEW x \in Elements(S(t, u))
      PROVE  x \in Elements(Whole0(c.dim))
  <2>1. u * c.sub \in Nat /\ t * c.tile \in Nat
    BY <1>5, <1>6
  <2> QED
    BY <1>2, <1>3, <2>1
<1>10. ASSUME NEW t \in tiles, NEW u \in subs(t), NEW p \in tiles, NEW v \in subs(p),
              NEW x \in Elements(S(t, u)), x \in Elements(S(p, v))
       PROVE  t = p /\ u = v
  <2>1. u * c.sub \in Nat /\ t * c.tile \in Nat /\ v * c.sub \in Nat /\ p * c.tile \in Nat
    BY <1>5, <1>6
  <2>2. /\ t * c.tile + u * c.sub <= x /\ x < t * c.tile + u * c.sub + c.sub /\ u * c.sub + c.sub <= c.tile
        /\ p * c.tile + v * c.sub <= x /\ x < p * c.tile + v * c.sub + c.sub /\ v * c.sub + c.sub <= c.tile
        /\ x \in Int
    BY <1>2, <1>10
  <2>3. t * c.tile < p * c.tile + c.tile /\ p * c.tile < t * c.tile + c.tile
    BY <2>1, <2>2
  <2>4. t = p
    <3>1. t \in Int /\ p \in Int
      BY <1>4
    <3> QED
      BY <2>3, <3>1, QuotientIsUnique
  <2>5. u * c.sub < v * c.sub + c.sub /\ v * c.sub < u * c.sub + c.sub
    BY <2>1, <2>2, <2>4
  <2>6. u \in Int /\ v \in Int
    BY <1>6
  <2>7. u = v
    BY <2>5, <2>6, QuotientIsUnique
  <2> QED
    BY <2>4, <2>7
<1>11. UNION {Elements(r) : r \in Subtiles(c)} = Elements(Whole0(c.dim))
  BY <1>1, <1>8, <1>9
<1>12. ASSUME NEW r \in Subtiles(c), NEW s \in Subtiles(c), r # s
       PROVE  Elements(r) \cap Elements(s) = {}
  BY <1>1, <1>10, <1>12
<1> QED
  BY <1>11, <1>12 DEF Partition

\* No step of a kernel changes how its loops are cut.
CutInv == cut \in [dim : Extents, tile : Extents, sub : Extents]

LEMMA CutIsExact == CutInv => TilesCoverOnce
<1> SUFFICES ASSUME CutInv
             PROVE  TilesCoverOnce
  OBVIOUS
<1>1. cut.dim \in Nat \ {0} /\ cut.tile \in Nat \ {0} /\ cut.sub \in Nat \ {0}
  BY TilingAssumption DEF CutInv
<1> DEFINE whole == Whole0(cut.dim)
           outer == TiledRange(whole, cut.tile)
<1>2. whole.start = 0 /\ whole.size = cut.dim
  BY DEF Whole0
<1>3. whole.start \in Nat /\ whole.size \in Nat
  BY <1>1, <1>2
<1> HIDE DEF whole
<1>4. Partition(Range(outer), whole)
  BY <1>1, <1>3, TilesPartition
<1>5. DOMAIN outer = 1..CeilQuotient(cut.dim, cut.tile)
  BY <1>2 DEF TiledRange
<1>6. ASSUME NEW i \in DOMAIN outer
      PROVE  Partition(Range(TiledRange(outer[i], cut.sub)), outer[i])
  <2>1. outer[i].start \in Nat /\ outer[i].size \in Nat
    BY <1>1, <1>2, <1>3, <1>5, TileFacts
  <2> HIDE DEF outer
  <2> QED
    BY <1>1, <2>1, TilesPartition
<1>7. ASSUME cut.tile % cut.sub = 0
      PROVE  /\ Partition(Subtiles(cut), whole)
             /\ \A i \in DOMAIN outer : \A u \in 0..ActualSubtiles(cut, i - 1) - 1 :
                  SubtileBound(cut, i - 1, u) = LocalSubtileBound(cut, i - 1, u)
  <2>1. PICK m \in Nat : cut.tile = m * cut.sub
    <3>1. PICK a \in Nat \ {0} : a = cut.tile
      BY <1>1
    <3>2. PICK b \in Nat \ {0} : b = cut.sub
      BY <1>1
    <3>3. a = (a \div b) * b + (a % b) /\ a \div b \in Nat
      OBVIOUS
    <3>4. a % b = 0
      BY <1>7, <3>1, <3>2
    <3>5. a = (a \div b) * b
      <4>1. (a \div b) * b \in Int
        BY <3>3
      <4> QED
        BY <3>3, <3>4, <4>1
    <3> QED
      BY <3>1, <3>2, <3>3, <3>5
  <2>2. Partition(Subtiles(cut), whole)
    BY <1>1, <2>1, SubtilesPartition DEF whole
  <2>3. ASSUME NEW i \in DOMAIN outer, NEW u \in 0..ActualSubtiles(cut, i - 1) - 1
        PROVE  SubtileBound(cut, i - 1, u) = LocalSubtileBound(cut, i - 1, u)
    <3>1. i - 1 \in 0..CeilQuotient(cut.dim, cut.tile) - 1
      <4>1. CeilQuotient(cut.dim, cut.tile) \in Nat
        BY <1>1, CeilFacts
      <4> QED
        BY <1>5, <4>1
    <3>2. PICK t \in 0..CeilQuotient(cut.dim, cut.tile) - 1 : t = i - 1
      BY <3>1
    <3>3. SubtileBound(cut, t, u) = LocalSubtileBound(cut, t, u)
      BY <1>1, <2>1, <3>2, SubtileFacts
    <3> QED
      BY <3>2, <3>3
  <2> QED
    BY <2>2, <2>3
<1> QED
  BY <1>4, <1>6, <1>7 DEF TilesCoverOnce, whole

\* The tiles of a loop, the tiles nested in them and the subtiles of a tiled
\* dimension each visit every element exactly once, for every dimension, tile
\* and subtile size (tiled_range.py, tile_info.py).
THEOREM TilesStayExact == TilingSpec => []TilesCoverOnce
<1>1. TilingInit => CutInv
  BY DEF TilingInit, CutInv
<1>2. CutInv /\ [TilingNext]_tilingVars => CutInv'
  BY DEF CutInv, TilingNext, AllocTiles, tilingVars
<1> QED
  BY <1>1, <1>2, CutIsExact, PTL DEF TilingSpec


-----------------------------------------------------------------------------
(* The rotating buffers of the modular allocator.  A loop has one or two     *)
(* levels, so a logical index has one entry or two.                          *)

Positives == Nat \ {0}
Levels == {1..1, 1..2}

\* The tiles of one allocation: same residues, same buffer; otherwise apart.
Rotates(b) ==
  \A x, y \in DOMAIN b.at :
    IF \A d \in DOMAIN x : x[d] % b.free[d] = y[d] % b.free[d]
    THEN b.at[x] = b.at[y]
    ELSE b.at[x] + b.bytes <= b.at[y] \/ b.at[y] + b.bytes <= b.at[x]

\* They lie between two addresses.
LiesIn(b, from, to) == \A x \in DOMAIN b.at : b.at[x] \in Int /\ from <= b.at[x] /\ b.at[x] + b.bytes <= to

Buffer == [free : Seq(Positives), bytes : Positives, at : UNION {[D -> Nat] : D \in {LogicalIndices(b) : b \in Seq(Positives)}}]

RotInv ==
  /\ CutInv
  /\ current \in Nat /\ buffers \in Seq(Buffer)
  /\ \A i \in DOMAIN buffers : Rotates(buffers[i]) /\ LiesIn(buffers[i], 0, current)
  /\ \A i, j \in DOMAIN buffers : i < j =>
       \A x \in DOMAIN buffers[i].at, y \in DOMAIN buffers[j].at :
         buffers[i].at[x] + buffers[i].bytes <= buffers[j].at[y]

LEMMA RotInvRotates == RotInv => BuffersRotate
<1> SUFFICES ASSUME RotInv, NEW i \in DOMAIN buffers, NEW j \in DOMAIN buffers,
                    NEW x \in DOMAIN buffers[i].at, NEW y \in DOMAIN buffers[j].at
             PROVE  IF i = j /\ \A d \in DOMAIN x : x[d] % buffers[i].free[d] = y[d] % buffers[i].free[d]
                    THEN buffers[i].at[x] = buffers[j].at[y]
                    ELSE \/ buffers[i].at[x] + buffers[i].bytes <= buffers[j].at[y]
                         \/ buffers[j].at[y] + buffers[j].bytes <= buffers[i].at[x]
  BY DEF BuffersRotate
<1>1. CASE i = j
  BY <1>1 DEF RotInv, Rotates
<1>2. CASE i < j
  BY <1>2 DEF RotInv
<1>3. CASE j < i
  BY <1>3 DEF RotInv
<1>4. i \in Int /\ j \in Int
  BY DEF RotInv
<1> QED
  BY <1>1, <1>2, <1>3, <1>4

LEMMA OneAndTwo ==
  /\ 1..1 = {1} /\ 1..2 = {1, 2}
  /\ IsFiniteSet({}) /\ IsFiniteSet({1}) /\ IsFiniteSet({2}) /\ IsFiniteSet({1, 2})
<1>1. 1..1 = {1} /\ 1..2 = {1, 2}
  OBVIOUS
<1>2. IsFiniteSet({})
  BY FS_EmptySet
<1>3. \A S, x : IsFiniteSet(S) => IsFiniteSet(S \cup {x})
  BY FS_AddElement
<1>4. {1, 2} = {2} \cup {1}
  OBVIOUS
<1>0. \A x : IsFiniteSet({x})
  BY FS_Singleton
<1>5. IsFiniteSet({1}) /\ IsFiniteSet({2})
  BY <1>0
<1>6. IsFiniteSet({1, 2})
  BY <1>3, <1>4, <1>5
<1> QED
  BY <1>1, <1>2, <1>5, <1>6

\* The entries of a logical index are natural numbers.
LEMMA IndicesAreNatural ==
  ASSUME NEW b, DOMAIN b \in Levels, \A d \in DOMAIN b : b[d] \in Nat, NEW x \in LogicalIndices(b)
  PROVE  DOMAIN x = DOMAIN b /\ \A d \in DOMAIN x : x[d] \in Nat
<1>1. IsFiniteSet(DOMAIN b)
  BY OneAndTwo DEF Levels
<1>2. PICK h : FoldsOver(h, Greater, 1, b, DOMAIN b, Nat) /\ GreatestOn(b, DOMAIN b) = h[DOMAIN b]
  BY <1>1, GreatestOnIsFold
<1>3. GreatestOn(b, DOMAIN b) \in Nat
  BY <1>2, FoldIsIn
<1>4. LogicalIndices(b) = {f \in [DOMAIN b -> 0..GreatestOn(b, DOMAIN b) - 1] : \A d \in DOMAIN b : f[d] < b[d]}
  BY ONLY Zenon DEF LogicalIndices, GreatestOn, FoldFunction
<1>5. x \in [DOMAIN b -> 0..GreatestOn(b, DOMAIN b) - 1]
  BY <1>4
<1> QED
  BY <1>3, <1>5

LEMMA OneStride ==
  ASSUME NEW f, DOMAIN f = 1..1, f[1] \in Positives
  PROVE  PhysicalTiles(f) = f[1] /\ FreeStride(f, 1) = 1
<1>1. PhysicalTiles(f) = ProductOn(f, DOMAIN f) /\ FreeStride(f, 1) = ProductOn(f, {e \in DOMAIN f : e > 1})
  BY ONLY Zenon DEF PhysicalTiles, FreeStride, ProductOn, FoldFunction
<1>2. DOMAIN f = {1} /\ {e \in DOMAIN f : e > 1} = {} /\ IsFiniteSet({1}) /\ IsFiniteSet({})
  BY OneAndTwo
<1>3. f[1] \in Nat
  BY DEF Positives
<1>4. PICK h : FoldsOver(h, Times, 1, f, {1}, Nat) /\ ProductOn(f, {1}) = h[{1}]
  BY <1>2, <1>3, ProductOnIsFold
<1>5. h[{1}] = Times[<<f[1], 1>>]
  BY <1>4, FoldOfOne
<1>6. PICK g : FoldsOver(g, Times, 1, f, {}, Nat) /\ ProductOn(f, {}) = g[{}]
  BY <1>2, ProductOnIsFold
<1>7. g[{}] = 1
  BY <1>6, FoldUnfolds
<1>8. Times[<<f[1], 1>>] = f[1]
  BY <1>3, TimesCombines
<1> QED
  BY <1>1, <1>2, <1>4, <1>5, <1>6, <1>7, <1>8

LEMMA TwoStrides ==
  ASSUME NEW f, DOMAIN f = 1..2, f[1] \in Positives, f[2] \in Positives
  PROVE  PhysicalTiles(f) = f[1] * f[2] /\ FreeStride(f, 1) = f[2] /\ FreeStride(f, 2) = 1
<1>1. PhysicalTiles(f) = ProductOn(f, DOMAIN f) /\ \A d : FreeStride(f, d) = ProductOn(f, {e \in DOMAIN f : e > d})
  BY ONLY Zenon DEF PhysicalTiles, FreeStride, ProductOn, FoldFunction
<1>2. /\ DOMAIN f = {1, 2} /\ {e \in DOMAIN f : e > 1} = {2} /\ {e \in DOMAIN f : e > 2} = {}
      /\ IsFiniteSet({1, 2}) /\ IsFiniteSet({2}) /\ IsFiniteSet({})
  BY OneAndTwo
<1>3. f[1] \in Nat /\ f[2] \in Nat
  BY DEF Positives
<1>4. PICK h : FoldsOver(h, Times, 1, f, {1, 2}, Nat) /\ ProductOn(f, {1, 2}) = h[{1, 2}]
  BY <1>2, <1>3, ProductOnIsFold
<1>5. h[{1, 2}] = Times[<<f[1], Times[<<f[2], 1>>]>>]
  BY <1>4, FoldOfTwo
<1>6. PICK k : FoldsOver(k, Times, 1, f, {2}, Nat) /\ ProductOn(f, {2}) = k[{2}]
  BY <1>2, <1>3, ProductOnIsFold
<1>7. k[{2}] = Times[<<f[2], 1>>]
  BY <1>6, FoldOfOne
<1>8. PICK g : FoldsOver(g, Times, 1, f, {}, Nat) /\ ProductOn(f, {}) = g[{}]
  BY <1>2, ProductOnIsFold
<1>9. g[{}] = 1
  BY <1>8, FoldUnfolds
<1>10. Times[<<f[2], 1>>] = f[2] /\ Times[<<f[1], f[2]>>] = f[1] * f[2]
  BY <1>3, TimesCombines
<1> QED
  BY <1>1, <1>2, <1>4, <1>5, <1>6, <1>7, <1>8, <1>9, <1>10

\* A natural number's residue.
LEMMA Residue ==
  ASSUME NEW x \in Nat, NEW k \in Positives
  PROVE  x % k \in Nat /\ x % k < k
  BY DEF Positives

LEMMA OneOffset ==
  ASSUME NEW b, NEW f, DOMAIN f = 1..1, f[1] \in Positives, NEW x, x[1] \in Nat
  PROVE  TileOffset(x, b, f) = x[1] % f[1]
<1> DEFINE v == [d \in DOMAIN f |-> (x[d] % f[d]) * FreeStride(f, d)]
<1>1. TileOffset(x, b, f) = SumOn(v, DOMAIN v)
  BY ONLY Zenon DEF TileOffset, SumOn, FoldFunction, v
<1>2. x[1] % f[1] \in Nat
  BY Residue
<1>3. v[1] = x[1] % f[1]
  BY <1>2, OneStride
<1>4. DOMAIN v = {1} /\ IsFiniteSet({1})
  BY OneAndTwo
<1> HIDE DEF v
<1>5. PICK h : FoldsOver(h, Plus, 0, v, {1}, Nat) /\ SumOn(v, {1}) = h[{1}]
  BY <1>2, <1>3, <1>4, SumOnIsFold
<1>6. h[{1}] = Plus[<<v[1], 0>>]
  BY <1>5, FoldOfOne
<1> QED
  BY <1>1, <1>2, <1>3, <1>4, <1>5, <1>6, PlusCombines

LEMMA TwoOffsets ==
  ASSUME NEW b, NEW f, DOMAIN f = 1..2, f[1] \in Positives, f[2] \in Positives,
         NEW x, x[1] \in Nat, x[2] \in Nat
  PROVE  TileOffset(x, b, f) = (x[1] % f[1]) * f[2] + (x[2] % f[2])
<1> DEFINE v == [d \in DOMAIN f |-> (x[d] % f[d]) * FreeStride(f, d)]
<1>1. TileOffset(x, b, f) = SumOn(v, DOMAIN v)
  BY ONLY Zenon DEF TileOffset, SumOn, FoldFunction, v
<1>2. x[1] % f[1] \in Nat /\ x[2] % f[2] \in Nat /\ f[2] \in Nat
  BY Residue DEF Positives
<1>3. v[1] = (x[1] % f[1]) * f[2] /\ v[2] = x[2] % f[2]
  BY <1>2, TwoStrides
<1>4. DOMAIN v = {1, 2} /\ IsFiniteSet({1, 2})
  BY OneAndTwo
<1> HIDE DEF v
<1>5. v[1] \in Nat /\ v[2] \in Nat
  <2>1. \A p, q \in Nat : p * q \in Nat
    OBVIOUS
  <2> QED
    BY <1>2, <1>3, <2>1
<1>6. PICK h : FoldsOver(h, Plus, 0, v, {1, 2}, Nat) /\ SumOn(v, {1, 2}) = h[{1, 2}]
  BY <1>4, <1>5, SumOnIsFold
<1>7. h[{1, 2}] = Plus[<<v[1], Plus[<<v[2], 0>>]>>]
  BY <1>6, FoldOfTwo
<1>8. Plus[<<v[2], 0>>] = v[2] /\ Plus[<<v[1], v[2]>>] = v[1] + v[2]
  BY <1>5, PlusCombines
<1> QED
  BY <1>1, <1>3, <1>4, <1>6, <1>7, <1>8

\* A logical index picks a physical tile, the same one as another index when
\* their residues agree and only then.
LEMMA OffsetFacts ==
  ASSUME NEW b, NEW f, DOMAIN b = DOMAIN f, DOMAIN f \in Levels,
         \A d \in DOMAIN f : b[d] \in Nat /\ f[d] \in Positives,
         NEW x \in LogicalIndices(b), NEW y \in LogicalIndices(b)
  PROVE  /\ TileOffset(x, b, f) \in Nat /\ TileOffset(x, b, f) < PhysicalTiles(f)
         /\ TileOffset(y, b, f) \in Nat
         /\ TileOffset(x, b, f) = TileOffset(y, b, f) <=> \A d \in DOMAIN x : x[d] % f[d] = y[d] % f[d]
<1>1. /\ DOMAIN x = DOMAIN f /\ \A d \in DOMAIN f : x[d] \in Nat
      /\ DOMAIN y = DOMAIN f /\ \A d \in DOMAIN f : y[d] \in Nat
  BY IndicesAreNatural
<1>2. CASE DOMAIN f = 1..1
  <2>1. f[1] \in Positives /\ x[1] \in Nat /\ y[1] \in Nat
    BY <1>1, <1>2
  <2>2. TileOffset(x, b, f) = x[1] % f[1] /\ TileOffset(y, b, f) = y[1] % f[1]
    BY <1>2, <2>1, OneOffset
  <2>3. PhysicalTiles(f) = f[1]
    BY <1>2, <2>1, OneStride
  <2>4. (\A d \in DOMAIN x : x[d] % f[d] = y[d] % f[d]) <=> x[1] % f[1] = y[1] % f[1]
    <3>1. DOMAIN x = {1}
      BY <1>1, <1>2
    <3> QED
      BY <3>1
  <2> QED
    BY <2>1, <2>2, <2>3, <2>4, Residue
<1>3. CASE DOMAIN f = 1..2
  <2>1. f[1] \in Positives /\ f[2] \in Positives /\ x[1] \in Nat /\ y[1] \in Nat /\ x[2] \in Nat /\ y[2] \in Nat
    BY <1>1, <1>3
  <2>2. /\ TileOffset(x, b, f) = (x[1] % f[1]) * f[2] + (x[2] % f[2])
        /\ TileOffset(y, b, f) = (y[1] % f[1]) * f[2] + (y[2] % f[2])
    BY <1>3, <2>1, TwoOffsets
  <2>3. PhysicalTiles(f) = f[1] * f[2]
    BY <1>3, <2>1, TwoStrides
  <2>4. (\A d \in DOMAIN x : x[d] % f[d] = y[d] % f[d])
          <=> x[1] % f[1] = y[1] % f[1] /\ x[2] % f[2] = y[2] % f[2]
    <3>1. DOMAIN x = {1, 2}
      BY <1>1, <1>3
    <3> QED
      BY <3>1
  <2>5. PICK k \in Nat \ {0} : k = f[1]
    BY <2>1 DEF Positives
  <2>6. PICK l \in Nat \ {0} : l = f[2]
    BY <2>1 DEF Positives
  <2>7. PICK p \in Nat : p = x[1] % f[1] /\ p < k
    BY <2>1, <2>5, Residue
  <2>8. PICK q \in Nat : q = x[2] % f[2] /\ q < l
    BY <2>1, <2>6, Residue
  <2>9. PICK r \in Nat : r = y[1] % f[1] /\ r < k
    BY <2>1, <2>5, Residue
  <2>10. PICK s \in Nat : s = y[2] % f[2] /\ s < l
    BY <2>1, <2>6, Residue
  <2>11. p * l \in Nat /\ r * l \in Nat
    BY <2>6
  <2>12. p * l + q < k * l
    <3>1. k * l = (p + 1) * l + (k - (p + 1)) * l /\ (p + 1) * l = p * l + l
      OBVIOUS
    <3>2. (k - (p + 1)) * l >= 0
      <4>1. k - (p + 1) \in Nat
        BY <2>7
      <4> HIDE <2>7
      <4>2. \A a, c \in Nat : a * c >= 0
        OBVIOUS
      <4> QED
        BY <4>1, <4>2
    <3>3. (k - (p + 1)) * l \in Int
      OBVIOUS
    <3> QED
      BY <2>8, <2>11, <3>1, <3>2, <3>3
  <2>13. p * l + q = r * l + s => p = r /\ q = s
    <3> SUFFICES ASSUME p * l + q = r * l + s
                 PROVE  p = r /\ q = s
      OBVIOUS
    <3>1. p * l < r * l + l /\ r * l < p * l + l
      BY <2>8, <2>10, <2>11
    <3>2. p = r
      BY <3>1, QuotientIsUnique
    <3> QED
      BY <2>11, <3>2
  <2>14. TileOffset(x, b, f) = p * l + q /\ TileOffset(y, b, f) = r * l + s /\ PhysicalTiles(f) = k * l
    BY <2>2, <2>3, <2>5, <2>6, <2>7, <2>8, <2>9, <2>10
  <2> QED
    BY <2>4, <2>7, <2>8, <2>9, <2>10, <2>11, <2>12, <2>13, <2>14
<1> QED
  BY <1>2, <1>3 DEF Levels

\* Tiles that follow one another do not overlap.
LEMMA ApartByTiles ==
  ASSUME NEW o \in Nat, NEW n \in Nat, NEW w \in Nat
  PROVE  o * w \in Nat /\ n * w \in Nat /\ (o < n => o * w + w <= n * w) /\ (n < o => n * w + w <= o * w)
<1>1. ASSUME NEW p \in Nat, NEW q \in Nat, p < q
      PROVE  p * w + w <= q * w
  <2>1. q - (p + 1) \in Nat
    BY <1>1
  <2>2. \A a, c \in Nat : a * c >= 0
    OBVIOUS
  <2>3. (q - (p + 1)) * w >= 0
    BY <2>1, <2>2
  <2>4. q * w = (p + 1) * w + (q - (p + 1)) * w /\ (p + 1) * w = p * w + w
    OBVIOUS
  <2>5. (q - (p + 1)) * w \in Int /\ p * w \in Int
    OBVIOUS
  <2> QED
    BY <2>3, <2>4, <2>5
<1>2. o * w \in Nat /\ n * w \in Nat
  OBVIOUS
<1> QED
  BY <1>1, <1>2

\* What alloc_sbuf_tensor hands out at sca.
IsAllocation(r, b, f, sca, bytes) ==
  /\ DOMAIN b = DOMAIN f /\ DOMAIN f \in Levels
  /\ \A d \in DOMAIN f : b[d] \in Nat /\ f[d] \in Positives
  /\ sca \in Nat /\ bytes \in Positives
  /\ r = [free |-> f, bytes |-> bytes,
          at |-> [x \in LogicalIndices(b) |-> sca + TileOffset(x, b, f) * bytes]]

\* The residues decide the tile, and the tiles of an allocation lie in its bytes.
LEMMA AllocationRotates ==
  ASSUME NEW r, NEW b, NEW f, NEW sca, NEW bytes, IsAllocation(r, b, f, sca, bytes)
  PROVE  /\ Rotates(r) /\ LiesIn(r, sca, sca + PhysicalTiles(f) * bytes)
         /\ PhysicalTiles(f) \in Nat
         /\ DOMAIN r.at = LogicalIndices(b) /\ \A x \in DOMAIN r.at : r.at[x] \in Nat
<1>0. /\ DOMAIN b = DOMAIN f /\ DOMAIN f \in Levels
      /\ \A d \in DOMAIN f : b[d] \in Nat /\ f[d] \in Positives
      /\ sca \in Nat /\ bytes \in Positives
      /\ r = [free |-> f, bytes |-> bytes,
              at |-> [x \in LogicalIndices(b) |-> sca + TileOffset(x, b, f) * bytes]]
  BY DEF IsAllocation
<1>1. r.free = f /\ r.bytes = bytes /\ DOMAIN r.at = LogicalIndices(b)
  BY <1>0
<1>2. PhysicalTiles(f) \in Nat
  <2>1. CASE DOMAIN f = 1..1
    BY <1>0, <2>1, OneStride DEF Positives
  <2>2. CASE DOMAIN f = 1..2
    <3>1. f[1] \in Nat /\ f[2] \in Nat /\ PhysicalTiles(f) = f[1] * f[2]
      BY <1>0, <2>2, TwoStrides DEF Positives
    <3>2. \A p, q \in Nat : p * q \in Nat
      OBVIOUS
    <3> QED
      BY <3>1, <3>2
  <2> QED
    BY <1>0, <2>1, <2>2 DEF Levels
<1>3. ASSUME NEW x \in LogicalIndices(b)
      PROVE  /\ TileOffset(x, b, f) \in Nat /\ TileOffset(x, b, f) < PhysicalTiles(f)
             /\ r.at[x] = sca + TileOffset(x, b, f) * bytes
             /\ TileOffset(x, b, f) * bytes \in Nat
             /\ TileOffset(x, b, f) * bytes + bytes <= PhysicalTiles(f) * bytes
  <2>1. TileOffset(x, b, f) \in Nat /\ TileOffset(x, b, f) < PhysicalTiles(f)
    BY <1>0, OffsetFacts
  <2>2. PICK o \in Nat : o = TileOffset(x, b, f)
    BY <2>1
  <2>3. PICK n \in Nat : n = PhysicalTiles(f)
    BY <1>2
  <2>4. PICK w \in Nat : w = bytes
    BY <1>0 DEF Positives
  <2>5. o * w \in Nat /\ o * w + w <= n * w
    BY <2>1, <2>2, <2>3, ApartByTiles
  <2> QED
    BY <1>0, <2>1, <2>2, <2>3, <2>4, <2>5
<1>4. PICK n \in Nat : n = PhysicalTiles(f)
  BY <1>2
<1>5. PICK w \in Nat \ {0} : w = bytes
  BY <1>0 DEF Positives
<1>6. n * w \in Nat
  OBVIOUS
<1>7. LiesIn(r, sca, sca + PhysicalTiles(f) * bytes)
  BY <1>0, <1>1, <1>3, <1>4, <1>5, <1>6 DEF LiesIn
<1>8. ASSUME NEW x \in LogicalIndices(b), NEW y \in LogicalIndices(b)
      PROVE  IF \A d \in DOMAIN x : x[d] % f[d] = y[d] % f[d]
             THEN r.at[x] = r.at[y]
             ELSE r.at[x] + bytes <= r.at[y] \/ r.at[y] + bytes <= r.at[x]
  <2>1. TileOffset(x, b, f) = TileOffset(y, b, f) <=> \A d \in DOMAIN x : x[d] % f[d] = y[d] % f[d]
    BY <1>0, OffsetFacts
  <2>2. PICK o \in Nat : o = TileOffset(x, b, f)
    BY <1>3
  <2>3. PICK p \in Nat : p = TileOffset(y, b, f)
    BY <1>3
  <2>4. o * w \in Nat /\ p * w \in Nat /\ (o < p => o * w + w <= p * w) /\ (p < o => p * w + w <= o * w)
    BY ApartByTiles
  <2>5. r.at[x] = sca + o * w /\ r.at[y] = sca + p * w
    BY <1>0, <1>3, <1>5, <2>2, <2>3
  <2>6. CASE o = p
    BY <1>0, <2>1, <2>2, <2>3, <2>5, <2>6
  <2>7. CASE o # p
    <3>1. o < p \/ p < o
      BY <2>7
    <3>2. r.at[x] + bytes <= r.at[y] \/ r.at[y] + bytes <= r.at[x]
      BY <1>0, <1>5, <2>4, <2>5, <3>1
    <3> QED
      BY <2>1, <2>2, <2>3, <2>7, <3>2
  <2> QED
    BY <2>6, <2>7
<1>9. \A x \in DOMAIN r.at : r.at[x] \in Nat
  BY <1>0, <1>1, <1>3
<1> QED
  BY <1>1, <1>2, <1>7, <1>8, <1>9 DEF Rotates

\* The cut stays what it is, and every number of tiles is positive.
LEMMA CutFacts ==
  ASSUME CutInv
  PROVE  /\ CeilQuotient(cut.dim, cut.tile) \in Nat
         /\ CeilQuotient(cut.tile, cut.sub) \in Nat
<1>1. /\ cut.dim \in Nat \ {0} /\ cut.tile \in Nat \ {0} /\ cut.sub \in Nat \ {0}
  BY TilingAssumption DEF CutInv
<1> QED
  BY <1>1, CeilFacts

LEMMA AllocKeepsRotating ==
  ASSUME RotInv, NEW b \in Seq(Positives), NEW f \in Seq(Positives), Len(b) = Len(f), Len(f) \in {1, 2},
         NEW bytes \in TileBytes, NEW align \in AlignTos, AllocTiles(b, f, bytes, align)
  PROVE  RotInv'
<1> DEFINE sca == CeilAligned(current, align)
           r == [free |-> f, bytes |-> bytes,
                 at |-> [x \in LogicalIndices(b) |-> sca + TileOffset(x, b, f) * bytes]]
<1>1. sca \in Nat /\ current <= sca
  <2>1. current \in Nat /\ align \in Nat \ {0}
    BY TilingAssumption DEF RotInv
  <2>2. CeilQuotient(current, align) \in Nat /\ current <= CeilQuotient(current, align) * align
    BY <2>1, CeilFacts
  <2>3. \A p, q \in Nat : p * q \in Nat
    OBVIOUS
  <2> QED
    BY <2>1, <2>2, <2>3 DEF CeilAligned
<1>2. bytes \in Positives
  BY TilingAssumption DEF Positives
<1>3. /\ DOMAIN b = DOMAIN f /\ DOMAIN f \in Levels
      /\ \A d \in DOMAIN f : b[d] \in Nat /\ f[d] \in Positives
  BY DEF Levels, Positives
<1>4. buffers' = Append(buffers, r) /\ current' = sca + PhysicalTiles(f) * bytes /\ cut' = cut
  BY DEF AllocTiles
<1>5. r = [free |-> f, bytes |-> bytes,
           at |-> [x \in LogicalIndices(b) |-> sca + TileOffset(x, b, f) * bytes]]
  OBVIOUS
<1> HIDE DEF sca
<1>6. /\ Rotates(r) /\ LiesIn(r, sca, sca + PhysicalTiles(f) * bytes)
      /\ PhysicalTiles(f) \in Nat
      /\ DOMAIN r.at = LogicalIndices(b) /\ \A x \in DOMAIN r.at : r.at[x] \in Nat
  <2> HIDE DEF r
  <2> QED
    <3>1. IsAllocation(r, b, f, sca, bytes)
      BY <1>1, <1>2, <1>3, <1>5 DEF IsAllocation
    <3> QED
      BY <3>1, AllocationRotates
<1>7. r \in Buffer
  <2>1. r.at \in [LogicalIndices(b) -> Nat]
    BY <1>6
  <2>2. r.at \in UNION {[D -> Nat] : D \in {LogicalIndices(c) : c \in Seq(Positives)}}
    BY <2>1
  <2> QED
    BY <1>2, <2>2 DEF Buffer
<1>8. r.bytes = bytes
  OBVIOUS
<1> HIDE DEF r
<1>9. current' \in Nat /\ sca <= current'
  <2>1. \A p, q \in Nat : p * q \in Nat
    OBVIOUS
  <2>2. PhysicalTiles(f) * bytes \in Nat
    BY <1>2, <1>6, <2>1 DEF Positives
  <2> QED
    BY <1>1, <1>4, <2>2
<1>10. current \in Nat /\ current <= current'
  BY <1>1, <1>9 DEF RotInv
<1>11. buffers' \in Seq(Buffer)
  BY <1>4, <1>7 DEF RotInv
<1>12. ASSUME NEW i \in DOMAIN buffers'
       PROVE  (i \in DOMAIN buffers /\ buffers'[i] = buffers[i]) \/ (i = Len(buffers) + 1 /\ buffers'[i] = r)
  <2>1. buffers \in Seq(Buffer) /\ DOMAIN buffers = 1..Len(buffers) /\ Len(buffers) \in Nat
    BY DEF RotInv
  <2>2. i \in 1..Len(buffers) + 1
    BY <1>4, <1>7, <2>1
  <2>3. Append(buffers, r)[i] = IF i <= Len(buffers) THEN buffers[i] ELSE r
    BY <1>7, <2>1, <2>2
  <2> QED
    BY <1>4, <2>1, <2>2, <2>3
<1>13. LiesIn(r, 0, current') /\ LiesIn(r, sca, current')
  BY <1>1, <1>4, <1>6 DEF LiesIn
<1>14. \A i \in DOMAIN buffers : LiesIn(buffers[i], 0, current) /\ Rotates(buffers[i]) /\ buffers[i].bytes \in Nat
  <2>1. \A z \in Buffer : z.bytes \in Nat
    BY DEF Buffer, Positives
  <2>2. \A i \in DOMAIN buffers : buffers[i] \in Buffer
    BY DEF RotInv
  <2> QED
    BY <2>1, <2>2 DEF RotInv
<1>15. ASSUME NEW i \in DOMAIN buffers'
       PROVE  Rotates(buffers'[i]) /\ LiesIn(buffers'[i], 0, current')
  <2>1. CASE buffers'[i] = r
    BY <1>6, <1>13, <2>1
  <2>2. CASE i \in DOMAIN buffers /\ buffers'[i] = buffers[i]
    <3>1. LiesIn(buffers[i], 0, current')
      BY <1>9, <1>10, <1>14, <2>2 DEF LiesIn
    <3> QED
      BY <1>14, <2>2, <3>1
  <2> QED
    BY <1>12, <2>1, <2>2
<1>16. ASSUME NEW i \in DOMAIN buffers', NEW j \in DOMAIN buffers', i < j,
              NEW x \in DOMAIN buffers'[i].at, NEW y \in DOMAIN buffers'[j].at
       PROVE  buffers'[i].at[x] + buffers'[i].bytes <= buffers'[j].at[y]
  <2>0. DOMAIN buffers = 1..Len(buffers) /\ Len(buffers) \in Nat /\ i \in Int /\ j \in Int
        /\ DOMAIN buffers' = 1..Len(buffers) + 1
    BY <1>4, <1>7 DEF RotInv
  <2>1. i \in DOMAIN buffers /\ buffers'[i] = buffers[i]
    BY <1>12, <1>16, <2>0
  <2>2. CASE j \in DOMAIN buffers /\ buffers'[j] = buffers[j]
    BY <1>16, <2>1, <2>2 DEF RotInv
  <2>3. CASE buffers'[j] = r
    <3>1. buffers[i].at[x] + buffers[i].bytes <= current /\ buffers[i].at[x] \in Int /\ buffers[i].bytes \in Nat
      BY <1>14, <2>1 DEF LiesIn
    <3>2. r.at[y] \in Int /\ sca <= r.at[y]
      BY <1>13, <2>3 DEF LiesIn
    <3> QED
      BY <1>1, <1>10, <2>1, <2>3, <3>1, <3>2
  <2> QED
    BY <1>12, <2>2, <2>3
<1>17. CutInv'
  BY <1>4 DEF RotInv, CutInv
<1> QED
  BY <1>9, <1>11, <1>15, <1>16, <1>17 DEF RotInv

LEMMA RotStep == RotInv /\ [TilingNext]_tilingVars => RotInv'
<1> SUFFICES ASSUME RotInv, [TilingNext]_tilingVars
             PROVE  RotInv'
  OBVIOUS
<1>1. CASE UNCHANGED tilingVars
  BY <1>1 DEF tilingVars, RotInv, CutInv, Rotates, LiesIn
<1>2. CASE TilingNext
  <2> DEFINE tiles == CeilQuotient(cut.dim, cut.tile)
             subtiles == CeilQuotient(cut.tile, cut.sub)
  <2>1. PICK bytes \in TileBytes, align \in AlignTos, k \in FreeTiles, l \in FreeTiles :
          \/ k <= tiles /\ AllocTiles(<<tiles>>, <<k>>, bytes, align)
          \/ k <= tiles /\ l <= subtiles /\ AllocTiles(<<tiles, subtiles>>, <<k, l>>, bytes, align)
    BY <1>2 DEF TilingNext
  <2>2. tiles \in Nat /\ subtiles \in Nat
    BY CutFacts DEF RotInv
  <2>3. k \in Positives /\ l \in Positives
    BY TilingAssumption DEF Positives
  <2> HIDE DEF tiles, subtiles
  <2>4. CASE k <= tiles /\ AllocTiles(<<tiles>>, <<k>>, bytes, align)
    <3>1. tiles \in Positives
      BY <2>2, <2>3, <2>4 DEF Positives
    <3>2. <<tiles>> \in Seq(Positives) /\ <<k>> \in Seq(Positives) /\ Len(<<tiles>>) = 1 /\ Len(<<k>>) = 1
      BY <2>3, <3>1
    <3> QED
      BY <2>4, <3>2, AllocKeepsRotating
  <2>5. CASE k <= tiles /\ l <= subtiles /\ AllocTiles(<<tiles, subtiles>>, <<k, l>>, bytes, align)
    <3>1. tiles \in Positives /\ subtiles \in Positives
      BY <2>2, <2>3, <2>5 DEF Positives
    <3>2. /\ <<tiles, subtiles>> \in Seq(Positives) /\ <<k, l>> \in Seq(Positives)
          /\ Len(<<tiles, subtiles>>) = 2 /\ Len(<<k, l>>) = 2
      BY <2>3, <3>1
    <3> QED
      BY <2>5, <3>2, AllocKeepsRotating
  <2> QED
    BY <2>1, <2>4, <2>5
<1> QED
  BY <1>1, <1>2

\* Two tiles that the modular allocator hands out share bytes only when they are
\* the same physical tile of one allocation, for every number of free tiles and
\* logical tiles, alignment and size (modular_allocator.py).
THEOREM TilesRotate == TilingSpec => []BuffersRotate
<1>1. TilingInit => RotInv
  BY DEF TilingInit, RotInv, CutInv
<1> QED
  BY <1>1, RotStep, RotInvRotates, PTL DEF TilingSpec

\* Both allocators that rotate buffers keep those of different iterations apart
\* (allocator.py, modular_allocator.py).
THEOREM BuffersStayApart == BuffersSpec => []BuffersKeepApart
  BY IterationsStayApart, TilesRotate, PTL DEF BuffersSpec, BuffersKeepApart

-----------------------------------------------------------------------------
(* Quantizing.  An address is a number of two or three digits, and each      *)
(* loop of the kernel counts one of them.                                    *)

LEMMA MultipleIs == \A m, n \in Nat : m * n \in Nat
<1>1. \A m, n \in Nat : m * n >= 0
  OBVIOUS
<1> QED
  BY <1>1

LEMMA MultiplesGrow ==
  ASSUME NEW m \in Int, NEW n \in Int, m <= n, NEW k \in Nat
  PROVE  m * k <= n * k
<1>1. PICK d \in Nat : d = n - m
  OBVIOUS
<1>2. d * k \in Nat
  BY MultipleIs
<1>3. (n - m) * k = n * k - m * k
  OBVIOUS
<1> QED
  BY <1>1, <1>2, <1>3

LEMMA ProductIsPositive == \A m, n \in Nat \ {0} : m * n \in Nat \ {0}
<1> SUFFICES ASSUME NEW m \in Nat \ {0}, NEW n \in Nat \ {0}
             PROVE  m * n \in Nat \ {0}
  OBVIOUS
<1>1. 1 * n <= m * n
  BY MultiplesGrow
<1> QED
  BY <1>1

LEMMA DivMod ==
  ASSUME NEW n \in Int, NEW d \in Nat \ {0}
  PROVE  /\ n \div d \in Int /\ n % d \in Int /\ 0 <= n % d /\ n % d < d
         /\ n = (n \div d) * d + (n % d)
  OBVIOUS

LEMMA Digits ==
  ASSUME NEW d \in Nat \ {0}, NEW q \in Nat, NEW r \in 0..d - 1
  PROVE  (q * d + r) \div d = q /\ (q * d + r) % d = r
<1>1. PICK a \in Nat : a = q * d + r
  <2>1. q * d \in Nat
    BY MultipleIs
  <2> QED
    BY <2>1
<1>2. PICK p \in Int : p = a \div d
  BY DivMod
<1>3. PICK s \in Int : s = a % d
  BY DivMod
<1>9. a = p * d + s /\ s >= 0 /\ s < d
  BY <1>2, <1>3, DivMod
<1>4. p = q
  <2>1. CASE p >= q + 1
    <3>1. p * d >= (q + 1) * d
      BY <2>1, MultiplesGrow
    <3>2. (q + 1) * d = q * d + d
      OBVIOUS
    <3> QED
      BY <1>1, <1>9, <3>1, <3>2
  <2>2. CASE q >= p + 1
    <3>1. q * d >= (p + 1) * d
      BY <2>2, MultiplesGrow
    <3>2. (p + 1) * d = p * d + d
      OBVIOUS
    <3> QED
      BY <1>1, <1>9, <3>1, <3>2
  <2> QED
    BY <2>1, <2>2
<1> QED
  BY <1>1, <1>2, <1>3, <1>4, <1>9

\* Element [i, j, k] of an array [l, m, n].
IsElement(a, m, n, i, j, k) == a = i * (m * n) + j * n + k
HasDigits(a, l, m, n, i, j, k) ==
  /\ a \in 0..l * m * n - 1
  /\ a \div (m * n) = i /\ (a \div n) % m = j /\ a % n = k

LEMMA ThreeDigits ==
  ASSUME NEW l \in Nat \ {0}, NEW m \in Nat \ {0}, NEW n \in Nat \ {0},
         NEW i \in 0..l - 1, NEW j \in 0..m - 1, NEW k \in 0..n - 1, NEW a, IsElement(a, m, n, i, j, k)
  PROVE  HasDigits(a, l, m, n, i, j, k)
<1>12. a = i * (m * n) + j * n + k
  BY DEF IsElement
<1>1. PICK mn \in Nat : mn = m * n
  BY MultipleIs
<1>2. j * n + k \in 0..mn - 1
  <2>1. (m - 1) * n >= j * n
    BY MultiplesGrow
  <2>2. (m - 1) * n = mn - n
    BY <1>1
  <2>3. j * n \in Nat
    BY MultipleIs
  <2> QED
    BY <1>1, <2>1, <2>2, <2>3
<1>3. PICK r \in 0..mn - 1 : r = j * n + k
  BY <1>2
<1>4. mn \in Nat \ {0}
  BY <1>1, <1>3
<1>5. a = i * mn + r
  <2>1. PICK x \in Int : x = j * n
    OBVIOUS
  <2>2. PICK y \in Int : y = i * mn
    OBVIOUS
  <2>3. y = i * (m * n)
    BY <1>1, <2>2
  <2>4. a = y + x + k
    BY <1>12, <2>1, <2>3
  <2>5. r = x + k
    BY <1>3, <2>1
  <2>6. a = y + r
    BY <2>4, <2>5
  <2> QED
    BY <2>2, <2>6
<1>6. a \div mn = i
  <2>1. i \in Nat
    OBVIOUS
  <2>2. (i * mn + r) \div mn = i
    BY <1>4, <2>1, Digits
  <2> QED
    BY <1>5, <2>2, Zenon
<1>7. PICK u \in Nat : u = i * m + j
  <2>1. i * m \in Nat
    BY MultipleIs
  <2> QED
    BY <2>1
<1>8. a = u * n + k
  <2>1. u * n = (i * m) * n + j * n
    BY <1>7
  <2>2. (i * m) * n = i * (m * n)
    OBVIOUS
  <2>3. PICK x \in Int, y \in Int : x = j * n /\ y = i * (m * n)
    OBVIOUS
  <2> QED
    BY <1>12, <2>1, <2>2, <2>3
<1>9. a \div n = u /\ a % n = k
  BY <1>8, Digits
<1>10. u % m = j
  BY <1>7, Digits
<1>11. a \in 0..l * m * n - 1
  <2>1. (l - 1) * mn >= i * mn
    BY <1>4, MultiplesGrow
  <2>2. (l - 1) * mn = l * mn - mn
    BY <1>4
  <2>3. l * mn = l * m * n
    BY <1>1
  <2>4. i * mn \in Nat /\ l * mn \in Nat
    BY <1>4, MultipleIs
  <2> QED
    BY <1>3, <1>5, <2>1, <2>2, <2>3, <2>4
<1> QED
  BY <1>1, <1>6, <1>9, <1>10, <1>11 DEF HasDigits

LEMMA LargestIs ==
  ASSUME NEW n \in Nat, NEW S, S \subseteq 0..n, S # {}
  PROVE  Max(S) \in S
<1> DEFINE T == {n - x : x \in S}
<1>1. T \subseteq Nat /\ T # {}
  <2>1. ASSUME NEW x \in S
        PROVE  n - x \in Nat
    <3>1. x \in 0..n
      OBVIOUS
    <3> QED
      BY <3>1
  <2> QED
    BY <2>1
<1>2. PICK y \in T : \A z \in T : y <= z
  BY <1>1, LeastNatural
<1>3. PICK x \in S : y = n - x
  OBVIOUS
<1>4. \A z \in S : x >= z
  BY <1>2, <1>3
<1> QED
  BY <1>4 DEF Max

LEMMA TokenTileDivides ==
  ASSUME NEW tokens \in Nat \ {0}
  PROVE  TokenTile(tokens) \in Nat \ {0} /\ tokens % TokenTile(tokens) = 0
<1> DEFINE fitting == {size \in MinTile..MaxTile : MaxTile % size = 0 /\ tokens % size = 0}
<1>1. MinTile \in Nat \ {0} /\ MaxTile \in Nat \ {0}
  BY QuantizeAssumption
<1>2. CASE fitting = {}
  BY <1>2 DEF TokenTile
<1>3. CASE fitting # {}
  <2>1. fitting \subseteq 0..MaxTile
    BY <1>1
  <2>2. Max(fitting) \in fitting
    BY <1>1, <1>3, <2>1, LargestIs
  <2>3. TokenTile(tokens) = Max(fitting)
    BY <1>3 DEF TokenTile
  <2> QED
    BY <1>1, <2>2, <2>3
<1> QED
  BY <1>2, <1>3

IsCall == quant \in Quantizations /\ Accepted(quant)

LEMMA QuantFacts ==
  ASSUME IsCall
  PROVE  /\ Half \in Nat \ {0} /\ quant.tokens = Half + Half
         /\ Groups \in Nat \ {0} /\ QWidth \in Nat \ {0} /\ Partitions \in Nat \ {0}
         /\ QH1 \in Nat \ {0} /\ QH \in Nat \ {0} /\ QH1 = QWidth * Groups /\ QH = Partitions * QH1
         /\ HalfOf(0) = 0 /\ HalfOf(1) = Half
         /\ quant.residual \in BOOLEAN /\ quant.half \in BOOLEAN
         /\ quant.residual => Half >= Partitions /\ (quant.half => Groups % 2 = 0)
<1>1. /\ quant.tokens \in Nat \ {0} /\ quant.groups \in Nat \ {0} /\ quant.residual \in BOOLEAN /\ quant.half \in BOOLEAN
      /\ Partitions \in Nat \ {0} /\ QWidth \in {1, 2, 4}
  BY QuantizeAssumption DEF IsCall
<1>2. /\ quant.tokens % 4 = 0
      /\ quant.residual => (QWidth * quant.groups) % 8 = 0 /\ quant.tokens >= 2 * Partitions
  BY DEF IsCall, Accepted
<1>3. Half \in Nat \ {0} /\ quant.tokens = Half + Half
  BY <1>1, <1>2 DEF Half
<1>4. QH1 = QWidth * Groups /\ QH = Partitions * QH1 /\ Groups = quant.groups
  BY DEF QH1, QH, Groups
<1>5. QH1 \in Nat \ {0}
  BY <1>1, <1>4
<1>6. QH \in Nat \ {0}
  BY <1>1, <1>4, <1>5, ProductIsPositive
<1>7. HalfOf(0) = 0 /\ HalfOf(1) = Half
  BY <1>3 DEF HalfOf
<1>8. quant.residual => Half >= Partitions
  BY <1>1, <1>2, <1>3
<1>9. quant.residual => Groups % 2 = 0
  <2>1. CASE QWidth = 1
    BY <1>1, <1>2, <1>4, <2>1
  <2>2. CASE QWidth = 2
    BY <1>1, <1>2, <1>4, <2>2
  <2>3. CASE QWidth = 4
    BY <1>1, <1>2, <1>4, <2>3
  <2> QED
    BY <1>1, <2>1, <2>2, <2>3
<1> QED
  BY <1>1, <1>3, <1>4, <1>5, <1>6, <1>7, <1>8, <1>9

\* Hidden position p is partition h[1] of column h[2].
PositionOf(h) == h[2] * Partitions + h[1]
ValueOf(t, p) == [of |-> TokenSum(t, p), gamma |-> p]

LEMMA HiddenPlaces ==
  ASSUME IsCall
  PROVE  /\ \A h \in Hidden : PositionOf(h) \in 0..QH - 1
         /\ \A p \in 0..QH - 1 : \E h \in Hidden : p = PositionOf(h)
<1>1. PICK m \in Nat \ {0} : m = Partitions
  BY QuantFacts
<1>2. PICK n \in Nat \ {0} : n = QH1
  BY QuantFacts
<1>3. PICK w \in Nat \ {0} : w = QH /\ w = m * n
  BY <1>1, <1>2, QuantFacts
<1>4. Hidden = (0..m - 1) \X (0..n - 1)
  BY <1>1, <1>2 DEF Hidden
<1>5. ASSUME NEW i \in 0..m - 1, NEW j \in 0..n - 1
      PROVE  j * m + i \in 0..w - 1
  <2>1. j * m <= (n - 1) * m
    BY MultiplesGrow
  <2>2. (n - 1) * m = w - m
    BY <1>3
  <2>3. j * m \in Nat
    BY MultipleIs
  <2> QED
    BY <2>1, <2>2, <2>3
<1>6. ASSUME NEW p \in 0..w - 1
      PROVE  \E i \in 0..m - 1, j \in 0..n - 1 : p = j * m + i
  <2>1. PICK j \in Int : j = p \div m
    BY DivMod
  <2>2. PICK i \in Int : i = p % m
    BY DivMod
  <2>3. p = j * m + i /\ i >= 0 /\ i < m
    BY <2>1, <2>2, DivMod
  <2>4. j >= 0
    <3> SUFFICES ASSUME j + 1 <= 0
                 PROVE  FALSE
      OBVIOUS
    <3>1. (j + 1) * m <= 0 * m
      BY MultiplesGrow
    <3>2. (j + 1) * m = j * m + m /\ 0 * m = 0
      OBVIOUS
    <3> QED
      BY <2>3, <3>1, <3>2
  <2>5. j < n
    <3> SUFFICES ASSUME n <= j
                 PROVE  FALSE
      OBVIOUS
    <3>1. n * m <= j * m
      BY MultiplesGrow
    <3>2. n * m = w
      BY <1>3
    <3> QED
      BY <2>3, <3>1, <3>2
  <2> QED
    BY <2>3, <2>4, <2>5
<1>7. ASSUME NEW h \in Hidden
      PROVE  PositionOf(h) \in 0..QH - 1
  <2>1. h[1] \in 0..m - 1 /\ h[2] \in 0..n - 1
    BY <1>4
  <2>2. h[2] * m + h[1] \in 0..w - 1
    BY <1>5, <2>1
  <2> QED
    BY <1>1, <1>3, <2>2 DEF PositionOf
<1>8. ASSUME NEW p \in 0..QH - 1
      PROVE  \E h \in Hidden : p = PositionOf(h)
  <2>1. PICK i \in 0..m - 1, j \in 0..n - 1 : p = j * m + i
    BY <1>3, <1>6
  <2>2. PICK h : h = <<i, j>>
    OBVIOUS
  <2>3. h \in Hidden /\ h[1] = i /\ h[2] = j
    BY <1>4, <2>2
  <2> QED
    BY <1>1, <2>1, <2>3 DEF PositionOf
<1> QED
  BY <1>7, <1>8

LEMMA LoadedIs ==
  ASSUME IsCall, NEW t \in Nat, NEW h \in Hidden
  PROVE  Loaded(t, h) = TokenSum(t, PositionOf(h))
<1>1. PICK m \in Nat : m = Partitions
  BY QuantFacts
<1>2. PICK n \in Nat : n = QH1
  BY QuantFacts
<1>3. PICK i \in Nat, j \in Nat : i = h[1] /\ j = h[2]
  BY <1>1, <1>2 DEF Hidden
<1>4. QH = m * n
  BY <1>1, <1>2, QuantFacts
<1>5. (t * n + j) * m + i = t * (m * n) + (j * m + i)
  <2>1. (t * n + j) * m = (t * n) * m + j * m
    OBVIOUS
  <2>2. (t * n) * m = t * (m * n)
    OBVIOUS
  <2>3. (t * n) * m \in Nat /\ j * m \in Nat
    BY MultipleIs
  <2> QED
    BY <2>1, <2>2, <2>3
<1> QED
  BY <1>1, <1>2, <1>3, <1>4, <1>5 DEF Loaded, TokenSum, PositionOf

LEMMA RowIs ==
  ASSUME IsCall, NEW t \in Nat
  PROVE  /\ NormalisedRow(t).over = TokenSums(t)
         /\ \A h \in Hidden : NormalisedRow(t).at[h] = ValueOf(t, PositionOf(h))
<1>1. NormalisedRow(t).over = {TokenSum(t, PositionOf(h)) : h \in Hidden}
  BY LoadedIs DEF NormalisedRow
<1>2. {TokenSum(t, PositionOf(h)) : h \in Hidden} = TokenSums(t)
  BY HiddenPlaces DEF TokenSums
<1>3. ASSUME NEW h \in Hidden
      PROVE  NormalisedRow(t).at[h] = ValueOf(t, PositionOf(h))
  BY LoadedIs DEF NormalisedRow, ValueOf, PositionOf
<1> QED
  BY <1>1, <1>2, <1>3

Packs(t) == Quantized(NormalisedRow(t))
AllValues(t) == {ValueOf(t, p) : p \in 0..QH - 1}

LEMMA PackIs ==
  ASSUME IsCall, NEW t \in Nat
  PROVE  /\ Packs(t).over = TokenSums(t)
         /\ UNION {{Packs(t).at[x][q] : q \in 0..QWidth - 1} : x \in DOMAIN Packs(t).at} = AllValues(t)
<1> DEFINE row == NormalisedRow(t)
           X == (0..Partitions - 1) \X (0..Groups - 1)
           Q == 0..QWidth - 1
           at == [x \in X |-> [q \in Q |-> row.at[<<x[1], q * Groups + x[2]>>]]]
<1>1. Packs(t).over = row.over /\ Packs(t).at = at
  BY DEF Packs, Quantized
<1>2. row.over = TokenSums(t) /\ \A h \in Hidden : row.at[h] = ValueOf(t, PositionOf(h))
  BY RowIs
<1>3. PICK n \in Nat \ {0} : n = Groups
  BY QuantFacts
<1>4. PICK k \in Nat \ {0} : k = QWidth
  BY QuantFacts
<1>5. QH1 = k * n /\ QH1 \in Nat \ {0}
  BY <1>3, <1>4, QuantFacts
<1>6. ASSUME NEW x \in X, NEW q \in Q
      PROVE  <<x[1], q * Groups + x[2]>> \in Hidden /\ at[x][q] = row.at[<<x[1], q * Groups + x[2]>>]
  <2>1. PICK j \in 0..n - 1 : j = x[2]
    BY <1>3
  <2>2. q \in 0..k - 1
    BY <1>4
  <2>3. q * n <= (k - 1) * n
    BY <2>2, MultiplesGrow
  <2>4. (k - 1) * n = k * n - n
    OBVIOUS
  <2>5. q * n \in Nat /\ k * n \in Nat
    BY <2>2, MultipleIs
  <2>6. q * n + j \in 0..QH1 - 1
    BY <1>5, <2>3, <2>4, <2>5
  <2> QED
    BY <1>3, <2>1, <2>6 DEF Hidden
<1>7. ASSUME NEW h \in Hidden
      PROVE  \E x \in X, q \in Q : h = <<x[1], q * Groups + x[2]>>
  <2>1. PICK i \in 0..Partitions - 1, c \in 0..QH1 - 1 : h = <<i, c>>
    BY DEF Hidden
  <2>2. PICK q \in Int : q = c \div n
    BY <1>5, DivMod
  <2>3. PICK j \in Int : j = c % n
    BY <1>5, DivMod
  <2>4. c = q * n + j /\ j >= 0 /\ j < n
    BY <1>5, <2>2, <2>3, DivMod
  <2>5. q >= 0
    <3> SUFFICES ASSUME q + 1 <= 0
                 PROVE  FALSE
      OBVIOUS
    <3>1. (q + 1) * n <= 0 * n
      BY MultiplesGrow
    <3>2. (q + 1) * n = q * n + n /\ 0 * n = 0
      OBVIOUS
    <3> QED
      BY <1>5, <2>4, <3>1, <3>2
  <2>6. q < k
    <3> SUFFICES ASSUME k <= q
                 PROVE  FALSE
      OBVIOUS
    <3>1. k * n <= q * n
      BY MultiplesGrow
    <3> QED
      BY <1>5, <2>4, <3>1
  <2>7. PICK x : x = <<i, j>>
    OBVIOUS
  <2>8. x \in X /\ x[1] = i /\ x[2] = j
    BY <1>3, <2>4, <2>7
  <2>9. q \in Q
    BY <1>4, <2>5, <2>6
  <2> QED
    BY <1>3, <2>1, <2>4, <2>8, <2>9
<1>8. UNION {{at[x][q] : q \in Q} : x \in X} = {row.at[h] : h \in Hidden}
  <2> HIDE DEF row, at, X, Q
  <2>1. UNION {{at[x][q] : q \in Q} : x \in X} \subseteq {row.at[h] : h \in Hidden}
    <3> SUFFICES ASSUME NEW x \in X, NEW q \in Q
                 PROVE  \E h \in Hidden : at[x][q] = row.at[h]
      OBVIOUS
    <3>1. PICK h : h = <<x[1], q * Groups + x[2]>>
      OBVIOUS
    <3>2. h \in Hidden /\ at[x][q] = row.at[h]
      BY <1>6, <3>1
    <3> QED
      BY <3>2
  <2>2. {row.at[h] : h \in Hidden} \subseteq UNION {{at[x][q] : q \in Q} : x \in X}
    <3> SUFFICES ASSUME NEW h \in Hidden
                 PROVE  \E x \in X : \E q \in Q : row.at[h] = at[x][q]
      OBVIOUS
    <3> QED
      BY <1>6, <1>7
  <2> QED
    BY <2>1, <2>2
<1>9. {row.at[h] : h \in Hidden} = AllValues(t)
  <2>1. {row.at[h] : h \in Hidden} = {ValueOf(t, PositionOf(h)) : h \in Hidden}
    BY <1>2
  <2> QED
    BY <2>1, HiddenPlaces DEF AllValues
<1>10. DOMAIN at = X
  OBVIOUS
<1> HIDE DEF row, at, X, Q
<1>11. UNION {{at[x][q] : q \in 0..QWidth - 1} : x \in DOMAIN at} = AllValues(t)
  BY <1>8, <1>9, <1>10 DEF Q
<1> QED
  BY <1>1, <1>2, <1>11

\* Token t of a half is row t % Partitions of tile t \div Partitions.
LEMMA TilesAre ==
  ASSUME IsCall
  PROVE  /\ FullTiles \in Nat /\ Remainder \in 0..Partitions - 1 /\ TurnedTiles \in Nat
         /\ Half = FullTiles * Partitions + Remainder
         /\ Remainder = 0 => TurnedTiles = FullTiles
         /\ Remainder > 0 => TurnedTiles = FullTiles + 1
<1>1. PICK m \in Nat \ {0} : m = Partitions
  BY QuantFacts
<1>2. PICK n \in Nat \ {0} : n = Half
  BY QuantFacts
<1>3. PICK q \in Int : q = n \div m /\ q = FullTiles
  BY <1>1, <1>2, DivMod DEF FullTiles
<1>4. PICK r \in Int : r = n % m /\ r = Remainder
  BY <1>1, <1>2, DivMod DEF Remainder
<1>5. n = q * m + r /\ r >= 0 /\ r < m
  BY <1>3, <1>4, DivMod
<1>6. q >= 0
  <2> SUFFICES ASSUME q + 1 <= 0
               PROVE  FALSE
    OBVIOUS
  <2>1. (q + 1) * m <= 0 * m
    BY MultiplesGrow
  <2>2. (q + 1) * m = q * m + m /\ 0 * m = 0
    OBVIOUS
  <2> QED
    BY <1>5, <2>1, <2>2
<1>7. TurnedTiles = (n + m - 1) \div m
  BY <1>1, <1>2 DEF TurnedTiles
<1>8. ASSUME r = 0
      PROVE  TurnedTiles = q
  <2>1. PICK k \in 0..m - 1 : k = m - 1
    OBVIOUS
  <2>2. n + m - 1 = q * m + k
    BY <1>5, <1>8, <2>1
  <2>3. (q * m + k) \div m = q
    BY <1>6, <2>1, Digits
  <2> QED
    BY <1>7, <2>2, <2>3
<1>9. ASSUME r > 0
      PROVE  TurnedTiles = q + 1
  <2>1. PICK k \in 0..m - 1 : k = r - 1
    BY <1>5, <1>9
  <2>2. PICK u \in Nat : u = q + 1
    BY <1>6
  <2>3. n + m - 1 = u * m + k
    <3>1. u * m = q * m + m
      BY <2>2
    <3>2. q * m \in Nat
      BY <1>6, MultipleIs
    <3> QED
      BY <1>5, <2>1, <3>1, <3>2
  <2>4. (u * m + k) \div m = u
    BY <2>1, <2>2, Digits
  <2> QED
    BY <1>7, <2>2, <2>3, <2>4
<1> QED
  BY <1>1, <1>2, <1>3, <1>4, <1>5, <1>6, <1>8, <1>9

LEMMA TurnedPlace ==
  ASSUME IsCall, NEW t \in 0..Half - 1, NEW p \in 0..QH - 1,
         NEW a, IsElement(a, TurnedTiles, QH, t % Partitions, t \div Partitions, p)
  PROVE  /\ HasDigits(a, Partitions, TurnedTiles, QH, t % Partitions, t \div Partitions, p)
         /\ t = (t \div Partitions) * Partitions + (t % Partitions)
         /\ t \div Partitions \in Nat /\ t % Partitions \in 0..Partitions - 1
<1>1. PICK m \in Nat \ {0} : m = Partitions
  BY QuantFacts
<1>2. PICK n \in Nat \ {0} : n = Half
  BY QuantFacts
<1>3. PICK w \in Nat \ {0} : w = QH
  BY QuantFacts
<1>4. PICK u \in Nat : u = TurnedTiles
  BY TilesAre
<1>5. PICK q \in Int : q = t \div m
  BY <1>2, DivMod
<1>6. PICK r \in Int : r = t % m
  BY <1>2, DivMod
<1>7. t \in Nat /\ t < n /\ t = q * m + r /\ r >= 0 /\ r < m
  BY <1>2, <1>5, <1>6, DivMod
<1>8. q >= 0
  <2> SUFFICES ASSUME q + 1 <= 0
               PROVE  FALSE
    OBVIOUS
  <2>1. (q + 1) * m <= 0 * m
    BY MultiplesGrow
  <2>2. (q + 1) * m = q * m + m /\ 0 * m = 0
    OBVIOUS
  <2> QED
    BY <1>7, <2>1, <2>2
<1>9. n <= u * m
  <2>1. PICK f \in Nat : f = FullTiles
    BY TilesAre
  <2>2. PICK s \in 0..m - 1 : s = Remainder
    BY <1>1, TilesAre
  <2>3. n = f * m + s /\ (s = 0 => u = f) /\ (s > 0 => u = f + 1)
    BY <1>1, <1>2, <1>4, <2>1, <2>2, TilesAre
  <2>4. (f + 1) * m = f * m + m
    OBVIOUS
  <2>5. f * m \in Nat
    BY MultipleIs
  <2> QED
    BY <2>2, <2>3, <2>4, <2>5
<1>10. q < u
  <2> SUFFICES ASSUME u <= q
               PROVE  FALSE
    OBVIOUS
  <2>1. u * m <= q * m
    BY MultiplesGrow
  <2>2. u * m \in Nat /\ q * m \in Nat
    BY <1>8, MultipleIs
  <2> QED
    BY <1>7, <1>9, <2>1, <2>2
<1>11. a = r * (u * w) + q * w + p
  BY <1>1, <1>3, <1>4, <1>5, <1>6 DEF IsElement
<1>12. u \in Nat \ {0} /\ q \in 0..u - 1
  BY <1>8, <1>10
<1>13. r \in 0..m - 1
  BY <1>7
<1>14. PICK b \in 0..w - 1 : b = p
  <2>1. 0..QH - 1 = 0..w - 1
    BY <1>3
  <2> QED
    BY <2>1
<1>18. IsElement(a, u, w, r, q, b)
  BY <1>11, <1>14 DEF IsElement
<1>19. HasDigits(a, m, u, w, r, q, b)
  BY <1>12, <1>13, <1>14, <1>18, ThreeDigits
<1>15. HasDigits(a, Partitions, TurnedTiles, QH, t % Partitions, t \div Partitions, p)
  <2>1. r = t % Partitions /\ q = t \div Partitions
    BY <1>1, <1>5, <1>6
  <2>2. HasDigits(a, m, u, w, r, q, p)
    BY <1>14, <1>19
  <2>3. HasDigits(a, Partitions, TurnedTiles, QH, r, q, p)
    BY <1>1, <1>3, <1>4, <2>2
  <2> QED
    BY <2>1, <2>3
<1>16. t = (t \div Partitions) * Partitions + (t % Partitions)
  BY <1>1, <1>5, <1>6, <1>7
<1>17. t \div Partitions \in Nat /\ t % Partitions \in 0..Partitions - 1
  BY <1>1, <1>5, <1>6, <1>8, <1>13
<1> QED
  BY <1>15, <1>16, <1>17

\* The column of a PSUM bank is that of the position it holds.
LEMMA ColumnPlace ==
  ASSUME IsCall, quant.residual, NEW p \in 0..QH - 1, NEW column, column = p % TransposeTile,
         NEW j, j = (p \div TransposeTile) * (TransposeTile \div Partitions) + column \div Partitions
  PROVE  /\ column % Partitions \in 0..Partitions - 1 /\ j \in 0..QH1 - 1
         /\ p = j * Partitions + (column % Partitions)
         /\ p < TransposeTiles * TransposeTile
<1>1. PICK m \in Nat \ {0} : m = Partitions
  BY QuantFacts
<1>2. PICK k \in Nat \ {0} : k = QWidth * (IF quant.half THEN 2 ELSE 1)
  BY QuantFacts
<1>3. TransposeTile = k * m
  <2>1. CASE quant.half
    <3>1. k = QWidth * 2
      BY <1>2, <2>1
    <3>2. TransposeTile = QWidth * m * 2
      BY <1>1, <2>1 DEF TransposeTile
    <3>3. PICK w \in Nat : w = QWidth
      BY QuantFacts
    <3>4. w * m * 2 = (w * 2) * m
      OBVIOUS
    <3> QED
      BY <3>1, <3>2, <3>3, <3>4
  <2>2. CASE ~quant.half
    <3>1. k = QWidth
      BY <1>2, <2>2, QuantFacts
    <3>2. TransposeTile = QWidth * m * 1
      BY <1>1, <2>2 DEF TransposeTile
    <3>3. PICK w \in Nat : w = QWidth
      BY QuantFacts
    <3>4. w * m * 1 = w * m
      BY MultipleIs
    <3> QED
      BY <3>1, <3>2, <3>3, <3>4
  <2> QED
    BY <2>1, <2>2
<1>4. PICK d \in Nat \ {0} : d = TransposeTile
  BY <1>3, ProductIsPositive
<1>5. d \div m = k
  <2>1. PICK z \in 0..m - 1 : z = 0
    OBVIOUS
  <2>2. (k * m + z) \div m = k
    BY Digits
  <2> QED
    BY <1>3, <1>4, <2>1, <2>2
<1>19. p \in Nat
  BY QuantFacts
<1>6. PICK q \in Int : q = p \div d
  BY <1>19, DivMod
<1>7. PICK col \in Int : col = p % d /\ col = column
  BY <1>4, <1>19, DivMod
<1>8. PICK u \in Int : u = col \div m
  BY DivMod
<1>9. PICK v \in Int : v = col % m
  BY DivMod
<1>10. p \in Nat /\ p = q * d + col /\ col >= 0 /\ col < d
  BY <1>6, <1>7, <1>19, DivMod
<1>11. col = u * m + v /\ v >= 0 /\ v < m
  BY <1>8, <1>9, DivMod
<1>12. j = q * k + u
  BY <1>1, <1>4, <1>5, <1>6, <1>7, <1>8
<1>13. p = j * m + v
  <2>1. q * d = (q * k) * m
    <3>1. q * (k * m) = (q * k) * m
      OBVIOUS
    <3> QED
      BY <1>3, <1>4, <3>1
  <2>2. PICK e \in Int : e = q * k
    OBVIOUS
  <2>3. (e + u) * m = e * m + u * m
    OBVIOUS
  <2>4. PICK x \in Int, y \in Int : x = e * m /\ y = u * m
    OBVIOUS
  <2>5. p = x + col /\ col = y + v /\ j = e + u
    BY <1>10, <1>11, <1>12, <2>1, <2>2, <2>4
  <2>6. j * m = x + y
    BY <2>3, <2>4, <2>5
  <2> QED
    BY <2>5, <2>6
<1>14. PICK i \in Int : i = j
  BY <1>12
<1>15. PICK n \in Nat \ {0} : n = QH1 /\ QH = m * n
  BY <1>1, QuantFacts
<1>16. i >= 0
  <2> SUFFICES ASSUME i + 1 <= 0
               PROVE  FALSE
    OBVIOUS
  <2>1. (i + 1) * m <= 0 * m
    BY MultiplesGrow
  <2>2. (i + 1) * m = i * m + m /\ 0 * m = 0
    OBVIOUS
  <2> QED
    BY <1>10, <1>11, <1>13, <1>14, <2>1, <2>2
<1>17. i < n
  <2> SUFFICES ASSUME n <= i
               PROVE  FALSE
    OBVIOUS
  <2>1. n * m <= i * m
    BY MultiplesGrow
  <2>2. n * m = m * n /\ m * n \in Nat /\ i * m \in Nat
    BY <1>16, MultipleIs
  <2> QED
    BY <1>10, <1>11, <1>13, <1>14, <1>15, <2>1, <2>2
<1>18. TransposeTiles * TransposeTile = QH
  <2>1. PICK g \in Nat \ {0} : g = Groups
    BY QuantFacts
  <2>2. PICK w \in Nat \ {0} : w = QWidth
    BY QuantFacts
  <2>3. QH = m * (w * g)
    BY <1>1, <2>1, <2>2, QuantFacts
  <2>4. CASE quant.half
    <3>1. g % 2 = 0
      BY <2>1, <2>4, QuantFacts
    <3>2. PICK x \in Nat : x = g \div 2 /\ g = x * 2
      BY <3>1
    <3>3. TransposeTiles = x /\ k = w * 2
      BY <1>2, <2>1, <2>2, <2>4, <3>2 DEF TransposeTiles
    <3>4. x * ((w * 2) * m) = m * (w * (x * 2))
      OBVIOUS
    <3> QED
      BY <1>3, <2>3, <3>2, <3>3, <3>4
  <2>5. CASE ~quant.half
    <3>1. TransposeTiles = g /\ k = w
      BY <1>2, <2>1, <2>2, <2>5 DEF TransposeTiles
    <3>2. g * (w * m) = m * (w * g)
      OBVIOUS
    <3> QED
      BY <1>3, <2>3, <3>1, <3>2
  <2> QED
    BY <2>4, <2>5
<1>20. column % Partitions = v
  BY <1>1, <1>7, <1>9
<1>21. v \in 0..m - 1
  BY <1>11
<1>22. j \in 0..QH1 - 1
  BY <1>14, <1>15, <1>16, <1>17
<1>23. p < TransposeTiles * TransposeTile
  <2>1. PICK w \in Nat \ {0} : w = QH
    BY QuantFacts
  <2>2. 0..QH - 1 = 0..w - 1
    BY <2>1
  <2>3. PICK b \in 0..w - 1 : b = p
    BY <2>2
  <2>4. b < w
    OBVIOUS
  <2>5. p < QH
    BY <2>1, <2>3, <2>4
  <2> QED
    BY <1>18, <2>5, Zenon
<1>24. p = j * Partitions + (column % Partitions)
  BY <1>1, <1>13, <1>20
<1>25. column % Partitions \in 0..Partitions - 1
  BY <1>1, <1>20, <1>21
<1> QED
  BY <1>22, <1>23, <1>24, <1>25

\* Tokens of its half that core c has quantized, and spilled.
Progress(c) == IF doing[c] = "tile" THEN finished[c] * TokenTile(Half) ELSE Half
SpilledTo(c) ==
  IF ~quant.residual THEN 0
  ELSE IF doing[c] = "spill rest" THEN FullTiles * Partitions
  ELSE IF doing[c] = "done" THEN Half ELSE 0
\* The buffer of the sums is read as it was written.
AlignedTiles == ~(FullTiles > 1 /\ Remainder > 0)

\* Core c has received what the other sent on a pipe.
Spilling == {"transpose", "spill", "spill rest", "done"}
Took(c, pipe) == doing[c] \in Spilling \/ (pipe = 1 /\ doing[c] \in {"ship scale", "take scale"})
Stages == Spilling \cup {"tile", "ship quant", "take quant", "ship scale", "take scale"}

QuantTypeOK ==
  /\ IsCall
  /\ doing \in [Both -> Stages] /\ finished \in [Both -> Nat]
  /\ DOMAIN sums = Both /\ DOMAIN rows = Both /\ DOMAIN packed = Both
  /\ DOMAIN shipped = Both /\ DOMAIN turned = Both
  /\ DOMAIN spilled = 0..quant.tokens * QH - 1

TokensHere == 0..quant.tokens - 1
HasRows(c) ==
  /\ DOMAIN rows[c] = TokensHere
  /\ \A t \in 0..Progress(c) - 1 : rows[c][HalfOf(c) + t] = NormalisedRow(HalfOf(c) + t)
OwnPacked(c, pipe) ==
  \A t \in 0..Progress(c) - 1 : packed[c][pipe][HalfOf(c) + t] = Packs(HalfOf(c) + t)
OthersPacked(c, pipe) ==
  \A t \in 0..Half - 1 : packed[c][pipe][HalfOf(1 - c) + t] = Packs(HalfOf(1 - c) + t)
HasPacks(c) ==
  /\ packed[c] = [pipe \in 1..2 |-> packed[c][pipe]]
  /\ \A pipe \in 1..2 :
       /\ packed[c][pipe] = [t \in TokensHere |-> packed[c][pipe][t]]
       /\ OwnPacked(c, pipe)
       /\ Took(c, pipe) => OthersPacked(c, pipe)
HasShipped(c) ==
  /\ DOMAIN shipped[c] = 1..2
  /\ \A pipe \in 1..2 : shipped[c][pipe] # Nothing0 =>
       \A t \in 0..Half - 1 : shipped[c][pipe][HalfOf(c) + t] = Packs(HalfOf(c) + t)
SumPlace(i, t, j) == i * (Half * QH1) + t * QH1 + j
HasSums(c) ==
  /\ DOMAIN sums[c] = 0..Partitions * Half * QH1 - 1
  /\ quant.residual =>
       \A i \in 0..Partitions - 1, t \in 0..Progress(c) - 1, j \in 0..QH1 - 1 :
          sums[c][SumPlace(i, t, j)] = Loaded(HalfOf(c) + t, <<i, j>>)
TurnedPlaceOf(t, p) == (t % Partitions) * (TurnedTiles * QH) + (t \div Partitions) * QH + p
TurnedRow(c, t) == \A p \in 0..QH - 1 : turned[c][TurnedPlaceOf(t, p)] = TokenSum(HalfOf(c) + t, p)
HasTurned(c) == doing[c] \in {"spill", "spill rest"} => \A t \in 0..Half - 1 : TurnedRow(c, t)
SpilledRow(r) == \A p \in 0..QH - 1 : spilled[r * QH + p] = TokenSum(r, p)
SpilledUpTo(c, n) == \A t \in 0..n - 1 : SpilledRow(HalfOf(c) + t)
HasSpilled(c) == AlignedTiles => SpilledUpTo(c, SpilledTo(c))
InStage(c) ==
  /\ doing[c] = "tile" => finished[c] * TokenTile(Half) < Half
  /\ doing[c] \in {"transpose", "spill", "spill rest"} => quant.residual

HalfInv(c) == InStage(c) /\ HasRows(c) /\ HasPacks(c) /\ HasShipped(c) /\ HasSums(c) /\ HasTurned(c)
QuantInv == QuantTypeOK /\ \A c \in Both : HalfInv(c) /\ HasSpilled(c)

\* The call does not change, and nothing that depends on it alone.
LEMMA SameCall ==
  ASSUME quant' = quant
  PROVE  /\ Half' = Half /\ QH1' = QH1 /\ QH' = QH /\ TokensHere' = TokensHere
         /\ TurnedTiles' = TurnedTiles /\ FullTiles' = FullTiles /\ (AlignedTiles' <=> AlignedTiles)
         /\ \A d : HalfOf(d)' = HalfOf(d)
         /\ \A t : NormalisedRow(t)' = NormalisedRow(t) /\ Packs(t)' = Packs(t)
         /\ \A t, h : Loaded(t, h)' = Loaded(t, h) /\ TokenSum(t, h)' = TokenSum(t, h)
         /\ (IsCall' <=> IsCall)
<1>1. Half' = Half /\ QH1' = QH1 /\ QH' = QH /\ TokensHere' = TokensHere
  BY DEF Half, QH1, QH, Groups, TokensHere
<1>2. TurnedTiles' = TurnedTiles /\ FullTiles' = FullTiles /\ (AlignedTiles' <=> AlignedTiles)
  BY <1>1 DEF TurnedTiles, FullTiles, AlignedTiles, Remainder
<1>3. \A d : HalfOf(d)' = HalfOf(d)
  BY <1>1 DEF HalfOf
<1>4. \A t : NormalisedRow(t)' = NormalisedRow(t) /\ Packs(t)' = Packs(t)
  BY <1>1 DEF NormalisedRow, Packs, Quantized, Loaded, Hidden, QH1, Groups
<1>5. \A t, h : Loaded(t, h)' = Loaded(t, h) /\ TokenSum(t, h)' = TokenSum(t, h)
  BY <1>1 DEF Loaded, TokenSum, QH, QH1, Groups
<1>6. IsCall' <=> IsCall
  BY DEF IsCall, Accepted
<1> QED
  BY <1>1, <1>2, <1>3, <1>4, <1>5, <1>6

\* Each part of the invariant stays when what it is about stays.
LEMMA RowsKeep ==
  ASSUME NEW d \in Both, HasRows(d), quant' = quant, Progress(d)' = Progress(d), rows'[d] = rows[d]
  PROVE  HasRows(d)'
BY SameCall DEF HasRows

LEMMA PacksKeep ==
  ASSUME NEW d \in Both, HasPacks(d), quant' = quant, Progress(d)' = Progress(d), packed'[d] = packed[d],
         \A pipe \in 1..2 : Took(d, pipe)' => Took(d, pipe)
  PROVE  HasPacks(d)'
<1>1. ASSUME NEW pipe \in 1..2
      PROVE  (OwnPacked(d, pipe) => OwnPacked(d, pipe)') /\ (OthersPacked(d, pipe) => OthersPacked(d, pipe)')
  BY SameCall DEF OwnPacked, OthersPacked
<1>2. packed'[d] = [pipe \in 1..2 |-> packed'[d][pipe]] /\ TokensHere' = TokensHere
  BY SameCall DEF HasPacks
<1> QED
  BY <1>1, <1>2 DEF HasPacks

LEMMA ShippedKeeps ==
  ASSUME NEW d \in Both, HasShipped(d), quant' = quant, shipped'[d] = shipped[d]
  PROVE  HasShipped(d)'
BY SameCall DEF HasShipped

LEMMA SumsKeep ==
  ASSUME NEW d \in Both, HasSums(d), quant' = quant, Progress(d)' = Progress(d), sums'[d] = sums[d]
  PROVE  HasSums(d)'
BY SameCall DEF HasSums, SumPlace

LEMMA TurnedKeeps ==
  ASSUME NEW d \in Both, HasTurned(d), quant' = quant, turned'[d] = turned[d],
         doing'[d] \in {"spill", "spill rest"} => doing[d] \in {"spill", "spill rest"}
  PROVE  HasTurned(d)'
BY SameCall DEF HasTurned, TurnedRow, TurnedPlaceOf

LEMMA SpilledKeeps ==
  ASSUME NEW d \in Both, HasSpilled(d), quant' = quant, SpilledTo(d)' = SpilledTo(d), spilled' = spilled
  PROVE  HasSpilled(d)'
BY SameCall DEF HasSpilled, SpilledUpTo, SpilledRow

\* What a step of one core leaves to the other.
LeavesAlone(d) ==
  /\ quant' = quant /\ doing'[d] = doing[d] /\ finished'[d] = finished[d]
  /\ sums'[d] = sums[d] /\ rows'[d] = rows[d] /\ packed'[d] = packed[d]
  /\ shipped'[d] = shipped[d] /\ turned'[d] = turned[d]

LEMMA OtherHalfKeeps ==
  ASSUME NEW d \in Both, HalfInv(d), LeavesAlone(d)
  PROVE  HalfInv(d)'
<1>1. Progress(d)' = Progress(d) /\ quant' = quant
  BY SameCall DEF Progress, LeavesAlone
<1>2. \A pipe \in 1..2 : Took(d, pipe)' => Took(d, pipe)
  BY DEF Took, LeavesAlone
<1>3. InStage(d)'
  BY SameCall DEF HalfInv, InStage, LeavesAlone
<1>4. HasRows(d)' /\ HasShipped(d)' /\ HasSums(d)'
  BY <1>1, RowsKeep, ShippedKeeps, SumsKeep DEF HalfInv, LeavesAlone
<1>5. HasPacks(d)'
  BY <1>1, <1>2, PacksKeep DEF HalfInv, LeavesAlone
<1>6. HasTurned(d)'
  BY <1>1, TurnedKeeps DEF HalfInv, LeavesAlone
<1> QED
  BY <1>3, <1>4, <1>5, <1>6 DEF HalfInv

LEMMA QuantizeBegins == QuantizeInit => QuantInv
<1> SUFFICES ASSUME QuantizeInit
             PROVE  QuantInv
  OBVIOUS
<1>1. IsCall
  BY DEF QuantizeInit, IsCall
<1>2. QuantTypeOK
  BY <1>1 DEF QuantizeInit, QuantTypeOK, Stages
<1>3. \A c \in Both : Progress(c) = 0 /\ SpilledTo(c) = 0
  <2>1. TokenTile(Half) \in Nat
    BY <1>1, QuantFacts, TokenTileDivides
  <2>2. 0 * TokenTile(Half) = 0
    BY <2>1
  <2> QED
    BY <2>2 DEF QuantizeInit, Progress, SpilledTo
<1>4. ASSUME NEW c \in Both
      PROVE  HalfInv(c) /\ HasSpilled(c)
  <2>1. doing[c] = "tile" /\ finished[c] = 0
    BY DEF QuantizeInit
  <2>2. InStage(c)
    <3>1. Half > 0
      BY <1>1, QuantFacts
    <3> QED
      BY <1>3, <2>1, <3>1 DEF InStage, Progress
  <2>3. HasRows(c) /\ HasSums(c) /\ HasTurned(c) /\ HasSpilled(c)
    BY <1>3, <2>1 DEF QuantizeInit, HasRows, HasSums, HasTurned, HasSpilled, SpilledUpTo, TokensHere
  <2>4. HasPacks(c)
    <3>1. \A pipe : ~Took(c, pipe)
      BY <2>1 DEF Took, Spilling
    <3> QED
      BY <1>3, <3>1 DEF QuantizeInit, HasPacks, OwnPacked, TokensHere
  <2>5. HasShipped(c)
    BY DEF QuantizeInit, HasShipped
  <2> QED
    BY <2>2, <2>3, <2>4, <2>5 DEF HalfInv
<1> QED
  BY <1>2, <1>4 DEF QuantInv

LEMMA HalvesAre ==
  ASSUME IsCall, NEW c \in Both
  PROVE  /\ HalfOf(c) \in Nat /\ HalfOf(1 - c) \in Nat /\ 1 - c \in Both
         /\ HalfOf(c) + Half <= quant.tokens /\ HalfOf(1 - c) + Half <= quant.tokens
         /\ (HalfOf(c) = 0 /\ HalfOf(1 - c) = Half) \/ (HalfOf(c) = Half /\ HalfOf(1 - c) = 0)
<1>1. CASE c = 0
  BY <1>1, QuantFacts DEF Both
<1>2. CASE c = 1
  BY <1>2, QuantFacts DEF Both
<1> QED
  BY <1>1, <1>2 DEF Both

\* The tokens of a half, counted from where it begins.
LEMMA TokensOf ==
  ASSUME IsCall, NEW c \in Both
  PROVE  /\ \A t \in 0..Half - 1 : HalfOf(c) + t \in HalfOf(c)..HalfOf(c) + Half - 1
         /\ \A t \in 0..Half - 1 : HalfOf(c) + t \in TokensHere /\ HalfOf(c) + t \in Nat
         /\ \A t \in 0..Half - 1 : HalfOf(c) + t \notin HalfOf(1 - c)..HalfOf(1 - c) + Half - 1
         /\ \A t \in HalfOf(c)..HalfOf(c) + Half - 1 : \E u \in 0..Half - 1 : t = HalfOf(c) + u
         /\ \A t \in TokensHere : \E u \in 0..Half - 1 : t = HalfOf(c) + u \/ t = HalfOf(1 - c) + u
<1>1. PICK h \in Nat, w \in Nat, g \in Nat : h = HalfOf(c) /\ w = Half /\ g = HalfOf(1 - c)
  BY QuantFacts, HalvesAre
<1>2. TokensHere = 0..w + w - 1
  BY <1>1, QuantFacts DEF TokensHere
<1>3. (h = 0 /\ g = w) \/ (h = w /\ g = 0)
  BY <1>1, HalvesAre
<1>4. \A t \in 0..w - 1 : h + t \in h..h + w - 1
  OBVIOUS
<1>5. \A t \in 0..w - 1 : h + t \in 0..w + w - 1 /\ h + t \in Nat /\ h + t \notin g..g + w - 1
  BY <1>3
<1>6. ASSUME NEW t \in h..h + w - 1
      PROVE  \E u \in 0..w - 1 : t = h + u
  <2>1. t - h \in 0..w - 1 /\ t = h + (t - h)
    OBVIOUS
  <2> QED
    BY <2>1
<1>7. ASSUME NEW t \in 0..w + w - 1
      PROVE  \E u \in 0..w - 1 : t = h + u \/ t = g + u
  <2>1. CASE t < w
    <3>1. t \in 0..w - 1 /\ (t = h + t \/ t = g + t)
      BY <1>3, <2>1
    <3> QED
      BY <3>1
  <2>2. CASE t >= w
    <3>1. t - w \in 0..w - 1 /\ (t = h + (t - w) \/ t = g + (t - w))
      BY <1>3, <2>2
    <3> QED
      BY <3>1
  <2> QED
    BY <2>1, <2>2
<1>8. \A t \in 0..Half - 1 : /\ HalfOf(c) + t \in HalfOf(c)..HalfOf(c) + Half - 1
                             /\ HalfOf(c) + t \in TokensHere /\ HalfOf(c) + t \in Nat
                             /\ HalfOf(c) + t \notin HalfOf(1 - c)..HalfOf(1 - c) + Half - 1
  BY <1>1, <1>2, <1>4, <1>5
<1>9. \A t \in HalfOf(c)..HalfOf(c) + Half - 1 : \E u \in 0..Half - 1 : t = HalfOf(c) + u
  BY <1>1, <1>6
<1>10. ASSUME NEW t \in TokensHere
       PROVE  \E u \in 0..Half - 1 : t = HalfOf(c) + u \/ t = HalfOf(1 - c) + u
  <2>1. PICK u \in 0..w - 1 : t = h + u \/ t = g + u
    BY <1>2, <1>7
  <2> QED
    BY <1>1, <2>1
<1> QED
  BY <1>8, <1>9, <1>10

\* How far a core is, in numbers.
LEMMA ProgressIs ==
  ASSUME QuantTypeOK, NEW d \in Both
  PROVE  /\ Progress(d) \in Nat /\ SpilledTo(d) \in Nat /\ SpilledTo(d) <= Half
         /\ FullTiles * Partitions \in Nat /\ FullTiles * Partitions <= Half
<1>1. IsCall
  BY DEF QuantTypeOK
<1>2. Half \in Nat /\ TokenTile(Half) \in Nat
  BY <1>1, QuantFacts, TokenTileDivides
<1>3. finished[d] \in Nat
  BY DEF QuantTypeOK
<1>4. finished[d] * TokenTile(Half) \in Nat
  BY <1>2, <1>3, MultipleIs
<1>5. FullTiles * Partitions \in Nat
  BY <1>1, QuantFacts, TilesAre, MultipleIs
<1>6. FullTiles * Partitions <= Half
  <2>1. PICK m \in Nat : m = Partitions
    BY <1>1, QuantFacts
  <2>2. PICK r \in 0..m - 1 : r = Remainder
    BY <1>1, <2>1, TilesAre
  <2> QED
    BY <1>1, <1>2, <1>5, <2>2, TilesAre
<1>7. SpilledTo(d) \in Nat /\ SpilledTo(d) <= Half
  <2>1. PICK w \in Nat, f \in Nat : w = Half /\ f = FullTiles * Partitions /\ f <= w
    BY <1>2, <1>5, <1>6
  <2>2. SpilledTo(d) \in {0, f, w}
    BY <2>1 DEF SpilledTo
  <2> QED
    BY <2>1, <2>2
<1> QED
  BY <1>2, <1>4, <1>5, <1>6, <1>7 DEF Progress

\* A step by core c that spills nothing.
LEMMA CoreSteps ==
  ASSUME QuantInv, NEW c \in Both, quant' = quant, \A d \in Both \ {c} : LeavesAlone(d),
         QuantTypeOK', HalfInv(c)', spilled' = spilled, SpilledTo(c)' = 0
  PROVE  QuantInv'
<1>1. ASSUME NEW d \in Both \ {c}
      PROVE  HalfInv(d)' /\ SpilledTo(d)' = SpilledTo(d)
  <2>1. HalfInv(d)'
    BY OtherHalfKeeps DEF QuantInv
  <2>2. LeavesAlone(d)
    OBVIOUS
  <2>3. SpilledTo(d)' = SpilledTo(d)
    BY <2>2, SameCall DEF LeavesAlone, SpilledTo
  <2> QED
    BY <2>1, <2>3
<1>2. ASSUME NEW d \in Both
      PROVE  HasSpilled(d)'
  <2>1. CASE d = c
    BY <2>1 DEF HasSpilled, SpilledUpTo
  <2>2. CASE d # c
    <3>1. HasSpilled(d) /\ SpilledTo(d)' = SpilledTo(d)
      BY <1>1, <2>2 DEF QuantInv
    <3> QED
      BY <3>1, SpilledKeeps
  <2> QED
    BY <2>1, <2>2
<1>5. \A d \in Both : HalfInv(d)'
  BY <1>1
<1> QED
  BY <1>2, <1>5 DEF QuantInv

\* Everything but the quantizing of tiles changes only doing and one variable.
LEMMA ShipKeeps ==
  ASSUME QuantInv, NEW c \in Both, NEW pipe \in 1..2, NEW from, NEW to \in Stages,
         from \notin Spilling \cup {"tile"}, to \notin Spilling \cup {"tile"},
         to \in {"ship scale", "take scale"} => from \in {"ship scale", "take scale"},
         Ship(c, pipe, from, to)
  PROVE  QuantInv'
<1>1. QuantTypeOK /\ HalfInv(c) /\ IsCall
  BY DEF QuantInv, QuantTypeOK
<1>2. quant' = quant /\ spilled' = spilled /\ doing[c] = from /\ doing' = [doing EXCEPT ![c] = to]
      /\ UNCHANGED <<finished, sums, rows, packed, turned>>
  BY DEF Ship
<1>3. doing'[c] = to /\ \A d \in Both \ {c} : doing'[d] = doing[d]
  BY <1>1, <1>2 DEF QuantTypeOK
<1>4. \A d \in Both \ {c} : LeavesAlone(d)
  BY <1>1, <1>2, <1>3 DEF LeavesAlone, Ship, QuantTypeOK
<1>5. QuantTypeOK'
  <2>1. IsCall'
    BY <1>1, <1>2, SameCall
  <2>2. doing' \in [Both -> Stages]
    BY <1>1, <1>2 DEF QuantTypeOK
  <2> QED
    BY <1>1, <1>2, <2>1, <2>2, SameCall DEF QuantTypeOK, Ship
<1>6. Progress(c) = Half /\ Progress(c)' = Half
  BY <1>2, <1>3, SameCall DEF Progress
<1>7. \A p \in 1..2 : Took(c, p)' => Took(c, p)
  BY <1>2, <1>3 DEF Took
<1>8. HasRows(c)' /\ HasSums(c)'
  BY <1>1, <1>2, <1>6, RowsKeep, SumsKeep DEF HalfInv
<1>9. HasPacks(c)'
  BY <1>1, <1>2, <1>6, <1>7, PacksKeep DEF HalfInv
<1>10. InStage(c)' /\ HasTurned(c)'
  BY <1>3 DEF InStage, HasTurned, Spilling
<1>11. HasShipped(c)'
  <2> DEFINE sent == [t \in HalfOf(c)..HalfOf(c) + Half - 1 |-> packed[c][pipe][t]]
  <2>1. shipped'[c] = [shipped[c] EXCEPT ![pipe] = sent]
    BY <1>1 DEF Ship, QuantTypeOK
  <2>2. \A t \in 0..Half - 1 : sent[HalfOf(c) + t] = Packs(HalfOf(c) + t)
    <3> SUFFICES ASSUME NEW t \in 0..Half - 1
                 PROVE  sent[HalfOf(c) + t] = Packs(HalfOf(c) + t)
      OBVIOUS
    <3>1. packed[c][pipe][HalfOf(c) + t] = Packs(HalfOf(c) + t)
      BY <1>1, <1>6 DEF HalfInv, HasPacks, OwnPacked
    <3>2. HalfOf(c) + t \in HalfOf(c)..HalfOf(c) + Half - 1
      BY <1>1, TokensOf
    <3> QED
      BY <3>1, <3>2
  <2> HIDE DEF sent
  <2>3. DOMAIN shipped'[c] = 1..2
    BY <1>1, <2>1 DEF HalfInv, HasShipped
  <2>4. ASSUME NEW p \in 1..2, shipped'[c][p] # Nothing0, NEW t \in 0..Half - 1
        PROVE  shipped'[c][p][HalfOf(c) + t] = Packs(HalfOf(c) + t)
    <3>1. CASE p = pipe
      BY <1>1, <2>1, <2>2, <3>1 DEF HalfInv, HasShipped
    <3>2. CASE p # pipe
      <4>1. shipped'[c][p] = shipped[c][p]
        BY <1>1, <2>1, <3>2 DEF HalfInv, HasShipped
      <4> QED
        BY <1>1, <2>4, <4>1 DEF HalfInv, HasShipped, Nothing0
    <3> QED
      BY <3>1, <3>2
  <2> QED
    BY <1>2, <2>3, <2>4, SameCall DEF HasShipped, Nothing0
<1>12. HalfInv(c)'
  BY <1>8, <1>9, <1>10, <1>11 DEF HalfInv
<1>13. SpilledTo(c)' = 0
  <2>1. doing'[c] # "spill rest" /\ doing'[c] # "done"
    BY <1>3 DEF Spilling
  <2> QED
    BY <2>1 DEF SpilledTo
<1> QED
  BY <1>2, <1>4, <1>5, <1>12, <1>13, CoreSteps

LEMMA TwoPipes == \A p \in 1..2 : p = 1 \/ p = 2
OBVIOUS

LEMMA TakeKeeps ==
  ASSUME QuantInv, NEW c \in Both, NEW pipe \in 1..2, NEW from, NEW to \in Stages,
         \/ pipe = 1 /\ from = "take quant" /\ to = "ship scale"
         \/ pipe = 2 /\ from = "take scale" /\ to = "transpose" /\ quant.residual
         \/ pipe = 2 /\ from = "take scale" /\ to = "done" /\ ~quant.residual,
         Take(c, pipe, from, to)
  PROVE  QuantInv'
<1> DEFINE g == HalfOf(1 - c)
           taken == g..g + Half - 1
           old == packed[c][pipe]
           merged == [t \in DOMAIN old |-> IF t \in taken THEN shipped[1 - c][pipe][t] ELSE old[t]]
<1>1. QuantTypeOK /\ HalfInv(c) /\ IsCall
  BY DEF QuantInv, QuantTypeOK
<1>2. quant' = quant /\ spilled' = spilled /\ doing[c] = from /\ doing' = [doing EXCEPT ![c] = to]
      /\ UNCHANGED <<finished, sums, rows, shipped, turned>>
  BY DEF Take
<1>3. doing'[c] = to /\ \A d \in Both \ {c} : doing'[d] = doing[d]
  BY <1>1, <1>2 DEF QuantTypeOK
<1>4. \A d \in Both \ {c} : LeavesAlone(d)
  BY <1>1, <1>2, <1>3 DEF LeavesAlone, Take, QuantTypeOK
<1>5. QuantTypeOK'
  <2>1. IsCall'
    BY <1>1, <1>2, SameCall
  <2>2. doing' \in [Both -> Stages]
    BY <1>1, <1>2 DEF QuantTypeOK
  <2> QED
    BY <1>1, <1>2, <2>1, <2>2, SameCall DEF QuantTypeOK, Take
<1>6. Progress(c) = Half /\ Progress(c)' = Half
  <2>1. doing[c] # "tile" /\ doing'[c] # "tile"
    BY <1>2, <1>3
  <2> QED
    BY <1>2, <2>1, SameCall DEF Progress
<1>7. HasRows(c)' /\ HasSums(c)' /\ HasShipped(c)'
  BY <1>1, <1>2, <1>6, RowsKeep, SumsKeep, ShippedKeeps DEF HalfInv
<1>8. InStage(c)' /\ HasTurned(c)'
  <2>1. to \notin {"tile", "spill", "spill rest"} /\ (to = "transpose" => quant.residual)
    OBVIOUS
  <2> QED
    BY <1>2, <1>3, <2>1 DEF InStage, HasTurned
<1>9. packed'[c] = [packed[c] EXCEPT ![pipe] = merged]
  BY <1>1 DEF Take, QuantTypeOK
<1>10. HasShipped(1 - c) /\ shipped[1 - c][pipe] # Nothing0
  BY <1>1, HalvesAre DEF QuantInv, HalfInv, Take
<1>11. \A t \in 0..Half - 1 : g + t \in taken /\ g + t \in TokensHere
  <2>1. 1 - c \in Both
    BY <1>1, HalvesAre
  <2> QED
    BY <1>1, <2>1, TokensOf
<1>12. \A t \in 0..Half - 1 : HalfOf(c) + t \notin taken /\ HalfOf(c) + t \in TokensHere
  BY <1>1, TokensOf
<1>13. /\ packed[c] = [p \in 1..2 |-> packed[c][p]]
       /\ \A p \in 1..2 : packed[c][p] = [t \in TokensHere |-> packed[c][p][t]]
       /\ \A p \in 1..2, t \in 0..Half - 1 : packed[c][p][HalfOf(c) + t] = Packs(HalfOf(c) + t)
       /\ \A p \in 1..2 : Took(c, p) => OthersPacked(c, p)
  BY <1>1, <1>6 DEF HalfInv, HasPacks, OwnPacked
<1>14. DOMAIN old = TokensHere
  BY <1>13
<1>15. /\ merged = [t \in TokensHere |-> merged[t]]
       /\ \A t \in 0..Half - 1 : merged[g + t] = Packs(g + t)
       /\ \A t \in 0..Half - 1 : merged[HalfOf(c) + t] = Packs(HalfOf(c) + t)
  <2>1. \A t \in 0..Half - 1 : shipped[1 - c][pipe][g + t] = Packs(g + t)
    BY <1>10 DEF HasShipped
  <2>2. \A t \in 0..Half - 1 : old[HalfOf(c) + t] = Packs(HalfOf(c) + t)
    BY <1>13 DEF old
  <2> HIDE DEF taken, old, g
  <2> QED
    BY <1>11, <1>12, <1>14, <2>1, <2>2
<1> HIDE DEF taken, old, merged, g
<1>16. packed'[c] = [p \in 1..2 |-> IF p = pipe THEN merged ELSE packed[c][p]]
  BY <1>9, <1>13 DEF merged, old
<1>17. ASSUME NEW p \in 1..2, p # pipe
       PROVE  Took(c, p)' => Took(c, p)
  <2>1. CASE from = "take scale"
    <3>0. pipe = 2
      BY <2>1
    <3>1. p = 1
      BY <1>17, <3>0, TwoPipes, Zenon
    <3> QED
      BY <1>2, <2>1, <3>1 DEF Took
  <2>2. CASE from = "take quant"
    <3>1. p # 1
      BY <1>17, <2>2
    <3>2. to = "ship scale"
      BY <2>2
    <3> QED
      BY <1>3, <1>17, <3>1, <3>2 DEF Took, Spilling
  <2> QED
    BY <2>1, <2>2
<1>18. HasPacks(c)'
  <2>1. packed'[c] = [p \in 1..2 |-> packed'[c][p]]
    BY <1>16
  <2>2. Half' = Half /\ HalfOf(c)' = HalfOf(c) /\ HalfOf(1 - c)' = g /\ TokensHere' = TokensHere
        /\ \A t : Packs(t)' = Packs(t)
    BY <1>2, SameCall DEF g
  <2>3. ASSUME NEW p \in 1..2
        PROVE  /\ packed'[c][p] = [t \in TokensHere |-> packed'[c][p][t]]
               /\ OwnPacked(c, p)'
               /\ Took(c, p)' => OthersPacked(c, p)'
    <3>1. CASE p = pipe
      <4>1. packed'[c][p] = merged
        BY <1>16, <3>1
      <4> QED
        BY <1>6, <1>15, <2>2, <4>1 DEF OwnPacked, OthersPacked
    <3>2. CASE p # pipe
      <4>1. packed'[c][p] = packed[c][p]
        BY <1>16, <3>2
      <4>2. OwnPacked(c, p)'
        BY <1>6, <1>13, <2>2, <4>1 DEF OwnPacked
      <4>3. OthersPacked(c, p) => OthersPacked(c, p)'
        BY <2>2, <4>1 DEF OthersPacked, g
      <4>4. Took(c, p)' => OthersPacked(c, p)'
        BY <1>13, <1>17, <3>2, <4>3
      <4>5. packed[c][p] = [t \in TokensHere |-> packed[c][p][t]]
        BY <1>13
      <4> QED
        BY <4>1, <4>2, <4>4, <4>5
    <3> QED
      BY <3>1, <3>2
  <2> QED
    BY <2>1, <2>2, <2>3 DEF HasPacks
<1>19. HalfInv(c)'
  BY <1>7, <1>8, <1>18 DEF HalfInv
<1>20. SpilledTo(c)' = 0
  <2>1. to # "spill rest" /\ (to = "done" => ~quant.residual)
    OBVIOUS
  <2> QED
    BY <1>2, <1>3, <2>1 DEF SpilledTo
<1> QED
  BY <1>2, <1>4, <1>5, <1>19, <1>20, CoreSteps

\* A tile more still fits.
LEMMA NextTileFits ==
  ASSUME NEW n \in Nat, NEW s \in Nat \ {0}, n % s = 0, NEW f \in Nat, f * s < n
  PROVE  f * s \in Nat /\ (f + 1) * s = f * s + s /\ f * s + s <= n
<1>1. PICK q \in Int : q = n \div s
  BY DivMod
<1>2. n = q * s
  BY <1>1, DivMod
<1>3. f * s \in Nat
  BY MultipleIs
<1>4. (f + 1) * s = f * s + s
  OBVIOUS
<1>5. f + 1 <= q
  <2> SUFFICES ASSUME q <= f
               PROVE  FALSE
    OBVIOUS
  <2>1. q * s <= f * s
    BY MultiplesGrow
  <2> QED
    BY <1>2, <1>3, <2>1
<1>6. (f + 1) * s <= q * s
  BY <1>5, MultiplesGrow
<1> QED
  BY <1>2, <1>3, <1>4, <1>6

\* The tokens of a tile, counted from where the half begins.
LEMMA TileTokens ==
  ASSUME NEW h \in Nat, NEW start \in Nat, NEW size \in Nat, NEW w \in Nat, start + size <= w
  PROVE  /\ \A t \in 0..start + size - 1 : t \in 0..w - 1 /\ t \in Nat
         /\ \A t \in 0..start + size - 1 :
              \/ t \in start..start + size - 1 /\ h + t \in h + start..h + start + size - 1
              \/ t \in 0..start - 1 /\ t \notin start..start + size - 1 /\ h + t \notin h + start..h + start + size - 1
OBVIOUS

LEMMA TileKeeps ==
  ASSUME QuantInv, NEW c \in Both, QuantizeTile(c)
  PROVE  QuantInv'
<1> DEFINE size == TokenTile(Half)
           start == finished[c] * size
           h == HalfOf(c)
           tokens == h + start..h + start + size - 1
           here == start..start + size - 1
           done == 0..start + size - 1
           to == IF start + size < Half THEN "tile" ELSE "ship quant"
           new == [t \in tokens |-> NormalisedRow(t)]
<1>1. QuantTypeOK /\ HalfInv(c) /\ IsCall /\ doing[c] = "tile"
  BY DEF QuantInv, QuantTypeOK, QuantizeTile
<1>2. quant' = quant /\ spilled' = spilled /\ UNCHANGED <<shipped, turned>>
      /\ finished' = [finished EXCEPT ![c] = @ + 1] /\ doing' = [doing EXCEPT ![c] = to]
      /\ rows' = [rows EXCEPT ![c] = [t \in DOMAIN @ |-> IF t \in tokens THEN new[t] ELSE @[t]]]
      /\ packed' = [packed EXCEPT ![c] = [pipe \in 1..2 |->
                     [t \in DOMAIN @[pipe] |-> IF t \in tokens THEN Quantized(new[t]) ELSE @[pipe][t]]]]
  BY DEF QuantizeTile
<1>3. sums' = IF quant.residual
              THEN [sums EXCEPT ![c] = [a \in DOMAIN @ |->
                      LET t == (a \div QH1) % Half
                      IN IF t \in here THEN Loaded(h + t, <<a \div (Half * QH1), a % QH1>>) ELSE @[a]]]
              ELSE sums
  BY DEF QuantizeTile
<1>4. /\ Half \in Nat \ {0} /\ size \in Nat \ {0} /\ Half % size = 0
      /\ h \in Nat /\ finished[c] \in Nat /\ start < Half
  BY <1>1, QuantFacts, HalvesAre, TokenTileDivides DEF QuantTypeOK, HalfInv, InStage
<1>5. start \in Nat /\ (finished[c] + 1) * size = start + size /\ start + size <= Half
  <2> HIDE DEF size
  <2> QED
    BY <1>4, NextTileFits
<1>6. Progress(c) = start
  BY <1>1 DEF Progress
<1>7. \A t \in done : t \in 0..Half - 1 /\ t \in Nat
  <2> HIDE DEF size, start, h
  <2> QED
    BY <1>4, <1>5, TileTokens
<1>8. \A t \in done : \/ t \in here /\ h + t \in tokens
                      \/ t \in 0..Progress(c) - 1 /\ t \notin here /\ h + t \notin tokens
  <2> HIDE DEF size, start, h
  <2> QED
    BY <1>4, <1>5, <1>6, TileTokens
<1> HIDE DEF size, start, h, tokens, here, to, new
<1>9. finished'[c] = finished[c] + 1 /\ doing'[c] = to
      /\ \A d \in Both \ {c} : doing'[d] = doing[d] /\ finished'[d] = finished[d]
  BY <1>1, <1>2 DEF QuantTypeOK
<1>10. rows'[c] = [t \in DOMAIN rows[c] |-> IF t \in tokens THEN new[t] ELSE rows[c][t]]
       /\ \A d \in Both \ {c} : rows'[d] = rows[d]
  BY <1>1, <1>2 DEF QuantTypeOK
<1>11. packed'[c] = [pipe \in 1..2 |->
                      [t \in DOMAIN packed[c][pipe] |-> IF t \in tokens THEN Quantized(new[t]) ELSE packed[c][pipe][t]]]
       /\ \A d \in Both \ {c} : packed'[d] = packed[d]
  BY <1>1, <1>2 DEF QuantTypeOK
<1>12. \A d \in Both \ {c} : sums'[d] = sums[d]
  BY <1>1, <1>3 DEF QuantTypeOK
<1>13. \A d \in Both \ {c} : LeavesAlone(d)
  BY <1>2, <1>9, <1>10, <1>11, <1>12 DEF LeavesAlone
<1>14. QuantTypeOK'
  <2>1. IsCall' /\ TokensHere' = TokensHere /\ QH' = QH
    BY <1>1, <1>2, SameCall
  <2>2. doing' \in [Both -> Stages]
    BY <1>1, <1>2 DEF QuantTypeOK, Stages, to
  <2>3. finished' \in [Both -> Nat]
    BY <1>1, <1>2 DEF QuantTypeOK
  <2>4. DOMAIN sums' = Both /\ DOMAIN rows' = Both /\ DOMAIN packed' = Both
    BY <1>1, <1>2, <1>3 DEF QuantTypeOK
  <2> QED
    BY <1>1, <1>2, <2>1, <2>2, <2>3, <2>4 DEF QuantTypeOK
<1>15. Half' = Half /\ HalfOf(c)' = h /\ TokenTile(Half)' = size /\ TokensHere' = TokensHere
  <2>1. TokenTile(Half)' = size
    BY <1>2, SameCall DEF size, TokenTile
  <2> QED
    BY <1>2, <2>1, SameCall DEF h
<1>16. finished'[c] * size = start + size
  BY <1>5, <1>9
<1>17. Progress(c)' = start + size
  <2>1. CASE start + size < Half
    <3>1. doing'[c] = "tile"
      BY <1>9, <2>1 DEF to
    <3> QED
      BY <1>15, <1>16, <3>1 DEF Progress
  <2>2. CASE ~(start + size < Half)
    <3>1. doing'[c] # "tile"
      BY <1>9, <2>2 DEF to
    <3>2. start + size = Half
      BY <1>4, <1>5, <2>2
    <3> QED
      BY <1>15, <3>1, <3>2 DEF Progress
  <2> QED
    BY <2>1, <2>2
<1>17a. 0..Progress(c)' - 1 = done
  <2>1. PICK s \in Nat, z \in Nat : s = start /\ z = size
    BY <1>4, <1>5
  <2>2. (s + z) - 1 = s + z - 1
    OBVIOUS
  <2>3. 0..(start + size) - 1 = done
    BY <2>1, <2>2
  <2> QED
    BY <1>17, <2>3, Zenon
<1> HIDE DEF done
<1>18. InStage(c)' /\ HasTurned(c)'
  <2>1. CASE start + size < Half
    <3>1. doing'[c] = "tile"
      BY <1>9, <2>1 DEF to
    <3> QED
      BY <1>15, <1>16, <2>1, <3>1 DEF InStage, HasTurned
  <2>2. CASE ~(start + size < Half)
    <3>1. doing'[c] = "ship quant"
      BY <1>9, <2>2 DEF to
    <3> QED
      BY <3>1 DEF InStage, HasTurned
  <2> QED
    BY <2>1, <2>2
<1>19. HasShipped(c)'
  BY <1>1, <1>2, ShippedKeeps DEF HalfInv
<1>20. \A t : NormalisedRow(t)' = NormalisedRow(t) /\ Packs(t)' = Packs(t)
  BY <1>2, SameCall
<1>21. \A t \in done : h + t \in TokensHere
  BY <1>1, <1>7, TokensOf DEF h
<1>22. HasRows(c)'
  <2>1. DOMAIN rows[c] = TokensHere /\ \A t \in 0..Progress(c) - 1 : rows[c][h + t] = NormalisedRow(h + t)
    BY <1>1 DEF HalfInv, HasRows, h
  <2>2. DOMAIN rows'[c] = TokensHere
    BY <1>10, <2>1
  <2>3. \A t \in done : rows'[c][h + t] = NormalisedRow(h + t)
    BY <1>8, <1>10, <1>21, <2>1 DEF new
  <2> QED
    BY <1>15, <1>17a, <1>20, <2>2, <2>3 DEF HasRows
<1>23. HasPacks(c)'
  <2>1. ASSUME NEW pipe \in 1..2
        PROVE  /\ packed'[c][pipe] = [t \in TokensHere |-> packed'[c][pipe][t]]
               /\ OwnPacked(c, pipe)'
    <3>1. packed[c][pipe] = [t \in TokensHere |-> packed[c][pipe][t]] /\ OwnPacked(c, pipe)
      BY <1>1 DEF HalfInv, HasPacks
    <3>2. packed'[c][pipe] = [t \in TokensHere |-> IF t \in tokens THEN Quantized(new[t]) ELSE packed[c][pipe][t]]
      BY <1>11, <3>1
    <3>3. \A t \in tokens : Quantized(new[t]) = Packs(t)
      BY DEF new, Packs
    <3>4. \A t \in done : packed'[c][pipe][h + t] = Packs(h + t)
      BY <1>8, <1>21, <3>1, <3>2, <3>3 DEF OwnPacked, h
    <3>5. OwnPacked(c, pipe)'
      BY <1>15, <1>17a, <1>20, <3>4 DEF OwnPacked
    <3> QED
      BY <3>2, <3>5
  <2>2. packed'[c] = [pipe \in 1..2 |-> packed'[c][pipe]]
    BY <1>11
  <2>3. \A pipe : ~Took(c, pipe)'
    <3>1. doing'[c] \in {"tile", "ship quant"}
      BY <1>9 DEF to
    <3> QED
      BY <3>1 DEF Took, Spilling
  <2> QED
    BY <1>15, <2>1, <2>2, <2>3 DEF HasPacks
<1>24. HasSums(c)'
  <2>1. CASE ~quant.residual
    <3>1. sums'[c] = sums[c]
      BY <1>3, <2>1
    <3>2. QH1' = QH1 /\ Half' = Half /\ ~quant'.residual
      BY <1>2, <2>1, SameCall
    <3> QED
      BY <1>1, <3>1, <3>2 DEF HalfInv, HasSums
  <2>2. CASE quant.residual
    <3>1. sums'[c] = [a \in DOMAIN sums[c] |->
                        LET t == (a \div QH1) % Half
                        IN IF t \in here THEN Loaded(h + t, <<a \div (Half * QH1), a % QH1>>) ELSE sums[c][a]]
      BY <1>1, <1>3, <2>2 DEF QuantTypeOK
    <3>2. DOMAIN sums[c] = 0..Partitions * Half * QH1 - 1
      BY <1>1 DEF HalfInv, HasSums
    <3>3. ASSUME NEW i \in 0..Partitions - 1, NEW t \in done, NEW j \in 0..QH1 - 1
          PROVE  sums'[c][SumPlace(i, t, j)] = Loaded(h + t, <<i, j>>)
      <4>1. PICK a : a = SumPlace(i, t, j)
        OBVIOUS
      <4>2. IsElement(a, Half, QH1, i, t, j)
        BY <4>1 DEF SumPlace, IsElement
      <4>3. t \in 0..Half - 1
        BY <1>7
      <4>4. HasDigits(a, Partitions, Half, QH1, i, t, j)
        BY <1>1, <4>2, <4>3, QuantFacts, ThreeDigits
      <4>5. a \in DOMAIN sums[c] /\ a \div (Half * QH1) = i /\ (a \div QH1) % Half = t /\ a % QH1 = j
        BY <3>2, <4>4 DEF HasDigits
      <4>6. sums'[c][a] = IF t \in here THEN Loaded(h + t, <<i, j>>) ELSE sums[c][a]
        BY <3>1, <4>5
      <4>7. CASE t \in here
        BY <4>1, <4>6, <4>7
      <4>8. CASE t \notin here
        <5>1. t \in 0..Progress(c) - 1
          BY <1>8, <4>8
        <5>2. sums[c][SumPlace(i, t, j)] = Loaded(h + t, <<i, j>>)
          BY <1>1, <2>2, <5>1 DEF HalfInv, HasSums, h
        <5> QED
          BY <4>1, <4>6, <4>8, <5>2
      <4> QED
        BY <4>7, <4>8
    <3>4. /\ QH1' = QH1 /\ \A t, x : Loaded(t, x)' = Loaded(t, x)
          /\ \A i, t, j : SumPlace(i, t, j)' = SumPlace(i, t, j)
      BY <1>2, SameCall DEF SumPlace
    <3>5. DOMAIN sums'[c] = 0..Partitions * Half * QH1 - 1
      BY <3>1, <3>2
    <3> QED
      BY <1>15, <1>17a, <3>3, <3>4, <3>5 DEF HasSums
  <2> QED
    BY <2>1, <2>2
<1>25. HalfInv(c)'
  BY <1>18, <1>19, <1>22, <1>23, <1>24 DEF HalfInv
<1>26. SpilledTo(c)' = 0
  <2>1. doing'[c] # "spill rest" /\ doing'[c] # "done"
    BY <1>9 DEF to
  <2> QED
    BY <2>1 DEF SpilledTo
<1> QED
  BY <1>2, <1>13, <1>14, <1>25, <1>26, CoreSteps

LEMMA TransposeKeeps ==
  ASSUME QuantInv, NEW c \in Both, TransposeResidual(c)
  PROVE  QuantInv'
<1>1. QuantTypeOK /\ HalfInv(c) /\ IsCall /\ doing[c] = "transpose" /\ quant.residual
  BY DEF QuantInv, QuantTypeOK, TransposeResidual, HalfInv, InStage
<1>2. quant' = quant /\ spilled' = spilled /\ doing' = [doing EXCEPT ![c] = "spill"]
      /\ UNCHANGED <<finished, sums, rows, packed, shipped>>
  BY DEF TransposeResidual
<1>3. doing'[c] = "spill" /\ \A d \in Both \ {c} : doing'[d] = doing[d]
  BY <1>1, <1>2 DEF QuantTypeOK
<1>4. \A d \in Both \ {c} : LeavesAlone(d)
  <2>1. \A d \in Both \ {c} : turned'[d] = turned[d]
    BY <1>1 DEF TransposeResidual, QuantTypeOK
  <2> QED
    BY <1>1, <1>2, <1>3, <2>1 DEF LeavesAlone, QuantTypeOK
<1>5. QuantTypeOK'
  <2>1. IsCall' /\ QH' = QH
    BY <1>1, <1>2, SameCall
  <2>2. doing' \in [Both -> Stages]
    BY <1>1, <1>2 DEF QuantTypeOK, Stages, Spilling
  <2>3. DOMAIN turned' = Both
    BY <1>1 DEF TransposeResidual, QuantTypeOK
  <2> QED
    BY <1>1, <1>2, <2>1, <2>2, <2>3 DEF QuantTypeOK
<1>6. Progress(c) = Half /\ Progress(c)' = Half
  BY <1>1, <1>2, <1>3, SameCall DEF Progress
<1>7. HasRows(c)' /\ HasSums(c)' /\ HasShipped(c)'
  BY <1>1, <1>2, <1>6, RowsKeep, SumsKeep, ShippedKeeps DEF HalfInv
<1>8. HasPacks(c)'
  <2>1. \A pipe \in 1..2 : Took(c, pipe)
    BY <1>1 DEF Took, Spilling
  <2> QED
    BY <1>1, <1>2, <1>6, <2>1, PacksKeep DEF HalfInv
<1>9. InStage(c)'
  BY <1>1, <1>2, <1>3 DEF InStage
<1>10. ASSUME NEW t \in 0..Half - 1, NEW p \in 0..QH - 1
       PROVE  turned'[c][TurnedPlaceOf(t, p)] = TokenSum(HalfOf(c) + t, p)
  <2> DEFINE token == t % Partitions
             tile == t \div Partitions
             column == p % TransposeTile
             h1 == (p \div TransposeTile) * (TransposeTile \div Partitions) + column \div Partitions
             h0 == column % Partitions
  <2>1. PICK a : a = TurnedPlaceOf(t, p)
    OBVIOUS
  <2>2. IsElement(a, TurnedTiles, QH, token, tile, p)
    BY <2>1 DEF TurnedPlaceOf, IsElement
  <2>3. /\ HasDigits(a, Partitions, TurnedTiles, QH, token, tile, p)
        /\ t = tile * Partitions + token /\ tile \in Nat /\ token \in 0..Partitions - 1
    BY <1>1, <2>2, TurnedPlace
  <2>4. /\ a \in 0..Partitions * TurnedTiles * QH - 1
        /\ a \div (TurnedTiles * QH) = token /\ (a \div QH) % TurnedTiles = tile /\ a % QH = p
    BY <2>3 DEF HasDigits
  <2>5. /\ h0 \in 0..Partitions - 1 /\ h1 \in 0..QH1 - 1
        /\ p = h1 * Partitions + h0 /\ p < TransposeTiles * TransposeTile
    BY <1>1, ColumnPlace
  <2>6. tile * Partitions + token < Half
    <3>1. t < Half
      <4>1. PICK n \in Nat : n = Half
        BY <1>1, QuantFacts
      <4>2. PICK b \in 0..n - 1 : b = t
        BY <4>1
      <4> QED
        BY <4>1, <4>2
    <3> QED
      BY <2>3, <3>1
  <2>7. turned'[c][a] = sums[c][h0 * (Half * QH1) + tile * Partitions * QH1 + h1 + token * QH1]
    <3> DEFINE value(x, k, l, h) ==
                 LET j == h % TransposeTile
                     i == (h \div TransposeTile) * (TransposeTile \div Partitions) + j \div Partitions
                 IN IF l * Partitions + k < Half /\ h < TransposeTiles * TransposeTile
                    THEN sums[c][(j % Partitions) * (Half * QH1) + l * Partitions * QH1 + i + k * QH1]
                    ELSE Nothing0
    <3>1. turned'[c] = [x \in 0..Partitions * TurnedTiles * QH - 1 |->
                          value(x, x \div (TurnedTiles * QH), (x \div QH) % TurnedTiles, x % QH)]
      BY <1>1 DEF TransposeResidual, QuantTypeOK
    <3>2. turned'[c][a] = value(a, token, tile, p)
      <4> HIDE DEF value
      <4> QED
        BY <2>4, <3>1
    <3> QED
      BY <2>5, <2>6, <3>2
  <2> HIDE DEF token, tile, column, h1, h0
  <2>8. h0 * (Half * QH1) + tile * Partitions * QH1 + h1 + token * QH1 = SumPlace(h0, t, h1)
    <3>1. PICK m \in Nat, n \in Nat, w \in Nat : m = Partitions /\ n = Half /\ w = QH1
      BY <1>1, QuantFacts
    <3>2. PICK k \in Nat, l \in Nat : k = token /\ l = tile
      BY <2>3, <3>1
    <3>3. PICK i \in Nat, j \in Nat : i = h0 /\ j = h1
      BY <2>5, <3>1
    <3>4. (l * m + k) * w = l * m * w + k * w
      OBVIOUS
    <3>5. t = l * m + k
      BY <2>3, <3>1, <3>2
    <3>6. PICK x \in Int, y \in Int : x = l * m * w /\ y = k * w
      OBVIOUS
    <3>7. PICK z \in Int : z = i * (n * w)
      OBVIOUS
    <3>8. t * w = x + y
      BY <3>4, <3>5, <3>6
    <3>9. SumPlace(i, t, j) = z + (x + y) + j
      BY <3>1, <3>7, <3>8 DEF SumPlace
    <3>10. z + x + j + y = z + (x + y) + j
      OBVIOUS
    <3> QED
      BY <3>1, <3>2, <3>3, <3>6, <3>7, <3>9, <3>10
  <2>9. sums[c][SumPlace(h0, t, h1)] = Loaded(HalfOf(c) + t, <<h0, h1>>)
    BY <1>1, <1>6, <2>5 DEF HalfInv, HasSums
  <2>10. Loaded(HalfOf(c) + t, <<h0, h1>>) = TokenSum(HalfOf(c) + t, p)
    <3>1. PICK h : h = <<h0, h1>>
      OBVIOUS
    <3>2. h \in Hidden /\ PositionOf(h) = p
      BY <2>5, <3>1 DEF Hidden, PositionOf
    <3>3. HalfOf(c) + t \in Nat
      BY <1>1, TokensOf
    <3> QED
      BY <1>1, <3>1, <3>2, <3>3, LoadedIs
  <2> QED
    BY <2>1, <2>7, <2>8, <2>9, <2>10
<1>11. HasTurned(c)'
  <2>1. /\ Half' = Half /\ QH' = QH /\ HalfOf(c)' = HalfOf(c) /\ \A t, p : TokenSum(t, p)' = TokenSum(t, p)
        /\ \A t, p : TurnedPlaceOf(t, p)' = TurnedPlaceOf(t, p)
    BY <1>2, SameCall DEF TurnedPlaceOf
  <2> QED
    BY <1>10, <2>1 DEF HasTurned, TurnedRow
<1>12. HalfInv(c)'
  BY <1>7, <1>8, <1>9, <1>11 DEF HalfInv
<1>13. SpilledTo(c)' = 0
  BY <1>3 DEF SpilledTo
<1> QED
  BY <1>2, <1>4, <1>5, <1>12, <1>13, CoreSteps

LEMMA IsNatural == \A n : \A x \in 0..n : x \in Nat
OBVIOUS

\* Position p of a token of the (B*S, H) tensor in HBM.
LEMMA HbmPlace ==
  ASSUME IsCall, NEW r \in Nat, r < quant.tokens, NEW p \in 0..QH - 1, NEW a, a = r * QH + p
  PROVE  a \in 0..quant.tokens * QH - 1 /\ a \div QH = r /\ a % QH = p
<1>1. PICK w \in Nat \ {0}, n \in Nat : w = QH /\ n = quant.tokens
  BY QuantFacts
<1>2. PICK b \in 0..w - 1 : b = p
  BY <1>1
<1>3. (r * w + b) \div w = r /\ (r * w + b) % w = b
  BY <1>1, Digits
<1>4. r * w + b \in 0..n * w - 1
  <2>1. (r + 1) * w <= n * w
    BY <1>1, MultiplesGrow
  <2>2. (r + 1) * w = r * w + w
    OBVIOUS
  <2>3. r * w \in Nat /\ n * w \in Nat
    BY MultipleIs
  <2> QED
    BY <2>1, <2>2, <2>3
<1> QED
  BY <1>1, <1>2, <1>3, <1>4

\* Core c copies rows of its half, from row lo on: row n of the copy begins at from[n].
Copies(c, lo, from) ==
  LET source == Written(HalfOf(c) + lo, from)
  IN spilled' = [a \in DOMAIN spilled |-> IF source[a] >= 0 THEN turned[c][source[a]] ELSE spilled[a]]

LEMMA CopyIs ==
  ASSUME QuantTypeOK, NEW c \in Both, NEW lo \in Nat, NEW from, Copies(c, lo, from),
         NEW r \in Nat, r < quant.tokens, NEW p \in 0..QH - 1
  PROVE  LET row == r - (HalfOf(c) + lo)
             source == IF row \in DOMAIN from THEN from[row] + p ELSE -1
         IN spilled'[r * QH + p] = IF source >= 0 THEN turned[c][source] ELSE spilled[r * QH + p]
<1> DEFINE row == r - (HalfOf(c) + lo)
           source == Written(HalfOf(c) + lo, from)
<1>0. IsCall
  BY DEF QuantTypeOK
<1>1. PICK a : a = r * QH + p
  OBVIOUS
<1>2. a \in DOMAIN spilled /\ a \div QH = r /\ a % QH = p
  BY <1>0, <1>1, HbmPlace DEF QuantTypeOK
<1>3. source[a] = IF row \in DOMAIN from THEN from[row] + p ELSE -1
  BY <1>2 DEF Written
<1>4. spilled'[a] = IF source[a] >= 0 THEN turned[c][source[a]] ELSE spilled[a]
  BY <1>2 DEF Copies
<1> HIDE DEF row, source
<1> QED
  BY <1>1, <1>3, <1>4 DEF row

LEMMA Beyond == -1 \in Int /\ ~(-1 >= 0)
OBVIOUS

\* What that leaves in a row it does not copy to, and in one it does.
LEMMA RowKept ==
  ASSUME QuantTypeOK, NEW c \in Both, NEW lo \in Nat, NEW from, Copies(c, lo, from), quant' = quant,
         NEW r \in Nat, r < quant.tokens, r - (HalfOf(c) + lo) \notin DOMAIN from, SpilledRow(r)
  PROVE  SpilledRow(r)'
<1>1. QH' = QH /\ \A t, p : TokenSum(t, p)' = TokenSum(t, p)
  BY SameCall
<1>2. ASSUME NEW p \in 0..QH - 1
      PROVE  spilled'[r * QH + p] = spilled[r * QH + p]
  <2>1. spilled'[r * QH + p] = IF -1 >= 0 THEN turned[c][-1] ELSE spilled[r * QH + p]
    BY CopyIs
  <2> QED
    BY <2>1, Beyond, Zenon
<1> QED
  BY <1>1, <1>2 DEF SpilledRow

FromTurned(from, lo, t) == \A p \in 0..QH - 1 : from[t - lo] + p = TurnedPlaceOf(t, p)

LEMMA TurnedPlaceIs ==
  ASSUME IsCall, NEW t \in 0..Half - 1, NEW p \in 0..QH - 1
  PROVE  TurnedPlaceOf(t, p) \in Nat
<1>1. IsElement(TurnedPlaceOf(t, p), TurnedTiles, QH, t % Partitions, t \div Partitions, p)
  BY DEF TurnedPlaceOf, IsElement
<1>2. HasDigits(TurnedPlaceOf(t, p), Partitions, TurnedTiles, QH, t % Partitions, t \div Partitions, p)
  BY <1>1, TurnedPlace
<1>3. TurnedPlaceOf(t, p) \in 0..Partitions * TurnedTiles * QH - 1
  BY <1>2 DEF HasDigits
<1> QED
  BY <1>3, IsNatural

LEMMA NaturalIsNotBeyond == \A x \in Nat : x >= 0
OBVIOUS

LEMMA RowCopied ==
  ASSUME QuantTypeOK, NEW c \in Both, NEW lo \in Nat, NEW from, Copies(c, lo, from), quant' = quant,
         NEW t \in 0..Half - 1, NEW r \in Nat, r = HalfOf(c) + t, r < quant.tokens, t - lo \in DOMAIN from,
         r - (HalfOf(c) + lo) = t - lo, FromTurned(from, lo, t), TurnedRow(c, t)
  PROVE  SpilledRow(r)'
<1>0. IsCall
  BY DEF QuantTypeOK
<1>1. QH' = QH /\ HalfOf(c)' = HalfOf(c) /\ \A s, p : TokenSum(s, p)' = TokenSum(s, p)
  BY SameCall
<1>2. ASSUME NEW p \in 0..QH - 1
      PROVE  spilled'[r * QH + p] = TokenSum(r, p)
  <2>1. PICK x \in Nat : x = TurnedPlaceOf(t, p)
    BY <1>0, TurnedPlaceIs
  <2>2. from[t - lo] + p = x
    BY <2>1 DEF FromTurned
  <2>3. LET source == IF t - lo \in DOMAIN from THEN from[t - lo] + p ELSE -1
        IN spilled'[r * QH + p] = IF source >= 0 THEN turned[c][source] ELSE spilled[r * QH + p]
    <3>1. LET row == r - (HalfOf(c) + lo)
              source == IF row \in DOMAIN from THEN from[row] + p ELSE -1
          IN spilled'[r * QH + p] = IF source >= 0 THEN turned[c][source] ELSE spilled[r * QH + p]
      BY CopyIs
    <3> QED
      BY <3>1, Zenon
  <2>4. spilled'[r * QH + p] = IF x >= 0 THEN turned[c][x] ELSE spilled[r * QH + p]
    BY <2>2, <2>3, Zenon
  <2>5. spilled'[r * QH + p] = turned[c][x]
    BY <2>4, NaturalIsNotBeyond, Zenon
  <2> QED
    BY <2>1, <2>5 DEF TurnedRow
<1> QED
  BY <1>1, <1>2 DEF SpilledRow

\* Rows of either half, counted from where it begins.
LEMMA RowsOf ==
  ASSUME IsCall, NEW c \in Both, NEW d \in Both, NEW lo \in Nat, NEW hi \in Nat, hi <= Half,
         NEW n \in Nat, n <= Half, NEW t \in 0..n - 1
  PROVE  /\ t \in 0..Half - 1 /\ HalfOf(d) + t \in Nat /\ HalfOf(d) + t < quant.tokens
         /\ d = c => (HalfOf(d) + t) - (HalfOf(c) + lo) = t - lo
         /\ d # c => (HalfOf(d) + t) - (HalfOf(c) + lo) \notin 0..hi - lo - 1
         /\ t < lo => t - lo \notin 0..hi - lo - 1 /\ t \in 0..lo - 1
         /\ t >= lo /\ n = hi => t - lo \in 0..hi - lo - 1 /\ t \in lo..hi - 1
<1>1. PICK h \in Nat, g \in Nat : h = HalfOf(c) /\ g = HalfOf(d)
  BY HalvesAre
<1>2. PICK w \in Nat : w = Half /\ quant.tokens = w + w
  BY QuantFacts
<1>3. (d = c /\ g = h /\ h <= w) \/ (d # c /\ ((h = 0 /\ g = w) \/ (h = w /\ g = 0)))
  BY <1>1, <1>2, QuantFacts DEF Both
<1>4. t \in 0..w - 1 /\ g + t \in Nat /\ g + t < quant.tokens
  BY <1>2, <1>3
<1>5. d = c => (g + t) - (h + lo) = t - lo
  BY <1>3
<1>6. d # c => (g + t) - (h + lo) \notin 0..hi - lo - 1
  BY <1>2, <1>3
<1>7. /\ t < lo => t - lo \notin 0..hi - lo - 1 /\ t \in 0..lo - 1
      /\ t >= lo /\ n = hi => t - lo \in 0..hi - lo - 1 /\ t \in lo..hi - 1
  OBVIOUS
<1> QED
  BY <1>1, <1>2, <1>4, <1>5, <1>6, <1>7

LEMMA CopyExtends ==
  ASSUME QuantTypeOK, NEW c \in Both, NEW lo \in Nat, NEW hi \in Nat, lo <= hi, hi <= Half, NEW from,
         DOMAIN from = 0..hi - lo - 1, Copies(c, lo, from), quant' = quant,
         \A t \in lo..hi - 1 : FromTurned(from, lo, t), \A t \in 0..Half - 1 : TurnedRow(c, t),
         SpilledUpTo(c, lo)
  PROVE  SpilledUpTo(c, hi)'
<1>0. IsCall /\ HalfOf(c)' = HalfOf(c)
  BY SameCall DEF QuantTypeOK
<1>1. ASSUME NEW t \in 0..hi - 1, NEW r \in Nat, r = HalfOf(c) + t
      PROVE  SpilledRow(r)'
  <2>1. /\ t \in 0..Half - 1 /\ r < quant.tokens /\ r - (HalfOf(c) + lo) = t - lo
        /\ t < lo => t - lo \notin 0..hi - lo - 1 /\ t \in 0..lo - 1
        /\ t >= lo => t - lo \in 0..hi - lo - 1 /\ t \in lo..hi - 1
    BY <1>0, <1>1, RowsOf
  <2>2. CASE t < lo
    <3>1. SpilledRow(r)
      BY <1>1, <2>1, <2>2 DEF SpilledUpTo
    <3>2. r - (HalfOf(c) + lo) \notin DOMAIN from
      BY <2>1, <2>2
    <3> QED
      BY <2>1, <3>1, <3>2, RowKept
  <2>3. CASE t >= lo
    BY <1>1, <2>1, <2>3, RowCopied
  <2>4. t < lo \/ t >= lo
    OBVIOUS
  <2> QED
    BY <2>2, <2>3, <2>4
<1>2. ASSUME NEW t \in 0..hi - 1
      PROVE  SpilledRow(HalfOf(c) + t)'
  <2>1. HalfOf(c) + t \in Nat
    BY <1>0, RowsOf
  <2>2. PICK r \in Nat : r = HalfOf(c) + t
    BY <2>1
  <2>3. SpilledRow(r)'
    BY <1>1, <2>2
  <2> QED
    BY <1>0, <2>2, <2>3
<1> QED
  BY <1>2 DEF SpilledUpTo

LEMMA CopyLeaves ==
  ASSUME QuantTypeOK, NEW c \in Both, NEW d \in Both, d # c, NEW lo \in Nat, NEW hi \in Nat, hi <= Half,
         NEW from, DOMAIN from = 0..hi - lo - 1, Copies(c, lo, from), quant' = quant,
         NEW n \in Nat, n <= Half, SpilledUpTo(d, n)
  PROVE  SpilledUpTo(d, n)'
<1>0. IsCall /\ HalfOf(d)' = HalfOf(d)
  BY SameCall DEF QuantTypeOK
<1>1. ASSUME NEW t \in 0..n - 1
      PROVE  SpilledRow(HalfOf(d) + t)'
  <2>1. /\ HalfOf(d) + t \in Nat /\ HalfOf(d) + t < quant.tokens
        /\ (HalfOf(d) + t) - (HalfOf(c) + lo) \notin 0..hi - lo - 1
    BY <1>0, RowsOf
  <2>2. PICK r \in Nat : r = HalfOf(d) + t
    BY <2>1
  <2>3. SpilledRow(r)
    BY <2>2 DEF SpilledUpTo
  <2>4. SpilledRow(r)'
    BY <2>1, <2>2, <2>3, RowKept
  <2> QED
    BY <1>0, <2>2, <2>4
<1> QED
  BY <1>1 DEF SpilledUpTo

\* A step by core c that copies the rows lo..hi - 1 of its half.
Spills(c, lo, hi) == SpilledTo(c) = lo /\ SpilledTo(c)' = hi

LEMMA SpillKeeps ==
  ASSUME QuantInv, NEW c \in Both, NEW lo \in Nat, NEW hi \in Nat, lo <= hi, hi <= Half, NEW from, NEW to,
         DOMAIN from = 0..hi - lo - 1, Copies(c, lo, from), Spills(c, lo, hi),
         AlignedTiles => \A t \in lo..hi - 1 : FromTurned(from, lo, t),
         doing[c] \in {"spill", "spill rest"}, to \in {"spill rest", "done"}, doing' = [doing EXCEPT ![c] = to],
         UNCHANGED <<quant, finished, sums, rows, packed, shipped, turned>>
  PROVE  QuantInv'
<1>1. QuantTypeOK /\ HalfInv(c) /\ IsCall /\ quant.residual
  BY DEF QuantInv, QuantTypeOK, HalfInv, InStage
<1>2. doing'[c] = to /\ \A d \in Both \ {c} : doing'[d] = doing[d]
  BY <1>1 DEF QuantTypeOK
<1>3. \A d \in Both \ {c} : LeavesAlone(d)
  BY <1>2 DEF LeavesAlone
<1>4. QuantTypeOK'
  <2>1. IsCall' /\ QH' = QH
    BY <1>1, SameCall
  <2>2. doing' \in [Both -> Stages]
    BY <1>1 DEF QuantTypeOK, Stages, Spilling
  <2>3. DOMAIN spilled' = DOMAIN spilled
    BY DEF Copies
  <2> QED
    BY <1>1, <2>1, <2>2, <2>3 DEF QuantTypeOK
<1>5. Progress(c)' = Progress(c)
  BY <1>2, SameCall DEF Progress
<1>6. HasRows(c)' /\ HasSums(c)' /\ HasShipped(c)'
  BY <1>1, <1>5, RowsKeep, SumsKeep, ShippedKeeps DEF HalfInv
<1>7. HasPacks(c)'
  <2>1. \A pipe \in 1..2 : Took(c, pipe)
    BY DEF Took, Spilling
  <2> QED
    BY <1>1, <1>5, <2>1, PacksKeep DEF HalfInv
<1>8. InStage(c)' /\ HasTurned(c)'
  <2>1. HasTurned(c)'
    BY <1>1, TurnedKeeps DEF HalfInv
  <2> QED
    BY <1>1, <1>2, <2>1 DEF InStage
<1>9. HalfInv(c)'
  BY <1>6, <1>7, <1>8 DEF HalfInv
<1>10. \A d \in Both : HalfInv(d)'
  BY <1>3, <1>9, OtherHalfKeeps DEF QuantInv
<1>11. AlignedTiles' <=> AlignedTiles
  BY SameCall
<1>12. AlignedTiles => SpilledUpTo(c, hi)'
  <2> SUFFICES ASSUME AlignedTiles
               PROVE  SpilledUpTo(c, hi)'
    OBVIOUS
  <2>1. SpilledUpTo(c, lo)
    BY DEF QuantInv, HasSpilled, Spills
  <2>2. \A t \in 0..Half - 1 : TurnedRow(c, t)
    BY <1>1 DEF HalfInv, HasTurned
  <2> QED
    BY <1>1, <2>1, <2>2, CopyExtends
<1>13. ASSUME NEW d \in Both \ {c}
       PROVE  AlignedTiles => SpilledUpTo(d, SpilledTo(d))'
  <2> SUFFICES ASSUME AlignedTiles
               PROVE  SpilledUpTo(d, SpilledTo(d))'
    OBVIOUS
  <2>1. PICK n \in Nat : n = SpilledTo(d) /\ n <= Half
    BY <1>1, ProgressIs
  <2>2. SpilledUpTo(d, n)
    BY <2>1 DEF QuantInv, HasSpilled
  <2>3. SpilledUpTo(d, n)'
    BY <1>1, <2>1, <2>2, CopyLeaves
  <2>4. SpilledTo(d)' = n
    BY <1>3, <2>1, SameCall DEF LeavesAlone, SpilledTo
  <2> QED
    BY <2>3, <2>4 DEF SpilledUpTo
<1>14. ASSUME NEW d \in Both
       PROVE  HasSpilled(d)'
  <2>1. CASE d = c
    <3>1. SpilledTo(c)' = hi
      BY DEF Spills
    <3> QED
      BY <1>11, <1>12, <2>1, <3>1 DEF HasSpilled, SpilledUpTo
  <2>2. CASE d # c
    BY <1>11, <1>13, <2>2 DEF HasSpilled
  <2> QED
    BY <2>1, <2>2
<1> QED
  BY <1>4, <1>10, <1>14 DEF QuantInv

LEMMA SpillFullKeeps ==
  ASSUME QuantInv, NEW c \in Both, SpillFull(c)
  PROVE  QuantInv'
<1> DEFINE width == IF FullTiles > 1 THEN FullTiles ELSE TurnedTiles
           hi == FullTiles * Partitions
           from == [row \in 0..hi - 1 |-> (row % Partitions) * width * QH + (row \div Partitions) * QH]
           to == IF Remainder = 0 THEN "done" ELSE "spill rest"
<1>1. QuantTypeOK /\ IsCall /\ doing[c] = "spill" /\ quant.residual
  BY DEF QuantInv, QuantTypeOK, SpillFull, HalfInv, InStage
<1>2. /\ doing' = [doing EXCEPT ![c] = to]
      /\ UNCHANGED <<quant, finished, sums, rows, packed, shipped, turned>>
  BY DEF SpillFull
<1>3. hi \in Nat /\ hi <= Half /\ 0 <= hi
  BY <1>1, ProgressIs
<1>4. Copies(c, 0, from)
  <2>1. HalfOf(c) + 0 = HalfOf(c)
    BY <1>1, HalvesAre
  <2> QED
    BY <2>1 DEF SpillFull, Copies
<1>5. Spills(c, 0, hi)
  <2>1. SpilledTo(c) = 0
    BY <1>1 DEF SpilledTo
  <2>2. doing'[c] = to
    BY <1>1, <1>2 DEF QuantTypeOK
  <2>3. quant.residual' /\ Half' = Half /\ FullTiles' = FullTiles
    BY <1>1, <1>2, SameCall
  <2>4. CASE Remainder = 0
    <3>1. hi = Half
      <4>1. PICK f \in Nat : f = hi
        BY <1>3
      <4> QED
        BY <1>1, <2>4, <4>1, TilesAre
    <3> QED
      BY <2>1, <2>2, <2>3, <2>4, <3>1 DEF Spills, SpilledTo
  <2>5. CASE Remainder # 0
    BY <2>1, <2>2, <2>3, <2>5 DEF Spills, SpilledTo
  <2> QED
    BY <2>4, <2>5
<1>6. ASSUME AlignedTiles, NEW t \in 0..hi - 1
      PROVE  FromTurned(from, 0, t)
  <2>1. width = TurnedTiles
    <3>1. FullTiles > 1 => TurnedTiles = FullTiles
      BY <1>1, <1>6, TilesAre DEF AlignedTiles
    <3> QED
      BY <3>1
  <2>2. t - 0 = t
    BY <1>3
  <2>3. ASSUME NEW p \in 0..QH - 1
        PROVE  from[t] + p = TurnedPlaceOf(t, p)
    <3>1. from[t] = (t % Partitions) * TurnedTiles * QH + (t \div Partitions) * QH
      BY <2>1
    <3>2. PICK u \in Nat, w \in Nat : u = TurnedTiles /\ w = QH
      BY <1>1, QuantFacts, TilesAre
    <3>3. PICK r \in Int : r = t % Partitions
      BY <1>1, <1>3, QuantFacts, DivMod
    <3>4. r * u * w = r * (u * w)
      OBVIOUS
    <3> QED
      BY <3>1, <3>2, <3>3, <3>4 DEF TurnedPlaceOf
  <2> QED
    BY <2>2, <2>3 DEF FromTurned
<1>7. DOMAIN from = 0..hi - 0 - 1
  <2>1. PICK f \in Nat : f = hi
    BY <1>3
  <2>2. f - 0 - 1 = f - 1
    OBVIOUS
  <2> QED
    BY <2>1, <2>2
<1>8. to \in {"spill rest", "done"}
  OBVIOUS
<1> HIDE DEF from, hi, to
<1> QED
  BY <1>1, <1>2, <1>3, <1>4, <1>5, <1>6, <1>7, <1>8, SpillKeeps

LEMMA SpillRestKeeps ==
  ASSUME QuantInv, NEW c \in Both, SpillRest(c)
  PROVE  QuantInv'
<1> DEFINE lo == FullTiles * Partitions
           from == [row \in 0..Remainder - 1 |-> (row * TurnedTiles + FullTiles) * QH]
<1>1. QuantTypeOK /\ IsCall /\ doing[c] = "spill rest" /\ quant.residual
  BY DEF QuantInv, QuantTypeOK, SpillRest, HalfInv, InStage
<1>2. /\ doing' = [doing EXCEPT ![c] = "done"]
      /\ UNCHANGED <<quant, finished, sums, rows, packed, shipped, turned>>
  BY DEF SpillRest
<1>3. lo \in Nat /\ Half \in Nat /\ lo <= Half /\ Half = lo + Remainder
  BY <1>1, ProgressIs, QuantFacts, TilesAre
<1>4. Copies(c, lo, from)
  BY DEF SpillRest, Copies
<1>5. Spills(c, lo, Half)
  <2>1. SpilledTo(c) = lo
    BY <1>1 DEF SpilledTo
  <2>2. doing'[c] = "done"
    BY <1>1, <1>2 DEF QuantTypeOK
  <2>3. quant.residual' /\ Half' = Half
    BY <1>1, <1>2, SameCall
  <2>4. SpilledTo(c)' = Half
    BY <2>2, <2>3 DEF SpilledTo
  <2> QED
    BY <2>1, <2>4 DEF Spills
<1>6. ASSUME NEW t \in lo..Half - 1
      PROVE  FromTurned(from, lo, t)
  <2>1. PICK m \in Nat \ {0}, f \in Nat, s \in Nat : m = Partitions /\ f = FullTiles /\ s = Remainder /\ s < m
    <3>1. PICK m \in Nat \ {0} : m = Partitions
      BY <1>1, QuantFacts
    <3>2. PICK s \in 0..m - 1 : s = Remainder
      BY <1>1, <3>1, TilesAre
    <3>3. s \in Nat /\ s < m
      OBVIOUS
    <3> QED
      BY <1>1, <3>1, <3>2, <3>3, TilesAre
  <2>2. PICK n \in Nat : n = lo /\ n = f * m
    BY <1>3, <2>1
  <2>3. PICK k \in 0..s - 1 : k = t - lo /\ t = n + k
    <3>1. Half = n + s
      BY <1>3, <2>1, <2>2
    <3>2. t \in n..n + s - 1
      BY <2>2, <3>1
    <3>3. t - n \in 0..s - 1 /\ t = n + (t - n)
      BY <3>2
    <3> QED
      BY <2>2, <3>3
  <2>4. t \div m = f /\ t % m = k
    <3>1. k \in 0..m - 1
      BY <2>1
    <3>2. (f * m + k) \div m = f /\ (f * m + k) % m = k
      BY <3>1, Digits
    <3> QED
      BY <2>2, <2>3, <3>2
  <2>5. from[t - lo] = (k * TurnedTiles + f) * QH
    BY <2>1, <2>3
  <2>6. ASSUME NEW p \in 0..QH - 1
        PROVE  from[t - lo] + p = TurnedPlaceOf(t, p)
    <3>1. PICK u \in Nat, w \in Nat : u = TurnedTiles /\ w = QH
      BY <1>1, QuantFacts, TilesAre
    <3>2. (k * u + f) * w = k * (u * w) + f * w
      <4>1. k \in Nat
        OBVIOUS
      <4>2. (k * u + f) * w = (k * u) * w + f * w
        BY <4>1
      <4>3. (k * u) * w = k * (u * w)
        BY <4>1
      <4> QED
        BY <4>2, <4>3
    <3> QED
      BY <2>1, <2>4, <2>5, <3>1, <3>2 DEF TurnedPlaceOf
  <2> QED
    BY <2>6 DEF FromTurned
<1>7. DOMAIN from = 0..Half - lo - 1
  <2>1. PICK n \in Nat, s \in Nat : n = lo /\ s = Remainder /\ Half = n + s
    <3>1. PICK m \in Nat : m = Partitions
      BY <1>1, QuantFacts
    <3>2. PICK s \in 0..m - 1 : s = Remainder
      BY <1>1, <3>1, TilesAre
    <3> QED
      BY <1>3, <3>2
  <2>2. (n + s) - n - 1 = s - 1
    OBVIOUS
  <2> QED
    BY <2>1, <2>2
<1> HIDE DEF from, lo
<1>8. Half <= Half
  BY <1>3
<1> QED
  BY <1>1, <1>2, <1>3, <1>4, <1>5, <1>6, <1>7, <1>8, SpillKeeps

LEMMA QuantStep == QuantInv /\ [QuantizeNext]_quantVars => QuantInv'
<1> SUFFICES ASSUME QuantInv, [QuantizeNext]_quantVars
             PROVE  QuantInv'
  OBVIOUS
<1>0. 1 \in 1..2 /\ 2 \in 1..2
  OBVIOUS
<1>1. CASE UNCHANGED quantVars
  <2>1. UNCHANGED <<quant, doing, finished, sums, rows, packed, shipped, turned, spilled>>
    BY <1>1 DEF quantVars
  <2>2. QuantTypeOK'
    BY <2>1, SameCall DEF QuantInv, QuantTypeOK
  <2>3. ASSUME NEW d \in Both
        PROVE  HalfInv(d)' /\ HasSpilled(d)'
    <3>1. HalfInv(d)'
      BY <2>1, OtherHalfKeeps DEF QuantInv, LeavesAlone
    <3>2. SpilledTo(d)' = SpilledTo(d)
      BY <2>1, SameCall DEF SpilledTo
    <3>3. HasSpilled(d)'
      BY <2>1, <3>2, SpilledKeeps DEF QuantInv
    <3> QED
      BY <3>1, <3>3
  <2> QED
    BY <2>2, <2>3 DEF QuantInv
<1>2. ASSUME NEW c \in Both, QuantizeTile(c)
      PROVE  QuantInv'
  BY <1>2, TileKeeps
<1>3. ASSUME NEW c \in Both, ShipQuant(c)
      PROVE  QuantInv'
  <2>1. Ship(c, 1, "ship quant", "take quant")
    BY <1>3 DEF ShipQuant
  <2>2. "take quant" \in Stages /\ {"ship quant", "take quant"} \cap (Spilling \cup {"tile"}) = {}
    BY DEF Stages, Spilling
  <2>3. "take quant" \notin {"ship scale", "take scale"}
    OBVIOUS
  <2> QED
    BY <1>0, <2>1, <2>2, <2>3, ShipKeeps
<1>4. ASSUME NEW c \in Both, ShipScale(c)
      PROVE  QuantInv'
  <2>1. Ship(c, 2, "ship scale", "take scale")
    BY <1>4 DEF ShipScale
  <2>2. "take scale" \in Stages /\ {"ship scale", "take scale"} \cap (Spilling \cup {"tile"}) = {}
    BY DEF Stages, Spilling
  <2> QED
    BY <1>0, <2>1, <2>2, ShipKeeps
<1>5. ASSUME NEW c \in Both, TakeQuant(c)
      PROVE  QuantInv'
  <2>1. Take(c, 1, "take quant", "ship scale")
    BY <1>5 DEF TakeQuant
  <2>2. "ship scale" \in Stages
    BY DEF Stages
  <2> QED
    BY <1>0, <2>1, <2>2, TakeKeeps
<1>6. ASSUME NEW c \in Both, TakeScale(c)
      PROVE  QuantInv'
  <2>1. "transpose" \in Stages /\ "done" \in Stages
    BY DEF Stages, Spilling
  <2>2. CASE quant.residual
    <3>1. Take(c, 2, "take scale", "transpose")
      BY <1>6, <2>2 DEF TakeScale
    <3> QED
      BY <1>0, <2>1, <2>2, <3>1, TakeKeeps
  <2>3. CASE ~quant.residual
    <3>1. Take(c, 2, "take scale", "done")
      BY <1>6, <2>3 DEF TakeScale
    <3> QED
      BY <1>0, <2>1, <2>3, <3>1, TakeKeeps
  <2> QED
    BY <2>2, <2>3
<1>7. ASSUME NEW c \in Both, TransposeResidual(c)
      PROVE  QuantInv'
  BY <1>7, TransposeKeeps
<1>8. ASSUME NEW c \in Both, SpillFull(c)
      PROVE  QuantInv'
  BY <1>8, SpillFullKeeps
<1>9. ASSUME NEW c \in Both, SpillRest(c)
      PROVE  QuantInv'
  BY <1>9, SpillRestKeeps
<1> QED
  BY <1>1, <1>2, <1>3, <1>4, <1>5, <1>6, <1>7, <1>8, <1>9 DEF QuantizeNext

LEMMA WholeIsInPlace == QuantInv => QuantizedInPlace
<1> SUFFICES ASSUME QuantInv, \A c \in Both : doing[c] = "done"
             PROVE  QuantizedInPlace
  BY DEF QuantizedInPlace
<1>1. IsCall /\ QuantTypeOK
  BY DEF QuantInv, QuantTypeOK
<1>2. \A c \in Both : HalfInv(c) /\ HasSpilled(c) /\ Progress(c) = Half
  BY DEF QuantInv, Progress
<1>3. \A c \in Both : \A pipe \in 1..2 : Took(c, pipe)
  BY DEF Took, Spilling
<1>4. ASSUME NEW c \in Both, NEW t \in HalfOf(c)..HalfOf(c) + Half - 1
      PROVE  /\ rows[c][t].over = TokenSums(t)
             /\ \A h \in Hidden : rows[c][t].at[h] = ValueOf(t, PositionOf(h))
  <2>1. PICK u \in 0..Half - 1 : t = HalfOf(c) + u
    BY <1>1, TokensOf
  <2>2. t \in Nat
    BY <1>1, <2>1, TokensOf
  <2>3. rows[c][t] = NormalisedRow(t)
    BY <1>2, <2>1 DEF HalfInv, HasRows
  <2> QED
    BY <1>1, <2>2, <2>3, RowIs
<1>5. ASSUME NEW c \in Both
      PROVE  packed[c] = [pipe \in 1..2 |-> [t \in TokensHere |-> Packs(t)]]
  <2>1. ASSUME NEW pipe \in 1..2, NEW t \in TokensHere
        PROVE  packed[c][pipe][t] = Packs(t)
    <3>1. PICK u \in 0..Half - 1 : t = HalfOf(c) + u \/ t = HalfOf(1 - c) + u
      BY <1>1, TokensOf
    <3>2. packed[c][pipe][HalfOf(c) + u] = Packs(HalfOf(c) + u)
      BY <1>2 DEF HalfInv, HasPacks, OwnPacked
    <3>3. packed[c][pipe][HalfOf(1 - c) + u] = Packs(HalfOf(1 - c) + u)
      BY <1>2, <1>3 DEF HalfInv, HasPacks, OthersPacked
    <3> QED
      BY <3>1, <3>2, <3>3
  <2>2. /\ packed[c] = [pipe \in 1..2 |-> packed[c][pipe]]
        /\ \A pipe \in 1..2 : packed[c][pipe] = [t \in TokensHere |-> packed[c][pipe][t]]
    BY <1>2 DEF HalfInv, HasPacks
  <2>3. \A pipe \in 1..2 : packed[c][pipe] = [t \in TokensHere |-> Packs(t)]
    BY <2>1, <2>2
  <2> QED
    BY <2>2, <2>3
<1>6. 0 \in Both /\ 1 \in Both
  BY DEF Both
<1>7. packed[0] = packed[1]
  BY <1>5, <1>6
<1>8. ASSUME NEW pipe \in 1..2, NEW t \in TokensHere
      PROVE  LET pack == packed[0][pipe][t]
             IN /\ pack.over = TokenSums(t)
                /\ UNION {{pack.at[x][q] : q \in 0..QWidth - 1} : x \in DOMAIN pack.at} = AllValues(t)
  <2>0. packed[0] = [k \in 1..2 |-> [s \in TokensHere |-> Packs(s)]]
    BY <1>5, <1>6
  <2>1. packed[0][pipe][t] = Packs(t)
    BY <2>0
  <2>2. t \in Nat
    BY IsNatural DEF TokensHere
  <2> QED
    BY <1>1, <2>1, <2>2, PackIs
<1>9. ASSUME quant.residual, AlignedTiles, NEW t \in TokensHere
      PROVE  SpilledRow(t)
  <2>1. PICK u \in 0..Half - 1 : t = HalfOf(0) + u \/ t = HalfOf(1 - 0) + u
    BY <1>1, <1>6, TokensOf
  <2>2. 1 - 0 = 1
    OBVIOUS
  <2>3. \A c \in Both : SpilledTo(c) = Half
    BY <1>9 DEF SpilledTo
  <2>4. \A c \in Both : SpilledRow(HalfOf(c) + u)
    BY <1>2, <1>9, <2>3 DEF HasSpilled, SpilledUpTo
  <2> QED
    BY <1>6, <2>1, <2>2, <2>4
<1> QED
  BY <1>4, <1>7, <1>8, <1>9
  DEF QuantizedInPlace, ValueOf, PositionOf, AllValues, TokensHere, AlignedTiles, SpilledRow

\* rmsnorm_mx_quantize_tkg.py: for any number of tokens, groups and partitions
\* the shapes accept, whichever core is ahead, when both are done each has the
\* normalised values of its half in their place, both hold every packed value of
\* every token, and the spilled sums are each at their token and position, unless
\* one DMA copies several full tiles out of a buffer that has a partial one too.
THEOREM QuantizedIsInPlace == QuantizeSpec => []QuantizedInPlace
<1>1. QuantizeInit => QuantInv
  BY QuantizeBegins
<1>2. QuantInv /\ [QuantizeNext]_quantVars => QuantInv'
  BY QuantStep
<1>3. QuantInv => QuantizedInPlace
  BY WholeIsInPlace
<1> QED
  BY <1>1, <1>2, <1>3, PTL DEF QuantizeSpec
===============================================================================
