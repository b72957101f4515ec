------------------------------ MODULE IndexProofs ------------------------------
(***************************************************************************)
(* The kernels that find and flatten indices agree with their references,  *)
(* for any matrices, chunk sizes, rows and offsets and any interleaving of *)
(* the two cores.                                                          *)
(***************************************************************************)
EXTENDS IndexKernels, SequenceTheorems, FoldProofs, TLAPS

-----------------------------------------------------------------------------
(* Flattening.  What a core has written is the last of its rows so far, or   *)
(* padding; the larger of what both have is the output.                      *)

Blocks == 0..flatten.blocks - 1
OwnRows(c) == RowOffset(c) + 1..RowOffset(c) + RowsOf(c)

\* After r rows and t tiles of the next one, core c has written block b from row e.
Wrote(c, r, t, e, b) ==
  /\ e \in OwnRows(c) /\ Lands(flatten, e, b)
  /\ \/ e <= RowOffset(c) + r
     \/ e = RowOffset(c) + r + 1 /\ b - flatten.offsets[flatten.start + e] < t * PMax

IsLastOf(c, r, t, e, b) == Wrote(c, r, t, e, b) /\ \A d \in Int : Wrote(c, r, t, d, b) => d <= e

\* The buffer a holds what core c has written.
Has(a, c, r, t) ==
  /\ a \in [Blocks -> Int]
  /\ \A b \in Blocks :
       \/ a[b] = flatten.padding /\ \A e \in Int : ~Wrote(c, r, t, e, b)
       \/ \E e \in Int : IsLastOf(c, r, t, e, b) /\ a[b] = ValueAt(flatten, e, b)
Whole(a, c) == Has(a, c, RowsOfFirst, 0)

CoreInv(c) ==
  /\ step[c] = "fill" => row[c] = 0 /\ tile[c] = 0
  /\ step[c] = "rows" => row[c] < RowsOfFirst /\ tile[c] < PartitionTiles /\ Has(partial[c], c, row[c], tile[c])
  /\ step[c] \in {"send", "receive"} => Whole(partial[c], c)
  /\ sent[c] # <<>> => Whole(sent[c], c)

IsMerged(out) ==
  \E x, y : /\ Whole(x, 0) /\ Whole(y, 1)
            /\ out = [b \in Blocks |-> IF x[b] >= y[b] THEN x[b] ELSE y[b]]

FlattenTypeOK ==
  /\ flatten \in Flattens
  /\ step \in [Cores -> {"fill", "rows", "send", "receive", "done"}]
  /\ row \in [Cores -> Nat] /\ tile \in [Cores -> Nat]
  /\ partial = [c \in Cores |-> partial[c]] /\ sent = [c \in Cores |-> sent[c]]

FlattenInv ==
  /\ FlattenTypeOK
  /\ \A c \in Cores : CoreInv(c)
  /\ output # <<>> => IsMerged(output)

LEMMA CallFacts ==
  ASSUME flatten \in Flattens
  PROVE  /\ flatten.rows \in Seq(Seq(Int)) /\ NumRows \in Nat \ {0} /\ DOMAIN flatten.rows = 1..NumRows
         /\ PartitionsPerRow \in Nat \ {0}
         /\ \A e \in 1..NumRows : /\ flatten.rows[e] \in Seq(Int) /\ Len(flatten.rows[e]) = PartitionsPerRow
                                  /\ flatten.offsets[flatten.start + e] \in Int
         /\ flatten.padding \in Int /\ flatten.blocks \in Nat \ {0} /\ PMax \in Nat \ {0} /\ flatten.start \in Nat
<1>1. /\ flatten.rows \in Seq(Seq(Int)) /\ flatten.rows # <<>> /\ flatten.rows[1] # <<>>
      /\ flatten.offsets \in Seq(Int) /\ flatten.start \in Nat /\ PMax \in Nat \ {0}
      /\ flatten.padding \in Int /\ flatten.blocks \in Nat \ {0}
      /\ Len(flatten.offsets) >= flatten.start + Len(flatten.rows)
      /\ \A i \in DOMAIN flatten.rows : Len(flatten.rows[i]) = Len(flatten.rows[1])
  BY FlattenAssumption
<1>2. Len(flatten.rows) \in Nat \ {0} /\ DOMAIN flatten.rows = 1..Len(flatten.rows)
  BY <1>1
<1>3. flatten.rows[1] \in Seq(Int)
  BY <1>1, <1>2
<1>4. Len(flatten.rows[1]) \in Nat \ {0}
  BY <1>1, <1>3
<1>5. ASSUME NEW e \in 1..Len(flatten.rows)
      PROVE  /\ flatten.rows[e] \in Seq(Int) /\ Len(flatten.rows[e]) = PartitionsPerRow
             /\ flatten.offsets[flatten.start + e] \in Int
  <2>1. PICK n \in Nat : n = Len(flatten.rows)
    BY <1>2
  <2>2. PICK m \in Nat : m = Len(flatten.offsets)
    BY <1>1
  <2>3. PICK k \in Nat : k = flatten.start
    BY <1>1
  <2>6. m >= k + n /\ e \in 1..n
    BY <1>1, <2>1, <2>2, <2>3
  <2>4. k + e \in 1..m
    BY ONLY <2>6, k \in Nat, n \in Nat, m \in Nat
  <2>7. \A i \in 1..Len(flatten.offsets) : flatten.offsets[i] \in Int
    BY <1>1, ElementOfSeq
  <2>8. flatten.rows[e] \in Seq(Int)
    BY <1>1, ElementOfSeq
  <2>5. flatten.offsets[flatten.start + e] \in Int
    BY <2>2, <2>3, <2>4, <2>6, <2>7
  <2> QED
    BY <1>1, <1>2, <2>5, <2>8 DEF PartitionsPerRow
<1> QED
  BY <1>1, <1>2, <1>4, <1>5 DEF NumRows, PartitionsPerRow

LEMMA HalfFacts ==
  ASSUME flatten \in Flattens
  PROVE  /\ RowsOfFirst \in Nat \ {0} /\ RowsOfFirst <= NumRows
         /\ \A c \in Cores : /\ RowsOf(c) \in Nat /\ RowOffset(c) \in Nat
                             /\ RowsOf(c) <= RowsOfFirst /\ RowOffset(c) + RowsOf(c) <= NumRows
                             /\ OwnRows(c) \subseteq 1..NumRows
         /\ \A e \in 1..NumRows : e \in OwnRows(0) <=> e <= RowsOfFirst
         /\ \A e \in 1..NumRows : e \in OwnRows(1) <=> RowsOfFirst < e
<1>1. NumRows \in Nat \ {0}
  BY CallFacts
<1>2. PICK n \in Nat \ {0} : n = NumRows
  BY <1>1
<1>3. (n + 1) \div 2 \in Nat \ {0} /\ (n + 1) \div 2 <= n /\ n \div 2 \in Nat /\ n \div 2 <= (n + 1) \div 2
      /\ (n + 1) \div 2 + (n \div 2) = n
  OBVIOUS
<1>4. RowsOfFirst = (n + 1) \div 2 /\ RowsOf(0) = RowsOfFirst /\ RowsOf(1) = n \div 2
      /\ RowOffset(0) = 0 /\ RowOffset(1) = RowsOfFirst
  BY <1>2 DEF RowsOfFirst, RowsOf, RowOffset
<1> QED
  BY <1>2, <1>3, <1>4 DEF OwnRows, Cores

\* The tiles of a row, and where each ends.
LEMMA TileEnds ==
  ASSUME flatten \in Flattens, NEW t \in Nat, t < PartitionTiles
  PROVE  /\ t * PMax \in Nat /\ t * PMax < PartitionsPerRow
         /\ (t + 1) * PMax = t * PMax + PMax
         /\ t + 1 = PartitionTiles => PartitionsPerRow <= t * PMax + PMax
         /\ t + 1 # PartitionTiles => t + 1 < PartitionTiles /\ t * PMax + PMax < PartitionsPerRow
<1>1. PICK n \in Nat \ {0} : n = PartitionsPerRow
  BY CallFacts
<1>2. PICK d \in Nat \ {0} : d = PMax
  BY CallFacts
<1>3. PICK q : q = PartitionTiles
  OBVIOUS
<1>4. q = (n + d - 1) \div d
  BY <1>1, <1>2, <1>3 DEF PartitionTiles
<1>5. q \in Int /\ q * d <= n + d - 1 /\ n + d - 1 < q * d + d
  BY <1>4
<1>6. \A a, b \in Int : a <= b => a * d <= b * d
  <2> TAKE a, b \in Int
  <2> HAVE a <= b
  <2>1. PICK k \in Nat : b = a + k
    BY b - a \in Nat
  <2>2. b * d = a * d + k * d /\ k * d >= 0
    BY <2>1
  <2> QED
    BY <2>2
<1>7. t * d \in Nat /\ (t + 1) * d = t * d + d /\ q * d \in Int
  BY <1>5
<1>8. t * d + d <= q * d
  BY <1>3, <1>5, <1>6, <1>7
<1>9. ASSUME t + 1 # q
      PROVE  t + 1 < q /\ t * d + d < n
  <2>1. t + 2 <= q /\ t + 2 \in Int
    BY <1>3, <1>5, <1>9
  <2>2. (t + 2) * d <= q * d
    BY <1>5, <1>6, <2>1
  <2>3. (t + 2) * d = t * d + d + d
    OBVIOUS
  <2> QED
    BY <1>5, <1>7, <2>1, <2>2, <2>3
<1>10. t + 1 = q => n <= t * d + d
  BY <1>5, <1>7
<1> QED
  BY <1>1, <1>2, <1>3, <1>5, <1>7, <1>8, <1>9, <1>10

\* After r2 rows and t2 tiles core c has written what it had after r and t, and T from row e.
WritesRow(c, r, t, r2, t2, e, T) ==
  \A b \in Blocks :
    /\ b \in T => ValueAt(flatten, e, b) \in Int
    /\ \A d \in Int : /\ Wrote(c, r2, t2, d, b) <=> Wrote(c, r, t, d, b) \/ (d = e /\ b \in T)
                      /\ Wrote(c, r, t, d, b) => d <= e

LEMMA TileIsWritten ==
  ASSUME NEW c, NEW r, NEW t, NEW r2, NEW t2, NEW a, Has(a, c, r, t),
         NEW e \in Int, NEW T, WritesRow(c, r, t, r2, t2, e, T),
         NEW a2, a2 = [b \in Blocks |-> IF b \in T THEN ValueAt(flatten, e, b) ELSE a[b]]
  PROVE  Has(a2, c, r2, t2)
<1> USE DEF WritesRow
<1>1. a2 \in [Blocks -> Int]
  BY DEF Has
<1>2. ASSUME NEW b \in Blocks
      PROVE  \/ a2[b] = flatten.padding /\ \A d \in Int : ~Wrote(c, r2, t2, d, b)
             \/ \E d \in Int : IsLastOf(c, r2, t2, d, b) /\ a2[b] = ValueAt(flatten, d, b)
  <2>1. CASE b \in T
    <3>1. IsLastOf(c, r2, t2, e, b)
      BY <2>1 DEF IsLastOf
    <3> QED
      BY <2>1, <3>1
  <2>2. CASE b \notin T
    <3>1. a2[b] = a[b]
      BY <2>2
    <3>2. \A d \in Int : Wrote(c, r2, t2, d, b) <=> Wrote(c, r, t, d, b)
      BY <2>2
    <3>3. \A d \in Int : IsLastOf(c, r2, t2, d, b) <=> IsLastOf(c, r, t, d, b)
      BY <3>2 DEF IsLastOf
    <3> QED
      BY <3>1, <3>2, <3>3 DEF Has
  <2> QED
    BY <2>1, <2>2
<1> QED
  BY <1>1, <1>2 DEF Has

\* A call's cores, their rows and what they write, in plain numbers.
LEMMA LandsMeans ==
  ASSUME flatten \in Flattens, NEW e \in 1..NumRows, NEW b \in Blocks
  PROVE  /\ b - flatten.offsets[flatten.start + e] \in Int
         /\ Lands(flatten, e, b) <=> b - flatten.offsets[flatten.start + e] \in 0..PartitionsPerRow - 1
         /\ Lands(flatten, e, b) => ValueAt(flatten, e, b) \in Int
<1>1. b \in Int
  BY CallFacts DEF Blocks
<1>2. PICK k \in Int : k = flatten.offsets[flatten.start + e]
  BY CallFacts
<1>3. PICK n \in Nat \ {0} : n = PartitionsPerRow /\ n = Len(flatten.rows[e])
  BY CallFacts
<1>4. flatten.rows[e] \in Seq(Int)
  BY CallFacts
<1>5. ASSUME b - k \in 0..n - 1
      PROVE  flatten.rows[e][b - k + 1] \in Int
  <2>1. (b - k) + 1 \in 1..n
    BY <1>1, <1>5
  <2> QED
    BY <1>3, <1>4, <2>1
<1> QED
  BY <1>1, <1>2, <1>3, <1>5 DEF Lands, ValueAt

LEMMA FillHas ==
  ASSUME flatten \in Flattens, NEW c \in Cores
  PROVE  Has([b \in Blocks |-> flatten.padding], c, 0, 0)
<1>1. ASSUME NEW b \in Blocks, NEW e \in Int, Wrote(c, 0, 0, e, b)
      PROVE  FALSE
  <2>1. e \in 1..NumRows /\ RowOffset(c) \in Nat /\ RowOffset(c) < e
    BY <1>1, HalfFacts DEF Wrote, OwnRows
  <2>2. b - flatten.offsets[flatten.start + e] >= 0
    BY <1>1, <2>1, LandsMeans DEF Wrote
  <2>3. 0 * PMax = 0
    BY CallFacts
  <2> QED
    BY <1>1, <2>1, <2>2, <2>3, LandsMeans DEF Wrote
<1> QED
  BY <1>1, CallFacts DEF Has

\* What one tile adds, for a core that has a row.
LEMMA TileOfARow ==
  ASSUME flatten \in Flattens, NEW c \in Cores, NEW r \in Nat, NEW t \in Nat,
         r < RowsOf(c), t < PartitionTiles, NEW b \in Blocks, NEW d \in Int,
         NEW e, e = RowOffset(c) + r + 1,
         NEW count, count = IF PMax <= PartitionsPerRow - t * PMax THEN PMax ELSE PartitionsPerRow - t * PMax,
         NEW hits, b \in hits <=> b - flatten.offsets[flatten.start + e] \in t * PMax..t * PMax + count - 1
  PROVE  /\ b \in hits => Lands(flatten, e, b)
         /\ Wrote(c, r, t, d, b) => d <= e
         /\ t + 1 = PartitionTiles => (Wrote(c, r + 1, 0, d, b) <=> Wrote(c, r, t, d, b) \/ (d = e /\ b \in hits))
         /\ t + 1 # PartitionTiles => (Wrote(c, r, t + 1, d, b) <=> Wrote(c, r, t, d, b) \/ (d = e /\ b \in hits))
<1>1. PICK o \in Nat : o = RowOffset(c)
  BY HalfFacts
<1>2. /\ e \in OwnRows(c) /\ OwnRows(c) \subseteq 1..NumRows /\ e = (o + r) + 1 /\ e \in Int
  <2>1. RowsOf(c) \in Nat
    BY HalfFacts
  <2> QED
    BY <1>1, <2>1, HalfFacts DEF OwnRows
<1>3. PICK p \in Int : p = b - flatten.offsets[flatten.start + e]
  BY <1>2, LandsMeans
<1>4. PICK n \in Nat \ {0} : n = PartitionsPerRow
  BY CallFacts
<1>5. PICK m \in Nat \ {0} : m = PMax
  BY CallFacts
<1>6. PICK f \in Nat : f = t * PMax
  BY TileEnds
<1>7. /\ f < n /\ (t + 1) * PMax = f + m
      /\ t + 1 = PartitionTiles => n <= f + m
      /\ t + 1 # PartitionTiles => f + m < n
  BY <1>4, <1>5, <1>6, TileEnds
<1>8. count = (IF m <= n - f THEN m ELSE n - f)
  BY <1>4, <1>5, <1>6
<1>9. b \in hits <=> p \in f..f + count - 1
  BY <1>3, <1>6
<1>10. Lands(flatten, e, b) <=> p \in 0..n - 1
  BY <1>2, <1>3, <1>4, LandsMeans
<1>11. b \in hits => p \in 0..n - 1
  BY <1>7, <1>8, <1>9
<1>12. Wrote(c, r, t, d, b) <=> /\ d \in OwnRows(c) /\ Lands(flatten, d, b)
                                /\ d <= o + r \/ (d = e /\ p < f)
  BY <1>1, <1>2, <1>3, <1>6 DEF Wrote
<1>13. 0 * PMax = 0
  BY CallFacts
<1>14. Wrote(c, r + 1, 0, d, b) <=> d \in OwnRows(c) /\ Lands(flatten, d, b) /\ d <= o + (r + 1)
  <2>1. ASSUME d \in OwnRows(c), Lands(flatten, d, b)
        PROVE  ~(b - flatten.offsets[flatten.start + d] < 0)
    BY <1>2, <2>1, LandsMeans
  <2> QED
    BY <1>1, <1>13, <2>1 DEF Wrote
<1>15. Wrote(c, r, t + 1, d, b) <=> /\ d \in OwnRows(c) /\ Lands(flatten, d, b)
                                    /\ d <= o + r \/ (d = e /\ p < f + m)
  BY <1>1, <1>2, <1>3, <1>7 DEF Wrote
<1>16. t + 1 = PartitionTiles => (Wrote(c, r + 1, 0, d, b) <=> Wrote(c, r, t, d, b) \/ (d = e /\ b \in hits))
  <2> HAVE t + 1 = PartitionTiles
  <2>1. p \in 0..n - 1 => p < f \/ b \in hits
    BY <1>7, <1>8, <1>9
  <2>2. d <= o + (r + 1) <=> d <= o + r \/ d = e
    BY <1>2
  <2> QED
    BY <1>2, <1>10, <1>11, <1>12, <1>14, <2>1, <2>2
<1>17. t + 1 # PartitionTiles => (Wrote(c, r, t + 1, d, b) <=> Wrote(c, r, t, d, b) \/ (d = e /\ b \in hits))
  <2> HAVE t + 1 # PartitionTiles
  <2>1. p \in 0..n - 1 => (p < f + m <=> p < f \/ b \in hits)
    BY <1>7, <1>8, <1>9
  <2> QED
    BY <1>2, <1>10, <1>11, <1>12, <1>15, <2>1
<1>18. Wrote(c, r, t, d, b) => d <= e
  BY <1>2, <1>12
<1> QED
  BY <1>10, <1>11, <1>16, <1>17, <1>18

\* A core without a row in an iteration writes nothing.
LEMMA NoRowNothing ==
  ASSUME flatten \in Flattens, NEW c \in Cores, NEW r \in Nat, NEW t \in Nat, NEW r2 \in Nat, NEW t2 \in Nat,
         RowsOf(c) <= r, RowsOf(c) <= r2, NEW a, Has(a, c, r, t)
  PROVE  Has(a, c, r2, t2)
<1>1. PICK o \in Nat : o = RowOffset(c)
  BY HalfFacts
<1>2. PICK n \in Nat : n = RowsOf(c)
  BY HalfFacts
<1>3. ASSUME NEW b, NEW d \in Int
      PROVE  Wrote(c, r2, t2, d, b) <=> Wrote(c, r, t, d, b)
  <2>1. d \in OwnRows(c) <=> d \in o + 1..o + n
    BY <1>1, <1>2 DEF OwnRows
  <2>2. d \in OwnRows(c) => d <= o + r /\ d <= o + r2
    BY <1>1, <1>2, <2>1
  <2> QED
    BY <1>1, <2>2 DEF Wrote
<1>4. \A b, d : d \in Int => (IsLastOf(c, r2, t2, d, b) <=> IsLastOf(c, r, t, d, b))
  BY <1>3 DEF IsLastOf
<1> QED
  BY <1>3, <1>4 DEF Has

\* The buffer after a tile, as the step of the core has it.
AfterTile(c) ==
  LET first == tile[c] * PMax
      count == IF PMax <= PartitionsPerRow - first THEN PMax ELSE PartitionsPerRow - first
  IN [b \in Blocks |-> LET p == b - OffsetOf(c)
                       IN IF p \in first..first + count - 1 THEN RowRead(c)[p + 1] ELSE partial[c][b]]

LEMMA TileHas ==
  ASSUME flatten \in Flattens, \A f \in Flattens : Mergeable(f), NEW c \in Cores,
         row[c] \in Nat, tile[c] \in Nat, row[c] < RowsOfFirst, tile[c] < PartitionTiles,
         Has(partial[c], c, row[c], tile[c])
  PROVE  /\ tile[c] + 1 = PartitionTiles => Has(AfterTile(c), c, row[c] + 1, 0)
         /\ tile[c] + 1 # PartitionTiles => Has(AfterTile(c), c, row[c], tile[c] + 1)
<1>1. PICK r \in Nat : r = row[c]
  OBVIOUS
<1>2. PICK t \in Nat : t = tile[c]
  OBVIOUS
<1>3. PICK o \in Nat : o = RowOffset(c)
  BY HalfFacts
<1>4. PICK n \in Nat : n = RowsOf(c)
  BY HalfFacts
<1>5. PICK count : count = IF PMax <= PartitionsPerRow - t * PMax THEN PMax ELSE PartitionsPerRow - t * PMax
  OBVIOUS
<1>6. AfterTile(c) = [b \in Blocks |-> IF b - OffsetOf(c) \in t * PMax..t * PMax + count - 1
                                       THEN RowRead(c)[b - OffsetOf(c) + 1] ELSE partial[c][b]]
  BY <1>2, <1>5 DEF AfterTile
<1>7. CASE r < n
  <2>1. PICK e \in Int : e = o + r + 1
    BY <1>1, <1>3
  <2>2. e \in OwnRows(c) /\ e \in 1..NumRows
    BY <1>3, <1>4, <1>7, <2>1, HalfFacts DEF OwnRows
  <2>3. OffsetOf(c) = flatten.offsets[flatten.start + e]
    <3>1. flatten.start + o + r + 1 = flatten.start + e
      BY <2>1, CallFacts
    <3> QED
      BY <1>1, <1>3, <1>4, <1>7, <3>1 DEF OffsetOf
  <2>4. RowRead(c) = flatten.rows[e]
    <3>1. PICK m \in Nat : m = NumRows
      BY CallFacts
    <3>2. r + o <= m - 1 /\ (r + o) + 1 = e
      BY <2>1, <2>2, <3>1
    <3> QED
      BY <1>1, <1>3, <3>1, <3>2 DEF RowRead
  <2> DEFINE T == {b \in Blocks : b - flatten.offsets[flatten.start + e] \in t * PMax..t * PMax + count - 1}
  <2>5. AfterTile(c) = [b \in Blocks |-> IF b \in T THEN ValueAt(flatten, e, b) ELSE partial[c][b]]
    BY <1>6, <2>3, <2>4 DEF ValueAt
  <2>6. \A b \in Blocks, d \in Int :
          /\ b \in T => Lands(flatten, e, b)
          /\ Wrote(c, r, t, d, b) => d <= e
          /\ t + 1 = PartitionTiles => (Wrote(c, r + 1, 0, d, b) <=> Wrote(c, r, t, d, b) \/ (d = e /\ b \in T))
          /\ t + 1 # PartitionTiles => (Wrote(c, r, t + 1, d, b) <=> Wrote(c, r, t, d, b) \/ (d = e /\ b \in T))
    <3> TAKE b \in Blocks, d \in Int
    <3>1. b \in T <=> b - flatten.offsets[flatten.start + e] \in t * PMax..t * PMax + count - 1
      OBVIOUS
    <3>2. r < RowsOf(c) /\ t < PartitionTiles /\ e = RowOffset(c) + r + 1
      BY <1>2, <1>3, <1>4, <1>7, <2>1
    <3> HIDE DEF T
    <3> QED
      BY <1>5, <3>1, <3>2, TileOfARow
  <2>7. \A b \in Blocks : b \in T => ValueAt(flatten, e, b) \in Int
    BY <2>2, <2>6, LandsMeans
  <2> HIDE DEF T
  <2>8. Has(partial[c], c, r, t)
    BY <1>1, <1>2
  <2>9. CASE t + 1 = PartitionTiles
    <3>2. \A b \in Blocks, d \in Int : Wrote(c, r + 1, 0, d, b) <=> Wrote(c, r, t, d, b) \/ (d = e /\ b \in T)
      BY <2>6, <2>9
    <3>3. WritesRow(c, r, t, r + 1, 0, e, T)
      BY <2>6, <2>7, <3>2 DEF WritesRow
    <3>1. Has(AfterTile(c), c, r + 1, 0)
      BY <2>1, <2>5, <2>8, <3>3, TileIsWritten
    <3> QED
      BY <1>1, <1>2, <2>9, <3>1
  <2>10. CASE t + 1 # PartitionTiles
    <3>2. \A b \in Blocks, d \in Int : Wrote(c, r, t + 1, d, b) <=> Wrote(c, r, t, d, b) \/ (d = e /\ b \in T)
      BY <2>6, <2>10
    <3>3. WritesRow(c, r, t, r, t + 1, e, T)
      BY <2>6, <2>7, <3>2 DEF WritesRow
    <3>1. Has(AfterTile(c), c, r, t + 1)
      BY <2>1, <2>5, <2>8, <3>3, TileIsWritten
    <3> QED
      BY <1>1, <1>2, <2>10, <3>1
  <2> QED
    BY <2>9, <2>10
<1>8. CASE n <= r
  <2>1. OffsetOf(c) = InvalidOffset
    BY <1>1, <1>4, <1>8 DEF OffsetOf
  <2>11. PICK k \in Nat : InvalidOffset = 0 - k /\ k = 1000000
    BY SMT DEF InvalidOffset
  <2>2. PICK m \in Nat : m = PartitionsPerRow
    BY CallFacts
  <2>12. m + InvalidOffset <= 0
    BY <2>2 DEF Mergeable, PartitionsPerRow
  <2>3. m <= 1000000
    BY <2>11, <2>12
  <2>4. PICK p \in Nat : p = PMax
    BY CallFacts
  <2>5. PICK f \in Nat : f = t * PMax
    BY <1>2, TileEnds
  <2>6. f + count <= m
    BY <1>2, <1>5, <2>2, <2>4, <2>5
  <2>7. count \in Int
    BY <1>5, <2>2, <2>4, <2>5
  <2>8. \A b \in Blocks : b - OffsetOf(c) \notin f..f + count - 1
    <3> TAKE b \in Blocks
    <3>1. b \in Nat
      BY CallFacts DEF Blocks
    <3> QED
      BY <2>1, <2>3, <2>6, <2>7, <2>11, <3>1
  <2>9. AfterTile(c) = partial[c]
    <3>1. partial[c] \in [Blocks -> Int]
      BY DEF Has
    <3> QED
      BY <1>6, <2>5, <2>8, <3>1
  <2>10. Has(AfterTile(c), c, r + 1, 0) /\ Has(AfterTile(c), c, r, t + 1)
    BY <1>1, <1>2, <1>4, <1>8, <2>9, NoRowNothing
  <2> QED
    BY <1>1, <1>2, <2>10
<1> QED
  BY <1>1, <1>4, <1>7, <1>8

LEMMA FlattenBegins == FlattenInit => FlattenInv
<1> SUFFICES ASSUME FlattenInit
             PROVE  FlattenInv
  OBVIOUS
<1>1. FlattenTypeOK
  BY DEF FlattenInit, FlattenTypeOK, Cores
<1>2. \A c \in Cores : CoreInv(c)
  BY DEF FlattenInit, CoreInv, Cores
<1> QED
  BY <1>1, <1>2 DEF FlattenInit, FlattenInv

\* The operators above depend on the call alone.
LEMMA CallStays ==
  ASSUME flatten' = flatten
  PROVE  /\ Blocks' = Blocks /\ RowsOfFirst' = RowsOfFirst /\ PartitionTiles' = PartitionTiles
         /\ \A a, c, r, t : Has(a, c, r, t)' <=> Has(a, c, r, t)
         /\ \A a, c : Whole(a, c)' <=> Whole(a, c)
BY DEF Has, Whole, IsLastOf, Wrote, Blocks, OwnRows, Lands, ValueAt, RowOffset, RowsOf,
       RowsOfFirst, NumRows, PartitionTiles, PartitionsPerRow

\* What the core that does not move has stays.
LEMMA OtherCoreKeeps ==
  ASSUME FlattenInv, NEW c \in Cores, flatten' = flatten,
         step'[c] = step[c], row'[c] = row[c], tile'[c] = tile[c], partial'[c] = partial[c], sent'[c] = sent[c]
  PROVE  CoreInv(c)'
<1>1. CoreInv(c)
  BY DEF FlattenInv
<1>2. step[c] = "rows" => Has(partial[c], c, row[c], tile[c])'
  BY <1>1, CallStays DEF CoreInv
<1>3. step[c] \in {"send", "receive"} => Whole(partial[c], c)'
  BY <1>1, CallStays DEF CoreInv
<1>4. sent[c] # <<>> => Whole(sent[c], c)'
  BY <1>1, CallStays DEF CoreInv
<1> QED
  BY <1>1, <1>2, <1>3, <1>4, CallStays DEF CoreInv

LEMMA OutputKeeps ==
  ASSUME FlattenInv, flatten' = flatten, output' = output
  PROVE  output' # <<>> => IsMerged(output)'
<1>1. Blocks' = Blocks /\ \A x, y : (Whole(x, 0)' <=> Whole(x, 0)) /\ (Whole(y, 1)' <=> Whole(y, 1))
  BY CallStays
<1> QED
  BY <1>1 DEF FlattenInv, IsMerged

LEMMA FlattenNextKeeps ==
  ASSUME \A f \in Flattens : Mergeable(f), FlattenInv, FlattenNext
  PROVE  FlattenInv'
<1> USE DEF Cores
<1>1. PICK c \in Cores : Fill(c) \/ WriteTile(c) \/ Send(c) \/ Receive(c)
  BY DEF FlattenNext
<1>2. PICK other \in Cores : other = 1 - c /\ \A x \in Cores : x = c \/ x = other
  OBVIOUS
<1>3. FlattenTypeOK /\ flatten \in Flattens /\ CoreInv(c) /\ CoreInv(other)
  BY DEF FlattenInv, FlattenTypeOK
<1>4. flatten' = flatten
  BY <1>1 DEF Fill, WriteTile, Send, Receive
<1>5. RowsOfFirst \in Nat \ {0} /\ PartitionTiles \in Nat \ {0}
  <2>1. PICK n \in Nat \ {0} : n = PartitionsPerRow
    BY CallFacts, <1>3
  <2>2. PICK m \in Nat \ {0} : m = PMax
    BY CallFacts, <1>3
  <2>3. (n + m - 1) \div m \in Nat \ {0}
    <3>1. PICK q \in Int : q = (n + m - 1) \div m
      OBVIOUS
    <3>2. n + m - 1 < q * m + m /\ q * m <= n + m - 1
      BY <3>1
    <3>3. q <= 0 => q * m <= 0
      BY <3>1
    <3> QED
      BY <3>1, <3>2, <3>3
  <2> QED
    BY <1>3, <2>1, <2>2, <2>3, HalfFacts DEF PartitionTiles
<1>6. CASE Fill(c)
  <2>1. FlattenTypeOK'
    BY <1>3, <1>6 DEF Fill, FlattenTypeOK
  <2>2. partial'[c] = [b \in Blocks |-> flatten.padding] /\ step'[c] = "rows" /\ row'[c] = 0 /\ tile'[c] = 0
    BY <1>3, <1>6 DEF Fill, FlattenTypeOK, CoreInv, Blocks
  <2>3. Has(partial'[c], c, 0, 0)
    BY <1>3, <2>2, FillHas
  <2>4. CoreInv(c)'
    BY <1>3, <1>4, <1>5, <1>6, <2>2, <2>3, CallStays DEF CoreInv, Fill
  <2>5. CoreInv(other)'
    BY <1>2, <1>3, <1>4, <1>6, OtherCoreKeeps DEF Fill, FlattenTypeOK, FlattenInv
  <2> QED
    BY <1>2, <1>4, <1>6, <2>1, <2>4, <2>5, OutputKeeps DEF FlattenInv, Fill
<1>7. CASE WriteTile(c)
  <2>1. /\ row[c] \in Nat /\ tile[c] \in Nat /\ row[c] < RowsOfFirst /\ tile[c] < PartitionTiles
        /\ Has(partial[c], c, row[c], tile[c])
    BY <1>3, <1>7 DEF WriteTile, FlattenTypeOK, CoreInv
  <2>2. FlattenTypeOK'
    <3>1. row' \in [Cores -> Nat] /\ tile' \in [Cores -> Nat]
      BY <1>3, <1>7, <2>1 DEF WriteTile, FlattenTypeOK
    <3>2. step' \in [Cores -> {"fill", "rows", "send", "receive", "done"}]
      BY <1>3, <1>7, <2>1 DEF WriteTile, FlattenTypeOK
    <3>3. partial' = [x \in Cores |-> partial'[x]]
      BY <1>3, <1>7 DEF WriteTile, FlattenTypeOK
    <3> QED
      BY <1>3, <1>7, <3>1, <3>2, <3>3 DEF WriteTile, FlattenTypeOK
  <2>3. partial'[c] = AfterTile(c)
    <3>1. DOMAIN partial[c] = Blocks
      BY <2>1 DEF Has
    <3> QED
      BY <1>3, <1>7, <3>1 DEF WriteTile, AfterTile, FlattenTypeOK
  <2>8. (sent[c] # <<>> => Whole(sent[c], c)') /\ sent'[c] = sent[c]
    BY <1>3, <1>4, <1>7, CallStays DEF CoreInv, WriteTile
  <2>4. ASSUME tile[c] + 1 = PartitionTiles
        PROVE  CoreInv(c)'
    <3>1. Has(partial'[c], c, row[c] + 1, 0)
      BY <1>3, <2>1, <2>3, <2>4, TileHas
    <3>2. tile'[c] = 0 /\ row'[c] = row[c] + 1 /\ sent'[c] = sent[c]
          /\ step'[c] = IF row[c] + 1 = RowsOfFirst THEN "send" ELSE "rows"
      BY <1>3, <1>7, <2>4 DEF WriteTile, FlattenTypeOK
    <3>3. CASE row[c] + 1 = RowsOfFirst
      <4>1. Whole(partial[c], c)'
        BY <1>4, <3>1, <3>3, CallStays DEF Whole
      <4>2. step'[c] = "send"
        BY <3>2, <3>3
      <4> QED
        BY <2>8, <4>1, <4>2 DEF CoreInv
    <3>4. CASE row[c] + 1 # RowsOfFirst
      <4>1. row[c] + 1 < RowsOfFirst
        BY <1>5, <2>1, <3>4
      <4>2. step'[c] = "rows" /\ (row[c] < RowsOfFirst)' /\ (tile[c] < PartitionTiles)'
        BY <1>4, <1>5, <3>2, <3>4, <4>1, CallStays
      <4>3. Has(partial[c], c, row[c], tile[c])'
        BY <1>4, <3>1, <3>2, CallStays
      <4> QED
        BY <2>8, <4>2, <4>3 DEF CoreInv
    <3> QED
      BY <3>3, <3>4
  <2>5. ASSUME tile[c] + 1 # PartitionTiles
        PROVE  CoreInv(c)'
    <3>1. Has(partial'[c], c, row[c], tile[c] + 1)
      BY <1>3, <2>1, <2>3, <2>5, TileHas
    <3>2. tile'[c] = tile[c] + 1 /\ row'[c] = row[c] /\ sent'[c] = sent[c] /\ step'[c] = "rows"
      BY <1>3, <1>7, <2>5 DEF WriteTile, FlattenTypeOK
    <3>3. tile[c] + 1 < PartitionTiles
      BY <1>5, <2>1, <2>5
    <3>4. step'[c] = "rows" /\ (row[c] < RowsOfFirst)' /\ (tile[c] < PartitionTiles)'
      BY <1>4, <2>1, <3>2, <3>3, CallStays
    <3>5. Has(partial[c], c, row[c], tile[c])'
      BY <1>4, <3>1, <3>2, CallStays
    <3> QED
      BY <2>8, <3>4, <3>5 DEF CoreInv
  <2>6. CoreInv(c)'
    BY <2>4, <2>5
  <2>7. CoreInv(other)'
    BY <1>2, <1>3, <1>4, <1>7, OtherCoreKeeps DEF WriteTile, FlattenTypeOK, FlattenInv
  <2> QED
    BY <1>2, <1>4, <1>7, <2>2, <2>6, <2>7, OutputKeeps DEF FlattenInv, WriteTile
<1>8. CASE Send(c)
  <2>1. FlattenTypeOK'
    BY <1>3, <1>8 DEF Send, FlattenTypeOK
  <2>2. partial'[c] = partial[c] /\ sent'[c] = partial[c] /\ step'[c] = "receive" /\ Whole(partial[c], c)
    BY <1>3, <1>8 DEF Send, FlattenTypeOK, CoreInv
  <2>3. CoreInv(c)'
    BY <1>4, <2>2, CallStays DEF CoreInv
  <2>4. CoreInv(other)'
    BY <1>2, <1>3, <1>4, <1>8, OtherCoreKeeps DEF Send, FlattenTypeOK, FlattenInv
  <2> QED
    BY <1>2, <1>4, <1>8, <2>1, <2>3, <2>4, OutputKeeps DEF FlattenInv, Send
<1>9. CASE Receive(c)
  <2>1. FlattenTypeOK'
    BY <1>3, <1>9 DEF Receive, FlattenTypeOK
  <2>2. step'[c] = "done" /\ sent'[c] = sent[c] /\ Whole(partial[c], c) /\ Whole(sent[other], other)
    BY <1>2, <1>3, <1>9 DEF Receive, FlattenTypeOK, CoreInv
  <2>3. CoreInv(c)'
    BY <1>3, <1>4, <2>2, CallStays DEF CoreInv
  <2>4. CoreInv(other)'
    <3>1. step'[other] = step[other] /\ partial'[other] = partial[other]
      BY <1>2, <1>3, <1>9 DEF Receive, FlattenTypeOK
    <3>2. row' = row /\ tile' = tile /\ sent' = sent
      BY <1>9 DEF Receive
    <3> QED
      BY <1>4, <3>1, <3>2, OtherCoreKeeps
  <2>5. CASE c = 0
    <3>1. other = 1
      BY <1>2, <2>5
    <3>2. DOMAIN partial[c] = Blocks
      BY <2>2 DEF Whole, Has
    <3>3. output' = [b \in Blocks |-> IF partial[0][b] >= sent[1][b] THEN partial[0][b] ELSE sent[1][b]]
      BY <1>2, <1>3, <1>9, <2>5, <3>1, <3>2 DEF Receive, FlattenTypeOK
    <3>4. IsMerged(output)'
      BY <1>4, <2>2, <2>5, <3>1, <3>3, CallStays DEF IsMerged
    <3> QED
      BY <1>2, <2>1, <2>3, <2>4, <3>4 DEF FlattenInv
  <2>6. CASE c # 0
    BY <1>2, <1>4, <1>9, <2>1, <2>3, <2>4, <2>6, OutputKeeps DEF FlattenInv, Receive
  <2> QED
    BY <2>5, <2>6
<1> QED
  BY <1>1, <1>6, <1>7, <1>8, <1>9

\* The larger of what the two cores have is what the reference says.
LEMMA MergedIsFlattened ==
  ASSUME flatten \in Flattens, Mergeable(flatten), NEW out, IsMerged(out)
  PROVE  out = Flattened(flatten)
<1> DEFINE f == flatten
           Hits(b) == {e \in DOMAIN f.rows : b - f.offsets[f.start + e] \in 0..Len(f.rows[e]) - 1}
<1>1. PICK x, y : /\ Whole(x, 0) /\ Whole(y, 1)
                  /\ out = [b \in Blocks |-> IF x[b] >= y[b] THEN x[b] ELSE y[b]]
  BY DEF IsMerged
<1>2. DOMAIN f.rows = 1..NumRows /\ f.padding \in Int /\ NumRows \in Nat
  BY CallFacts
<1>3. PICK h \in Nat : h = RowsOfFirst /\ h = (Len(f.rows) + 1) \div 2
  BY HalfFacts DEF RowsOfFirst, NumRows
<1>4. ASSUME NEW b \in Blocks
      PROVE  out[b] = Flattened(f)[b]
  <2>1. \A e \in 1..NumRows : e \in Hits(b) <=> Lands(f, e, b)
    BY <1>2 DEF Lands
  <2>2. Hits(b) \subseteq 1..NumRows
    BY <1>2
  <2>3. Flattened(f)[b] = IF Hits(b) = {} THEN f.padding
                          ELSE ValueAt(f, CHOOSE e \in Hits(b) : \A d \in Hits(b) : d <= e, b)
    BY Zenon DEF Flattened, Blocks, ValueAt
  <2>4. \A e \in Int : /\ Wrote(0, RowsOfFirst, 0, e, b) <=> e \in Hits(b) /\ e <= h
                       /\ Wrote(1, RowsOfFirst, 0, e, b) <=> e \in Hits(b) /\ h < e
    <3> TAKE e \in Int
    <3>1. \A c \in Cores : Wrote(c, RowsOfFirst, 0, e, b) <=> e \in OwnRows(c) /\ Lands(f, e, b)
      <4> TAKE c \in Cores
      <4>1. e \in OwnRows(c) => e <= RowOffset(c) + RowsOfFirst
        BY HalfFacts DEF OwnRows
      <4> QED
        BY <4>1 DEF Wrote
    <3>2. \A c \in Cores : OwnRows(c) \subseteq 1..NumRows
      BY HalfFacts
    <3>3. \A d \in 1..NumRows : (d \in OwnRows(0) <=> d <= h) /\ (d \in OwnRows(1) <=> h < d)
      BY <1>3, HalfFacts
    <3> HIDE DEF Hits
    <3> QED
      BY <2>1, <2>2, <3>1, <3>2, <3>3 DEF Cores
  <2> HIDE DEF Hits
  <2>5. \/ x[b] = f.padding /\ \A e \in Hits(b) : ~(e <= h)
        \/ \E e \in Hits(b) : /\ e <= h /\ x[b] = ValueAt(f, e, b)
                              /\ \A d \in Hits(b) : d <= h => d <= e
    <3>1. \/ x[b] = f.padding /\ \A e \in Int : ~Wrote(0, RowsOfFirst, 0, e, b)
          \/ \E e \in Int : IsLastOf(0, RowsOfFirst, 0, e, b) /\ x[b] = ValueAt(f, e, b)
      BY <1>1 DEF Whole, Has
    <3> QED
      BY <2>2, <2>4, <3>1 DEF IsLastOf
  <2>6. \/ y[b] = f.padding /\ \A e \in Hits(b) : ~(h < e)
        \/ \E e \in Hits(b) : /\ h < e /\ y[b] = ValueAt(f, e, b)
                              /\ \A d \in Hits(b) : h < d => d <= e
    <3>1. \/ y[b] = f.padding /\ \A e \in Int : ~Wrote(1, RowsOfFirst, 0, e, b)
          \/ \E e \in Int : IsLastOf(1, RowsOfFirst, 0, e, b) /\ y[b] = ValueAt(f, e, b)
      BY <1>1 DEF Whole, Has
    <3> QED
      BY <2>2, <2>4, <3>1 DEF IsLastOf
  <2>7. /\ \A e \in Hits(b) : ValueAt(f, e, b) \in Int /\ f.padding <= ValueAt(f, e, b)
        /\ \A d, e \in Hits(b) : d <= h /\ h < e => ValueAt(f, d, b) <= ValueAt(f, e, b)
    <3>1. \A e \in Hits(b) : e \in 1..NumRows /\ Lands(f, e, b)
      BY <2>1, <2>2
    <3>2. \A e \in Hits(b) : ValueAt(f, e, b) \in Int
      BY <3>1, LandsMeans
    <3> QED
      BY <1>2, <1>3, <3>1, <3>2 DEF Mergeable, Blocks
  <2>8. out[b] = IF x[b] >= y[b] THEN x[b] ELSE y[b]
    BY <1>1
  <2>9. CASE Hits(b) = {}
    BY <1>2, <2>3, <2>5, <2>6, <2>8, <2>9
  <2>10. ASSUME NEW e \in Hits(b), \A d \in Hits(b) : d <= e
         PROVE  Flattened(f)[b] = ValueAt(f, e, b)
    <3>1. \A k \in Hits(b) : (\A d \in Hits(b) : d <= k) => k = e
      BY <2>2, <2>10
    <3>2. (CHOOSE k \in Hits(b) : \A d \in Hits(b) : d <= k) = e
      BY <2>10, <3>1
    <3> QED
      BY <2>3, <3>2
  <2>13. \A e \in Hits(b) : e \in Int
    BY <1>2, <2>2
  <2>11. CASE \E e \in Hits(b) : h < e
    <3>1. PICK e \in Hits(b) : /\ h < e /\ y[b] = ValueAt(f, e, b)
                               /\ \A d \in Hits(b) : h < d => d <= e
      BY <2>6, <2>11
    <3>2. \A d \in Hits(b) : d <= e
      BY <2>13, <3>1
    <3>3. x[b] \in Int /\ x[b] <= y[b] /\ y[b] \in Int
      BY <1>2, <2>5, <2>7, <3>1
    <3>4. out[b] = y[b]
      BY <2>8, <3>3
    <3> QED
      BY <2>10, <3>1, <3>2, <3>4
  <2>12. CASE Hits(b) # {} /\ \A e \in Hits(b) : ~(h < e)
    <3>1. \A e \in Hits(b) : e <= h
      BY <2>12, <2>13
    <3>2. PICK e \in Hits(b) : x[b] = ValueAt(f, e, b) /\ \A d \in Hits(b) : d <= h => d <= e
      BY <2>5, <2>12, <3>1
    <3>3. y[b] = f.padding
      BY <2>6, <2>12
    <3>4. out[b] = x[b]
      BY <1>2, <2>7, <2>8, <3>2, <3>3
    <3> QED
      BY <2>10, <3>1, <3>2, <3>4
  <2> QED
    BY <2>9, <2>11, <2>12
<1>5. out = [b \in Blocks |-> out[b]]
  BY <1>1
<1>6. Flattened(f) = [b \in Blocks |-> Flattened(f)[b]]
  <2> DEFINE G(b) == IF Hits(b) = {} THEN f.padding
                     ELSE ValueAt(f, CHOOSE e \in Hits(b) : \A d \in Hits(b) : d <= e, b)
  <2>1. Flattened(f) = [b \in Blocks |-> G(b)]
    BY Zenon DEF Flattened, Blocks, ValueAt
  <2> HIDE DEF G
  <2> QED
    BY <2>1
<1> QED
  BY <1>4, <1>5, <1>6

(* The output of the flattening kernel is the reference's, in which a later  *)
(* row overwrites an earlier one, for any rows and offsets, if a later row   *)
(* has the larger blocks where rows of the two cores overlap and no block is *)
(* below the padding: the maximum is then the later row's                    *)
(* (indexed_flatten.py:41, all-reduce max; indexed_flatten_torch.py).        *)
THEOREM FlattensLikeTheReference ==
  ASSUME \A f \in Flattens : Mergeable(f)
  PROVE  FlattenSpec => []FlattensLikeReference
<1>1. FlattenInv /\ [FlattenNext]_flattenVars => FlattenInv'
  <2>1. ASSUME FlattenInv, UNCHANGED flattenVars
        PROVE  FlattenInv'
    <3>1. FlattenTypeOK' /\ \A c \in Cores : CoreInv(c)'
      BY <2>1, OtherCoreKeeps DEF flattenVars, FlattenInv, FlattenTypeOK
    <3> QED
      BY <2>1, <3>1, OutputKeeps DEF flattenVars, FlattenInv, Cores
  <2> QED
    BY <2>1, FlattenNextKeeps
<1>2. FlattenInv => FlattensLikeReference
  BY MergedIsFlattened DEF FlattenInv, FlattenTypeOK, FlattensLikeReference
<1> QED
  BY <1>1, <1>2, FlattenBegins, PTL DEF FlattenSpec

-----------------------------------------------------------------------------
(* Searching.  The numbers of a set, by how many are below.                  *)

LEMMA BelowIsFinite ==
  ASSUME NEW S, IsFiniteSet(S), S \subseteq Int, NEW x \in Int
  PROVE  /\ IsFiniteSet(Below(S, x)) /\ Below(S, x) \subseteq S
         /\ Cardinality(Below(S, x)) \in Nat /\ Cardinality(Below(S, x)) <= Cardinality(S)
BY FS_Subset, FS_CardinalityType DEF Below

LEMMA FinitePositions ==
  ASSUME NEW n \in Nat, NEW S, S \subseteq 0..n - 1
  PROVE  IsFiniteSet(S) /\ S \subseteq Int /\ Cardinality(S) \in Nat
<1>1. IsFiniteSet(0..n - 1)
  BY FS_Interval, 0 \in Int, n - 1 \in Int
<1>2. IsFiniteSet(S)
  BY <1>1, FS_Subset
<1> QED
  BY <1>2, FS_CardinalityType

LEMMA BelowAdds ==
  ASSUME NEW S, IsFiniteSet(S), S \subseteq Int, NEW a \in Int, NEW b \in Int, a <= b
  PROVE  Cardinality(Below(S, b)) = Cardinality(Below(S, a)) + Cardinality(S \cap a..b - 1)
<1> DEFINE M == S \cap a..b - 1
<1>1. IsFiniteSet(M) /\ Cardinality(M) \in Nat
  BY FS_Subset, FS_CardinalityType
<1>2. Below(S, b) = Below(S, a) \cup M
  <2>1. \A y : y \in Below(S, b) <=> y \in S /\ y < b
    BY DEF Below
  <2>2. \A y : y \in Below(S, a) <=> y \in S /\ y < a
    BY DEF Below
  <2>3. \A y \in S : y < b <=> y < a \/ y \in a..b - 1
    OBVIOUS
  <2> QED
    BY <2>1, <2>2, <2>3
<1>3. Below(S, a) \cap M = {}
  BY DEF Below
<1>4. Cardinality(Below(S, a) \cup M) = Cardinality(Below(S, a)) + Cardinality(M) - Cardinality(Below(S, a) \cap M)
  BY <1>1, BelowIsFinite, FS_Union
<1>5. Cardinality(Below(S, a) \cap M) = 0
  BY <1>3, FS_EmptySet
<1> QED
  BY <1>1, <1>2, <1>4, <1>5, BelowIsFinite

\* Every rank has its number.
LEMMA RankExists ==
  ASSUME NEW n \in Nat, NEW S, S \subseteq 0..n - 1, NEW i \in Nat, i < Cardinality(S)
  PROVE  \E x \in S : Cardinality(Below(S, x)) = i
<1>1. IsFiniteSet(S) /\ S \subseteq Int /\ Cardinality(S) \in Nat
  BY FinitePositions
<1>17. \A x \in S : x \in Nat /\ x < n
  OBVIOUS
<1> DEFINE Q == {k \in Nat : i < Cardinality(Below(S, k))}
<1>2. n \in Q
  <2>1. Below(S, n) = S
    BY <1>17 DEF Below
  <2> QED
    BY <2>1
<1>3. PICK k \in Q : \A q \in Q : k <= q
  BY <1>2, LeastNatural
<1>4. Below(S, 0) = {}
  <2>1. \A y \in S : ~(y < 0)
    BY <1>17
  <2> QED
    BY <2>1, Zenon DEF Below
<1>18. k \in Nat /\ k \in Int /\ 0 \in Int
  BY <1>3
<1>5. Cardinality(Below(S, 0)) = 0
  BY <1>4, FS_EmptySet
<1>6. k # 0
  BY <1>3, <1>5
<1>7. PICK p \in Nat : k = p + 1
  BY <1>3, <1>6
<1>8. p \notin Q
  BY <1>3, <1>7
<1>15. PICK cp \in Nat : cp = Cardinality(Below(S, p))
  BY <1>1, p \in Int, BelowIsFinite
<1>16. PICK ck \in Nat : ck = Cardinality(Below(S, k))
  BY <1>1, <1>18, BelowIsFinite
<1>9. cp <= i /\ i < ck
  BY <1>3, <1>8, <1>15, <1>16
<1>10. ck = cp + Cardinality(S \cap p..k - 1)
  <2>1. p \in Int /\ k \in Int /\ p <= k
    BY <1>7
  <2>2. Cardinality(Below(S, k)) = Cardinality(Below(S, p)) + Cardinality(S \cap p..k - 1)
    <3>1. \A a, b \in Int : a <= b =>
            Cardinality(Below(S, b)) = Cardinality(Below(S, a)) + Cardinality(S \cap a..b - 1)
      BY <1>1, BelowAdds
    <3> QED
      BY <2>1, <3>1
  <2> QED
    BY <1>15, <1>16, <2>2
<1>11. p..k - 1 = {p}
  BY <1>7
<1>12. p \in S
  <2> SUFFICES ASSUME p \notin S
               PROVE  FALSE
    OBVIOUS
  <2>1. S \cap p..k - 1 = {}
    BY <1>11
  <2>2. Cardinality(S \cap p..k - 1) = 0
    BY <2>1, FS_EmptySet
  <2> QED
    BY <1>9, <1>10, <2>2
<1>13. Cardinality(S \cap p..k - 1) = 1
  <2>1. S \cap p..k - 1 = {p}
    BY <1>11, <1>12
  <2> QED
    BY <2>1, FS_Singleton
<1>14. Cardinality(Below(S, p)) = i
  BY <1>9, <1>10, <1>13, <1>15
<1> QED
  BY <1>12, <1>14

\* What a search of the positions from k on finds.
LEMMA AscendingLists ==
  ASSUME NEW n \in Nat, NEW S, S \subseteq 0..n - 1
  PROVE  /\ Len(Ascending(S)) = Cardinality(S) /\ Cardinality(S) \in Nat
         /\ \A i \in Nat : i < Cardinality(S) =>
              Ascending(S)[i + 1] \in S /\ Cardinality(Below(S, Ascending(S)[i + 1])) = i
<1>1. IsFiniteSet(S) /\ Cardinality(S) \in Nat
  BY FinitePositions
<1>2. PICK c \in Nat : c = Cardinality(S)
  BY <1>1
<1> DEFINE F(i) == CHOOSE x \in S : Cardinality(Below(S, x)) = i - 1
<1>3. Ascending(S) = [i \in 1..c |-> F(i)]
  BY <1>2 DEF Ascending
<1>4. ASSUME NEW i \in Nat, i < c
      PROVE  F(i + 1) \in S /\ Cardinality(Below(S, F(i + 1))) = i
  <2>3. \E x \in S : Cardinality(Below(S, x)) = i
    BY <1>2, <1>4, RankExists
  <2>1. \E x \in S : Cardinality(Below(S, x)) = (i + 1) - 1
    BY <2>3
  <2>2. F(i + 1) \in S /\ Cardinality(Below(S, F(i + 1))) = (i + 1) - 1
    BY <2>1
  <2> HIDE DEF F
  <2> QED
    BY <2>2
<1> HIDE DEF F
<1>5. Len(Ascending(S)) = c
  <2>1. Ascending(S) \in Seq({F(i) : i \in 1..c})
    BY <1>3
  <2> QED
    BY <1>3, <2>1, LenProperties
<1> QED
  BY <1>2, <1>3, <1>4, <1>5

\* The columns of a core, in the output and in the input.
Locals == 0..PerShard - 1
Out(s, j) == PerShard * s + j
Column(s, j) == matrix[colStart + Out(s, j) + 1]

\* The output a lists the numbers of S below k; what follows is padding, once written.
Listed(a, S, k) ==
  \A i \in 0..Tokens - 1 :
    IF i < Cardinality(Below(S, k)) THEN a[i] \in S /\ Cardinality(Below(S, a[i])) = i
    ELSE NumChunks > 1 \/ k > 0 => a[i] = Pad

\* How much of its column j a core has searched and stored.
Reach(p, r, k, j) ==
  IF j < r * Lanes THEN Tokens
  ELSE IF j < r * Lanes + Lanes
  THEN IF p = "count" THEN Tokens
       ELSE IF p \in {"shuffle", "store odd"} /\ (j - r * Lanes) % 2 = 0 THEN k * chunkSize + chunkSize
       ELSE k * chunkSize
  ELSE 0

LEMMA FindFacts ==
  ASSUME matrix \in Matrices, chunkSize \in Chunks, colStart \in Starts
  PROVE  /\ PerShard \in Nat \ {0} /\ Columns = PerShard + PerShard /\ Columns \in Nat
         /\ Lanes \in Nat \ {0} /\ Quadrants \in Nat \ {0} /\ Lanes = 2 * Quadrants
         /\ Tokens \in Nat \ {0} /\ chunkSize \in Nat \ {0} /\ chunkSize <= Tokens
         /\ NumChunks \in Nat \ {0} /\ NumChunks * chunkSize = Tokens
         /\ \A s \in Shards, j \in Locals :
              Out(s, j) \in 0..Columns - 1 /\ Column(s, j) \subseteq 0..Tokens - 1
<1>1. /\ Tokens \in Nat \ {0} /\ Quadrants \in Nat \ {0} /\ colStart \in Nat
      /\ Columns \in Nat \ {0} /\ Columns % 2 = 0
      /\ chunkSize \in 1..Tokens /\ Tokens % chunkSize = 0
      /\ matrix \in Seq(SUBSET (0..Tokens - 1)) /\ Len(matrix) >= colStart + Columns
  BY FindAssumption
<1>2. PICK c \in Nat \ {0} : c = Columns
  BY <1>1
<1>3. c \div 2 \in Nat \ {0} /\ c = c \div 2 + c \div 2
  BY <1>1, <1>2
<1>4. PICK h \in Nat \ {0} : h = PerShard /\ c = h + h
  BY <1>2, <1>3 DEF PerShard
<1>5. PICK t \in Nat \ {0} : t = Tokens
  BY <1>1
<1>6. PICK d \in Nat \ {0} : d = chunkSize /\ d <= t
  BY <1>1, <1>5
<1>7. t \div d \in Nat \ {0} /\ (t \div d) * d = t
  <2>1. PICK q \in Int : q = t \div d
    OBVIOUS
  <2>2. t = q * d
    BY <1>1, <1>5, <1>6, <2>1
  <2>3. q <= 0 => q * d <= 0
    BY <2>1
  <2> QED
    BY <2>1, <2>2, <2>3
<1>8. NumChunks = t \div d
  BY <1>5, <1>6 DEF NumChunks
<1>9. ASSUME NEW s \in Shards, NEW j \in Locals
      PROVE  Out(s, j) \in 0..c - 1 /\ Column(s, j) \subseteq 0..Tokens - 1
  <2>1. h * s = IF s = 0 THEN 0 ELSE h
    BY DEF Shards
  <2>2. h * s + j \in 0..c - 1
    BY <1>4, <2>1 DEF Locals, Shards
  <2>3. Out(s, j) \in 0..c - 1
    BY <1>4, <2>2 DEF Out
  <2>4. PICK o \in Nat : o = Out(s, j) /\ o < c
    BY <2>3
  <2>5. PICK n \in Nat : n = colStart
    BY <1>1
  <2>6. PICK m \in Nat : m = Len(matrix)
    BY <1>1
  <2>7. n + o + 1 \in 1..m
    BY <1>1, <1>2, <2>4, <2>5, <2>6
  <2>8. colStart + Out(s, j) + 1 \in 1..Len(matrix)
    BY <2>4, <2>5, <2>6, <2>7
  <2>9. Column(s, j) \in SUBSET (0..Tokens - 1)
    BY <1>1, <2>8, ElementOfSeq DEF Column
  <2> QED
    BY <2>3, <2>9
<1>10. 2 * Quadrants \in Nat \ {0}
  BY <1>1
<1> QED
  BY <1>1, <1>2, <1>4, <1>5, <1>6, <1>7, <1>8, <1>9, <1>10 DEF Lanes

\* A store appends what a search found.
LEMMA StoreLists ==
  ASSUME matrix \in Matrices, chunkSize \in Chunks, colStart \in Starts,
         NEW S, S \subseteq 0..Tokens - 1, NEW k \in Nat, k + chunkSize <= Tokens, NEW a, Listed(a, S, k),
         NEW o, o = Cardinality(Below(S, k)), NEW a2,
         a2 = [i \in 0..Tokens - 1 |->
                 IF i - o \in 0..chunkSize - 1 THEN NonzeroWithCount(S, k).list[i - o] ELSE a[i]]
  PROVE  /\ Listed(a2, S, k + chunkSize)
         /\ o + NonzeroWithCount(S, k).count = Cardinality(Below(S, k + chunkSize))
<1>1. PICK n \in Nat : n = Tokens
  BY FindFacts
<1>2. PICK d \in Nat \ {0} : d = chunkSize /\ k + d <= n
  BY FindFacts, <1>1
<1> DEFINE T == S \cap k..k + d - 1
           A == Ascending(T)
<1>3. IsFiniteSet(S) /\ S \subseteq Int /\ \A x \in S : x \in Nat
  <2>1. S \subseteq 0..n - 1
    BY <1>1
  <2>2. IsFiniteSet(S) /\ S \subseteq Int
    BY <2>1, FinitePositions
  <2> QED
    BY <2>1, <2>2
<1>4. o \in Nat
  <2>1. k \in Int
    OBVIOUS
  <2> QED
    BY <1>3, <2>1, BelowIsFinite
<1>5. PICK c \in Nat : c = Cardinality(T) /\ c <= d
  <2>1. k + d - 1 \in Int /\ k \in Int
    OBVIOUS
  <2>2. IsFiniteSet(k..k + d - 1) /\ Cardinality(k..k + d - 1) = d
    BY <2>1, FS_Interval
  <2>3. T \subseteq k..k + d - 1
    OBVIOUS
  <2> HIDE DEF T
  <2> QED
    <3>1. IsFiniteSet(T) /\ Cardinality(T) <= d
      BY <2>2, <2>3, FS_Subset
    <3>2. Cardinality(T) \in Nat
      BY <3>1, FS_CardinalityType
    <3> QED
      BY <3>1, <3>2
<1>6. /\ Len(A) = c
      /\ \A i \in Nat : i < c => A[i + 1] \in T /\ Cardinality(Below(T, A[i + 1])) = i
  <2>1. T \subseteq 0..n - 1
    BY <1>1
  <2> HIDE DEF T
  <2> QED
    BY <1>5, <2>1, AscendingLists
<1>7. /\ NonzeroWithCount(S, k).count = c
      /\ NonzeroWithCount(S, k).list = [i \in 0..d - 1 |-> IF i < c THEN A[i + 1] ELSE Pad]
  BY <1>2, <1>6 DEF NonzeroWithCount
<1>8. \A x, y \in Int : x <= y =>
        Cardinality(Below(S, y)) = Cardinality(Below(S, x)) + Cardinality(S \cap x..y - 1)
  BY <1>3, BelowAdds
<1>9. Cardinality(Below(S, k + d)) = o + c
  <2>1. k \in Int /\ k + d \in Int /\ k <= k + d
    OBVIOUS
  <2> QED
    BY <1>5, <1>8, <2>1
<1>10. ASSUME NEW x \in T
       PROVE  Cardinality(Below(S, x)) = o + Cardinality(Below(T, x))
  <2>1. x \in Int /\ k \in Int /\ k <= x /\ x <= k + d - 1 /\ x \in S
    BY <1>3
  <2>2. S \cap k..x - 1 = Below(T, x)
    <3>1. \A y : y \in Below(T, x) <=> y \in S /\ y \in k..k + d - 1 /\ y < x
      BY DEF Below
    <3>2. \A y \in S : y \in k..x - 1 <=> y \in k..k + d - 1 /\ y < x
      BY <1>3, <2>1
    <3> HIDE DEF T
    <3> QED
      BY <3>1, <3>2
  <2> QED
    BY <1>8, <2>1, <2>2
<1> HIDE DEF T, A
<1>11. ASSUME NEW i \in 0..n - 1
       PROVE  IF i < o + c THEN a2[i] \in S /\ Cardinality(Below(S, a2[i])) = i ELSE a2[i] = Pad
  <2>1. a2[i] = IF i - o \in 0..d - 1 THEN IF i - o < c THEN A[(i - o) + 1] ELSE Pad ELSE a[i]
    BY <1>1, <1>2, <1>4, <1>7
  <2>2. IF i < o THEN a[i] \in S /\ Cardinality(Below(S, a[i])) = i ELSE NumChunks > 1 \/ k > 0 => a[i] = Pad
    BY <1>1 DEF Listed
  <2>3. CASE i < o
    BY <1>4, <2>1, <2>2, <2>3
  <2>4. CASE o <= i /\ i - o < c
    <3>1. PICK l \in Nat : l = i - o /\ l < c /\ l \in 0..d - 1
      BY <1>4, <1>5, <2>4
    <3>2. a2[i] = A[l + 1] /\ A[l + 1] \in T /\ Cardinality(Below(T, A[l + 1])) = l
      BY <1>6, <2>1, <3>1
    <3>3. Cardinality(Below(S, a2[i])) = o + l
      BY <1>10, <3>2
    <3>4. a2[i] \in S
      BY <3>2 DEF T
    <3> QED
      BY <1>4, <3>1, <3>3, <3>4
  <2>5. CASE o + c <= i
    <3>1. ~(i < o + c) /\ ~(i < o) /\ ~(i - o < c)
      BY <1>4, <2>5
    <3>2. CASE i - o \in 0..d - 1
      BY <2>1, <3>1, <3>2
    <3>3. CASE i - o \notin 0..d - 1
      <4>1. d <= i
        BY <1>4, <2>5, <3>3
      <4>2. NumChunks > 1
        <5>1. PICK q \in Nat \ {0} : q = NumChunks /\ q * d = n
          BY <1>1, <1>2, FindFacts
        <5>2. q = 1 => n = d
          BY <5>1
        <5>3. q # 1
          BY <4>1, <5>2
        <5> QED
          BY <5>1, <5>3
      <4> QED
        BY <2>1, <2>2, <3>1, <3>3, <4>2
    <3> QED
      BY <3>2, <3>3
  <2> QED
    BY <1>4, <2>3, <2>4, <2>5
<1>12. Listed(a2, S, k + d)
  BY <1>1, <1>9, <1>11 DEF Listed
<1> QED
  BY <1>2, <1>7, <1>9, <1>12

\* What holds of core s, where p, r, k and so on are its variables' values.
Lists(s, p, r, k, idx) ==
  p # "pad" => \A j \in Locals : Listed(idx[Out(s, j)], Column(s, j), Reach(p, r, k, j))

Searching == {"find", "store even", "shuffle", "store odd", "count"}

Ends(s, p, r, k, off) ==
  p \in Searching =>
    \A l \in 0..Lanes - 1 : r * Lanes + l \in Locals =>
      off[l] = Cardinality(Below(Column(s, r * Lanes + l), Reach(p, r, k, r * Lanes + l)))

Finds(buf, s, r, k, parity) ==
  \A l \in 0..Lanes - 1 : l % 2 = parity /\ r * Lanes + l \in Locals =>
    buf[l \div 2] = NonzeroWithCount(Column(s, r * Lanes + l), k * chunkSize)

Holds(s, p, r, k, now, next) ==
  /\ p = "store even" => Finds(now, s, r, k, 0)
  /\ p \in {"store even", "shuffle"} => Finds(next, s, r, k, 1)
  /\ p = "store odd" => Finds(now, s, r, k, 1)

Tallies(s, p, r, local, cnt) ==
  /\ \A j \in Locals : j < r * Lanes => local[j] = Cardinality(Column(s, j))
  /\ p = "done" => \A j \in Locals : cnt[Out(s, j)] = Cardinality(Column(s, j))

Loops(p, r, k, off) ==
  /\ p \in {"pad", "count"} => k = 0
  /\ p = "pad" => r = 0 /\ \A l \in 0..Lanes - 1 : off[l] = 0
  /\ p \in Searching => r * Lanes < PerShard /\ k < NumChunks
  /\ p \in {"write", "done"} => PerShard <= r * Lanes

FindTypeOK ==
  /\ matrix \in Matrices /\ chunkSize \in Chunks /\ colStart \in Starts
  /\ at \in [Shards -> Searching \cup {"pad", "write", "done"}]
  /\ round \in [Shards -> Nat] /\ chunk \in [Shards -> Nat]
  /\ offsets = [s \in Shards |-> [l \in 0..Lanes - 1 |-> offsets[s][l]]]
  /\ readable = [s \in Shards |-> [q \in 0..Quadrants - 1 |-> readable[s][q]]]
  /\ behind = [s \in Shards |-> [q \in 0..Quadrants - 1 |-> behind[s][q]]]
  /\ localCounts = [s \in Shards |-> [j \in Locals |-> localCounts[s][j]]]
  /\ indices = [c \in 0..Columns - 1 |-> indices[c]]
  /\ counts = [c \in 0..Columns - 1 |-> counts[c]]

ShardInv(s) ==
  /\ Lists(s, at[s], round[s], chunk[s], indices)
  /\ Ends(s, at[s], round[s], chunk[s], offsets[s])
  /\ Holds(s, at[s], round[s], chunk[s], readable[s], behind[s])
  /\ Tallies(s, at[s], round[s], localCounts[s], counts)
  /\ Loops(at[s], round[s], chunk[s], offsets[s])

FindInv == FindTypeOK /\ \A s \in Shards : ShardInv(s)

\* The operators above depend on the call alone.
LEMMA SearchStays ==
  ASSUME call' = call, NEW s,
         Lists(s, at'[s], round'[s], chunk'[s], indices'),
         Ends(s, at'[s], round'[s], chunk'[s], offsets'[s]),
         Holds(s, at'[s], round'[s], chunk'[s], readable'[s], behind'[s]),
         Tallies(s, at'[s], round'[s], localCounts'[s], counts'),
         Loops(at'[s], round'[s], chunk'[s], offsets'[s])
  PROVE  ShardInv(s)'
<1>1. matrix' = matrix /\ chunkSize' = chunkSize /\ colStart' = colStart
  BY DEF call
<1>2. Lists(s, at[s], round[s], chunk[s], indices)'
  BY <1>1 DEF Lists, Listed, Column, Reach, NumChunks
<1>3. Ends(s, at[s], round[s], chunk[s], offsets[s])'
  BY <1>1 DEF Ends, Column, Reach
<1>4. Holds(s, at[s], round[s], chunk[s], readable[s], behind[s])'
  BY <1>1, Zenon DEF Holds, Finds, Column, NonzeroWithCount
<1>5. Tallies(s, at[s], round[s], localCounts[s], counts)'
  BY <1>1 DEF Tallies, Column
<1>6. Loops(at[s], round[s], chunk[s], offsets[s])'
  BY <1>1 DEF Loops, NumChunks
<1> QED
  BY <1>2, <1>3, <1>4, <1>5, <1>6 DEF ShardInv

\* What the core that does not move has stays.
LEMMA OtherShardKeeps ==
  ASSUME call' = call, NEW s \in Shards, ShardInv(s), at'[s] = at[s], round'[s] = round[s], chunk'[s] = chunk[s],
         offsets'[s] = offsets[s], readable'[s] = readable[s], behind'[s] = behind[s],
         localCounts'[s] = localCounts[s],
         \A j \in Locals : indices'[Out(s, j)] = indices[Out(s, j)],
         \A j \in Locals : counts'[Out(s, j)] = counts[Out(s, j)]
  PROVE  ShardInv(s)'
<1>1. Lists(s, at'[s], round'[s], chunk'[s], indices')
  BY DEF ShardInv, Lists
<1>2. Tallies(s, at'[s], round'[s], localCounts'[s], counts')
  BY DEF ShardInv, Tallies
<1>3. /\ Ends(s, at'[s], round'[s], chunk'[s], offsets'[s])
      /\ Holds(s, at'[s], round'[s], chunk'[s], readable'[s], behind'[s])
      /\ Loops(at'[s], round'[s], chunk'[s], offsets'[s])
  BY DEF ShardInv
<1> QED
  BY <1>1, <1>2, <1>3, SearchStays

LEMMA ChunkFacts ==
  ASSUME matrix \in Matrices, chunkSize \in Chunks, colStart \in Starts, NEW k \in Nat, k < NumChunks
  PROVE  /\ k * chunkSize \in Nat /\ (k + 1) * chunkSize = k * chunkSize + chunkSize
         /\ k * chunkSize + chunkSize <= Tokens
         /\ k + 1 = NumChunks => k * chunkSize + chunkSize = Tokens
<1>1. PICK d \in Nat \ {0} : d = chunkSize
  BY FindFacts
<1>2. PICK q \in Nat \ {0} : q = NumChunks /\ q * d = Tokens
  BY <1>1, FindFacts
<1>3. PICK m \in Nat : q = (k + 1) + m
  BY <1>2, q - (k + 1) \in Nat
<1>4. (k + 1) * d = k * d + d /\ k * d \in Nat
  BY <1>1
<1>5. q * d = (k * d + d) + m * d /\ m * d >= 0
  BY <1>3, <1>4
<1> QED
  BY <1>1, <1>2, <1>4, <1>5

LEMMA ColumnsApart ==
  ASSUME matrix \in Matrices, chunkSize \in Chunks, colStart \in Starts
  PROVE  /\ \A s, t \in Shards, i, j \in Locals : Out(s, i) = Out(t, j) => s = t /\ i = j
         /\ \A c \in 0..Columns - 1 : \E s \in Shards, j \in Locals : c = Out(s, j)
<1>1. PICK h \in Nat \ {0} : h = PerShard /\ Columns = h + h
  BY FindFacts
<1>2. \A s \in Shards, j \in Locals : Out(s, j) = (IF s = 0 THEN 0 ELSE h) + j
  BY <1>1 DEF Shards, Out, Locals
<1>3. Locals = 0..h - 1
  BY <1>1 DEF Locals
<1>4. \A c \in 0..Columns - 1 : \E s \in Shards, j \in Locals : c = Out(s, j)
  <2> TAKE c \in 0..Columns - 1
  <2>1. c \in 0..(h + h) - 1
    BY <1>1
  <2>2. CASE c < h
    <3>1. c \in Locals /\ Out(0, c) = c
      BY <1>2, <1>3, <2>1, <2>2 DEF Shards
    <3> QED
      BY <3>1 DEF Shards
  <2>3. CASE h <= c
    <3>1. c - h \in Locals /\ Out(1, c - h) = c
      BY <1>2, <1>3, <2>1, <2>3 DEF Shards
    <3> QED
      BY <3>1 DEF Shards
  <2> QED
    BY <2>1, <2>2, <2>3
<1> QED
  BY <1>2, <1>3, <1>4 DEF Shards

\* The lanes of a round and their columns.
LEMMA LanesOfRound ==
  ASSUME FindTypeOK, NEW s \in Shards
  PROVE  /\ round[s] * Lanes \in Nat
         /\ \A l : l \in 0..ColumnsThisRound(s) - 1 <=> l \in 0..Lanes - 1 /\ round[s] * Lanes + l \in Locals
         /\ \A l \in Int : OutColumn(s, l) = Out(s, round[s] * Lanes + l)
         /\ \A l \in 0..Lanes - 1 : l \div 2 \in 0..Quadrants - 1
<1>1. matrix \in Matrices /\ chunkSize \in Chunks /\ colStart \in Starts /\ round[s] \in Nat
  BY DEF FindTypeOK
<1>2. PICK h \in Nat \ {0} : h = PerShard
  BY <1>1, FindFacts
<1>3. PICK q \in Nat \ {0} : q = Quadrants /\ Lanes = 2 * q
  BY <1>1, FindFacts
<1>4. PICK w \in Nat : w = round[s] * Lanes /\ w = Lanes * round[s]
  BY <1>1, <1>3
<1>5. ColumnsThisRound(s) = IF 2 * q <= h - w THEN 2 * q ELSE h - w
  BY <1>2, <1>3, <1>4 DEF ColumnsThisRound
<1>6. \A l : l \in 0..ColumnsThisRound(s) - 1 <=> l \in 0..Lanes - 1 /\ w + l \in Locals
  BY <1>2, <1>3, <1>5 DEF Locals
<1>7. \A l \in Int : OutColumn(s, l) = Out(s, w + l)
  BY <1>2, <1>4 DEF OutColumn, FirstColumn, Out, Shards
<1>8. \A l \in 0..Lanes - 1 : l \div 2 \in 0..Quadrants - 1
  BY <1>3
<1> QED
  BY <1>4, <1>6, <1>7, <1>8

\* The column is one of this round's lanes of one parity.
Hit(s, parity, j) == j - round[s] * Lanes \in 0..Lanes - 1 /\ (j - round[s] * Lanes) % 2 = parity

\* Where a lane's columns are and what is there after a store.
LEMMA StoreWrites ==
  ASSUME FindTypeOK, NEW s \in Shards, NEW parity \in {0, 1}, Store(s, parity)
  PROVE  /\ \A j \in Locals : Hit(s, parity, j) =>
              indices'[Out(s, j)] =
                [i \in 0..Tokens - 1 |->
                   IF i - offsets[s][j - round[s] * Lanes] \in 0..chunkSize - 1
                   THEN readable[s][(j - round[s] * Lanes) \div 2].list[i - offsets[s][j - round[s] * Lanes]]
                   ELSE indices[Out(s, j)][i]]
         /\ \A t \in Shards, j \in Locals :
              ~(t = s /\ Hit(s, parity, j)) => indices'[Out(t, j)] = indices[Out(t, j)]
         /\ \A l \in 0..Lanes - 1 :
              offsets'[s][l] = IF l % 2 = parity /\ round[s] * Lanes + l \in Locals
                               THEN offsets[s][l] + readable[s][l \div 2].count ELSE offsets[s][l]
         /\ \A t \in Shards : t # s => offsets'[t] = offsets[t]
         /\ offsets' = [t \in Shards |-> [l \in 0..Lanes - 1 |-> offsets'[t][l]]]
         /\ indices' = [c \in 0..Columns - 1 |-> indices'[c]]
<1> DEFINE lanes == {l \in 0..ColumnsThisRound(s) - 1 : l % 2 = parity}
           w == round[s] * Lanes
<1>1. matrix \in Matrices /\ chunkSize \in Chunks /\ colStart \in Starts /\ w \in Nat
  BY LanesOfRound DEF FindTypeOK
<1>2. \A l : l \in lanes <=> l \in 0..Lanes - 1 /\ w + l \in Locals /\ l % 2 = parity
  BY LanesOfRound
<1>3. \A l \in lanes : l \in Int /\ OutColumn(s, l) = Out(s, w + l) /\ w + l \in Locals
  BY <1>2, LanesOfRound
<1>4. \A l, m \in lanes : OutColumn(s, l) = OutColumn(s, m) => l = m
  <2> TAKE l, m \in lanes
  <2> HAVE OutColumn(s, l) = OutColumn(s, m)
  <2>1. w + l = w + m
    BY <1>1, <1>3, ColumnsApart
  <2> QED
    BY <1>1, <1>3, <2>1
<1> DEFINE New(c, l) == [i \in 0..Tokens - 1 |->
                           IF i - offsets[s][l] \in 0..chunkSize - 1
                           THEN readable[s][l \div 2].list[i - offsets[s][l]] ELSE indices[c][i]]
<1>5. indices' = [c \in 0..Columns - 1 |->
                    IF \E l \in lanes : OutColumn(s, l) = c
                    THEN New(c, CHOOSE x \in lanes : OutColumn(s, x) = c) ELSE indices[c]]
  BY Zenon DEF Store
<1>6. offsets' = [offsets EXCEPT ![s] = [l \in DOMAIN @ |->
                    IF l \in lanes THEN @[l] + readable[s][l \div 2].count ELSE @[l]]]
  BY Zenon DEF Store
<1> HIDE DEF lanes, New
<1>7. ASSUME NEW j \in Locals, Hit(s, parity, j)
      PROVE  indices'[Out(s, j)] = New(Out(s, j), j - w)
  <2>1. PICK l \in Int : l = j - w /\ w + l = j
    BY <1>1, FindFacts DEF Locals
  <2>2. l \in lanes
    BY <1>2, <1>7, <2>1 DEF Hit
  <2>3. OutColumn(s, l) = Out(s, j)
    BY <1>3, <2>1, <2>2
  <2>4. (CHOOSE x \in lanes : OutColumn(s, x) = Out(s, j)) = l
    BY <1>4, <2>2, <2>3
  <2>5. Out(s, j) \in 0..Columns - 1
    BY <1>1, FindFacts
  <2> QED
    BY <1>5, <2>1, <2>2, <2>3, <2>4, <2>5
<1>8. ASSUME NEW t \in Shards, NEW j \in Locals, ~(t = s /\ Hit(s, parity, j))
      PROVE  indices'[Out(t, j)] = indices[Out(t, j)]
  <2>1. \A l \in lanes : OutColumn(s, l) # Out(t, j)
    <3> SUFFICES ASSUME NEW l \in lanes, OutColumn(s, l) = Out(t, j)
                 PROVE  FALSE
      OBVIOUS
    <3>1. t = s /\ j = w + l
      BY <1>1, <1>3, ColumnsApart
    <3>2. l \in 0..Lanes - 1 /\ l % 2 = parity /\ l = j - w
      BY <1>1, <1>2, <1>3, <3>1
    <3> QED
      BY <1>8, <3>1, <3>2 DEF Hit
  <2>2. Out(t, j) \in 0..Columns - 1
    BY <1>1, FindFacts
  <2> QED
    BY <1>5, <2>1, <2>2
<1>9. /\ \A l \in 0..Lanes - 1 :
           offsets'[s][l] = IF l \in lanes THEN offsets[s][l] + readable[s][l \div 2].count ELSE offsets[s][l]
      /\ \A t \in Shards : t # s => offsets'[t] = offsets[t]
      /\ offsets' = [t \in Shards |-> [l \in 0..Lanes - 1 |-> offsets'[t][l]]]
  <2>1. offsets = [t \in Shards |-> [l \in 0..Lanes - 1 |-> offsets[t][l]]]
    BY DEF FindTypeOK
  <2>2. \A t \in Shards : DOMAIN offsets[t] = 0..Lanes - 1 /\ offsets[t] = [l \in 0..Lanes - 1 |-> offsets[t][l]]
    BY <2>1
  <2>3. offsets'[s] = [l \in 0..Lanes - 1 |->
                        IF l \in lanes THEN offsets[s][l] + readable[s][l \div 2].count ELSE offsets[s][l]]
    BY <1>6, <2>1, <2>2
  <2>4. \A t \in Shards : t # s => offsets'[t] = offsets[t]
    BY <1>6, <2>1
  <2>5. offsets' = [t \in Shards |-> offsets'[t]]
    BY <1>6, <2>1
  <2>6. \A t \in Shards : offsets'[t] = [l \in 0..Lanes - 1 |-> offsets'[t][l]]
    BY <2>2, <2>3, <2>4
  <2>7. offsets' = [t \in Shards |-> [l \in 0..Lanes - 1 |-> offsets'[t][l]]]
    BY <2>5, <2>6
  <2> QED
    BY <2>3, <2>4, <2>7
<1>10. indices' = [c \in 0..Columns - 1 |-> indices'[c]]
  BY <1>5
<1>11. \A l \in 0..Lanes - 1 : l \in lanes <=> l % 2 = parity /\ w + l \in Locals
  BY <1>2
<1> QED
  BY <1>7, <1>8, <1>9, <1>10, <1>11 DEF New

\* After a store of one parity its columns are listed a chunk further.
LEMMA StoreGoesOn ==
  ASSUME FindTypeOK, NEW s \in Shards, NEW parity \in {0, 1}, Store(s, parity),
         NEW p, p \in Searching, at[s] = p, ShardInv(s), Finds(readable[s], s, round[s], chunk[s], parity),
         NEW p2, p2 \in Searching, NEW k2,
         \A j \in Locals : Hit(s, parity, j) => Reach(p, round[s], chunk[s], j) = chunk[s] * chunkSize,
         \A j \in Locals : Reach(p2, round[s], k2, j) =
           IF Hit(s, parity, j) THEN chunk[s] * chunkSize + chunkSize ELSE Reach(p, round[s], chunk[s], j)
  PROVE  Lists(s, p2, round[s], k2, indices') /\ Ends(s, p2, round[s], k2, offsets'[s])
<1>1. matrix \in Matrices /\ chunkSize \in Chunks /\ colStart \in Starts /\ chunk[s] \in Nat
  BY DEF FindTypeOK
<1>a. \A j \in Locals : Hit(s, parity, j) =>
        indices'[Out(s, j)] =
          [i \in 0..Tokens - 1 |->
             IF i - offsets[s][j - round[s] * Lanes] \in 0..chunkSize - 1
             THEN readable[s][(j - round[s] * Lanes) \div 2].list[i - offsets[s][j - round[s] * Lanes]]
             ELSE indices[Out(s, j)][i]]
  BY StoreWrites, Zenon
<1>b. \A l \in 0..Lanes - 1 :
        offsets'[s][l] = IF l % 2 = parity /\ round[s] * Lanes + l \in Locals
                         THEN offsets[s][l] + readable[s][l \div 2].count ELSE offsets[s][l]
  BY StoreWrites, Zenon
<1>2. PICK w \in Nat : w = round[s] * Lanes
  BY LanesOfRound
<1>3. PICK k : k = chunk[s] * chunkSize
  OBVIOUS
<1>4. k \in Nat /\ k + chunkSize <= Tokens
  BY <1>1, <1>3, ChunkFacts DEF ShardInv, Loops
<1>5. ASSUME NEW j \in Locals
      PROVE  /\ Listed(indices'[Out(s, j)], Column(s, j), Reach(p2, round[s], k2, j))
             /\ \A l \in 0..Lanes - 1 : w + l = j =>
                  offsets'[s][l] = Cardinality(Below(Column(s, j), Reach(p2, round[s], k2, j)))
  <2>1. Listed(indices[Out(s, j)], Column(s, j), Reach(p, round[s], chunk[s], j))
    BY DEF ShardInv, Lists, Searching
  <2>2. \A l \in 0..Lanes - 1 : w + l = j =>
          offsets[s][l] = Cardinality(Below(Column(s, j), Reach(p, round[s], chunk[s], j)))
    BY <1>2 DEF ShardInv, Ends
  <2>3. CASE Hit(s, parity, j)
    <3>1. PICK l \in 0..Lanes - 1 : l = j - w /\ w + l = j /\ l % 2 = parity
      BY <1>2, <2>3 DEF Hit, Locals
    <3>2. offsets[s][l] = Cardinality(Below(Column(s, j), k))
      BY <1>3, <2>2, <2>3, <3>1
    <3>3. readable[s][l \div 2] = NonzeroWithCount(Column(s, j), k)
      BY <1>2, <1>3, <3>1 DEF Finds
    <3>4. indices'[Out(s, j)] =
            [i \in 0..Tokens - 1 |->
               IF i - offsets[s][l] \in 0..chunkSize - 1
               THEN NonzeroWithCount(Column(s, j), k).list[i - offsets[s][l]] ELSE indices[Out(s, j)][i]]
      <4>1. j - round[s] * Lanes = l
        BY <1>2, <3>1
      <4>2. indices'[Out(s, j)] =
              [i \in 0..Tokens - 1 |->
                 IF i - offsets[s][j - round[s] * Lanes] \in 0..chunkSize - 1
                 THEN readable[s][(j - round[s] * Lanes) \div 2].list[i - offsets[s][j - round[s] * Lanes]]
                 ELSE indices[Out(s, j)][i]]
        BY <1>a, <2>3
      <4> QED
        BY <3>3, <4>1, <4>2
    <3>5. Listed(indices[Out(s, j)], Column(s, j), k)
      BY <1>3, <2>1, <2>3
    <3>6. Column(s, j) \subseteq 0..Tokens - 1
      BY <1>1, FindFacts
    <3>7. /\ Listed(indices'[Out(s, j)], Column(s, j), k + chunkSize)
          /\ offsets[s][l] + NonzeroWithCount(Column(s, j), k).count
             = Cardinality(Below(Column(s, j), k + chunkSize))
      BY <1>1, <1>4, <3>2, <3>4, <3>5, <3>6, StoreLists
    <3>8. Reach(p2, round[s], k2, j) = k + chunkSize
      BY <1>3, <2>3
    <3>9. offsets'[s][l] = offsets[s][l] + readable[s][l \div 2].count
      BY <1>2, <1>b, <3>1
    <3>10. \A m \in 0..Lanes - 1 : w + m = j => m = l
      BY <3>1
    <3> QED
      BY <3>3, <3>7, <3>8, <3>9, <3>10
  <2>4. CASE ~Hit(s, parity, j)
    <3>1. indices'[Out(s, j)] = indices[Out(s, j)]
      BY <2>4, StoreWrites
    <3>2. Reach(p2, round[s], k2, j) = Reach(p, round[s], chunk[s], j)
      BY <2>4
    <3>3. \A l \in 0..Lanes - 1 : w + l = j => offsets'[s][l] = offsets[s][l]
      <4> TAKE l \in 0..Lanes - 1
      <4> HAVE w + l = j
      <4>1. j - w = l
        OBVIOUS
      <4>2. l % 2 # parity
        BY <1>2, <2>4, <4>1 DEF Hit
      <4> QED
        BY <1>b, <4>2
    <3> QED
      BY <2>1, <2>2, <3>1, <3>2, <3>3
  <2> QED
    BY <2>3, <2>4
<1> QED
  BY <1>2, <1>5 DEF Lists, Ends

LEMMA BelowEnds ==
  ASSUME matrix \in Matrices, chunkSize \in Chunks, colStart \in Starts, NEW s \in Shards, NEW j \in Locals
  PROVE  Cardinality(Below(Column(s, j), 0)) = 0 /\ Below(Column(s, j), Tokens) = Column(s, j)
<1>1. PICK n \in Nat : n = Tokens
  BY FindFacts
<1>2. \A x \in Column(s, j) : x \in 0..n - 1
  BY <1>1, FindFacts
<1>3. \A x \in Column(s, j) : ~(x < 0) /\ x < Tokens
  BY <1>1, <1>2
<1>4. Below(Column(s, j), 0) = {}
  BY <1>3, Zenon DEF Below
<1>5. Below(Column(s, j), Tokens) = Column(s, j)
  BY <1>3, Zenon DEF Below
<1> QED
  BY <1>4, <1>5, FS_EmptySet

LEMMA FindBegins == FindInit => FindInv
<1> SUFFICES ASSUME FindInit
             PROVE  FindInv
  OBVIOUS
<1>1. FindTypeOK
  <2>1. /\ matrix \in Matrices /\ chunkSize \in Chunks /\ colStart \in Starts
        /\ at \in [Shards -> Searching \cup {"pad", "write", "done"}]
        /\ round \in [Shards -> Nat] /\ chunk \in [Shards -> Nat]
    BY DEF FindInit
  <2>2. /\ indices = [c \in 0..Columns - 1 |-> indices[c]] /\ counts = [c \in 0..Columns - 1 |-> counts[c]]
        /\ offsets = [s \in Shards |-> [l \in 0..Lanes - 1 |-> offsets[s][l]]]
    BY DEF FindInit
  <2>3. /\ readable = [s \in Shards |-> [q \in 0..Quadrants - 1 |-> readable[s][q]]]
        /\ behind = [s \in Shards |-> [q \in 0..Quadrants - 1 |-> behind[s][q]]]
        /\ localCounts = [s \in Shards |-> [j \in Locals |-> localCounts[s][j]]]
    BY DEF FindInit, Locals
  <2> QED
    BY <2>1, <2>2, <2>3 DEF FindTypeOK
<1>2. ASSUME NEW s \in Shards
      PROVE  ShardInv(s)
  <2>1. at[s] = "pad" /\ round[s] = 0 /\ chunk[s] = 0 /\ \A l \in 0..Lanes - 1 : offsets[s][l] = 0
    BY DEF FindInit
  <2>2. 0 * Lanes = 0
    BY FindFacts, <1>1 DEF FindTypeOK
  <2>3. \A j \in Locals : ~(j < 0)
    BY DEF Locals
  <2> QED
    BY <2>1, <2>2, <2>3 DEF ShardInv, Lists, Ends, Holds, Tallies, Loops, Searching
<1> QED
  BY <1>1, <1>2 DEF FindInv

LEMMA PadOutputKeeps ==
  ASSUME FindInv, NEW s \in Shards, PadOutput(s)
  PROVE  FindInv'
<1>1. FindTypeOK /\ ShardInv(s) /\ matrix \in Matrices /\ chunkSize \in Chunks /\ colStart \in Starts
  BY DEF FindInv, FindTypeOK
<1>2. call' = call
  BY DEF PadOutput, call
<1>3. FindTypeOK'
  BY <1>1 DEF PadOutput, FindTypeOK, call, Searching, Locals
<1>4. /\ at[s] = "pad" /\ at'[s] = "find" /\ round'[s] = 0 /\ chunk'[s] = 0 /\ offsets'[s] = offsets[s]
      /\ \A l \in 0..Lanes - 1 : offsets[s][l] = 0
  BY <1>1 DEF PadOutput, FindTypeOK, ShardInv, Loops
<1>5. PICK h \in Nat \ {0} : h = PerShard /\ Columns = h + h
  BY <1>1, FindFacts
<1>6. \A t \in Shards, j \in Locals : Out(t, j) = (IF t = 0 THEN 0 ELSE h) + j /\ j \in 0..h - 1
  BY <1>5 DEF Shards, Out, Locals
<1>7. \A t \in Shards, j \in Locals :
        /\ Out(t, j) \in 0..Columns - 1
        /\ Out(t, j) \in FirstColumn(s)..FirstColumn(s) + PerShard - 1 <=> t = s
  BY <1>5, <1>6 DEF FirstColumn, Shards
<1>8. \A t \in Shards, j \in Locals :
        indices'[Out(t, j)] = IF NumChunks > 1 /\ t = s THEN [i \in 0..Tokens - 1 |-> Pad] ELSE indices[Out(t, j)]
  BY <1>7 DEF PadOutput
<1>9. \A j \in Locals : Reach("find", 0, 0, j) = 0
  <2>1. 0 * Lanes = 0 /\ 0 * chunkSize = 0
    BY <1>1, FindFacts
  <2> QED
    BY <1>6, <2>1 DEF Reach, Shards
<1>10. Lists(s, at'[s], round'[s], chunk'[s], indices')
  <2> SUFFICES ASSUME NEW j \in Locals
               PROVE  Listed(indices'[Out(s, j)], Column(s, j), 0)
    BY <1>4, <1>9 DEF Lists
  <2>1. \A i \in 0..Tokens - 1 : ~(i < 0)
    BY <1>1, FindFacts
  <2> QED
    <3>1. Cardinality(Below(Column(s, j), 0)) = 0
      BY <1>1, BelowEnds
    <3>2. NumChunks > 1 \/ 0 > 0 => indices'[Out(s, j)] = [i \in 0..Tokens - 1 |-> Pad]
      <4>1. NumChunks \in Nat /\ ~(0 > 0)
        BY <1>1, FindFacts
      <4>2. CASE NumChunks > 1
        BY <1>8, <4>2
      <4> QED
        BY <4>1, <4>2
    <3> QED
      BY <2>1, <3>1, <3>2 DEF Listed
<1>11. Ends(s, at'[s], round'[s], chunk'[s], offsets'[s])
  BY <1>1, <1>4, <1>9, BelowEnds DEF Ends
<1>12. 0 * Lanes = 0 /\ 0 < PerShard /\ 0 < NumChunks
  BY <1>1, FindFacts
<1>13. Loops(at'[s], round'[s], chunk'[s], offsets'[s])
  BY <1>4, <1>12 DEF Loops
<1>14. Tallies(s, at'[s], round'[s], localCounts'[s], counts')
  BY <1>4, <1>6, <1>12 DEF Tallies, Shards
<1>15. Holds(s, at'[s], round'[s], chunk'[s], readable'[s], behind'[s])
  BY <1>4 DEF Holds
<1>16. ASSUME NEW t \in Shards, t # s
       PROVE  ShardInv(t)'
  BY <1>1, <1>2, <1>8, <1>16, OtherShardKeeps DEF PadOutput, FindInv, FindTypeOK
<1> QED
  BY <1>2, <1>3, <1>10, <1>11, <1>13, <1>14, <1>15, <1>16, SearchStays DEF FindInv

LEMMA FindChunkKeeps ==
  ASSUME FindInv, NEW s \in Shards, FindChunk(s)
  PROVE  FindInv'
<1>1. FindTypeOK /\ ShardInv(s) /\ matrix \in Matrices /\ chunkSize \in Chunks /\ colStart \in Starts
  BY DEF FindInv, FindTypeOK
<1>2. call' = call
  BY DEF FindChunk, call
<1> DEFINE Result(l) == IF l < ColumnsThisRound(s)
                        THEN NonzeroWithCount(matrix[colStart + OutColumn(s, l) + 1], chunk[s] * chunkSize)
                        ELSE NoResult
<1>3. /\ readable' = [readable EXCEPT ![s] = [q \in DOMAIN @ |-> Result(2 * q)]]
      /\ behind' = [behind EXCEPT ![s] = [q \in DOMAIN @ |-> Result(2 * q + 1)]]
  BY Zenon DEF FindChunk
<1>4. \A l : l \in 0..Lanes - 1 /\ round[s] * Lanes + l \in Locals =>
        Result(l) = NonzeroWithCount(Column(s, round[s] * Lanes + l), chunk[s] * chunkSize)
  <2> SUFFICES ASSUME NEW l, l \in 0..Lanes - 1, round[s] * Lanes + l \in Locals
               PROVE  Result(l) = NonzeroWithCount(Column(s, round[s] * Lanes + l), chunk[s] * chunkSize)
    OBVIOUS
  <2>1. l \in 0..ColumnsThisRound(s) - 1 /\ l \in Int
    BY <1>1, FindFacts, LanesOfRound
  <2>2. ColumnsThisRound(s) \in Int
    <3>1. PICK h \in Nat : h = PerShard
      BY <1>1, FindFacts
    <3>2. PICK q \in Nat : q = Lanes
      BY <1>1, FindFacts
    <3>3. PICK r \in Nat : r = round[s]
      BY <1>1 DEF FindTypeOK
    <3> QED
      BY <3>1, <3>2, <3>3 DEF ColumnsThisRound
  <2>3. l < ColumnsThisRound(s)
    BY <2>1, <2>2
  <2>4. OutColumn(s, l) = Out(s, round[s] * Lanes + l)
    BY <1>1, <2>1, LanesOfRound
  <2> QED
    BY <2>3, <2>4 DEF Column
<1> HIDE DEF Result
<1>5. /\ \A q \in 0..Quadrants - 1 : readable'[s][q] = Result(2 * q) /\ behind'[s][q] = Result(2 * q + 1)
      /\ \A t \in Shards : t # s => readable'[t] = readable[t] /\ behind'[t] = behind[t]
      /\ readable' = [t \in Shards |-> [q \in 0..Quadrants - 1 |-> readable'[t][q]]]
      /\ behind' = [t \in Shards |-> [q \in 0..Quadrants - 1 |-> behind'[t][q]]]
  <2>1. readable = [t \in Shards |-> [q \in 0..Quadrants - 1 |-> readable[t][q]]]
    BY <1>1 DEF FindTypeOK
  <2>2. behind = [t \in Shards |-> [q \in 0..Quadrants - 1 |-> behind[t][q]]]
    BY <1>1 DEF FindTypeOK
  <2>3. readable'[s] = [q \in 0..Quadrants - 1 |-> Result(2 * q)]
    BY <1>3, <2>1
  <2>4. behind'[s] = [q \in 0..Quadrants - 1 |-> Result(2 * q + 1)]
    BY <1>3, <2>2
  <2>5. \A t \in Shards : t # s => readable'[t] = readable[t] /\ behind'[t] = behind[t]
    BY <1>3, <2>1, <2>2
  <2>6. readable' = [t \in Shards |-> readable'[t]] /\ behind' = [t \in Shards |-> behind'[t]]
    BY <1>3, <2>1, <2>2
  <2>7. \A t \in Shards : readable'[t] = [q \in 0..Quadrants - 1 |-> readable'[t][q]]
    BY <2>1, <2>3, <2>5
  <2>8. \A t \in Shards : behind'[t] = [q \in 0..Quadrants - 1 |-> behind'[t][q]]
    BY <2>2, <2>4, <2>5
  <2> QED
    BY <2>3, <2>4, <2>5, <2>6, <2>7, <2>8
<1>6. FindTypeOK'
  <2>1. at' \in [Shards -> Searching \cup {"pad", "write", "done"}]
    BY <1>1 DEF FindChunk, FindTypeOK, Searching
  <2>2. /\ readable' = [t \in Shards |-> [q \in 0..Quadrants - 1 |-> readable'[t][q]]]
        /\ behind' = [t \in Shards |-> [q \in 0..Quadrants - 1 |-> behind'[t][q]]]
    BY <1>5
  <2>3. UNCHANGED <<call, indices, counts, round, chunk, offsets, localCounts>>
    BY DEF FindChunk
  <2> QED
    BY <1>1, <2>1, <2>2, <2>3 DEF FindTypeOK, call, Locals
<1>7. /\ at[s] = "find" /\ at'[s] = "store even" /\ round' = round /\ chunk' = chunk /\ offsets' = offsets
      /\ indices' = indices /\ counts' = counts /\ localCounts' = localCounts
  BY <1>1 DEF FindChunk, FindTypeOK
<1>8. \A j : Reach(at'[s], round'[s], chunk'[s], j) = Reach(at[s], round[s], chunk[s], j)
  BY <1>7 DEF Reach
<1>9. Lists(s, at'[s], round'[s], chunk'[s], indices') /\ Ends(s, at'[s], round'[s], chunk'[s], offsets'[s])
  BY <1>1, <1>7, <1>8 DEF ShardInv, Lists, Ends, Searching
<1>10. Finds(readable'[s], s, round[s], chunk[s], 0) /\ Finds(behind'[s], s, round[s], chunk[s], 1)
  <2>1. \A l \in 0..Lanes - 1 : /\ l % 2 = 0 => l = 2 * (l \div 2)
                                /\ l % 2 = 1 => l = 2 * (l \div 2) + 1
                                /\ l \div 2 \in 0..Quadrants - 1
    BY <1>1, FindFacts, LanesOfRound
  <2> QED
    BY <1>4, <1>5, <2>1 DEF Finds
<1>11. Holds(s, at'[s], round'[s], chunk'[s], readable'[s], behind'[s])
  BY <1>7, <1>10 DEF Holds
<1>12. Tallies(s, at'[s], round'[s], localCounts'[s], counts') /\ Loops(at'[s], round'[s], chunk'[s], offsets'[s])
  BY <1>1, <1>7 DEF ShardInv, Tallies, Loops, Searching
<1>13. ASSUME NEW t \in Shards, t # s
       PROVE  ShardInv(t)'
  <2>1. at'[t] = at[t]
    BY <1>1, <1>13 DEF FindChunk, FindTypeOK
  <2> QED
    BY <1>2, <1>5, <1>7, <1>13, <2>1, OtherShardKeeps DEF FindInv
<1> QED
  BY <1>2, <1>6, <1>9, <1>11, <1>12, <1>13, SearchStays DEF FindInv

\* Types after a store.
LEMMA StoreTypes ==
  ASSUME FindTypeOK, NEW s \in Shards, NEW parity \in {0, 1}, Store(s, parity), call' = call,
         at' \in [Shards -> Searching \cup {"pad", "write", "done"}], chunk' \in [Shards -> Nat],
         UNCHANGED <<counts, round, readable, behind, localCounts>>
  PROVE  FindTypeOK'
<1>1. /\ offsets' = [t \in Shards |-> [l \in 0..Lanes - 1 |-> offsets'[t][l]]]
      /\ indices' = [c \in 0..Columns - 1 |-> indices'[c]]
  BY StoreWrites
<1> QED
  BY <1>1 DEF FindTypeOK, call, Locals

LEMMA StoreEvenKeeps ==
  ASSUME FindInv, NEW s \in Shards, StoreEven(s)
  PROVE  FindInv'
<1>1. FindTypeOK /\ ShardInv(s) /\ matrix \in Matrices /\ chunkSize \in Chunks /\ colStart \in Starts
  BY DEF FindInv, FindTypeOK
<1>2. call' = call /\ Store(s, 0) /\ UNCHANGED <<counts, round, chunk, readable, behind, localCounts>>
  BY DEF StoreEven, call
<1>3. at[s] = "store even" /\ at'[s] = "shuffle" /\ \A t \in Shards : t # s => at'[t] = at[t]
  BY <1>1 DEF StoreEven, FindTypeOK
<1>4. FindTypeOK'
  <2>1. at' \in [Shards -> Searching \cup {"pad", "write", "done"}]
    BY <1>1 DEF StoreEven, FindTypeOK, Searching
  <2>2. chunk' \in [Shards -> Nat]
    BY <1>1, <1>2 DEF FindTypeOK
  <2> QED
    BY <1>1, <1>2, <2>1, <2>2, StoreTypes
<1>5. PICK w \in Nat : w = round[s] * Lanes
  BY <1>1, LanesOfRound
<1>6. PICK n \in Nat \ {0} : n = Lanes
  BY <1>1, FindFacts
<1>7. \A j \in Locals : /\ j \in Int
                        /\ Hit(s, 0, j) <=> ~(j < w) /\ j < w + n /\ (j - w) % 2 = 0
  BY <1>5, <1>6 DEF Hit, Locals
<1>8. \A j \in Locals : Hit(s, 0, j) => Reach("store even", round[s], chunk[s], j) = chunk[s] * chunkSize
  BY <1>5, <1>6, <1>7 DEF Reach
<1>9. \A j \in Locals : Reach("shuffle", round[s], chunk[s], j) =
        IF Hit(s, 0, j) THEN chunk[s] * chunkSize + chunkSize ELSE Reach("store even", round[s], chunk[s], j)
  BY <1>5, <1>6, <1>7 DEF Reach
<1>10. Finds(readable[s], s, round[s], chunk[s], 0) /\ Finds(behind[s], s, round[s], chunk[s], 1)
  BY <1>1, <1>3 DEF ShardInv, Holds
<1>11. Lists(s, "shuffle", round[s], chunk[s], indices') /\ Ends(s, "shuffle", round[s], chunk[s], offsets'[s])
  <2>1. "store even" \in Searching /\ "shuffle" \in Searching
    BY DEF Searching
  <2> QED
    BY <1>1, <1>2, <1>3, <1>8, <1>9, <1>10, <2>1, StoreGoesOn
<1>12. Holds(s, at'[s], round'[s], chunk'[s], readable'[s], behind'[s])
  BY <1>2, <1>3, <1>10 DEF Holds
<1>13. Tallies(s, at'[s], round'[s], localCounts'[s], counts') /\ Loops(at'[s], round'[s], chunk'[s], offsets'[s])
  BY <1>1, <1>2, <1>3 DEF ShardInv, Tallies, Loops, Searching
<1>14. ASSUME NEW t \in Shards, t # s
       PROVE  ShardInv(t)'
  <2>1. offsets'[t] = offsets[t] /\ \A j \in Locals : indices'[Out(t, j)] = indices[Out(t, j)]
    BY <1>1, <1>2, <1>14, StoreWrites
  <2> QED
    BY <1>2, <1>3, <1>14, <2>1, OtherShardKeeps DEF FindInv
<1>15. Lists(s, at'[s], round'[s], chunk'[s], indices') /\ Ends(s, at'[s], round'[s], chunk'[s], offsets'[s])
  BY <1>2, <1>3, <1>11
<1> QED
  BY <1>2, <1>4, <1>12, <1>13, <1>14, <1>15, SearchStays DEF FindInv

LEMMA ShuffleKeeps ==
  ASSUME FindInv, NEW s \in Shards, Shuffle(s)
  PROVE  FindInv'
<1>1. FindTypeOK /\ ShardInv(s)
  BY DEF FindInv
<1>2. call' = call /\ UNCHANGED <<indices, counts, round, chunk, offsets, behind, localCounts>>
  BY DEF Shuffle, call
<1>3. /\ at[s] = "shuffle" /\ at'[s] = "store odd" /\ readable'[s] = behind[s]
      /\ \A t \in Shards : t # s => at'[t] = at[t] /\ readable'[t] = readable[t]
  BY <1>1 DEF Shuffle, FindTypeOK
<1>4. FindTypeOK'
  <2>1. at' \in [Shards -> Searching \cup {"pad", "write", "done"}]
    BY <1>1 DEF Shuffle, FindTypeOK, Searching
  <2>2. readable' = [t \in Shards |-> [q \in 0..Quadrants - 1 |-> readable'[t][q]]]
    <3>1. readable = [t \in Shards |-> [q \in 0..Quadrants - 1 |-> readable[t][q]]]
      BY <1>1 DEF FindTypeOK
    <3>2. behind = [t \in Shards |-> [q \in 0..Quadrants - 1 |-> behind[t][q]]]
      BY <1>1 DEF FindTypeOK
    <3>3. \A t \in Shards : readable'[t] = [q \in 0..Quadrants - 1 |-> readable'[t][q]]
      BY <1>3, <3>1, <3>2
    <3>4. readable' = [t \in Shards |-> readable'[t]]
      BY <3>1 DEF Shuffle
    <3> QED
      BY <3>3, <3>4
  <2> QED
    BY <1>1, <1>2, <2>1, <2>2 DEF FindTypeOK, call, Locals
<1>5. \A j : Reach(at'[s], round'[s], chunk'[s], j) = Reach(at[s], round[s], chunk[s], j)
  BY <1>2, <1>3 DEF Reach
<1>6. Lists(s, at'[s], round'[s], chunk'[s], indices') /\ Ends(s, at'[s], round'[s], chunk'[s], offsets'[s])
  BY <1>1, <1>2, <1>3, <1>5 DEF ShardInv, Lists, Ends, Searching
<1>7. Holds(s, at'[s], round'[s], chunk'[s], readable'[s], behind'[s])
  BY <1>1, <1>2, <1>3 DEF ShardInv, Holds
<1>8. Tallies(s, at'[s], round'[s], localCounts'[s], counts') /\ Loops(at'[s], round'[s], chunk'[s], offsets'[s])
  BY <1>1, <1>2, <1>3 DEF ShardInv, Tallies, Loops, Searching
<1>9. ASSUME NEW t \in Shards, t # s
      PROVE  ShardInv(t)'
  BY <1>2, <1>3, <1>9, OtherShardKeeps DEF FindInv
<1> QED
  BY <1>2, <1>4, <1>6, <1>7, <1>8, <1>9, SearchStays DEF FindInv

LEMMA StoreOddKeeps ==
  ASSUME FindInv, NEW s \in Shards, StoreOdd(s)
  PROVE  FindInv'
<1>1. FindTypeOK /\ ShardInv(s) /\ matrix \in Matrices /\ chunkSize \in Chunks /\ colStart \in Starts
  BY DEF FindInv, FindTypeOK
<1>2. call' = call /\ Store(s, 1) /\ UNCHANGED <<counts, round, readable, behind, localCounts>>
  BY DEF StoreOdd, call
<1>3. /\ at[s] = "store odd"
      /\ at'[s] = (IF chunk[s] + 1 < NumChunks THEN "find" ELSE "count")
      /\ chunk'[s] = (IF chunk[s] + 1 < NumChunks THEN chunk[s] + 1 ELSE 0)
      /\ \A t \in Shards : t # s => at'[t] = at[t] /\ chunk'[t] = chunk[t]
  BY <1>1 DEF StoreOdd, FindTypeOK
<1>4. FindTypeOK'
  <2>1. at' \in [Shards -> Searching \cup {"pad", "write", "done"}]
    BY <1>1 DEF StoreOdd, FindTypeOK, Searching
  <2>2. chunk' \in [Shards -> Nat]
    <3>1. chunk \in [Shards -> Nat]
      BY <1>1 DEF FindTypeOK
    <3>2. chunk' = [chunk EXCEPT ![s] = IF @ + 1 < NumChunks THEN @ + 1 ELSE 0]
      BY DEF StoreOdd
    <3>3. (IF chunk[s] + 1 < NumChunks THEN chunk[s] + 1 ELSE 0) \in Nat
      BY <3>1
    <3> HIDE DEF NumChunks
    <3> QED
      BY <3>1, <3>2, <3>3
  <2> QED
    BY <1>1, <1>2, <2>1, <2>2, StoreTypes
<1>5. PICK w \in Nat : w = round[s] * Lanes
  BY <1>1, LanesOfRound
<1>6. PICK n \in Nat \ {0} : n = Lanes
  BY <1>1, FindFacts
<1>7. PICK k \in Nat : k = chunk[s] /\ k < NumChunks /\ w < PerShard
  BY <1>1, <1>3, <1>5 DEF FindTypeOK, ShardInv, Loops, Searching
<1>8. PICK kk \in Nat : /\ kk = k * chunkSize /\ (k + 1) * chunkSize = kk + chunkSize
                        /\ k + 1 = NumChunks => kk + chunkSize = Tokens
  BY <1>1, <1>7, ChunkFacts
<1>9. NumChunks \in Nat /\ (k + 1 < NumChunks \/ k + 1 = NumChunks)
  <2>1. PICK q \in Nat : q = NumChunks
    BY <1>1, FindFacts
  <2> QED
    BY <1>7, <2>1
<1>20. k + 1 = NumChunks => ~(k + 1 < NumChunks)
  BY <1>9
<1>21. IF k + 1 < NumChunks THEN at'[s] = "find" /\ chunk'[s] = k + 1 ELSE at'[s] = "count" /\ chunk'[s] = 0
  BY <1>3, <1>7
<1>10. \A j \in Locals : /\ j \in Int
                         /\ (j - w) % 2 = 0 \/ (j - w) % 2 = 1
                         /\ Hit(s, 1, j) <=> ~(j < w) /\ j < w + n /\ (j - w) % 2 = 1
  BY <1>5, <1>6 DEF Hit, Locals
<1>11. \A j \in Locals : Hit(s, 1, j) => Reach("store odd", round[s], chunk[s], j) = chunk[s] * chunkSize
  BY <1>5, <1>6, <1>10 DEF Reach
<1>12. \A j \in Locals : Reach(at'[s], round[s], chunk'[s], j) =
         IF Hit(s, 1, j) THEN chunk[s] * chunkSize + chunkSize ELSE Reach("store odd", round[s], chunk[s], j)
  <2>1. \A j \in Locals : Reach("store odd", round[s], chunk[s], j) =
          IF j < w THEN Tokens ELSE IF j < w + n THEN IF (j - w) % 2 = 0 THEN kk + chunkSize ELSE kk ELSE 0
    BY <1>5, <1>6, <1>7, <1>8 DEF Reach
  <2>2. \A j \in Locals : Reach(at'[s], round[s], chunk'[s], j) =
          IF j < w THEN Tokens ELSE IF j < w + n THEN kk + chunkSize ELSE 0
    <3>1. CASE k + 1 < NumChunks
      <4>1. at'[s] = "find" /\ chunk'[s] * chunkSize = kk + chunkSize
        BY <1>3, <1>7, <1>8, <3>1
      <4> QED
        BY <1>5, <1>6, <4>1 DEF Reach
    <3>2. CASE k + 1 = NumChunks
      <4>1. at'[s] = "count" /\ Tokens = kk + chunkSize
        BY <1>8, <1>20, <1>21, <3>2
      <4> QED
        BY <1>5, <1>6, <4>1 DEF Reach
    <3> QED
      BY <1>9, <3>1, <3>2
  <2> QED
    BY <1>7, <1>8, <1>10, <2>1, <2>2
<1>13. Finds(readable[s], s, round[s], chunk[s], 1)
  BY <1>1, <1>3 DEF ShardInv, Holds
<1>14. Lists(s, at'[s], round[s], chunk'[s], indices') /\ Ends(s, at'[s], round[s], chunk'[s], offsets'[s])
  <2>1. "store odd" \in Searching /\ at'[s] \in Searching
    BY <1>3 DEF Searching
  <2> QED
    BY <1>1, <1>2, <1>3, <1>11, <1>12, <1>13, <2>1, StoreGoesOn
<1>15. Holds(s, at'[s], round'[s], chunk'[s], readable'[s], behind'[s])
  BY <1>3 DEF Holds
<1>16. Tallies(s, at'[s], round'[s], localCounts'[s], counts')
  BY <1>1, <1>2, <1>3 DEF ShardInv, Tallies
<1>17. Loops(at'[s], round'[s], chunk'[s], offsets'[s])
  <2>1. round'[s] * Lanes < PerShard
    BY <1>2, <1>5, <1>7
  <2>2. chunk'[s] < NumChunks /\ (at'[s] = "count" => chunk'[s] = 0) /\ at'[s] \in {"find", "count"}
    <3>1. 0 < NumChunks
      BY <1>1, FindFacts
    <3> QED
      BY <1>21, <3>1
  <2> QED
    BY <2>1, <2>2 DEF Loops
<1>18. ASSUME NEW t \in Shards, t # s
       PROVE  ShardInv(t)'
  <2>1. offsets'[t] = offsets[t] /\ \A j \in Locals : indices'[Out(t, j)] = indices[Out(t, j)]
    BY <1>1, <1>2, <1>18, StoreWrites
  <2> QED
    BY <1>2, <1>3, <1>18, <2>1, OtherShardKeeps DEF FindInv
<1>19. Lists(s, at'[s], round'[s], chunk'[s], indices') /\ Ends(s, at'[s], round'[s], chunk'[s], offsets'[s])
  BY <1>2, <1>14
<1> QED
  BY <1>2, <1>4, <1>15, <1>16, <1>17, <1>18, <1>19, SearchStays DEF FindInv

LEMMA EndRoundKeeps ==
  ASSUME FindInv, NEW s \in Shards, EndRound(s)
  PROVE  FindInv'
<1>1. FindTypeOK /\ ShardInv(s) /\ matrix \in Matrices /\ chunkSize \in Chunks /\ colStart \in Starts
  BY DEF FindInv, FindTypeOK
<1>2. call' = call /\ UNCHANGED <<indices, counts, chunk, readable, behind>>
  BY DEF EndRound, call
<1>3. PICK r \in Nat : r = round[s]
  BY <1>1 DEF FindTypeOK
<1>4. PICK n \in Nat \ {0} : n = Lanes
  BY <1>1, FindFacts
<1>5. PICK h \in Nat \ {0} : h = PerShard
  BY <1>1, FindFacts
<1>6. PICK w \in Nat : w = r * Lanes /\ (r + 1) * Lanes = w + n
  BY <1>3, <1>4
<1>7. /\ at[s] = "count" /\ chunk[s] = 0 /\ round'[s] = r + 1
      /\ at'[s] = IF w + n < h THEN "find" ELSE "write"
      /\ \A t \in Shards : t # s => at'[t] = at[t] /\ round'[t] = round[t]
  BY <1>1, <1>3, <1>5, <1>6 DEF EndRound, FindTypeOK, ShardInv, Loops
<1>8. /\ \A l \in 0..Lanes - 1 : offsets'[s][l] = 0
      /\ \A t \in Shards : t # s => offsets'[t] = offsets[t]
      /\ offsets' = [t \in Shards |-> [l \in 0..Lanes - 1 |-> offsets'[t][l]]]
  <2>1. offsets = [t \in Shards |-> [l \in 0..Lanes - 1 |-> offsets[t][l]]]
    BY <1>1 DEF FindTypeOK
  <2>2. offsets' = [offsets EXCEPT ![s] = [l \in DOMAIN @ |-> 0]]
    BY DEF EndRound
  <2>3. offsets'[s] = [l \in 0..Lanes - 1 |-> 0]
    BY <2>1, <2>2
  <2>4. \A t \in Shards : t # s => offsets'[t] = offsets[t]
    BY <2>1, <2>2
  <2>5. \A t \in Shards : offsets'[t] = [l \in 0..Lanes - 1 |-> offsets'[t][l]]
    BY <2>1, <2>3, <2>4
  <2>6. offsets' = [t \in Shards |-> offsets'[t]]
    BY <2>1, <2>2
  <2> QED
    BY <2>3, <2>4, <2>5, <2>6
<1>9. /\ \A j \in Locals : localCounts'[s][j] = IF j - w \in 0..ColumnsThisRound(s) - 1
                                                THEN offsets[s][j - w] ELSE localCounts[s][j]
      /\ \A t \in Shards : t # s => localCounts'[t] = localCounts[t]
      /\ localCounts' = [t \in Shards |-> [j \in Locals |-> localCounts'[t][j]]]
  <2>1. localCounts = [t \in Shards |-> [j \in Locals |-> localCounts[t][j]]]
    BY <1>1 DEF FindTypeOK
  <2>2. localCounts' = [localCounts EXCEPT ![s] =
          [c \in DOMAIN @ |-> IF c - w \in 0..ColumnsThisRound(s) - 1 THEN offsets[s][c - w] ELSE @[c]]]
    BY <1>3, <1>6 DEF EndRound
  <2>3. localCounts'[s] = [j \in Locals |-> IF j - w \in 0..ColumnsThisRound(s) - 1
                                            THEN offsets[s][j - w] ELSE localCounts[s][j]]
    BY <2>1, <2>2
  <2>4. \A t \in Shards : t # s => localCounts'[t] = localCounts[t]
    BY <2>1, <2>2
  <2>5. \A t \in Shards : localCounts'[t] = [j \in Locals |-> localCounts'[t][j]]
    BY <2>1, <2>3, <2>4
  <2>6. localCounts' = [t \in Shards |-> localCounts'[t]]
    BY <2>1, <2>2
  <2> QED
    BY <2>3, <2>4, <2>5, <2>6
<1>10. FindTypeOK'
  <2>1. at' \in [Shards -> Searching \cup {"pad", "write", "done"}]
    BY <1>1 DEF EndRound, FindTypeOK, Searching
  <2>2. round' \in [Shards -> Nat]
    BY <1>1 DEF EndRound, FindTypeOK
  <2>3. /\ offsets' = [t \in Shards |-> [l \in 0..Lanes - 1 |-> offsets'[t][l]]]
        /\ localCounts' = [t \in Shards |-> [j \in Locals |-> localCounts'[t][j]]]
    BY <1>8, <1>9
  <2> QED
    BY <1>1, <1>2, <2>1, <2>2, <2>3 DEF FindTypeOK, call, Locals
<1>11. \A j \in Locals : j \in 0..h - 1
  BY <1>5 DEF Locals
<1>12. 0 * chunkSize = 0
  BY <1>1, FindFacts
<1>13. \A j \in Locals : Reach(at[s], round[s], chunk[s], j) = IF j < w + n THEN Tokens ELSE 0
  <2> TAKE j \in Locals
  <2>1. j < w => j < w + n
    BY <1>11
  <2> QED
    BY <1>3, <1>4, <1>6, <1>7, <2>1 DEF Reach
<1>14. \A j \in Locals : Reach(at'[s], round'[s], chunk'[s], j) = IF j < w + n THEN Tokens ELSE 0
  BY <1>2, <1>4, <1>6, <1>7, <1>12 DEF Reach
<1>15. Lists(s, at'[s], round'[s], chunk'[s], indices')
  BY <1>1, <1>2, <1>7, <1>13, <1>14 DEF ShardInv, Lists
<1>16. Ends(s, at'[s], round'[s], chunk'[s], offsets'[s])
  <2> SUFFICES ASSUME NEW l \in 0..Lanes - 1, round'[s] * Lanes + l \in Locals
               PROVE  offsets'[s][l] = Cardinality(Below(Column(s, round'[s] * Lanes + l),
                                                         Reach(at'[s], round'[s], chunk'[s], round'[s] * Lanes + l)))
    BY DEF Ends
  <2>1. ~(round'[s] * Lanes + l < w + n)
    BY <1>4, <1>6, <1>7
  <2>2. Reach(at'[s], round'[s], chunk'[s], round'[s] * Lanes + l) = 0
    BY <1>14, <2>1
  <2> QED
    BY <1>1, <1>8, <2>2, BelowEnds
<1>17. Holds(s, at'[s], round'[s], chunk'[s], readable'[s], behind'[s])
  BY <1>7 DEF Holds
<1>18. Tallies(s, at'[s], round'[s], localCounts'[s], counts')
  <2>1. ASSUME NEW j \in Locals, j < w + n
        PROVE  localCounts'[s][j] = Cardinality(Column(s, j))
    <3>1. CASE j < w
      <4>1. j - w \notin 0..ColumnsThisRound(s) - 1
        BY <1>11, <3>1
      <4>2. localCounts[s][j] = Cardinality(Column(s, j))
        BY <1>1, <1>3, <1>6, <3>1 DEF ShardInv, Tallies
      <4> QED
        BY <1>9, <4>1, <4>2
    <3>2. CASE w <= j
      <4>1. PICK l \in 0..Lanes - 1 : l = j - w /\ w + l = j
        BY <1>4, <1>11, <2>1, <3>2
      <4>2. l \in 0..ColumnsThisRound(s) - 1
        BY <1>1, <1>3, <1>6, <4>1, LanesOfRound
      <4>3. offsets[s][l] = Cardinality(Below(Column(s, j), Reach(at[s], round[s], chunk[s], j)))
        BY <1>1, <1>3, <1>6, <1>7, <4>1 DEF ShardInv, Ends, Searching
      <4>4. Reach(at[s], round[s], chunk[s], j) = Tokens
        BY <1>13, <2>1
      <4>5. offsets[s][l] = Cardinality(Column(s, j))
        BY <1>1, <4>3, <4>4, BelowEnds
      <4> QED
        BY <1>9, <4>1, <4>2, <4>5
    <3> QED
      BY <1>11, <3>1, <3>2
  <2> QED
    BY <1>6, <1>7, <2>1 DEF Tallies
<1>19. Loops(at'[s], round'[s], chunk'[s], offsets'[s])
  <2>1. 0 < NumChunks
    BY <1>1, FindFacts
  <2>2. CASE w + n < h
    BY <1>2, <1>5, <1>6, <1>7, <2>1, <2>2 DEF Loops
  <2>3. CASE h <= w + n
    BY <1>2, <1>5, <1>6, <1>7, <2>1, <2>3 DEF Loops, Searching
  <2> QED
    BY <2>2, <2>3
<1>20. ASSUME NEW t \in Shards, t # s
       PROVE  ShardInv(t)'
  BY <1>2, <1>7, <1>8, <1>9, <1>20, OtherShardKeeps DEF FindInv
<1> QED
  BY <1>2, <1>10, <1>15, <1>16, <1>17, <1>18, <1>19, <1>20, SearchStays DEF FindInv

LEMMA WriteCountsKeeps ==
  ASSUME FindInv, NEW s \in Shards, WriteCounts(s)
  PROVE  FindInv'
<1>1. FindTypeOK /\ ShardInv(s) /\ matrix \in Matrices /\ chunkSize \in Chunks /\ colStart \in Starts
  BY DEF FindInv, FindTypeOK
<1>2. call' = call /\ UNCHANGED <<indices, round, chunk, offsets, readable, behind, localCounts>>
  BY DEF WriteCounts, call
<1>3. at[s] = "write" /\ at'[s] = "done" /\ \A t \in Shards : t # s => at'[t] = at[t]
  BY <1>1 DEF WriteCounts, FindTypeOK
<1>4. PICK h \in Nat \ {0} : h = PerShard /\ Columns = h + h
  BY <1>1, FindFacts
<1>5. PICK w \in Nat : w = round[s] * Lanes /\ h <= w
  BY <1>1, <1>3, <1>4, LanesOfRound DEF ShardInv, Loops
<1>6. \A t \in Shards, j \in Locals : /\ Out(t, j) = (IF t = 0 THEN 0 ELSE h) + j /\ j \in 0..h - 1
                                      /\ Out(t, j) \in 0..Columns - 1
  BY <1>1, <1>4, FindFacts DEF Shards, Out, Locals
<1>7. FirstColumn(s) = IF s = 0 THEN 0 ELSE h
  BY <1>4 DEF FirstColumn, Shards
<1>8. \A t \in Shards, j \in Locals :
        /\ t = s => Out(t, j) - FirstColumn(s) \in 0..PerShard - 1 /\ Out(t, j) - FirstColumn(s) = j
        /\ t # s => Out(t, j) - FirstColumn(s) \notin 0..PerShard - 1
  BY <1>4, <1>6, <1>7 DEF Shards
<1>9. counts' = [c \in 0..Columns - 1 |->
                   IF c - FirstColumn(s) \in 0..PerShard - 1 THEN localCounts[s][c - FirstColumn(s)] ELSE counts[c]]
  BY DEF WriteCounts
<1>10. \A j \in Locals : counts'[Out(s, j)] = localCounts[s][j]
  BY <1>6, <1>8, <1>9
<1>11. \A t \in Shards, j \in Locals : t # s => counts'[Out(t, j)] = counts[Out(t, j)]
  BY <1>6, <1>8, <1>9
<1>12. FindTypeOK'
  <2>1. at' \in [Shards -> Searching \cup {"pad", "write", "done"}]
    BY <1>1 DEF WriteCounts, FindTypeOK, Searching
  <2>2. counts' = [c \in 0..Columns - 1 |-> counts'[c]]
    BY <1>9
  <2> QED
    BY <1>1, <1>2, <2>1, <2>2 DEF FindTypeOK, call, Locals
<1>13. \A j \in Locals : j < w
  BY <1>5, <1>6 DEF Shards
<1>14. \A j \in Locals : Reach(at'[s], round'[s], chunk'[s], j) = Reach(at[s], round[s], chunk[s], j)
  BY <1>2, <1>5, <1>13 DEF Reach
<1>15. Lists(s, at'[s], round'[s], chunk'[s], indices')
  BY <1>1, <1>2, <1>3, <1>14 DEF ShardInv, Lists
<1>16. Tallies(s, at'[s], round'[s], localCounts'[s], counts')
  BY <1>1, <1>2, <1>5, <1>10, <1>13 DEF ShardInv, Tallies
<1>17. /\ Ends(s, at'[s], round'[s], chunk'[s], offsets'[s])
       /\ Holds(s, at'[s], round'[s], chunk'[s], readable'[s], behind'[s])
  BY <1>3 DEF Ends, Holds, Searching
<1>18. Loops(at'[s], round'[s], chunk'[s], offsets'[s])
  BY <1>2, <1>3, <1>4, <1>5 DEF Loops, Searching
<1>19. ASSUME NEW t \in Shards, t # s
       PROVE  ShardInv(t)'
  BY <1>2, <1>3, <1>11, <1>19, OtherShardKeeps DEF FindInv
<1> QED
  BY <1>2, <1>12, <1>15, <1>16, <1>17, <1>18, <1>19, SearchStays DEF FindInv

LEMMA AllIsFound ==
  ASSUME FindInv
  PROVE  FindsAllNonzeros
<1> SUFFICES ASSUME \A s \in Shards : at[s] = "done", NEW c \in 0..Columns - 1
             PROVE  LET column == matrix[colStart + c + 1]
                    IN /\ counts[c] = Cardinality(column)
                       /\ \A i \in 0..Tokens - 1 :
                            IF i < Cardinality(column)
                            THEN /\ indices[c][i] \in column
                                 /\ Cardinality({t \in column : t < indices[c][i]}) = i
                            ELSE indices[c][i] = Pad
  BY DEF FindsAllNonzeros
<1>1. FindTypeOK /\ matrix \in Matrices /\ chunkSize \in Chunks /\ colStart \in Starts
  BY DEF FindInv, FindTypeOK
<1>2. PICK s \in Shards, j \in Locals : c = Out(s, j)
  BY <1>1, ColumnsApart
<1>3. ShardInv(s) /\ at[s] = "done"
  BY DEF FindInv
<1>4. matrix[colStart + c + 1] = Column(s, j)
  BY <1>2 DEF Column
<1>5. counts[c] = Cardinality(Column(s, j))
  BY <1>2, <1>3 DEF ShardInv, Tallies
<1>6. j < round[s] * Lanes
  <2>1. PICK h \in Nat : h = PerShard
    BY <1>1, FindFacts
  <2>2. h <= round[s] * Lanes /\ round[s] * Lanes \in Nat
    BY <1>1, <1>3, <2>1, LanesOfRound DEF ShardInv, Loops
  <2> QED
    BY <2>1, <2>2 DEF Locals
<1>7. Listed(indices[c], Column(s, j), Tokens)
  <2>1. Reach(at[s], round[s], chunk[s], j) = Tokens
    BY <1>6 DEF Reach
  <2> QED
    BY <1>2, <1>3, <2>1 DEF ShardInv, Lists
<1>8. Below(Column(s, j), Tokens) = Column(s, j) /\ Tokens > 0
  BY <1>1, BelowEnds, FindFacts
<1>9. \A i \in 0..Tokens - 1 :
        IF i < Cardinality(Column(s, j))
        THEN indices[c][i] \in Column(s, j) /\ Cardinality(Below(Column(s, j), indices[c][i])) = i
        ELSE indices[c][i] = Pad
  BY <1>7, <1>8 DEF Listed
<1> QED
  BY <1>4, <1>5, <1>9, Zenon DEF Below

(* When both cores are done, every column's nonzero positions are listed in  *)
(* ascending order, padding after them, with their number, for any matrix,   *)
(* chunk size and number of columns and lanes, whatever the memory held      *)
(* before (find_nonzero_indices.py).                                         *)
THEOREM NonzerosAreFound == FindSpec => []FindsAllNonzeros
<1>1. FindInv /\ [FindNext]_findVars => FindInv'
  <2> SUFFICES ASSUME FindInv, [FindNext]_findVars
               PROVE  FindInv'
    OBVIOUS
  <2>1. CASE UNCHANGED findVars
    <3>1. call' = call /\ UNCHANGED <<indices, counts, at, round, chunk, offsets, readable, behind, localCounts>>
      BY <2>1 DEF findVars, call
    <3>2. FindTypeOK'
      BY <3>1 DEF FindInv, FindTypeOK, call, Locals
    <3>3. \A s \in Shards : ShardInv(s)'
      BY <3>1, OtherShardKeeps DEF FindInv
    <3> QED
      BY <3>2, <3>3 DEF FindInv
  <2>2. CASE FindNext
    BY <2>2, PadOutputKeeps, FindChunkKeeps, StoreEvenKeeps, ShuffleKeeps, StoreOddKeeps, EndRoundKeeps,
       WriteCountsKeeps DEF FindNext
  <2> QED
    BY <2>1, <2>2
<1> QED
  BY <1>1, FindBegins, AllIsFound, PTL DEF FindSpec

-----------------------------------------------------------------------------
(* Both, side by side: IndicesMatchReference of IndexKernels, for every      *)
(* matrix, chunk size and start and every mergeable call of the flattening.  *)
THEOREM IndicesStayRight ==
  ASSUME \A f \in Flattens : Mergeable(f)
  PROVE  IndexSpec => []IndicesMatchReference
<1>1. FlattenSpec => []FlattensLikeReference
  BY FlattensLikeTheReference
<1>2. FindSpec => []FindsAllNonzeros
  BY NonzerosAreFound
<1> QED
  BY <1>1, <1>2, PTL DEF IndexSpec, IndicesMatchReference
================================================================================
