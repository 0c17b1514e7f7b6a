------------------------- MODULE SsmAndTiles_proof -------------------------
(***************************************************************************)
(* Where columns and cells lie in a bucket and in a tile: proofs about     *)
(* SsmLayout and TiledStorage for every set of tables, rows and values, of *)
(* any number of columns, rows and writes.                                 *)
(*                                                                         *)
(* SsmLayout.  The inductive invariant has two halves.  LayoutInv is what setup brings *)
(* about: once its loops are over the index fits or the buckets are as     *)
(* large as they may be, and the columns lie one behind the other in the   *)
(* bucket.  From it follows that the bytes of two cells are apart, or that *)
(* they are booleans of one column in one byte (RoomsApart).  BytesInv is  *)
(* what the writes bring about: every cell holds, where the writer has it, *)
(* the last value written (CellsHold), and the string buckets are filled   *)
(* from their beginning and not too far (StringsFit).  The property itself *)
(* is not inductive: it speaks of the flushed file only, and says nothing  *)
(* of the bytes and bits between the cells that the next write moves.      *)
(* That the reader finds the same place is BucketFound, on the divisions.  *)
(*                                                                         *)
(* TiledStorage.  Both sides sort the columns alike (OrdersAgree), so that *)
(* they lie one behind the other in a tile (ColumnsLieApart); where the    *)
(* sides agree on booleans the rows of a tile fit into a column's area     *)
(* (CellsFit), and so no two cells share a byte and none is behind the     *)
(* file's end (CellsLieApart).  The invariant, TiledInv, says which cells  *)
(* the file has so far: what the property says only of the finished file.  *)
(***************************************************************************)
EXTENDS SsmLayout, TiledStorage, SequenceTheorems, FiniteSetTheorems, WellFoundedInduction, TLAPS

\* A set of numbers has a least one.
LEMMA LeastNumber ==
    ASSUME NEW T \in SUBSET Nat, T # {}
    PROVE  \E k \in T : \A j \in T : k <= j
<1> DEFINE UpToNumber(k) == {j \in T : j <= k}
           Sets == {UpToNumber(k) : k \in T}
<1>0. \A j \in T : j \in Nat
    OBVIOUS
<1>1. ASSUME NEW k \in T PROVE UpToNumber(k) \in FiniteSubsetsOf(Nat)
    <2>1. IsFiniteSet(0..k) /\ \A j \in T : j <= k => j \in 0..k
        BY <1>0, FS_Interval
    <2>2. IsFiniteSet(UpToNumber(k))
        BY <2>1, FS_Subset
    <2> QED BY <2>2 DEF FiniteSubsetsOf
<1>2. Sets \subseteq FiniteSubsetsOf(Nat) /\ Sets # {}
    BY <1>1
<1>3. \E s \in Sets : \A r \in Sets : <<r, s>> \notin StrictSubsetOrdering(Nat)
    <2> HIDE DEF Sets
    <2> QED BY <1>2, FS_StrictSubsetOrderingWellFounded, WFMin
<1>4. PICK k \in T : \A j \in T : <<UpToNumber(j), UpToNumber(k)>> \notin StrictSubsetOrdering(Nat)
    BY <1>3
<1>5. ASSUME NEW j \in T, j < k PROVE FALSE
    <2>1. k <= k /\ ~(k <= j) /\ \A i \in T : i <= j => i <= k
        BY <1>0, <1>5
    <2>2. UpToNumber(j) \subseteq UpToNumber(k) /\ k \in UpToNumber(k) /\ k \notin UpToNumber(j)
        BY <2>1
    <2>3. UpToNumber(j) \in SUBSET Nat /\ UpToNumber(k) \in SUBSET Nat
        BY <1>0
    <2> QED BY <1>4, <2>2, <2>3 DEF StrictSubsetOrdering
<1> QED BY <1>0, <1>5

\* A sum over finitely many numbers is a number.
LEMMA SumIsNat ==
    ASSUME NEW f, IsFiniteSet(DOMAIN f), \A x \in DOMAIN f : f[x] \in Nat
    PROVE  FoldFunction(+, 0, f) \in Nat
<1> DEFINE S == DOMAIN f
           ch(s) == CHOOSE x \in s : TRUE
           Step(g, s) == IF s = {} THEN 0 ELSE f[ch(s)] + g[s \ {ch(s)}]
           it == CHOOSE g : g = [s \in SUBSET S |-> Step(g, s)]
           Small(n) == {s \in SUBSET S : Cardinality(s) <= n}
           Good(n) == \E g \in [Small(n) -> Nat] : \A s \in Small(n) : g[s] = Step(g, s)
<1>1. FoldFunction(+, 0, f) = it[S]
    BY DEF FoldFunction, FoldFunctionOnSet, MapThenFoldSet
<1>2. ASSUME NEW s \in SUBSET S
      PROVE  /\ IsFiniteSet(s) /\ Cardinality(s) \in Nat
             /\ Cardinality(s) = 0 => s = {}
             /\ s # {} => /\ ch(s) \in S /\ f[ch(s)] \in Nat /\ s \ {ch(s)} \in SUBSET S
                          /\ Cardinality(s \ {ch(s)}) = Cardinality(s) - 1
    <2>1. IsFiniteSet(s)
        BY FS_Subset
    <2>2. Cardinality(s) \in Nat /\ (Cardinality(s) = 0 => s = {})
        BY <2>1, FS_CardinalityType, FS_EmptySet
    <2>3. ASSUME s # {} PROVE ch(s) \in s
        BY <2>3
    <2>4. ASSUME s # {} PROVE Cardinality(s \ {ch(s)}) = Cardinality(s) - 1
        <3> HIDE DEF ch
        <3> QED BY <2>1, <2>3, <2>4, FS_RemoveElement
    <2> HIDE DEF ch
    <2> QED BY <2>1, <2>2, <2>3, <2>4
<1> HIDE DEF ch
<1>3. ASSUME NEW k \in Nat, k > 0, Good(k - 1) PROVE Good(k)
    <2>1. PICK g \in [Small(k - 1) -> Nat] : \A s \in Small(k - 1) : g[s] = Step(g, s)
        BY <1>3
    <2> DEFINE h == [s \in Small(k) |-> Step(g, s)]
    <2>2. ASSUME NEW s \in Small(k), s # {}
          PROVE  s \ {ch(s)} \in Small(k - 1) /\ s \ {ch(s)} \in Small(k) /\ f[ch(s)] \in Nat
        BY <1>2, <2>2, <1>3
    <2>3. ASSUME NEW s \in Small(k) PROVE h[s] \in Nat
        <3>1. CASE s = {}
            BY <3>1
        <3>2. CASE s # {}
            <4>1. g[s \ {ch(s)}] \in Nat
                BY <2>2, <3>2
            <4> QED BY <4>1, <2>2, <3>2
        <3> QED BY <3>1, <3>2
    <2>4. ASSUME NEW s \in Small(k) PROVE h[s] = Step(h, s)
        <3>1. CASE s = {}
            BY <3>1
        <3>2. CASE s # {}
            <4>1. h[s \ {ch(s)}] = g[s \ {ch(s)}]
                BY <2>1, <2>2, <3>2
            <4> QED BY <4>1, <3>2
        <3> QED BY <3>1, <3>2
    <2>5. h \in [Small(k) -> Nat]
        BY <2>3
    <2> HIDE DEF h
    <2> QED BY <2>4, <2>5
<1>4. Good(0)
    <2> DEFINE h == [s \in Small(0) |-> 0]
    <2>1. ASSUME NEW s \in Small(0) PROVE s = {}
        <3>1. Cardinality(s) \in Nat /\ Cardinality(s) <= 0 /\ (Cardinality(s) = 0 => s = {})
            BY <1>2
        <3> QED BY <3>1
    <2>2. h \in [Small(0) -> Nat] /\ \A s \in Small(0) : h[s] = Step(h, s)
        BY <2>1
    <2> QED BY <2>2
<1>5. ASSUME NEW n \in Nat PROVE Good(n)
    <2> HIDE DEF Good
    <2> DEFINE Bad == {m \in Nat : ~Good(m)}
    <2>1. SUFFICES ASSUME Bad # {} PROVE FALSE
        OBVIOUS
    <2>2. PICK k \in Bad : \A j \in Bad : k <= j
        BY <2>1, LeastNumber
    <2>3. k \in Nat /\ k # 0
        BY <1>4
    <2>4. k - 1 \in Nat /\ k - 1 \notin Bad
        BY <2>2, <2>3
    <2> QED BY <2>3, <2>4, <1>3
<1>6. Cardinality(S) \in Nat /\ Small(Cardinality(S)) = SUBSET S
    <2>1. \A s \in SUBSET S : Cardinality(s) <= Cardinality(S)
        BY FS_Subset
    <2> QED BY <1>2, <2>1
<1>7. \E g : g = [s \in SUBSET S |-> Step(g, s)]
    <2>1. PICK g \in [SUBSET S -> Nat] : \A s \in SUBSET S : g[s] = Step(g, s)
        <3>1. Good(Cardinality(S))
            BY <1>5, <1>6
        <3> QED BY <3>1, <1>6
    <2>2. g = [s \in SUBSET S |-> Step(g, s)]
        BY <2>1
    <2> QED BY <2>2
<1>8. it = [s \in SUBSET S |-> Step(it, s)]
    BY <1>7
<1> HIDE DEF it
<1>9. ASSUME NEW s \in SUBSET S PROVE it[s] \in Nat
    <2> DEFINE Bad == {m \in Nat : \E r \in SUBSET S : Cardinality(r) = m /\ it[r] \notin Nat}
    <2>1. SUFFICES ASSUME Bad # {} PROVE FALSE
        BY <1>2
    <2>2. PICK k \in Bad : \A j \in Bad : k <= j
        BY <2>1, LeastNumber
    <2>3. PICK r \in SUBSET S : Cardinality(r) = k /\ it[r] \notin Nat
        OBVIOUS
    <2>4. it[r] = Step(it, r)
        BY <1>8
    <2>5. r # {}
        BY <2>3, <2>4
    <2>6. k - 1 \notin Bad /\ k \in Nat
        BY <2>2
    <2>7. it[r \ {ch(r)}] \in Nat
        BY <2>3, <2>5, <2>6, <1>2
    <2> QED BY <2>3, <2>4, <2>5, <2>7, <1>2
<1> QED BY <1>1, <1>9

----------------------------------------------------------------------------
(* Numbers.                                                                *)

\* Division and remainder of a row by the rows of a bucket.
LEMMA Divided ==
    ASSUME NEW r \in Nat, NEW w \in Nat \ {0}
    PROVE  /\ r \div w \in Nat /\ r % w \in 0..(w - 1)
           /\ r = (r \div w) * w + (r % w)
OBVIOUS

\* Products grow with their factors: SMT has no rule for two unknown ones.
LEMMA Products ==
    ASSUME NEW x \in Nat, NEW y \in Nat, NEW w \in Nat
    PROVE  /\ x * w \in Nat
           /\ x < y => x * w + w <= y * w
           /\ x <= y => x * w <= y * w
<1>1. x * w \in Nat
    OBVIOUS
<1>2. ASSUME x <= y PROVE x * w <= y * w
    <2> DEFINE d == y - x
    <2>1. d \in Nat /\ y = x + d
        BY <1>2
    <2>2. y * w = x * w + d * w /\ d * w \in Nat
        BY <2>1
    <2> QED BY <1>1, <2>2
<1>3. ASSUME x < y PROVE x * w + w <= y * w
    <2> DEFINE d == y - (x + 1)
    <2>1. d \in Nat /\ y = x + 1 + d
        BY <1>3
    <2>2. y * w = x * w + w + d * w /\ d * w \in Nat
        BY <2>1
    <2> QED BY <1>1, <2>2
<1> QED BY <1>1, <1>2, <1>3

\* The row before the end of a bucket of w rows, and of a table of n rows.
LEMMA BucketEnds ==
    ASSUME NEW w \in Nat \ {0}, NEW q \in Nat, NEW m \in 0..(w - 1),
           NEW n \in Nat, q * w + m < n
    PROVE  /\ LET end == (q + 1) * w - 1
              IN  /\ q * w + m <= end /\ end \in Nat
           /\ \A d \in Nat : d < q =>
                /\ (d + 1) * w - 1 \in Nat
                /\ (d + 1) * w - 1 < q * w
                /\ (d + 1) * w - 1 < n
<1>1. q * w \in Nat /\ (q + 1) * w = q * w + w
    BY Products
<1>2. ASSUME NEW d \in Nat, d < q
      PROVE  d * w \in Nat /\ (d + 1) * w = d * w + w /\ d * w + w <= q * w
    BY <1>2, Products
<1> QED BY <1>1, <1>2

\* A later row is in no earlier bucket.
LEMMA DividedInOrder ==
    ASSUME NEW r \in Nat, NEW q \in Nat, NEW w \in Nat \ {0}, r <= q
    PROVE  r \div w <= q \div w
<1>1. r \div w \in Nat /\ q \div w \in Nat /\ (r \div w) * w <= r /\ q < (q \div w) * w + w
    BY Divided
<1>2. ASSUME q \div w < r \div w PROVE FALSE
    <2>1. (q \div w) * w + w <= (r \div w) * w
        BY <1>1, <1>2, Products
    <2> QED BY <1>1, <2>1, Products
<1> QED BY <1>1, <1>2

----------------------------------------------------------------------------
(* Tables and their columns.                                               *)

\* What SsmAssumption says of the columns of the table.
LEMMA TableColumns ==
    ASSUME table \in SsmTables
    PROVE  /\ table.nrow \in Nat /\ Len(table.columns) \in Nat
           /\ Cols = 1..Len(table.columns) /\ IsFiniteSet(Cols)
           /\ \A c \in Cols :
                /\ table.columns[c].kind \in {"number", "string", "bool"}
                /\ table.columns[c].size \in Nat /\ table.columns[c].bits \in Nat
                /\ table.columns[c].kind = "string" => table.columns[c].size = 12
                /\ table.columns[c].kind = "bool" =>
                     table.columns[c].size = 0 /\ table.columns[c].bits # 0
<1>1. /\ table.nrow \in Nat
      /\ table.columns \in Seq([kind : {"number", "string", "bool"}, size : Nat, bits : Nat])
    BY SsmAssumption
<1>2. Cols = 1..Len(table.columns) /\ Len(table.columns) \in Nat
    BY <1>1 DEF Cols
<1>3. IsFiniteSet(Cols)
    BY <1>2, FS_Interval
<1>4. ASSUME NEW c \in Cols
      PROVE  /\ table.columns[c].kind \in {"number", "string", "bool"}
             /\ table.columns[c].size \in Nat /\ table.columns[c].bits \in Nat
    <2>1. table.columns[c] \in [kind : {"number", "string", "bool"}, size : Nat, bits : Nat]
        BY <1>1, <1>2, ElementOfSeq, Zenon
    <2> QED BY <2>1
<1>5. \A c \in Cols : /\ table.columns[c].kind = "string" => table.columns[c].size = 12
                      /\ table.columns[c].kind = "bool" =>
                           table.columns[c].size = 0 /\ table.columns[c].bits # 0
    BY SsmAssumption DEF Cols
<1> QED BY <1>1, <1>2, <1>3, <1>4, <1>5

\* The bytes of a column in a bucket; booleans have at least a bit for each row.
LEMMA WidthIsNat ==
    ASSUME table \in SsmTables, NEW c \in Cols, NEW n \in Nat
    PROVE  /\ Width(c, n) \in Nat
           /\ table.columns[c].kind = "bool" => (n + 7) \div 8 <= Width(c, n)
           /\ table.columns[c].kind # "bool" => Width(c, n) = n * table.columns[c].size
<1>1. /\ table.columns[c].size \in Nat /\ table.columns[c].bits \in Nat
      /\ table.columns[c].kind = "bool" => table.columns[c].bits # 0
    BY TableColumns
<1>2. n * table.columns[c].size \in Nat
    BY <1>1, Products
<1>3. PICK m \in Nat : m = n * table.columns[c].bits
    BY <1>1, Products
<1>4. table.columns[c].kind = "bool" => n <= m
    <2>1. PICK k \in Nat : k = table.columns[c].bits
        BY <1>1
    <2>2. k # 0 => 1 * n <= k * n
        BY Products
    <2> QED BY <1>1, <1>3, <2>1, <2>2
<1>5. (m + 7) \div 8 \in Nat /\ (n <= m => (n + 7) \div 8 <= (m + 7) \div 8)
    BY Divided, DividedInOrder
<1> QED BY <1>1, <1>2, <1>3, <1>4, <1>5 DEF Width, Bytes

\* compute_data_size and total_row_bytes are sums of numbers.
LEMMA DataSizeIsNat ==
    ASSUME table \in SsmTables
    PROVE  RowBytes \in Nat /\ \A n \in Nat : DataSize(n) \in Nat
<1>1. RowBytes \in Nat
    <2> DEFINE f == [c \in Cols |-> table.columns[c].size]
    <2>1. IsFiniteSet(DOMAIN f) /\ \A c \in DOMAIN f : f[c] \in Nat
        BY TableColumns
    <2>2. FoldFunction(+, 0, f) \in Nat
        <3> HIDE DEF f
        <3> QED BY <2>1, SumIsNat
    <2> QED BY <2>2 DEF RowBytes
<1>2. ASSUME NEW n \in Nat PROVE DataSize(n) \in Nat
    <2> DEFINE f == [c \in Cols |-> Width(c, n)]
    <2>1. IsFiniteSet(DOMAIN f) /\ \A c \in DOMAIN f : f[c] \in Nat
        BY TableColumns, WidthIsNat
    <2>2. FoldFunction(+, 0, f) \in Nat
        <3> HIDE DEF f
        <3> QED BY <2>1, SumIsNat
    <2> QED BY <2>2 DEF DataSize
<1> QED BY <1>1, <1>2

\* There is at least one row in a bucket.
LEMMA RowsByBytesIsNat ==
    ASSUME table \in SsmTables, NEW size \in Nat, NEW n \in Nat
    PROVE  RowsByBytes(size, n) \in Nat \ {0}
<1>1. RowBytes \in Nat
    BY DataSizeIsNat
<1>2. RowBytes > 0 => size \div RowBytes \in Nat
    BY <1>1, Divided
<1> QED BY <1>1, <1>2 DEF RowsByBytes, AtLeastOne

\* bucket_size_ keeps to its upper bound.
LEMMA ClampedIsNat ==
    ASSUME NEW n \in Nat
    PROVE  Clamped(n) \in Nat /\ Clamped(n) <= MaxBucketSize
BY SsmAssumption DEF Clamped

\* A bucket is there for every row.
LEMMA BucketsIsNat ==
    ASSUME table \in SsmTables, layout.rows \in Nat \ {0}
    PROVE  /\ Buckets \in Nat
           /\ \A r \in Nat : r < table.nrow => r \div layout.rows \in 0..(Buckets - 1)
<1>1. table.nrow \in Nat
    BY TableColumns
<1>2. ASSUME table.nrow # 0 PROVE (table.nrow - 1) \div layout.rows \in Nat
    <2>1. table.nrow - 1 \in Nat
        BY <1>1, <1>2
    <2> QED BY <2>1, Divided
<1>3. Buckets \in Nat
    BY <1>1, <1>2 DEF Buckets
<1>4. ASSUME NEW r \in Nat, r < table.nrow PROVE r \div layout.rows \in 0..(Buckets - 1)
    <2>1. table.nrow - 1 \in Nat /\ r <= table.nrow - 1 /\ table.nrow # 0
        BY <1>1, <1>4
    <2>2. r \div layout.rows <= (table.nrow - 1) \div layout.rows
        BY <2>1, DividedInOrder
    <2>3. Buckets = (table.nrow - 1) \div layout.rows + 1
        BY <2>1 DEF Buckets
    <2>4. r \div layout.rows \in Nat
        BY Divided
    <2> QED BY <1>2, <2>1, <2>2, <2>3, <2>4
<1> QED BY <1>3, <1>4

\* The index names the bucket that division finds.
LEMMA BucketFound ==
    ASSUME table \in SsmTables, layout.rows \in Nat \ {0},
           NEW r \in Nat, r < table.nrow
    PROVE  /\ FindBucket(r) = r \div layout.rows
           /\ r - StartRow(FindBucket(r)) = r % layout.rows
<1>1. PICK w \in Nat \ {0} : w = layout.rows
    OBVIOUS
<1>2. PICK q \in Nat : q = r \div w
    BY Divided
<1>3. PICK m \in 0..(w - 1) : m = r % w
    BY Divided
<1>4. r = q * w + m /\ q * w \in Nat
    BY <1>2, <1>3, Divided, Products
<1>5. table.nrow \in Nat /\ Buckets \in Nat /\ q \in 0..(Buckets - 1)
    BY <1>1, <1>2, TableColumns, BucketsIsNat
<1>6. /\ r <= (q + 1) * w - 1 /\ (q + 1) * w - 1 \in Nat
      /\ \A d \in Nat : d < q =>
            /\ (d + 1) * w - 1 \in Nat
            /\ (d + 1) * w - 1 < q * w
            /\ (d + 1) * w - 1 < table.nrow
    BY <1>4, <1>5, BucketEnds
<1>7. LastRow(q) >= r /\ LastRow(q) \in Int
    BY <1>1, <1>5, <1>6 DEF LastRow
<1>8. ASSUME NEW d \in Nat, d < q
      PROVE  LastRow(d) = (d + 1) * w - 1 /\ LastRow(d) \in Nat /\ LastRow(d) < r
    <2> DEFINE end == (d + 1) * w - 1
    <2>1. end \in Nat /\ end < q * w /\ end < table.nrow
        BY <1>6, <1>8
    <2>2. LastRow(d) = IF end >= table.nrow THEN table.nrow - 1 ELSE end
        BY <1>1 DEF LastRow
    <2> HIDE DEF end
    <2>3. LastRow(d) = end /\ end < r
        BY <1>4, <1>5, <2>1, <2>2
    <2> QED BY <2>1, <2>3 DEF end
<1>9. FindBucket(r) = q
    <2> DEFINE Found(b) == LastRow(b) >= r /\ \A d \in 0..(b - 1) : LastRow(d) < r
    <2>1. Found(q)
        BY <1>7, <1>8
    <2>2. ASSUME NEW b \in 0..(Buckets - 1), Found(b) PROVE b = q
        <3>1. b \in Nat
            BY <1>5
        <3>2. ASSUME b < q PROVE FALSE
            BY <1>8, <2>2, <3>1, <3>2
        <3>3. ASSUME q < b PROVE FALSE
            <4>1. LastRow(q) < r
                BY <2>2, <3>1, <3>3
            <4> QED BY <1>7, <4>1
        <3> QED BY <3>1, <3>2, <3>3
    <2> QED BY <1>5, <2>1, <2>2 DEF FindBucket
<1>10. StartRow(q) = q * w
    <2>1. CASE q = 0
        BY <2>1 DEF StartRow
    <2>2. CASE q > 0
        <3>1. q - 1 \in Nat /\ q - 1 < q /\ (q - 1) + 1 = q
            BY <2>2
        <3>2. LastRow(q - 1) = q * w - 1
            BY <1>8, <3>1
        <3> QED BY <1>4, <2>2, <3>2 DEF StartRow
    <2> QED BY <2>1, <2>2
<1> QED BY <1>1, <1>2, <1>3, <1>4, <1>9, <1>10

----------------------------------------------------------------------------
(* The layout.                                                             *)

\* The loops of setup are over; cells may be written.
Settled == phase \in {"place", "open", "overlaps", "flushed", "failed"}
Written == phase \in {"open", "flushed", "failed"}

\* The columns placed so far lie one behind the other.
ColumnsApart ==
    /\ Len(layout.offset) <= Len(table.columns)
    /\ \A c \in DOMAIN layout.offset : EndOf(c) <= NextOffset
    /\ \A c, d \in DOMAIN layout.offset : c < d => EndOf(c) <= layout.offset[d]

LayoutInv ==
    /\ phase \in {"new", "size", "grow", "index", "place", "open", "overlaps", "flushed", "failed"}
    /\ layout \in [size : 0..MaxBucketSize, rows : Nat, offset : Seq(Nat)]
    /\ phase # "new" => table \in SsmTables
    /\ phase \notin {"new", "size"} => layout.rows # 0
    /\ ~Settled => layout.offset = <<>>
    /\ Settled /\ layout.size < MaxBucketSize => IndexFits
    /\ phase = "failed" => ~IndexFits
    /\ ColumnsApart
    /\ Written => Len(layout.offset) = Len(table.columns) /\ NextOffset <= layout.size

\* What a write of any kind leaves alone.
LayoutRests == UNCHANGED <<table, layout, phase>>

CellStep ==
    \E c \in Cols, r \in TestRows :
        \/ \E v \in Numbers : WriteNumber(c, r, v)
        \/ \E v \in BOOLEAN : WriteBool(c, r, v)
        \/ \E s \in Texts : WriteShortText(c, r, s) \/ WriteLongText(c, r, s)

\* What LayoutInv says of the layout as a record.
LEMMA LayoutTypes ==
    ASSUME LayoutInv
    PROVE  /\ layout.size \in Nat /\ layout.size <= MaxBucketSize
           /\ layout.rows \in Nat /\ layout.offset \in Seq(Nat)
           /\ layout = [size |-> layout.size, rows |-> layout.rows, offset |-> layout.offset]
BY SsmAssumption DEF LayoutInv

\* The size of the index is a number, so that it can be compared.
LEMMA IndexSizeIsInt ==
    ASSUME LayoutInv, phase \notin {"new", "size"}
    PROVE  IndexSize \in Nat
<1>1. Buckets \in Nat
    BY LayoutTypes, BucketsIsNat DEF LayoutInv
<1>2. IndexPerBucket * Buckets \in Nat
    BY <1>1, SsmAssumption, Products
<1> QED BY <1>2, SsmAssumption DEF IndexSize

\* LayoutInv holds before setup.
LEMMA LayoutStarts == SsmInit => LayoutInv
<1> SUFFICES ASSUME SsmInit PROVE LayoutInv
    OBVIOUS
<1>1. layout = [size |-> 0, rows |-> 0, offset |-> <<>>] /\ table.columns = <<>> /\ phase = "new"
    BY DEF SsmInit
<1>2. layout.offset = <<>> /\ layout \in [size : 0..MaxBucketSize, rows : Nat, offset : Seq(Nat)]
    BY <1>1, SsmAssumption
<1>3. ColumnsApart
    BY <1>1, <1>2 DEF ColumnsApart
<1> QED BY <1>1, <1>2, <1>3 DEF LayoutInv, Settled, Written

\* A step before the columns are placed.
LEMMA StillUnplaced ==
    ASSUME layout'.offset = <<>>, (table \in SsmTables)'
    PROVE  ColumnsApart'
<1>1. Len(table'.columns) \in Nat
    BY SsmAssumption
<1> QED BY <1>1 DEF ColumnsApart

\* The loops of setup.
LEMMA SizingKeepsLayout ==
    ASSUME LayoutInv, StartSetup \/ SizeBuckets \/ GrowRows \/ GrowEnds \/ DoubleBucket
    PROVE  LayoutInv'
<1> USE SsmAssumption
<1> SUFFICES /\ phase' \in {"size", "grow", "index"}
             /\ layout' \in [size : 0..MaxBucketSize, rows : Nat, offset : Seq(Nat)]
             /\ table' \in SsmTables /\ layout'.offset = <<>>
             /\ phase' # "size" => layout'.rows # 0
    BY StillUnplaced DEF LayoutInv, Settled, Written
<1>0. phase \in {"new", "size", "grow", "index"} /\ layout.offset = <<>> /\ <<>> \in Seq(Nat)
    BY DEF LayoutInv, StartSetup, SizeBuckets, GrowRows, GrowEnds, DoubleBucket, Settled
<1>1. CASE StartSetup
    BY <1>0, <1>1 DEF StartSetup, LayoutInv
<1>2. CASE SizeBuckets
    <2> DEFINE size == Clamped(DataSize(TargetRows))
    <2>1. table \in SsmTables
        BY <1>2 DEF SizeBuckets, LayoutInv
    <2>2. size \in Nat /\ size <= MaxBucketSize
        BY <2>1, DataSizeIsNat, ClampedIsNat
    <2> HIDE DEF size
    <2>3. RowsByBytes(size, TargetRows) \in Nat \ {0}
        BY <2>1, <2>2, RowsByBytesIsNat
    <2>4. PICK rows \in Nat \ {0} : layout' = [layout EXCEPT !.size = size, !.rows = rows]
        BY <1>2, <2>3 DEF SizeBuckets, size
    <2>5. layout' = [size |-> size, rows |-> rows, offset |-> <<>>]
        BY <1>0, <2>4, LayoutTypes
    <2> QED BY <1>0, <1>2, <2>1, <2>2, <2>5 DEF SizeBuckets
<1>3. CASE GrowRows
    <2>1. layout' = [size |-> layout.size, rows |-> layout.rows + 1, offset |-> <<>>]
        BY <1>0, <1>3, LayoutTypes DEF GrowRows
    <2>2. phase = "grow" /\ phase' = "grow" /\ table' = table /\ table \in SsmTables
        BY <1>3 DEF GrowRows, LayoutInv
    <2>3. layout.size \in 0..MaxBucketSize /\ layout.rows \in Nat
        BY LayoutTypes
    <2> QED BY <1>0, <2>1, <2>2, <2>3
<1>4. CASE GrowEnds
    BY <1>0, <1>4 DEF GrowEnds, LayoutInv
<1>5. CASE DoubleBucket
    <2> DEFINE size == IF 2 * layout.size > MaxBucketSize THEN MaxBucketSize ELSE 2 * layout.size
    <2>1. table \in SsmTables
        BY <1>5 DEF DoubleBucket, LayoutInv
    <2>2. size \in Nat /\ size <= MaxBucketSize
        BY LayoutTypes
    <2>3. layout' = [layout EXCEPT !.size = size, !.rows = RowsByBytes(size, @)]
        BY <1>5 DEF DoubleBucket
    <2> HIDE DEF size
    <2>4. RowsByBytes(size, layout.rows) \in Nat \ {0}
        BY <2>1, <2>2, LayoutTypes, RowsByBytesIsNat
    <2>5. layout' = [size |-> size, rows |-> RowsByBytes(size, layout.rows), offset |-> <<>>]
        BY <1>0, <2>3, LayoutTypes
    <2>6. phase' = "grow" /\ table' = table
        BY <1>5 DEF DoubleBucket
    <2>7. size \in 0..MaxBucketSize
        BY <2>2
    <2> QED BY <1>0, <2>1, <2>4, <2>5, <2>6, <2>7
<1> QED BY <1>1, <1>2, <1>3, <1>4, <1>5

\* The next column is put behind the last one, and apart from all.
LEMMA PlacingKeepsLayout ==
    ASSUME LayoutInv, PlaceColumn
    PROVE  LayoutInv'
<1> DEFINE off == layout.offset
<1>0. PICK n \in Nat : n = Len(off)
    BY LayoutTypes
<1>1. /\ phase = "place" /\ phase' = "place" /\ table' = table /\ table \in SsmTables
      /\ n < Len(table.columns)
      /\ layout' = [layout EXCEPT !.offset = Append(@, NextOffset)]
    BY <1>0 DEF PlaceColumn, LayoutInv
<1>2. off \in Seq(Nat) /\ n = Len(off) /\ layout.rows \in Nat \ {0} /\ layout.size \in Nat
    BY <1>0, <1>1, LayoutTypes DEF LayoutInv
<1>3. Len(table.columns) \in Nat /\ Cols = 1..Len(table.columns)
    BY <1>1, TableColumns
<1>4. \A c \in 1..n : off[c] \in Nat /\ EndOf(c) \in Nat /\ off[c] <= EndOf(c)
    <2>1. \A c \in 1..n : c \in Cols
        BY <1>1, <1>2, <1>3
    <2> QED BY <1>1, <1>2, <2>1, WidthIsNat, SMTT(30) DEF EndOf
<1>5. NextOffset \in Nat
    <2>1. CASE off = <<>>
        BY <2>1 DEF NextOffset
    <2>2. CASE off # <<>>
        <3>1. n \in 1..n
            BY <1>2, <2>2
        <3> QED BY <1>2, <1>4, <2>2, <3>1 DEF NextOffset
    <2> QED BY <2>1, <2>2
<1>6. layout' = [size |-> layout.size, rows |-> layout.rows, offset |-> Append(off, NextOffset)]
    BY <1>1, LayoutTypes
<1>7. /\ layout'.offset \in Seq(Nat) /\ Len(layout'.offset) = n + 1
      /\ DOMAIN layout'.offset = 1..(n + 1)
      /\ layout'.offset[n + 1] = NextOffset
      /\ \A c \in 1..n : layout'.offset[c] = off[c]
      /\ DOMAIN off = 1..n
    BY <1>2, <1>5, <1>6
<1>8. \A c : Width(c, layout.rows)' = Width(c, layout.rows)
    BY <1>1, <1>6 DEF Width
<1>9. \A c \in 1..n : EndOf(c)' = EndOf(c)
    BY <1>7, <1>8 DEF EndOf
<1>10. NextOffset' = EndOf(n + 1)' /\ EndOf(n + 1)' = NextOffset + Width(n + 1, layout.rows)
    <2>1. layout'.offset # <<>>
        BY <1>2, <1>7
    <2> QED BY <1>2, <1>7, <1>8, <2>1 DEF NextOffset, EndOf
<1>11. Width(n + 1, layout.rows) \in Nat
    <2>1. n + 1 \in Cols
        BY <1>1, <1>3
    <2> QED BY <1>1, <1>2, <2>1, WidthIsNat
<1>12. \A c \in 1..n : EndOf(c) <= NextOffset
    BY <1>7 DEF LayoutInv, ColumnsApart
<1>13. \A c, d \in 1..n : c < d => EndOf(c) <= off[d]
    BY <1>7 DEF LayoutInv, ColumnsApart
<1>14. \A c \in 1..(n + 1) : EndOf(c)' <= NextOffset'
    <2>1. ASSUME NEW c \in 1..n PROVE EndOf(c)' <= NextOffset'
        BY <1>4, <1>5, <1>9, <1>10, <1>11, <1>12
    <2>2. EndOf(n + 1)' <= NextOffset'
        BY <1>5, <1>10, <1>11
    <2> QED BY <1>2, <2>1, <2>2
<1>15. ASSUME NEW c \in 1..(n + 1), NEW d \in 1..(n + 1), c < d
       PROVE  EndOf(c)' <= layout'.offset[d]
    <2>1. c \in 1..n
        BY <1>2, <1>15
    <2>2. CASE d = n + 1
        BY <1>7, <1>9, <1>12, <2>1, <2>2
    <2>3. CASE d \in 1..n
        BY <1>7, <1>9, <1>13, <1>15, <2>1, <2>3
    <2> QED BY <1>2, <2>2, <2>3
<1>16. ColumnsApart'
    BY <1>1, <1>2, <1>3, <1>7, <1>14, <1>15, SMTT(30) DEF ColumnsApart
<1>17. IndexFits' <=> IndexFits
    BY <1>1, <1>6 DEF IndexFits, IndexSize, Buckets
<1> QED
    BY <1>1, <1>2, <1>6, <1>7, <1>16, <1>17 DEF LayoutInv, Settled, Written

\* What follows from the table and the layout alone.
LEMMA PlacedFacts ==
    ASSUME LayoutInv, LayoutRests \/ (UNCHANGED <<table, layout>>)
    PROVE  /\ ColumnsApart' /\ NextOffset' = NextOffset
           /\ IndexFits' <=> IndexFits
BY DEF LayoutInv, LayoutRests, ColumnsApart, EndOf, NextOffset, Width, IndexFits, IndexSize, Buckets

\* The other steps leave table and layout.
LEMMA OtherStepsKeepLayout ==
    ASSUME LayoutInv, PlaceColumns \/ SetupEnds \/ FlushSsm \/ LayoutRests
    PROVE  LayoutInv'
<1>0. UNCHANGED <<table, layout>>
    BY DEF PlaceColumns, SetupEnds, FlushSsm, LayoutRests
<1>1. ColumnsApart' /\ NextOffset' = NextOffset /\ (IndexFits' <=> IndexFits)
    BY <1>0, PlacedFacts
<1>2. CASE PlaceColumns
    BY <1>0, <1>1, <1>2 DEF PlaceColumns, LayoutInv, Settled, Written
<1>3. CASE SetupEnds
    BY <1>0, <1>1, <1>3 DEF SetupEnds, LayoutInv, Settled, Written
<1>4. CASE FlushSsm
    <2>1. IndexSize \in Nat /\ layout.size \in Nat
        BY <1>4, IndexSizeIsInt, LayoutTypes DEF FlushSsm
    <2>2. IndexSize > layout.size <=> ~IndexFits
        BY <2>1 DEF IndexFits
    <2> QED BY <1>0, <1>1, <1>4, <2>2 DEF FlushSsm, LayoutInv, Settled, Written
<1>5. CASE LayoutRests
    BY <1>0, <1>1, <1>5 DEF LayoutRests, LayoutInv, Settled, Written
<1> QED BY <1>2, <1>3, <1>4, <1>5

\* A write leaves table, layout and phase.
LEMMA CellStepsWrite ==
    ASSUME CellStep
    PROVE  LayoutRests
<1>1. ASSUME NEW c, NEW r, NEW kind, NEW v, Writing(c, r, kind, v) PROVE LayoutRests
    BY <1>1 DEF Writing, LayoutRests
<1>2. PICK c \in Cols, r \in TestRows :
        \/ \E v \in Numbers : WriteNumber(c, r, v)
        \/ \E v \in BOOLEAN : WriteBool(c, r, v)
        \/ \E s \in Texts : WriteShortText(c, r, s) \/ WriteLongText(c, r, s)
    BY Zenon DEF CellStep
<1>3. \E kind, v : Writing(c, r, kind, v)
    <2>1. CASE \E v \in Numbers : WriteNumber(c, r, v)
        BY <2>1, Zenon DEF WriteNumber
    <2>2. CASE \E v \in BOOLEAN : WriteBool(c, r, v)
        BY <2>2, Zenon DEF WriteBool
    <2>3. CASE \E s \in Texts : WriteShortText(c, r, s)
        BY <2>3, Zenon DEF WriteShortText
    <2>4. CASE \E s \in Texts : WriteLongText(c, r, s)
        BY <2>4, Zenon DEF WriteLongText
    <2> QED BY <1>2, <2>1, <2>2, <2>3, <2>4, Zenon
<1> QED BY <1>1, <1>3

\* LayoutInv is inductive.
LEMMA StepKeepsLayout == LayoutInv /\ [SsmNext]_ssmVars => LayoutInv'
<1> SUFFICES ASSUME LayoutInv, [SsmNext]_ssmVars PROVE LayoutInv'
    OBVIOUS
<1>1. CASE StartSetup \/ SizeBuckets \/ GrowRows \/ GrowEnds \/ DoubleBucket
    BY <1>1, SizingKeepsLayout
<1>2. CASE PlaceColumn
    BY <1>2, PlacingKeepsLayout
<1>3. CASE PlaceColumns \/ SetupEnds \/ FlushSsm
    BY <1>3, OtherStepsKeepLayout
<1>4. CASE CellStep
    <2> QED BY <1>4, CellStepsWrite, OtherStepsKeepLayout
<1>5. CASE UNCHANGED ssmVars
    BY <1>5, OtherStepsKeepLayout DEF ssmVars, LayoutRests
<1> QED BY <1>1, <1>2, <1>3, <1>4, <1>5 DEF SsmNext, CellStep

\* setup never ends with columns over one another, and leaves an index that does
\* not fit only where no bucket could be larger (standard_stman.cpp:1726-1830).
THEOREM SsmLayoutInvariant == SsmSpec => []LayoutInv
<1> QED BY LayoutStarts, StepKeepsLayout, PTL DEF SsmSpec

\* LayoutInv implies the property.
LEMMA LayoutFindsRows == LayoutInv => IndexFindsRows
<1> SUFFICES ASSUME LayoutInv PROVE IndexFindsRows
    OBVIOUS
<1>1. ASSUME phase = "flushed", NEW r \in TestRows, r < table.nrow
      PROVE  /\ FindBucket(r) = r \div layout.rows
             /\ r - StartRow(FindBucket(r)) = r % layout.rows
    <2>1. table \in SsmTables /\ layout.rows \in Nat \ {0} /\ r \in Nat
        BY <1>1, LayoutTypes, SsmAssumption DEF LayoutInv
    <2> QED BY <1>1, <2>1, BucketFound
<1>2. ASSUME phase = "failed" PROVE layout.size = MaxBucketSize
    BY <1>2, LayoutTypes, SsmAssumption DEF LayoutInv, Settled
<1> QED BY <1>1, <1>2 DEF IndexFindsRows

\* The bucket and the row in it that SsmReader finds in the index are those that
\* SsmWriter divided out, for every row of every table, and flush fails for its
\* index only at the largest bucket size (standard_stman.cpp:1480, 1773-1801,
\* 2384).
THEOREM IndexFindsRowsCorrect == SsmSpec => []IndexFindsRows
<1> QED BY SsmLayoutInvariant, LayoutFindsRows, PTL

----------------------------------------------------------------------------
(* Where the cells lie.                                                    *)

Kind(c) == table.columns[c].kind
BoolAt(c, r) == InBucket(r \div layout.rows, c, (r % layout.rows) \div 8)
BitOf(r) == (r % layout.rows) % 8

\* The bytes a write of a cell touches.
Room(c, r) == IF Kind(c) = "bool" THEN {BoolAt(c, r)}
              ELSE CellAt(c, r)..(CellAt(c, r) + table.columns[c].size - 1)

\* The layout that the cells are written in.
LEMMA LayoutNumbers ==
    ASSUME LayoutInv, Written
    PROVE  /\ table \in SsmTables
           /\ layout.size \in Nat /\ layout.rows \in Nat \ {0} /\ Buckets \in Nat
           /\ \A c \in Cols :
                /\ layout.offset[c] \in Nat
                /\ Width(c, layout.rows) \in Nat
                /\ EndOf(c) = layout.offset[c] + Width(c, layout.rows)
                /\ EndOf(c) <= layout.size
           /\ \A c, d \in Cols : c < d => EndOf(c) <= layout.offset[d]
<1>1. table \in SsmTables /\ layout.size \in Nat /\ layout.rows \in Nat \ {0}
    BY LayoutTypes DEF LayoutInv, Written
<1>2. Buckets \in Nat
    BY <1>1, BucketsIsNat
<1>3. layout.offset \in Seq(Nat) /\ Cols = 1..Len(layout.offset)
    BY <1>1, LayoutTypes, TableColumns DEF LayoutInv
<1>4. DOMAIN layout.offset = Cols /\ \A c \in Cols : layout.offset[c] \in Nat
    BY <1>3
<1>5. \A c \in Cols : Width(c, layout.rows) \in Nat
    BY <1>1, WidthIsNat
<1>6. \A c \in Cols : EndOf(c) = layout.offset[c] + Width(c, layout.rows)
    BY DEF EndOf
<1>7. \A c \in Cols : EndOf(c) <= NextOffset
    BY <1>4 DEF LayoutInv, ColumnsApart
<1>8. NextOffset \in Nat /\ NextOffset <= layout.size
    <2>1. NextOffset \in Nat
        <3>1. CASE layout.offset = <<>>
            BY <3>1 DEF NextOffset
        <3>2. CASE layout.offset # <<>>
            <4>1. Len(layout.offset) \in Cols
                BY <1>3, <3>2
            <4> QED BY <1>4, <1>5, <1>6, <3>2, <4>1 DEF NextOffset
        <3> QED BY <3>1, <3>2
    <2> QED BY <2>1 DEF LayoutInv
<1>9. \A c, d \in Cols : c < d => EndOf(c) <= layout.offset[d]
    BY <1>4 DEF LayoutInv, ColumnsApart
<1>10. \A c \in Cols : EndOf(c) <= layout.size
    BY <1>1, <1>4, <1>5, <1>6, <1>7, <1>8
<1> QED BY <1>1, <1>2, <1>4, <1>5, <1>6, <1>9, <1>10

\* A cell of w bytes, the i-th of n that begin at a.
LEMMA CellOfMany ==
    ASSUME NEW a \in Nat, NEW n \in Nat, NEW i \in 0..(n - 1), NEW w \in Nat,
           NEW x \in (a + i * w)..(a + i * w + w - 1)
    PROVE  x \in Nat /\ a <= x /\ x < a + n * w /\ i * w \in Nat
<1>1. i * w \in Nat /\ n * w \in Nat /\ i * w + w <= n * w
    BY Products
<1> QED BY <1>1

\* A cell lies in its column, in the bucket of its row.
LEMMA RoomInArea ==
    ASSUME LayoutInv, Written, NEW c \in Cols, NEW r \in Nat, r < table.nrow, NEW x \in Room(c, r)
    PROVE  /\ x \in Nat
           /\ (r \div layout.rows) * layout.size + layout.offset[c] <= x
           /\ x < (r \div layout.rows) * layout.size + EndOf(c)
<1> DEFINE n == layout.rows
           a == (r \div n) * layout.size + layout.offset[c]
           w == table.columns[c].size
<1>1. table \in SsmTables /\ n \in Nat \ {0} /\ layout.size \in Nat /\ layout.offset[c] \in Nat
    BY LayoutNumbers
<1>2. r \div n \in Nat /\ r % n \in 0..(n - 1)
    BY <1>1, Divided
<1>3. (r \div n) * layout.size \in Nat
    BY <1>1, <1>2, Products
<1>4. a \in Nat
    BY <1>1, <1>3
<1>5. a + Width(c, n) = (r \div n) * layout.size + EndOf(c)
    BY <1>1, <1>3, LayoutNumbers
<1>6. x \in Nat /\ a <= x /\ x < a + Width(c, n)
    <2>1. CASE Kind(c) = "bool"
        <3>1. (n + 7) \div 8 <= Width(c, n)
            BY <1>1, <2>1, WidthIsNat DEF Kind
        <3>2. (r % n) \div 8 \in Nat /\ (r % n) \div 8 < (n + 7) \div 8
            <4> HIDE DEF n
            <4> QED BY <1>1, <1>2
        <3>3. x = a + ((r % n) \div 8)
            BY <2>1 DEF Room, BoolAt, InBucket
        <3>4. PICK p \in Nat : p = (r % n) \div 8
            BY <3>2
        <3>5. Width(c, n) \in Nat /\ p < Width(c, n)
            <4>1. Width(c, n) \in Nat
                BY <1>1, WidthIsNat
            <4>2. PICK m \in Nat : m = (n + 7) \div 8
                <5>1. (n + 7) \div 8 \in Nat
                    <6> HIDE DEF n
                    <6> QED BY <1>1
                <5> QED BY <5>1, Zenon
            <4>3. p < m /\ m <= Width(c, n)
                BY <3>1, <3>2, <3>4, <4>2
            <4> QED BY <4>1, <4>3
        <3> HIDE DEF a, n
        <3> QED BY <1>4, <3>3, <3>4, <3>5
    <2>2. CASE Kind(c) # "bool"
        <3>1. Width(c, n) = n * w /\ w \in Nat
            BY <1>1, <2>2, WidthIsNat, TableColumns DEF Kind
        <3>2. x \in (a + (r % n) * w)..(a + (r % n) * w + w - 1)
            BY <2>2 DEF Room, CellAt, InBucket
        <3> HIDE DEF a, n, w
        <3> QED BY <1>1, <1>2, <1>4, <3>1, <3>2, CellOfMany
    <2> QED BY <2>1, <2>2
<1> QED BY <1>5, <1>6

\* Two cells share a byte only if they are booleans of one column, and then it
\* is another bit.
LEMMA RoomsApart ==
    ASSUME LayoutInv, Written,
           NEW c \in Cols, NEW r \in Nat, r < table.nrow,
           NEW d \in Cols, NEW q \in Nat, q < table.nrow,
           c # d \/ r # q,
           NEW x \in Room(c, r), x \in Room(d, q)
    PROVE  c = d /\ Kind(c) = "bool" /\ BitOf(r) # BitOf(q)
<1>1. PICK n \in Nat \ {0}, size \in Nat : n = layout.rows /\ size = layout.size
    BY LayoutNumbers
<1>2. PICK b \in Nat, e \in Nat : b = r \div n /\ e = q \div n
    BY Divided
<1>3. PICK i \in 0..(n - 1), j \in 0..(n - 1) : i = r % n /\ j = q % n
    BY Divided
<1>4. r = b * n + i /\ q = e * n + j
    BY <1>2, <1>3, Divided
<1>5. /\ layout.offset[c] \in Nat /\ EndOf(c) <= size /\ EndOf(c) \in Nat
      /\ layout.offset[d] \in Nat /\ EndOf(d) <= size /\ EndOf(d) \in Nat
      /\ c < d => EndOf(c) <= layout.offset[d]
      /\ d < c => EndOf(d) <= layout.offset[c]
    BY <1>1, LayoutNumbers
<1>6. /\ x \in Nat
      /\ b * size + layout.offset[c] <= x /\ x < b * size + EndOf(c)
      /\ e * size + layout.offset[d] <= x /\ x < e * size + EndOf(d)
    BY <1>1, <1>2, RoomInArea
<1>7. b * size \in Nat /\ e * size \in Nat
    BY Products
<1>8. b = e
    <2>1. ASSUME b < e PROVE FALSE
        <3>1. b * size + size <= e * size
            BY <2>1, Products
        <3> QED BY <1>5, <1>6, <1>7, <3>1
    <2>2. ASSUME e < b PROVE FALSE
        <3>1. e * size + size <= b * size
            BY <2>2, Products
        <3> QED BY <1>5, <1>6, <1>7, <3>1
    <2> QED BY <2>1, <2>2
<1>9. c = d
    <2>1. ~(c < d) /\ ~(d < c)
        BY <1>5, <1>6, <1>7, <1>8
    <2>2. c \in Nat /\ d \in Nat
        BY LayoutNumbers, TableColumns
    <2> QED BY <2>1, <2>2
<1>10. i # j
    BY <1>4, <1>8, <1>9
<1>11. Kind(c) = "bool"
    <2> SUFFICES ASSUME Kind(c) # "bool" PROVE FALSE
        OBVIOUS
    <2>1. PICK w \in Nat : w = table.columns[c].size
        BY LayoutNumbers, TableColumns
    <2>2. PICK a \in Nat : a = b * size + layout.offset[c]
        BY <1>5, <1>7
    <2>3. CellAt(c, r) = a + i * w /\ CellAt(c, q) = a + j * w
        BY <1>1, <1>2, <1>3, <1>8, <2>1, <2>2 DEF CellAt, InBucket
    <2>4. x \in (a + i * w)..(a + i * w + w - 1) /\ x \in (a + j * w)..(a + j * w + w - 1)
        BY <1>9, <2>1, <2>3 DEF Room
    <2>5. i * w \in Nat /\ j * w \in Nat
        BY Products
    <2>6. ASSUME i < j PROVE FALSE
        <3>1. i * w + w <= j * w
            BY <2>6, Products
        <3> QED BY <2>4, <2>5, <3>1
    <2>7. ASSUME j < i PROVE FALSE
        <3>1. j * w + w <= i * w
            BY <2>7, Products
        <3> QED BY <2>4, <2>5, <3>1
    <2> QED BY <1>10, <2>6, <2>7
<1>12. i % 8 # j % 8
    <2>1. /\ x = b * size + layout.offset[c] + (i \div 8)
          /\ x = b * size + layout.offset[c] + (j \div 8)
        BY <1>1, <1>2, <1>3, <1>8, <1>9, <1>11 DEF Room, BoolAt, InBucket
    <2>2. i \div 8 = j \div 8
        BY <1>5, <1>7, <2>1
    <2> QED BY <1>10, <2>2
<1> QED BY <1>1, <1>3, <1>9, <1>11, <1>12 DEF BitOf

----------------------------------------------------------------------------
(* What the cells hold.                                                    *)

ValueOf(c, r) == IF <<c, r>> \in DOMAIN wrote THEN wrote[<<c, r>>] ELSE Default(c)

WordAt(a, k) == ByteAt(a + k * WordSize).of

InStrings(at, s, i) ==
    i \in DOMAIN strBuckets /\ [at |-> at, text |-> s] \in Range(strBuckets[i])

HoldsText(a, s) ==
    /\ s.len \in Nat
    /\ WordAt(a, 2) = s.len
    /\ s.len <= InlineLength => \A k \in 0..(s.len - 1) : ByteAt(a + k) = ByteOf(s.of, k)
    /\ s.len > InlineLength =>
          /\ WordAt(a, 1) + s.len <= Usable
          /\ InStrings(WordAt(a, 1), s, WordAt(a, 0) - Buckets + 1)

Holds(c, r, v) ==
    /\ Kind(c) = "number" => \A k \in 0..(table.columns[c].size - 1) :
                                ByteAt(CellAt(c, r) + k) = ByteOf(v, k)
    /\ Kind(c) = "bool" => (v <=> BitOf(r) \in ByteAt(BoolAt(c, r)).bits)
    /\ Kind(c) = "string" => HoldsText(CellAt(c, r), v)

CellsHold == Written =>
    \A c \in Cols, r \in TestRows : r < table.nrow => Holds(c, r, ValueOf(c, r))

\* The string buckets are filled from their beginning, and none too far.
StringsFit ==
    /\ strBuckets \in Seq(Seq([at : Nat, text : Texts]))
    /\ \A i \in DOMAIN strBuckets :
        /\ Len(strBuckets[i]) <= UsedOf(strBuckets[i])
        /\ UsedOf(strBuckets[i]) <= Usable

BytesInBuckets == \A a \in DOMAIN bytes : a \in 0..(Buckets * layout.size - 1)

IsByte(x) == x = [of |-> x.of, part |-> x.part, bits |-> x.bits]
BytesAreBytes == \A a \in DOMAIN bytes : IsByte(bytes[a])

NothingWritten == bytes = <<>> /\ strBuckets = <<>> /\ wrote = <<>>

BytesInv ==
    /\ ~Written => NothingWritten
    /\ CellsHold
    /\ StringsFit
    /\ BytesInBuckets
    /\ BytesAreBytes
    /\ writes \in 0..MaxCellWrites

\* The bytes that a write puts over those there were.
LEMMA BytesOver ==
    ASSUME NEW f, bytes' = Over(f, bytes), NEW x
    PROVE  ByteAt(x)' = IF x \in DOMAIN f THEN f[x] ELSE ByteAt(x)
BY DEF Over, ByteAt

\* The bits of a byte after a step.
LEMMA BitsLater == \A y : (ByteAt(y).bits)' = (ByteAt(y)').bits
BY DEF ByteAt, ZeroByte

\* What a byte of a number has, and one that was never written.
LEMMA BytesKnown ==
    /\ \A v, k : ByteOf(v, k).of = v
    /\ ZeroByte.of = 0 /\ ZeroByte.bits = {}
    /\ \A k : ByteOf(0, k) = ZeroByte
BY DEF ByteOf, ZeroByte

\* The byte of a number is no state.
LEMMA ByteOfRests == \A v, k : ByteOf(v, k)' = ByteOf(v, k)
BY DEF ByteOf, ZeroByte

\* The bytes that are written are bytes.
LEMMA ByteOfIsByte == \A v, k : IsByte(ByteOf(v, k)) /\ IsByte(ZeroByte)
BY DEF ByteOf, ZeroByte, IsByte

\* A cell of zero bytes holds what nobody wrote.
LEMMA NothingHolds ==
    ASSUME table \in SsmTables, layout.rows \in Nat, NothingWritten, NEW c \in Cols, NEW r
    PROVE  Holds(c, r, ValueOf(c, r))
<1>1. ValueOf(c, r) = Default(c)
    BY DEF NothingWritten, ValueOf
<1>2. \A a : ByteAt(a) = ZeroByte
    BY DEF NothingWritten, ByteAt
<1>3. CASE Kind(c) = "number"
    <2>1. Default(c) = 0
        BY <1>3 DEF Default, Kind
    <2> QED BY <1>1, <1>2, <1>3, <2>1, BytesKnown DEF Holds
<1>4. CASE Kind(c) = "bool"
    <2>1. Default(c) = FALSE
        BY <1>4 DEF Default, Kind
    <2>2. ~(BitOf(r) \in ByteAt(BoolAt(c, r)).bits)
        BY <1>2, BytesKnown
    <2> QED BY <1>1, <1>4, <2>1, <2>2 DEF Holds
<1>5. CASE Kind(c) = "string"
    <2>1. Default(c) = [len |-> 0, of |-> 0]
        BY <1>5 DEF Default, Kind
    <2>2. HoldsText(CellAt(c, r), Default(c))
        BY <1>2, <2>1, BytesKnown DEF HoldsText, WordAt, InlineLength, WordSize
    <2> QED BY <1>1, <1>5, <2>2 DEF Holds
<1> QED BY <1>3, <1>4, <1>5, TableColumns DEF Kind

----------------------------------------------------------------------------
(* A write.                                                                *)

StringsGrow == \A at, s, i : InStrings(at, s, i) => InStrings(at, s, i)'

\* No cell lies behind the last bucket.
LEMMA RoomInBuckets ==
    ASSUME LayoutInv, Written, NEW c \in Cols, NEW r \in Nat, r < table.nrow, NEW x \in Room(c, r)
    PROVE  x \in 0..(Buckets * layout.size - 1)
<1>1. PICK size \in Nat, n \in Nat : size = layout.size /\ n = Buckets
    BY LayoutNumbers
<1>2. PICK b \in 0..(n - 1) : b = r \div layout.rows
    BY <1>1, LayoutNumbers, BucketsIsNat
<1>3. PICK end \in Nat : end = EndOf(c) /\ end <= size
    BY <1>1, LayoutNumbers
<1>4. x \in Nat /\ x < b * size + end
    BY <1>1, <1>2, <1>3, RoomInArea
<1>5. b * size \in Nat /\ n * size \in Nat /\ b * size + size <= n * size
    BY Products
<1>6. x \in 0..(n * size - 1)
    BY <1>3, <1>4, <1>5
<1> QED BY <1>1, <1>6

\* A cell begins at some byte.
LEMMA CellAtIsNat ==
    ASSUME LayoutInv, Written, NEW c \in Cols, NEW r \in Nat
    PROVE  CellAt(c, r) \in Nat
<1>0. layout.size \in Nat /\ layout.rows \in Nat \ {0} /\ layout.offset[c] \in Nat
    BY LayoutNumbers
<1>1. \E size \in Nat, n \in Nat \ {0}, off \in Nat :
        size = layout.size /\ n = layout.rows /\ off = layout.offset[c]
    BY <1>0, Zenon
<1> PICK size \in Nat, n \in Nat \ {0}, off \in Nat :
        size = layout.size /\ n = layout.rows /\ off = layout.offset[c]
    BY <1>1, Zenon
<1>2. PICK w \in Nat : w = table.columns[c].size
    BY LayoutNumbers, TableColumns
<1>3. r \div n \in Nat /\ r % n \in 0..(n - 1)
    BY Divided, Zenon
<1>3a. \E b \in Nat, i \in 0..(n - 1) : b = r \div n /\ i = r % n
    BY <1>3, Zenon
<1> PICK b \in Nat, i \in 0..(n - 1) : b = r \div n /\ i = r % n
    BY <1>3a, Zenon
<1>4. b * size \in Nat /\ i * w \in Nat
    BY Products
<1>5. CellAt(c, r) = b * size + off + i * w
    BY <1>2 DEF CellAt, InBucket
<1> QED BY <1>4, <1>5

\* What follows from the table and the layout alone, of the cells.
LEMMA Unmoved ==
    ASSUME UNCHANGED <<table, layout>>
    PROVE  /\ Buckets' = Buckets /\ Usable' = Usable /\ Cols' = Cols
           /\ \A c : Kind(c)' = Kind(c)
           /\ \A c, r : CellAt(c, r)' = CellAt(c, r) /\ BoolAt(c, r)' = BoolAt(c, r)
           /\ \A r : BitOf(r)' = BitOf(r)
           /\ \A c : Default(c)' = Default(c)
BY DEF Buckets, Usable, Cols, Kind, CellAt, BoolAt, BitOf, InBucket, Default

\* A string is kept as long as its cell and the string buckets are.
LEMMA TextRests ==
    ASSUME NEW a \in Nat, \A y \in a..(a + 11) : ByteAt(y)' = ByteAt(y),
           Buckets' = Buckets, Usable' = Usable, StringsGrow,
           NEW s, HoldsText(a, s)
    PROVE  HoldsText(a, s)'
<1>1. \A k \in 0..2 : WordAt(a, k)' = WordAt(a, k)
    <2> SUFFICES ASSUME NEW k \in 0..2 PROVE WordAt(a, k)' = WordAt(a, k)
        OBVIOUS
    <2>1. a + k * WordSize \in a..(a + 11)
        BY DEF WordSize
    <2> QED BY <2>1 DEF WordAt
<1>2. s.len \in Nat /\ WordAt(a, 2)' = s.len
    BY <1>1 DEF HoldsText
<1>3. ASSUME s.len <= InlineLength, NEW k \in 0..(s.len - 1)
      PROVE  ByteAt(a + k)' = ByteOf(s.of, k)
    <2>1. a + k \in a..(a + 11)
        BY <1>2, <1>3 DEF InlineLength, WordSize
    <2> QED BY <1>3, <2>1 DEF HoldsText
<1>4. ASSUME s.len > InlineLength
      PROVE  /\ WordAt(a, 1)' + s.len <= Usable'
             /\ InStrings(WordAt(a, 1), s, WordAt(a, 0) - Buckets + 1)'
    <2>1. WordAt(a, 1)' = WordAt(a, 1) /\ WordAt(a, 0)' = WordAt(a, 0)
        BY <1>1
    <2>2. /\ WordAt(a, 1) + s.len <= Usable
          /\ InStrings(WordAt(a, 1), s, WordAt(a, 0) - Buckets + 1)
        BY <1>4 DEF HoldsText
    <2>3. PICK at, i : at = WordAt(a, 1) /\ i = WordAt(a, 0) - Buckets + 1
        OBVIOUS
    <2>4. InStrings(at, s, i)'
        BY <2>2, <2>3 DEF StringsGrow
    <2>5. at = WordAt(a, 1)' /\ i = WordAt(a, 0)' - Buckets' + 1
        BY <2>1, <2>3
    <2>6. InStrings(WordAt(a, 1), s, WordAt(a, 0) - Buckets + 1)'
        BY <2>4, <2>5 DEF InStrings
    <2> QED BY <2>1, <2>2, <2>6
<1> QED BY <1>2, <1>3, <1>4 DEF HoldsText, ByteOf, ZeroByte, InlineLength, WordSize

\* A write of v to a cell leaves all other bytes, bits and strings alone.
Touches(c, r, v) ==
    /\ UNCHANGED <<table, layout, phase>>
    /\ \A y : y \notin Room(c, r) => ByteAt(y)' = ByteAt(y)
    /\ Kind(c) = "bool" => \A y, t : t # BitOf(r) =>
                            (t \in (ByteAt(y).bits)' <=> t \in ByteAt(y).bits)
    /\ \A x \in DOMAIN bytes' : x \in DOMAIN bytes \/ x \in Room(c, r)
    /\ BytesAreBytes'
    /\ StringsGrow
    /\ Holds(c, r, v)'

\* A write to one cell leaves what any other holds.
LEMMA OtherCellsHold ==
    ASSUME LayoutInv, Written,
           NEW c \in Cols, NEW r \in Nat, r < table.nrow,
           NEW d \in Cols, NEW q \in Nat, q < table.nrow, c # d \/ r # q,
           NEW u, Touches(c, r, u), NEW v, Holds(d, q, v)
    PROVE  Holds(d, q, v)'
<1>0. /\ Buckets' = Buckets /\ Usable' = Usable /\ Kind(d)' = Kind(d)
      /\ CellAt(d, q)' = CellAt(d, q) /\ BoolAt(d, q)' = BoolAt(d, q) /\ BitOf(q)' = BitOf(q)
      /\ table' = table
    BY Unmoved DEF Touches
<1>1. PICK a : a = CellAt(d, q)
    OBVIOUS
<1>2. PICK w \in Nat : w = table.columns[d].size
    BY LayoutNumbers, TableColumns
<1>3. ASSUME Kind(d) # "bool", NEW y \in a..(a + w - 1) PROVE ByteAt(y)' = ByteAt(y)
    <2>1. y \in Room(d, q)
        BY <1>1, <1>2, <1>3 DEF Room
    <2>2. y \notin Room(c, r)
        BY <1>3, <2>1, RoomsApart
    <2> QED BY <2>2 DEF Touches
<1>4. CASE Kind(d) = "number"
    <2>1. a \in Nat
        BY <1>1, CellAtIsNat
    <2>2. ASSUME NEW k \in 0..(w - 1) PROVE ByteAt(a + k)' = ByteOf(v, k)
        <3>1. a + k \in a..(a + w - 1)
            BY <2>1
        <3>2. ByteAt(a + k) = ByteOf(v, k)
            BY <1>1, <1>2, <1>4 DEF Holds
        <3> QED BY <1>3, <1>4, <3>1, <3>2
    <2>3. \A k \in 0..(table'.columns[d].size - 1) : ByteAt(CellAt(d, q) + k)' = ByteOf(v, k)'
        <3>1. \A k : ByteOf(v, k)' = ByteOf(v, k)
            BY DEF ByteOf, ZeroByte
        <3> SUFFICES ASSUME NEW k \in 0..(w - 1) PROVE ByteAt(CellAt(d, q) + k)' = ByteOf(v, k)
            BY <1>0, <1>2, <3>1
        <3>2. ByteAt(CellAt(d, q) + k)' = ByteAt(a + k)'
            BY <1>0, <1>1 DEF ByteAt
        <3> QED BY <2>2, <3>2
    <2> QED BY <1>0, <1>4, <2>3 DEF Holds
<1>5. CASE Kind(d) = "string"
    <2>1. w = 12
        BY <1>2, <1>5, LayoutNumbers, TableColumns DEF Kind
    <2>2. a \in Nat
        BY <1>1, CellAtIsNat
    <2>3. \A y \in a..(a + 11) : ByteAt(y)' = ByteAt(y)
        BY <1>3, <1>5, <2>1, <2>2
    <2>4. HoldsText(a, v)
        BY <1>1, <1>5 DEF Holds
    <2>5. StringsGrow
        BY DEF Touches
    <2>6. HoldsText(a, v)'
        BY <1>0, <2>2, <2>3, <2>4, <2>5, TextRests
    <2>7. HoldsText(CellAt(d, q), v)'
        BY <1>0, <1>1, <2>6 DEF HoldsText, WordAt, InStrings
    <2> QED BY <1>0, <1>5, <2>7 DEF Holds
<1>6. CASE Kind(d) = "bool"
    <2>1. PICK y : y = BoolAt(d, q)
        OBVIOUS
    <2>2. PICK t : t = BitOf(q)
        OBVIOUS
    <2>3. v <=> t \in ByteAt(y).bits
        BY <1>6, <2>1, <2>2 DEF Holds
    <2>4. t \in (ByteAt(y).bits)' <=> t \in ByteAt(y).bits
        <3>1. CASE y \notin Room(c, r)
            BY <3>1 DEF Touches
        <3>2. CASE y \in Room(c, r)
            <4>1. y \in Room(d, q)
                BY <1>6, <2>1 DEF Room
            <4>2. c = d /\ Kind(c) = "bool" /\ BitOf(r) # BitOf(q)
                BY <3>2, <4>1, RoomsApart
            <4> QED BY <2>2, <4>2 DEF Touches
        <3> QED BY <3>1, <3>2
    <2>5. v <=> BitOf(q)' \in (ByteAt(BoolAt(d, q)).bits)'
        BY <1>0, <2>1, <2>2, <2>3, <2>4 DEF ByteAt
    <2> QED BY <1>0, <1>6, <2>5 DEF Holds
<1> QED BY <1>4, <1>5, <1>6, LayoutNumbers, TableColumns DEF Kind

----------------------------------------------------------------------------
(* Each kind of write.                                                     *)

\* write_cell with a number, or write_array_raw.
LEMMA NumberWritten ==
    ASSUME LayoutInv, Written, BytesAreBytes,
           NEW c \in Cols, NEW r \in Nat, r < table.nrow, NEW v, WriteNumber(c, r, v)
    PROVE  Touches(c, r, v) /\ strBuckets' = strBuckets
<1>1. /\ UNCHANGED <<table, layout, phase>> /\ Kind(c) = "number" /\ strBuckets' = strBuckets
      /\ bytes' = Over(Stored(CellAt(c, r), v, table.columns[c].size), bytes)
    BY DEF WriteNumber, Writing, Kind
<1>2. PICK a \in Nat, w \in Nat : a = CellAt(c, r) /\ w = table.columns[c].size
    <2>1. CellAt(c, r) \in Nat /\ table.columns[c].size \in Nat
        BY CellAtIsNat, LayoutNumbers, TableColumns
    <2> QED BY <2>1
<1>3. Room(c, r) = a..(a + w - 1)
    BY <1>1, <1>2 DEF Room
<1>4. PICK f : f = Stored(a, v, w)
    OBVIOUS
<1>5. DOMAIN f = Room(c, r) /\ \A x \in Room(c, r) : f[x] = ByteOf(v, x - a)
    BY <1>3, <1>4 DEF Stored
<1>6. bytes' = Over(f, bytes)
    BY <1>1, <1>2, <1>4
<1>7. \A y : ByteAt(y)' = IF y \in Room(c, r) THEN ByteOf(v, y - a) ELSE ByteAt(y)
    BY <1>5, <1>6, BytesOver
<1>8. \A x \in DOMAIN bytes' : x \in DOMAIN bytes \/ x \in Room(c, r)
    BY <1>5, <1>6 DEF Over
<1>8a. BytesAreBytes'
    BY <1>5, <1>6, ByteOfIsByte DEF Over, BytesAreBytes
<1>9. StringsGrow
    BY <1>1 DEF StringsGrow, InStrings
<1>10. Holds(c, r, v)'
    <2>1. ASSUME NEW k \in 0..(w - 1) PROVE ByteAt(a + k)' = ByteOf(v, k)
        <3>1. a + k \in Room(c, r) /\ (a + k) - a = k
            BY SMTT(20), <1>2, <1>3
        <3> QED BY <1>7, <3>1
    <2>2. /\ Kind(c)' = "number" /\ table'.columns[c].size = w /\ CellAt(c, r)' = a
        BY <1>1, <1>2, Unmoved
    <2>3. \A k \in 0..(w - 1) : ByteAt(CellAt(c, r) + k)' = ByteOf(v, k)'
        BY <2>1, <2>2 DEF ByteAt, ByteOf, ZeroByte
    <2> QED BY <2>2, <2>3 DEF Holds
<1> QED BY <1>1, <1>7, <1>8, <1>8a, <1>9, <1>10 DEF Touches

\* write_cell with a boolean: one bit of a byte.
LEMMA BoolWritten ==
    ASSUME LayoutInv, Written, BytesAreBytes,
           NEW c \in Cols, NEW r \in Nat, r < table.nrow, NEW v \in BOOLEAN, WriteBool(c, r, v)
    PROVE  Touches(c, r, v) /\ strBuckets' = strBuckets
<1>1. PICK a, bit, set : a = BoolAt(c, r) /\ bit = BitOf(r) /\ set = ByteAt(a).bits
    OBVIOUS
<1>2. PICK new : new = IF v THEN set \cup {bit} ELSE set \ {bit}
    OBVIOUS
<1>3. PICK f : f = [x \in {a} |-> [ByteAt(a) EXCEPT !.bits = new]]
    OBVIOUS
<1>4. /\ UNCHANGED <<table, layout, phase>> /\ Kind(c) = "bool" /\ strBuckets' = strBuckets
      /\ bytes' = Over(f, bytes)
    BY <1>1, <1>2, <1>3 DEF WriteBool, Writing, Kind, BoolAt, BitOf
<1>5. Room(c, r) = {a}
    BY <1>1, <1>4 DEF Room
<1>6. DOMAIN f = {a} /\ f[a] = [ByteAt(a) EXCEPT !.bits = new]
    BY <1>3
<1>7. \A y : ByteAt(y)' = IF y = a THEN [ByteAt(a) EXCEPT !.bits = new] ELSE ByteAt(y)
    BY <1>4, <1>6, BytesOver
<1>8. \A x \in DOMAIN bytes' : x \in DOMAIN bytes \/ x \in Room(c, r)
    BY <1>4, <1>5, <1>6 DEF Over
<1>9. StringsGrow
    BY <1>4 DEF StringsGrow, InStrings
<1>10. /\ [ByteAt(a) EXCEPT !.bits = new].bits = new
       /\ IsByte([ByteAt(a) EXCEPT !.bits = new])
    <2>1. IsByte(ByteAt(a))
        BY ByteOfIsByte DEF BytesAreBytes, ByteAt
    <2>2. PICK of, part, bits : ByteAt(a) = [of |-> of, part |-> part, bits |-> bits]
        BY <2>1 DEF IsByte
    <2>3. [ByteAt(a) EXCEPT !.bits = new] = [of |-> of, part |-> part, bits |-> new]
        BY <2>2
    <2> QED BY <2>3 DEF IsByte
<1>10a. BytesAreBytes'
    BY <1>4, <1>6, <1>10 DEF Over, BytesAreBytes
<1>13. (ByteAt(a).bits)' = new /\ \A y : y # a => (ByteAt(y).bits)' = ByteAt(y).bits
    <2>1. (ByteAt(a).bits)' = (ByteAt(a)').bits
        BY BitsLater
    <2>2. ASSUME NEW y, y # a PROVE (ByteAt(y).bits)' = ByteAt(y).bits
        <3>1. (ByteAt(y).bits)' = (ByteAt(y)').bits
            BY BitsLater
        <3> QED BY <1>7, <2>2, <3>1
    <2> QED BY <1>7, <1>10, <2>1, <2>2
<1>11. ASSUME NEW y, NEW t, t # bit
       PROVE  t \in (ByteAt(y).bits)' <=> t \in ByteAt(y).bits
    <2>1. t \in new <=> t \in set
        BY <1>2, <1>11
    <2> QED BY <1>1, <1>13, <2>1
<1>12. Holds(c, r, v)'
    <2>1. v <=> bit \in (ByteAt(a).bits)'
        <3>1. CASE v = TRUE
            BY <1>2, <1>13, <3>1
        <3>2. CASE v = FALSE
            BY <1>2, <1>13, <3>2
        <3> QED BY <3>1, <3>2
    <2>2. Kind(c)' = "bool" /\ BoolAt(c, r)' = a /\ BitOf(r)' = bit
        BY <1>1, <1>4, Unmoved
    <2>3. v <=> BitOf(r)' \in (ByteAt(BoolAt(c, r)).bits)'
        BY <2>1, <2>2 DEF ByteAt
    <2> QED BY <2>2, <2>3 DEF Holds
<1> QED BY <1>1, <1>4, <1>5, <1>7, <1>8, <1>9, <1>10a, <1>11, <1>12 DEF Touches

LookUp(f, x) == IF x \in DOMAIN f THEN f[x] ELSE ZeroByte

\* What one write over another leaves to find.
LEMMA LookUpOver ==
    ASSUME NEW f, NEW g, NEW x
    PROVE  /\ DOMAIN Over(f, g) = (DOMAIN f) \cup (DOMAIN g)
           /\ LookUp(Over(f, g), x) = IF x \in DOMAIN f THEN f[x] ELSE LookUp(g, x)
BY DEF Over, LookUp

\* The bytes of two writes.
LEMMA OverDomain == \A f, g : DOMAIN Over(f, g) = (DOMAIN f) \cup (DOMAIN g)
BY DEF Over

\* Two writes of bytes leave bytes.
LEMMA OverBytes ==
    ASSUME NEW f, NEW g, \A x \in DOMAIN f : IsByte(f[x]), \A x \in DOMAIN g : IsByte(g[x])
    PROVE  \A x \in DOMAIN Over(f, g) : IsByte(Over(f, g)[x])
BY DEF Over

\* The bytes of one number.
LEMMA StoredIs ==
    ASSUME NEW a \in Nat, NEW v, NEW n \in Nat
    PROVE  /\ DOMAIN Stored(a, v, n) = a..(a + n - 1)
           /\ \A x \in a..(a + n - 1) : Stored(a, v, n)[x] = ByteOf(v, x - a)
           /\ \A x \in DOMAIN Stored(a, v, n) : IsByte(Stored(a, v, n)[x])
BY ByteOfIsByte DEF Stored

\* The cell of a string is its three words.
LEMMA TextRoom ==
    ASSUME LayoutInv, Written, NEW c \in Cols, Kind(c) = "string", NEW r \in Nat
    PROVE  Room(c, r) = CellAt(c, r)..(CellAt(c, r) + 11)
<1>1. table.columns[c].size = 12 /\ CellAt(c, r) \in Nat
    BY CellAtIsNat, LayoutNumbers, TableColumns DEF Kind
<1> QED BY <1>1 DEF Room

\* write_cell with a string that the cell has room for.
LEMMA ShortTextWritten ==
    ASSUME LayoutInv, Written, BytesAreBytes, NEW c \in Cols, NEW r \in Nat, r < table.nrow,
           NEW s \in Texts, WriteShortText(c, r, s)
    PROVE  Touches(c, r, s) /\ strBuckets' = strBuckets
<1>1. PICK a \in Nat : a = CellAt(c, r)
    BY CellAtIsNat
<1>2. PICK text : text = [x \in a..(a + 7) |->
                            IF x - a < s.len THEN ByteOf(s.of, x - a) ELSE ZeroByte]
    OBVIOUS
<1>3. PICK word : word = Stored(a + 8, s.len, 4)
    OBVIOUS
<1>4. /\ UNCHANGED <<table, layout, phase>> /\ Kind(c) = "string" /\ strBuckets' = strBuckets
      /\ s.len \in Nat /\ s.len <= 8
    BY SsmAssumption DEF WriteShortText, Writing, Kind, InlineLength, WordSize
<1>5. bytes' = Over(text, Over(word, bytes))
    BY <1>1, <1>2, <1>3 DEF WriteShortText, InlineLength, WordSize
<1>6. Room(c, r) = a..(a + 11)
    BY <1>1, <1>4, TextRoom
<1>7. /\ DOMAIN text = a..(a + 7)
      /\ \A x \in a..(a + 7) : text[x] = IF x - a < s.len THEN ByteOf(s.of, x - a) ELSE ZeroByte
      /\ \A x \in DOMAIN text : IsByte(text[x])
    BY <1>2, ByteOfIsByte
<1>8. /\ DOMAIN word = (a + 8)..(a + 11)
      /\ \A x \in (a + 8)..(a + 11) : word[x] = ByteOf(s.len, x - (a + 8))
      /\ \A x \in DOMAIN word : IsByte(word[x])
    <2>1. a + 8 \in Nat /\ (a + 8) + 4 - 1 = a + 11
        OBVIOUS
    <2> QED BY <1>3, <2>1, StoredIs
<1>9. \A y : ByteAt(y)' = IF y \in a..(a + 7) THEN text[y]
                          ELSE IF y \in (a + 8)..(a + 11) THEN word[y] ELSE ByteAt(y)
    <2> SUFFICES ASSUME NEW y
                 PROVE  ByteAt(y)' = IF y \in a..(a + 7) THEN text[y]
                          ELSE IF y \in (a + 8)..(a + 11) THEN word[y] ELSE ByteAt(y)
        OBVIOUS
    <2>1. ByteAt(y) = LookUp(bytes, y) /\ ByteAt(y)' = LookUp(bytes', y)
        BY DEF ByteAt, LookUp, ZeroByte
    <2>2. PICK g : g = Over(word, bytes)
        OBVIOUS
    <2>3. LookUp(g, y) = IF y \in DOMAIN word THEN word[y] ELSE LookUp(bytes, y)
        BY <2>2, LookUpOver, ZenonT(60)
    <2>4. LookUp(bytes', y) = IF y \in DOMAIN text THEN text[y] ELSE LookUp(g, y)
        BY <1>5, <2>2, LookUpOver, ZenonT(60)
    <2>5. DOMAIN word = (a + 8)..(a + 11) /\ DOMAIN text = a..(a + 7)
        BY <1>7, <1>8
    <2> QED BY <2>1, <2>3, <2>4, <2>5
<1>10. \A y : y \notin Room(c, r) => ByteAt(y)' = ByteAt(y)
    <2>1. \A y : y \in a..(a + 7) \/ y \in (a + 8)..(a + 11) => y \in a..(a + 11)
        OBVIOUS
    <2> QED BY <1>6, <1>9, <2>1
<1>11. \A x \in DOMAIN bytes' : x \in DOMAIN bytes \/ x \in Room(c, r)
    <2>1. \A y : y \in a..(a + 7) \/ y \in (a + 8)..(a + 11) => y \in a..(a + 11)
        OBVIOUS
    <2>2. DOMAIN Over(word, bytes) = (DOMAIN word) \cup (DOMAIN bytes)
        BY OverDomain, Zenon
    <2>3. DOMAIN bytes' = (DOMAIN text) \cup (DOMAIN Over(word, bytes))
        BY <1>5, OverDomain, Zenon
    <2>4. DOMAIN word = (a + 8)..(a + 11) /\ DOMAIN text = a..(a + 7)
        BY <1>7, <1>8
    <2> QED BY <1>6, <2>1, <2>2, <2>3, <2>4
<1>12. BytesAreBytes'
    BY <1>5, <1>7, <1>8, OverBytes DEF BytesAreBytes
<1>13. StringsGrow
    BY <1>4 DEF StringsGrow, InStrings
<1>14. Holds(c, r, s)'
    <2>1. ByteAt(a + 8)' = ByteOf(s.len, 0)
        <3>1. a + 8 \notin a..(a + 7) /\ a + 8 \in (a + 8)..(a + 11) /\ (a + 8) - (a + 8) = 0
            OBVIOUS
        <3> QED BY <1>8, <1>9, <3>1
    <2>2. ASSUME NEW k \in 0..(s.len - 1) PROVE ByteAt(a + k)' = ByteOf(s.of, k)
        <3>1. a + k \in a..(a + 7) /\ (a + k) - a = k /\ k < s.len
            BY <1>4
        <3> QED BY <1>7, <1>9, <3>1
    <2>3. WordAt(a, 2)' = s.len
        <3>1. WordAt(a, 2)' = (ByteAt(a + 8)').of
            BY DEF WordAt, WordSize, ByteAt, ZeroByte
        <3> QED BY <2>1, <3>1, BytesKnown
    <2>4. HoldsText(a, s)'
        BY <1>4, <2>2, <2>3, ByteOfRests DEF HoldsText, InlineLength, WordSize
    <2>5. Kind(c)' = "string" /\ CellAt(c, r)' = a
        BY <1>1, <1>4, Unmoved
    <2>6. HoldsText(CellAt(c, r), s)'
        BY <2>4, <2>5 DEF HoldsText, WordAt, InStrings, ByteAt
    <2> QED BY <2>5, <2>6 DEF Holds
<1> QED BY <1>4, <1>10, <1>11, <1>12, <1>13, <1>14 DEF Touches

\* The entries of string buckets.
Entries == [at : Nat, text : Texts]

\* How far a string bucket is filled.
LEMMA UsedOfIs ==
    ASSUME NEW b \in Seq(Entries)
    PROVE  /\ UsedOf(b) \in Nat
           /\ b = <<>> => UsedOf(b) = 0
           /\ \A e \in Entries : UsedOf(Append(b, e)) = e.at + e.text.len
           /\ UsedOf(b)' = UsedOf(b)
<1>1. \A s \in Texts : s.len \in Nat
    BY SsmAssumption
<1>2. b = <<>> => UsedOf(b) = 0
    BY DEF UsedOf
<1>3. ASSUME b # <<>> PROVE UsedOf(b) \in Nat
    <2>1. Last(b) = b[Len(b)] /\ Len(b) \in 1..Len(b)
        BY <1>3 DEF Last
    <2>2. b[Len(b)] \in Entries
        BY <2>1
    <2> QED BY <1>1, <1>3, <2>1, <2>2 DEF UsedOf, Entries
<1>4. ASSUME NEW e \in Entries PROVE UsedOf(Append(b, e)) = e.at + e.text.len
    <2>1. PICK d : d = Append(b, e)
        OBVIOUS
    <2>2. d # <<>> /\ d[Len(d)] = e
        BY <2>1, AppendProperties
    <2> QED BY <2>1, <2>2 DEF UsedOf, Last
<1>5. UsedOf(b)' = UsedOf(b)
    BY DEF UsedOf, Last
<1> QED BY <1>2, <1>3, <1>4, <1>5

\* The buckets a string of n bytes finds: room in the last one, and the others
\* as they were.
LEMMA ChainHasRoom ==
    ASSUME StringsFit, Usable \in Int, NEW n \in Nat, n <= Usable
    PROVE  /\ Chain(n) \in Seq(Seq(Entries)) /\ Chain(n) # <<>>
           /\ \A i \in DOMAIN Chain(n) :
                 Len(Chain(n)[i]) <= UsedOf(Chain(n)[i]) /\ UsedOf(Chain(n)[i]) <= Usable
           /\ UsedOf(Last(Chain(n))) + n <= Usable
           /\ Last(Chain(n)) = Chain(n)[Len(Chain(n))]
           /\ \A i \in DOMAIN strBuckets : i \in DOMAIN Chain(n) /\ Chain(n)[i] = strBuckets[i]
<1>1. strBuckets \in Seq(Seq(Entries))
    BY DEF StringsFit, Entries
<1>2. CASE strBuckets = <<>> \/ UsedOf(Last(strBuckets)) + n > Usable
    <2>1. Chain(n) = Append(strBuckets, <<>>)
        BY <1>2 DEF Chain
    <2>0. <<>> \in Seq(Entries)
        OBVIOUS
    <2>a. Append(strBuckets, <<>>) \in Seq(Seq(Entries))
        BY <1>1, <2>0, AppendProperties
    <2>2. PICK d \in Seq(Seq(Entries)) : d = Append(strBuckets, <<>>)
        BY <2>a, Zenon
    <2>3. /\ d # <<>> /\ Len(d) = Len(strBuckets) + 1 /\ d[Len(d)] = <<>>
          /\ \A i \in 1..Len(strBuckets) : i \in 1..Len(d) /\ d[i] = strBuckets[i]
        BY <1>1, <2>0, <2>2, AppendProperties
    <2>4. UsedOf(<<>>) = 0 /\ Len(<<>>) = 0
        BY DEF UsedOf
    <2>5. Last(d) = d[Len(d)]
        BY <2>3 DEF Last
    <2>6. ASSUME NEW i \in DOMAIN d PROVE Len(d[i]) <= UsedOf(d[i]) /\ UsedOf(d[i]) <= Usable
        <3>1. CASE i \in DOMAIN strBuckets
            <4>1. d[i] = strBuckets[i]
                <5>1. i \in 1..Len(strBuckets)
                    BY <1>1, <3>1
                <5> QED BY <2>3, <5>1, Zenon
            <4>2. Len(strBuckets[i]) <= UsedOf(strBuckets[i]) /\ UsedOf(strBuckets[i]) <= Usable
                BY <3>1, Zenon DEF StringsFit
            <4> QED BY <4>1, <4>2
        <3>2. CASE i \notin DOMAIN strBuckets
            <4>1. i = Len(d)
                BY <1>1, <2>2, <2>3, <2>6, <3>2
            <4> QED BY <2>3, <2>4, <4>1
        <3> QED BY <3>1, <3>2
    <2>7. DOMAIN strBuckets = 1..Len(strBuckets) /\ DOMAIN d = 1..Len(d)
        BY <1>1
    <2> QED BY <2>1, <2>2, <2>3, <2>4, <2>5, <2>6, <2>7
<1>3. CASE ~(strBuckets = <<>> \/ UsedOf(Last(strBuckets)) + n > Usable)
    <2>1. Chain(n) = strBuckets
        BY <1>3 DEF Chain
    <2>2. Last(strBuckets) = strBuckets[Len(strBuckets)]
        BY <1>3 DEF Last
    <2>3. strBuckets[Len(strBuckets)] \in Seq(Entries)
        BY <1>1, <1>3
    <2>4. UsedOf(Last(strBuckets)) \in Nat
        BY <2>2, <2>3, UsedOfIs
    <2> QED BY <1>1, <1>3, <2>1, <2>2, <2>4 DEF StringsFit
<1> QED BY <1>2, <1>3

\* A string is put into the last of the buckets, behind those that are there.
LEMMA ChainGrows ==
    ASSUME NEW chain \in Seq(Seq(Entries)), chain # <<>>,
           Usable \in Int, Usable' = Usable, NEW s \in Texts, s.len > 8,
           \A i \in DOMAIN chain : Len(chain[i]) <= UsedOf(chain[i]) /\ UsedOf(chain[i]) <= Usable,
           NEW at \in Nat, at = UsedOf(chain[Len(chain)]), at + s.len <= Usable,
           \A i \in DOMAIN strBuckets : i \in DOMAIN chain /\ chain[i] = strBuckets[i],
           strBuckets' = [chain EXCEPT ![Len(chain)] = Append(@, [at |-> at, text |-> s])]
    PROVE  StringsFit' /\ StringsGrow /\ InStrings(at, s, Len(chain))'
<1>1. PICK n \in Nat : n = Len(chain) /\ n \in DOMAIN chain
    OBVIOUS
<1>2. PICK e \in Entries : e = [at |-> at, text |-> s]
    BY DEF Entries
<1>3. PICK b \in Seq(Entries) : b = chain[n]
    BY <1>1
<1>0. Append(b, e) \in Seq(Entries)
    BY AppendProperties
<1>4. PICK d \in Seq(Entries) : d = Append(b, e)
    BY <1>0, Zenon
<1>5. /\ Len(d) = Len(b) + 1 /\ d[Len(d)] = e /\ Len(d) \in DOMAIN d
      /\ \A i \in DOMAIN b : i \in DOMAIN d /\ d[i] = b[i]
    BY <1>4
<1>6. strBuckets' = [chain EXCEPT ![n] = d]
    BY <1>1, <1>2, <1>3, <1>4
<1>7. /\ strBuckets' \in Seq(Seq(Entries)) /\ DOMAIN strBuckets' = DOMAIN chain
      /\ strBuckets'[n] = d
      /\ \A i \in DOMAIN chain : i # n => strBuckets'[i] = chain[i]
    BY <1>1, <1>6
<1>8. s.len \in Nat
    BY SsmAssumption
<1>9. UsedOf(d) = at + s.len
    BY <1>2, <1>4, UsedOfIs
<1>10. Len(d) <= UsedOf(d) /\ UsedOf(d) <= Usable
    <2>1. Len(b) <= at /\ Len(b) \in Nat
        BY <1>1, <1>3
    <2> QED BY <1>5, <1>8, <1>9, <2>1
<1>11. StringsFit'
    <2>1. \A i \in DOMAIN strBuckets' :
            Len(strBuckets'[i]) <= UsedOf(strBuckets'[i]) /\ UsedOf(strBuckets'[i]) <= Usable
        BY <1>7, <1>10
    <2>2. \A x : UsedOf(x)' = UsedOf(x)
        BY DEF UsedOf, Last
    <2>3. \A i \in DOMAIN strBuckets' : UsedOf(strBuckets[i])' = UsedOf(strBuckets'[i])
        BY DEF UsedOf, Last
    <2> QED BY <1>7, <2>1, <2>3 DEF StringsFit, Entries
<1>12. InStrings(at, s, Len(chain))'
    <2>1. e \in Range(strBuckets'[n])
        BY <1>5, <1>7 DEF Range
    <2> QED BY <1>1, <1>2, <1>7, <2>1 DEF InStrings, Range
<1>13. StringsGrow
    <2> SUFFICES ASSUME NEW x, NEW t, NEW i, InStrings(x, t, i) PROVE InStrings(x, t, i)'
        BY DEF StringsGrow
    <2>1. /\ i \in DOMAIN strBuckets /\ i \in DOMAIN chain /\ chain[i] = strBuckets[i]
          /\ [at |-> x, text |-> t] \in Range(chain[i])
        BY DEF InStrings
    <2>2. [at |-> x, text |-> t] \in Range(strBuckets'[i])
        <3>1. CASE i = n
            BY <1>3, <1>5, <1>7, <2>1, <3>1 DEF Range
        <3>2. CASE i # n
            <4>1. strBuckets'[i] = chain[i]
                BY <1>7, <2>1, <3>2
            <4> QED BY <2>1, <4>1
        <3> QED BY <3>1, <3>2
    <2> QED BY <1>7, <2>1, <2>2 DEF InStrings, Range
<1> QED BY <1>11, <1>12, <1>13

\* write_cell with a string for a string bucket.
LEMMA LongTextWritten ==
    ASSUME LayoutInv, Written, BytesAreBytes, StringsFit,
           NEW c \in Cols, NEW r \in Nat, r < table.nrow,
           NEW s \in Texts, WriteLongText(c, r, s)
    PROVE  Touches(c, r, s) /\ StringsFit'
<1>1. PICK a \in Nat : a = CellAt(c, r)
    BY CellAtIsNat
<1>2. /\ UNCHANGED <<table, layout, phase>> /\ Kind(c) = "string"
      /\ s.len \in Nat /\ s.len > 8 /\ s.len <= Usable
    BY SsmAssumption DEF WriteLongText, Writing, Kind, InlineLength, WordSize
<1>3. Usable \in Int /\ Usable' = Usable /\ Buckets' = Buckets /\ Buckets \in Nat
    BY <1>2, SsmAssumption, LayoutNumbers, Unmoved DEF Usable
<1>4. PICK chain : chain = Chain(s.len)
    OBVIOUS
<1>5. /\ chain \in Seq(Seq(Entries)) /\ chain # <<>>
      /\ \A i \in DOMAIN chain : Len(chain[i]) <= UsedOf(chain[i]) /\ UsedOf(chain[i]) <= Usable
      /\ UsedOf(Last(chain)) + s.len <= Usable
      /\ Last(chain) = chain[Len(chain)]
      /\ \A i \in DOMAIN strBuckets : i \in DOMAIN chain /\ chain[i] = strBuckets[i]
    <2>1. s.len \in Nat /\ s.len <= Usable /\ Usable \in Int
        BY <1>2, <1>3
    <2> QED BY <1>4, <2>1, ChainHasRoom
<1>6. UsedOf(Last(chain)) \in Nat
    <2>1. chain[Len(chain)] \in Seq(Entries)
        BY <1>5
    <2> QED BY <1>5, <2>1, UsedOfIs
<1>7. PICK at \in Nat : at = UsedOf(Last(chain))
    BY <1>6, Zenon
<1>8. PICK n \in Nat : n = Len(chain) /\ n > 0
    BY <1>5
<1>9. /\ strBuckets' = [chain EXCEPT ![Len(chain)] = Append(@, [at |-> at, text |-> s])]
      /\ bytes' = Over(Stored(a, Buckets + n - 1, 4),
                    Over(Stored(a + 4, at, 4), Over(Stored(a + 2 * 4, s.len, 4), bytes)))
    BY <1>1, <1>4, <1>7, <1>8 DEF WriteLongText, WordSize
<1>10. StringsFit' /\ StringsGrow /\ InStrings(at, s, n)'
    <2>1. at = UsedOf(chain[Len(chain)]) /\ at + s.len <= Usable
        BY <1>5, <1>7
    <2>2. StringsFit' /\ StringsGrow /\ InStrings(at, s, Len(chain))'
        BY <1>2, <1>3, <1>5, <1>9, <2>1, ChainGrows
    <2> QED BY <1>8, <2>2 DEF InStrings
<1>11. PICK f, g, h : f = Stored(a, Buckets + n - 1, 4) /\ g = Stored(a + 4, at, 4)
                      /\ h = Stored(a + 8, s.len, 4)
    OBVIOUS
<1>12. PICK p, q : p = Over(g, q) /\ q = Over(h, bytes) /\ bytes' = Over(f, p)
    <2>1. a + 2 * 4 = a + 8
        OBVIOUS
    <2> QED BY <1>9, <1>11, <2>1
<1>13. /\ DOMAIN f = a..(a + 3)
       /\ \A x \in a..(a + 3) : f[x] = ByteOf(Buckets + n - 1, x - a)
       /\ \A x \in DOMAIN f : IsByte(f[x])
    <2>1. a + 4 - 1 = a + 3
        OBVIOUS
    <2> QED BY <1>11, <2>1, StoredIs
<1>14. /\ DOMAIN g = (a + 4)..(a + 7)
       /\ \A x \in (a + 4)..(a + 7) : g[x] = ByteOf(at, x - (a + 4))
       /\ \A x \in DOMAIN g : IsByte(g[x])
    <2>1. a + 4 \in Nat /\ (a + 4) + 4 - 1 = a + 7
        OBVIOUS
    <2> QED BY <1>11, <2>1, StoredIs
<1>15. /\ DOMAIN h = (a + 8)..(a + 11)
       /\ \A x \in (a + 8)..(a + 11) : h[x] = ByteOf(s.len, x - (a + 8))
       /\ \A x \in DOMAIN h : IsByte(h[x])
    <2>1. a + 8 \in Nat /\ (a + 8) + 4 - 1 = a + 11
        OBVIOUS
    <2> QED BY <1>11, <2>1, StoredIs
<1>16. Room(c, r) = a..(a + 11)
    BY <1>1, <1>2, TextRoom
<1>17. \A y : ByteAt(y)' = IF y \in DOMAIN f THEN f[y] ELSE IF y \in DOMAIN g THEN g[y]
                           ELSE IF y \in DOMAIN h THEN h[y] ELSE ByteAt(y)
    <2> SUFFICES ASSUME NEW y
                 PROVE  ByteAt(y)' = IF y \in DOMAIN f THEN f[y] ELSE IF y \in DOMAIN g THEN g[y]
                           ELSE IF y \in DOMAIN h THEN h[y] ELSE ByteAt(y)
        OBVIOUS
    <2>1. ByteAt(y) = LookUp(bytes, y) /\ ByteAt(y)' = LookUp(bytes', y)
        BY DEF ByteAt, LookUp, ZeroByte
    <2>2. LookUp(q, y) = IF y \in DOMAIN h THEN h[y] ELSE LookUp(bytes, y)
        <3>1. LookUp(Over(h, bytes), y) = IF y \in DOMAIN h THEN h[y] ELSE LookUp(bytes, y)
            BY LookUpOver, ZenonT(60)
        <3> QED BY <1>12, <3>1, Zenon
    <2>3. LookUp(p, y) = IF y \in DOMAIN g THEN g[y] ELSE LookUp(q, y)
        <3>1. LookUp(Over(g, q), y) = IF y \in DOMAIN g THEN g[y] ELSE LookUp(q, y)
            BY LookUpOver, ZenonT(60)
        <3> QED BY <1>12, <3>1, Zenon
    <2>4. LookUp(bytes', y) = IF y \in DOMAIN f THEN f[y] ELSE LookUp(p, y)
        <3>1. LookUp(Over(f, p), y) = IF y \in DOMAIN f THEN f[y] ELSE LookUp(p, y)
            BY LookUpOver, ZenonT(60)
        <3> QED BY <1>12, <3>1, Zenon
    <2> QED BY <2>1, <2>2, <2>3, <2>4
<1>18. \A y : y \in DOMAIN f \/ y \in DOMAIN g \/ y \in DOMAIN h => y \in Room(c, r)
    BY <1>13, <1>14, <1>15, <1>16
<1>19. \A y : y \notin Room(c, r) => ByteAt(y)' = ByteAt(y)
    BY <1>17, <1>18
<1>20. \A x \in DOMAIN bytes' : x \in DOMAIN bytes \/ x \in Room(c, r)
    <2>1. /\ DOMAIN q = (DOMAIN h) \cup (DOMAIN bytes) /\ DOMAIN p = (DOMAIN g) \cup (DOMAIN q)
          /\ DOMAIN bytes' = (DOMAIN f) \cup (DOMAIN p)
        BY <1>12, OverDomain, Zenon
    <2> QED BY <1>18, <2>1
<1>21. BytesAreBytes'
    <2>1. \A x \in DOMAIN Over(h, bytes) : IsByte(Over(h, bytes)[x])
        BY <1>15, OverBytes DEF BytesAreBytes
    <2>2. \A x \in DOMAIN q : IsByte(q[x])
        BY <1>12, <2>1, Zenon
    <2>3. \A x \in DOMAIN Over(g, q) : IsByte(Over(g, q)[x])
        BY <1>14, <2>2, OverBytes
    <2>4. \A x \in DOMAIN p : IsByte(p[x])
        BY <1>12, <2>3, Zenon
    <2>5. \A x \in DOMAIN Over(f, p) : IsByte(Over(f, p)[x])
        BY <1>13, <2>4, OverBytes
    <2>6. \A x \in DOMAIN bytes' : IsByte(bytes'[x])
        BY <1>12, <2>5, Zenon
    <2> QED BY <2>6 DEF BytesAreBytes, IsByte
<1>22. Holds(c, r, s)'
    <2>1. ByteAt(a)' = ByteOf(Buckets + n - 1, 0)
        <3>1. a \in a..(a + 3) /\ a - a = 0
            OBVIOUS
        <3> QED BY <1>13, <1>17, <3>1
    <2>2. ByteAt(a + 4)' = ByteOf(at, 0)
        <3>1. a + 4 \notin a..(a + 3) /\ a + 4 \in (a + 4)..(a + 7) /\ (a + 4) - (a + 4) = 0
            OBVIOUS
        <3> QED BY <1>13, <1>14, <1>17, <3>1
    <2>3. ByteAt(a + 8)' = ByteOf(s.len, 0)
        <3>1. /\ a + 8 \notin a..(a + 3) /\ a + 8 \notin (a + 4)..(a + 7)
              /\ a + 8 \in (a + 8)..(a + 11) /\ (a + 8) - (a + 8) = 0
            OBVIOUS
        <3> QED BY <1>13, <1>14, <1>15, <1>17, <3>1
    <2>4. WordAt(a, 0)' = Buckets + n - 1 /\ WordAt(a, 1)' = at /\ WordAt(a, 2)' = s.len
        <3>1. /\ WordAt(a, 0)' = (ByteAt(a)').of /\ WordAt(a, 1)' = (ByteAt(a + 4)').of
              /\ WordAt(a, 2)' = (ByteAt(a + 8)').of
            BY DEF WordAt, WordSize, ByteAt, ZeroByte
        <3> QED BY <2>1, <2>2, <2>3, <3>1, BytesKnown
    <2>5. WordAt(a, 0)' - Buckets' + 1 = n /\ WordAt(a, 1)' + s.len <= Usable'
        BY <1>3, <1>5, <1>7, <2>4
    <2>6. InStrings(WordAt(a, 1), s, WordAt(a, 0) - Buckets + 1)'
        BY <1>10, <2>4, <2>5 DEF InStrings
    <2>7. HoldsText(a, s)'
        BY <1>2, <2>4, <2>5, <2>6 DEF HoldsText, InlineLength, WordSize
    <2>8. Kind(c)' = "string" /\ CellAt(c, r)' = a
        BY <1>1, <1>2, Unmoved
    <2>9. HoldsText(CellAt(c, r), s)'
        BY <2>7, <2>8 DEF HoldsText, WordAt, InStrings, ByteAt
    <2> QED BY <2>8, <2>9 DEF Holds
<1> QED BY <1>2, <1>10, <1>19, <1>20, <1>21, <1>22 DEF Touches

----------------------------------------------------------------------------
(* Every step keeps what the cells hold.                                   *)

\* No string bucket is too full when there is none.
LEMMA EmptyFits == ASSUME strBuckets = <<>> PROVE StringsFit
BY DEF StringsFit

\* Before any write every cell holds its default.
LEMMA CellsStart == LayoutInv /\ NothingWritten => CellsHold
BY NothingHolds DEF CellsHold, LayoutInv, Written

\* The string buckets are left alone.
LEMMA StringsFitLater ==
    ASSUME strBuckets' = strBuckets, Usable' = Usable, StringsFit
    PROVE  StringsFit'
<1>1. \A i : UsedOf(strBuckets[i])' = UsedOf(strBuckets[i])
    BY DEF UsedOf, Last
<1> QED BY <1>1 DEF StringsFit

\* A write of one cell, whatever its kind.
LEMMA WriteKeepsBytes ==
    ASSUME LayoutInv, BytesInv, Written, NEW c \in Cols, NEW r \in TestRows, r < table.nrow,
           NEW v, Touches(c, r, v), StringsFit',
           wrote' = Over([cell \in {<<c, r>>} |-> v], wrote),
           writes < MaxCellWrites, writes' = writes + 1
    PROVE  BytesInv'
<1>1. /\ table' = table /\ layout' = layout /\ phase' = phase
      /\ Buckets' = Buckets /\ Cols' = Cols /\ \A d : Default(d)' = Default(d)
    BY Unmoved DEF Touches
<1>2. r \in Nat /\ \A q \in TestRows : q \in Nat
    BY SsmAssumption
<1>3. ValueOf(c, r)' = v
    <2>1. <<c, r>> \in DOMAIN wrote' /\ wrote'[<<c, r>>] = v
        BY DEF Over
    <2> QED BY <2>1 DEF ValueOf
<1>4. ASSUME NEW d, NEW q, c # d \/ r # q PROVE ValueOf(d, q)' = ValueOf(d, q)
    <2>1. <<d, q>> \notin {<<c, r>>}
        BY <1>4
    <2>2. /\ <<d, q>> \in DOMAIN wrote' <=> <<d, q>> \in DOMAIN wrote
          /\ <<d, q>> \in DOMAIN wrote => wrote'[<<d, q>>] = wrote[<<d, q>>]
        BY <2>1 DEF Over
    <2> QED BY <1>1, <2>2 DEF ValueOf
<1>5. ASSUME NEW d \in Cols, NEW q \in TestRows, q < table.nrow
      PROVE  Holds(d, q, ValueOf(d, q))'
    <2>1. PICK u : u = ValueOf(d, q)'
        OBVIOUS
    <2>2. Holds(d, q, u)'
        <3>1. CASE c = d /\ r = q
            <4>1. u = v
                BY <1>3, <2>1, <3>1
            <4> QED BY <3>1, <4>1 DEF Touches
        <3>2. CASE c # d \/ r # q
            <4>1. u = ValueOf(d, q)
                BY <1>4, <2>1, <3>2
            <4>2. Holds(d, q, u)
                BY <1>5, <4>1 DEF BytesInv, CellsHold
            <4>3. q \in Nat
                BY <1>2
            <4> QED BY <1>2, <1>5, <3>2, <4>2, <4>3, OtherCellsHold
        <3> QED BY <3>1, <3>2
    <2> QED BY <2>1, <2>2 DEF Holds, HoldsText, InStrings
<1>6. CellsHold'
    BY <1>1, <1>5 DEF CellsHold
<1>7. BytesInBuckets'
    <2>1. ASSUME NEW x \in DOMAIN bytes' PROVE x \in 0..(Buckets * layout.size - 1)
        <3>1. CASE x \in DOMAIN bytes
            BY <3>1 DEF BytesInv, BytesInBuckets
        <3>2. CASE x \in Room(c, r)
            BY <1>2, <3>2, RoomInBuckets
        <3> QED BY <2>1, <3>1, <3>2 DEF Touches
    <2> QED BY <1>1, <2>1 DEF BytesInBuckets
<1>8. writes' \in 0..MaxCellWrites
    BY SsmAssumption DEF BytesInv
<1>9. Written'
    BY <1>1 DEF Written
<1> QED BY <1>6, <1>7, <1>8, <1>9 DEF BytesInv, Touches

\* write_cell, write_array_raw and write_indirect_offset.
LEMMA CellStepKeepsBytes ==
    ASSUME LayoutInv, BytesInv, CellStep
    PROVE  BytesInv'
<1>1. PICK c \in Cols, r \in TestRows :
        \/ \E v \in Numbers : WriteNumber(c, r, v)
        \/ \E v \in BOOLEAN : WriteBool(c, r, v)
        \/ \E s \in Texts : WriteShortText(c, r, s) \/ WriteLongText(c, r, s)
    BY Zenon DEF CellStep
<1>2. r \in Nat
    BY SsmAssumption
<1>3. BytesAreBytes /\ StringsFit
    BY DEF BytesInv
<1>4. ASSUME NEW kind, NEW v, Writing(c, r, kind, v)
      PROVE  /\ Written /\ r < table.nrow /\ Usable' = Usable
             /\ wrote' = Over([cell \in {<<c, r>>} |-> v], wrote)
             /\ writes < MaxCellWrites /\ writes' = writes + 1
    BY <1>4 DEF Writing, Written, Usable
<1>5. ASSUME NEW v \in Numbers, WriteNumber(c, r, v) PROVE BytesInv'
    <2>1. Writing(c, r, "number", v)
        BY <1>5 DEF WriteNumber
    <2>2. Touches(c, r, v) /\ strBuckets' = strBuckets
        BY <1>2, <1>3, <1>4, <1>5, <2>1, NumberWritten
    <2>3. StringsFit'
        BY <1>3, <1>4, <2>1, <2>2, StringsFitLater
    <2> QED BY <1>4, <2>1, <2>2, <2>3, WriteKeepsBytes
<1>6. ASSUME NEW v \in BOOLEAN, WriteBool(c, r, v) PROVE BytesInv'
    <2>1. Writing(c, r, "bool", v)
        BY <1>6 DEF WriteBool
    <2>2. Touches(c, r, v) /\ strBuckets' = strBuckets
        BY <1>2, <1>3, <1>4, <1>6, <2>1, BoolWritten
    <2>3. StringsFit'
        BY <1>3, <1>4, <2>1, <2>2, StringsFitLater
    <2> QED BY <1>4, <2>1, <2>2, <2>3, WriteKeepsBytes
<1>7. ASSUME NEW s \in Texts, WriteShortText(c, r, s) PROVE BytesInv'
    <2>1. Writing(c, r, "string", s)
        BY <1>7 DEF WriteShortText
    <2>2. Touches(c, r, s) /\ strBuckets' = strBuckets
        BY <1>2, <1>3, <1>4, <1>7, <2>1, ShortTextWritten
    <2>3. StringsFit'
        BY <1>3, <1>4, <2>1, <2>2, StringsFitLater
    <2> QED BY <1>4, <2>1, <2>2, <2>3, WriteKeepsBytes
<1>8. ASSUME NEW s \in Texts, WriteLongText(c, r, s) PROVE BytesInv'
    <2>1. Writing(c, r, "string", s)
        BY <1>8 DEF WriteLongText
    <2>2. Touches(c, r, s) /\ StringsFit'
        BY <1>2, <1>3, <1>4, <1>8, <2>1, LongTextWritten
    <2> QED BY <1>4, <2>1, <2>2, WriteKeepsBytes
<1> QED BY <1>1, <1>5, <1>6, <1>7, <1>8

\* Setup, flush and a step that changes nothing leave the bytes.
LEMMA RestKeepsBytes ==
    ASSUME LayoutInv, LayoutInv', BytesInv, UNCHANGED <<bytes, strBuckets, wrote, writes>>,
           \/ ~Written
           \/ Written' /\ UNCHANGED <<table, layout>>
    PROVE  BytesInv'
<1>1. BytesAreBytes' /\ writes' \in 0..MaxCellWrites
    BY DEF BytesInv, BytesAreBytes, IsByte
<1>2. CASE ~Written
    <2>1. NothingWritten /\ NothingWritten'
        BY <1>2 DEF BytesInv, NothingWritten
    <2>2. StringsFit'
        BY <2>1 DEF NothingWritten, StringsFit
    <2>3. BytesInBuckets'
        BY <2>1 DEF NothingWritten, BytesInBuckets
    <2>4. CellsHold'
        BY <2>1, CellsStart, PTL
    <2> QED BY <1>1, <2>1, <2>2, <2>3, <2>4 DEF BytesInv
<1>3. CASE Written /\ Written' /\ UNCHANGED <<table, layout>>
    <2>1. /\ Buckets' = Buckets /\ Usable' = Usable /\ Cols' = Cols
          /\ \A c : Kind(c)' = Kind(c) /\ Default(c)' = Default(c)
          /\ \A c, r : CellAt(c, r)' = CellAt(c, r) /\ BoolAt(c, r)' = BoolAt(c, r)
          /\ \A r : BitOf(r)' = BitOf(r)
        BY <1>3, Unmoved
    <2>2. StringsFit'
        BY <2>1, StringsFitLater DEF BytesInv
    <2>3. BytesInBuckets'
        BY <1>3, <2>1 DEF BytesInv, BytesInBuckets
    <2>4. CellsHold'
        <3>1. \A c, r : ValueOf(c, r)' = ValueOf(c, r)
            BY <2>1 DEF ValueOf
        <3>2. \A x : ByteAt(x)' = ByteAt(x)
            BY DEF ByteAt, ZeroByte
        <3>3. ASSUME NEW c \in Cols, NEW r \in TestRows, r < table.nrow
              PROVE  Holds(c, r, ValueOf(c, r))'
            <4>1. Holds(c, r, ValueOf(c, r))
                BY <1>3, <3>3 DEF BytesInv, CellsHold
            <4> QED BY <1>3, <2>1, <3>1, <3>2, <4>1
                    DEF Holds, HoldsText, InStrings, WordAt, ByteAt, ByteOf, ZeroByte
        <3> QED BY <1>3, <2>1, <3>3 DEF CellsHold
    <2> QED BY <1>1, <1>3, <2>2, <2>3, <2>4 DEF BytesInv
<1> QED BY <1>2, <1>3

\* BytesInv holds before setup.
LEMMA BytesStart == SsmInit => BytesInv
<1> SUFFICES ASSUME SsmInit PROVE BytesInv
    OBVIOUS
<1>1. NothingWritten /\ ~Written /\ writes = 0
    BY DEF SsmInit, NothingWritten, Written
<1> QED BY <1>1, EmptyFits, SsmAssumption
        DEF BytesInv, NothingWritten, CellsHold, BytesInBuckets, BytesAreBytes

\* BytesInv is inductive, given LayoutInv.
LEMMA StepKeepsBytes == LayoutInv /\ LayoutInv' /\ BytesInv /\ [SsmNext]_ssmVars => BytesInv'
<1> SUFFICES ASSUME LayoutInv, LayoutInv', BytesInv, [SsmNext]_ssmVars PROVE BytesInv'
    OBVIOUS
<1>1. CASE StartSetup \/ SizeBuckets \/ GrowRows \/ GrowEnds \/ DoubleBucket
            \/ PlaceColumns \/ PlaceColumn \/ SetupEnds
    <2>1. ~Written /\ UNCHANGED <<bytes, strBuckets, wrote, writes>>
        BY <1>1 DEF StartSetup, SizeBuckets, GrowRows, GrowEnds, DoubleBucket, PlaceColumns,
                    PlaceColumn, SetupEnds, Written
    <2> QED BY <2>1, RestKeepsBytes
<1>2. CASE FlushSsm
    <2>1. Written' /\ UNCHANGED <<table, layout, bytes, strBuckets, wrote, writes>>
        BY <1>2 DEF FlushSsm, Written
    <2> QED BY <2>1, RestKeepsBytes
<1>3. CASE CellStep
    BY <1>3, CellStepKeepsBytes
<1>4. CASE UNCHANGED ssmVars
    BY <1>4, RestKeepsBytes DEF ssmVars, Written
<1> QED BY <1>1, <1>2, <1>3, <1>4 DEF SsmNext, CellStep

\* Every cell has, where SsmWriter::write_cell puts it, the bytes of the last
\* value written to it, whatever was written to the other cells since
\* (standard_stman.cpp:1831-2120).
THEOREM SsmBytesInvariant == SsmSpec => [](LayoutInv /\ BytesInv)
<1>1. SsmInit => LayoutInv /\ BytesInv
    BY LayoutStarts, BytesStart
<1>2. (LayoutInv /\ BytesInv) /\ [SsmNext]_ssmVars => (LayoutInv /\ BytesInv)'
    BY StepKeepsLayout, StepKeepsBytes
<1> QED BY <1>1, <1>2, PTL DEF SsmSpec

----------------------------------------------------------------------------
(* What the reader finds.                                                  *)

\* The reader looks where the writer has the cell.
LEMMA HeldIsRead ==
    ASSUME LayoutInv, Written, NEW c \in Cols, NEW r \in Nat, r < table.nrow,
           NEW v, Holds(c, r, v)
    PROVE  Reads(c, r, v)
<1>1. /\ table \in SsmTables
      /\ FindBucket(r) = r \div layout.rows /\ r - StartRow(FindBucket(r)) = r % layout.rows
    BY LayoutNumbers, BucketFound
<1>2. ReadAt(c, r) = CellAt(c, r)
    BY <1>1 DEF ReadAt, CellAt
<1>3. CASE Kind(c) = "number"
    BY <1>2, <1>3 DEF Holds, Reads, ReadsNumber, Kind
<1>4. CASE Kind(c) = "bool"
    <2>1. v <=> BitOf(r) \in ByteAt(BoolAt(c, r)).bits
        BY <1>4 DEF Holds
    <2>2. ReadsBool(c, r, v) <=> (v <=> BitOf(r) \in ByteAt(BoolAt(c, r)).bits)
        BY <1>1, Zenon DEF ReadsBool, BitOf, BoolAt
    <2>3. ReadsBool(c, r, v)
        BY <2>1, <2>2
    <2> QED BY <1>4, <2>3 DEF Reads, Kind
<1>5. CASE Kind(c) = "string"
    <2>1. HoldsText(CellAt(c, r), v)
        BY <1>5 DEF Holds
    <2>2. ReadsText(c, r, v)
        BY <1>2, <2>1 DEF ReadsText, HoldsText, InStrings, WordAt, InlineLength, WordSize
    <2> QED BY <1>5, <2>2 DEF Reads, Kind
<1> QED BY <1>1, <1>3, <1>4, <1>5, TableColumns DEF Kind

\* The invariant implies the property.
LEMMA InvReadsBack == LayoutInv /\ BytesInv => SsmCellsReadBack
<1> SUFFICES ASSUME LayoutInv, BytesInv, phase = "flushed",
                    NEW c \in Cols, NEW r \in TestRows, r < table.nrow
             PROVE  Reads(c, r, ValueOf(c, r))
    BY DEF SsmCellsReadBack, ValueOf
<1>1. Written /\ r \in Nat
    BY SsmAssumption DEF Written
<1>2. Holds(c, r, ValueOf(c, r))
    BY <1>1 DEF BytesInv, CellsHold
<1> QED BY <1>1, <1>2, HeldIsRead

\* From a file that was flushed, SsmReader gives every cell the last value that
\* SsmWriter wrote to it, or none: numbers, booleans that share a byte, short
\* strings in the cell and long ones in string buckets, for any number of
\* columns, rows and writes (standard_stman.cpp:1831-2392 and 874-946).
THEOREM SsmCellsReadBackCorrect == SsmSpec => []SsmCellsReadBack
<1> QED BY SsmBytesInvariant, InvReadsBack, PTL

\* The invariant implies the types.
LEMMA InvTypes == LayoutInv /\ BytesInv => SsmTypeOK
<1> SUFFICES ASSUME LayoutInv, BytesInv PROVE SsmTypeOK
    OBVIOUS
<1>1. layout.size \in Nat /\ layout.rows \in Nat /\ layout.offset \in Seq(Nat)
    BY LayoutTypes
<1>2. ASSUME NEW i \in DOMAIN strBuckets PROVE Len(strBuckets[i]) <= layout.size - StrHeader
    <2>1. strBuckets[i] \in Seq(Entries)
        BY DEF BytesInv, StringsFit, Entries
    <2>2. UsedOf(strBuckets[i]) \in Nat /\ Len(strBuckets[i]) \in Nat
        BY <2>1, UsedOfIs
    <2>3. /\ Len(strBuckets[i]) <= UsedOf(strBuckets[i])
          /\ UsedOf(strBuckets[i]) <= layout.size - StrHeader
        BY DEF BytesInv, StringsFit, Usable
    <2>4. layout.size - StrHeader \in Int
        BY <1>1, SsmAssumption
    <2> QED BY <2>2, <2>3, <2>4
<1> QED BY <1>1, <1>2 DEF SsmTypeOK, LayoutInv, BytesInv, BytesInBuckets

\* The writer's state keeps its types; no byte lies behind the last bucket, and
\* no string bucket is filled past its end (standard_stman.cpp:1831-2120).
THEOREM SsmTypeCorrect == SsmSpec => []SsmTypeOK
<1> QED BY SsmBytesInvariant, InvTypes, PTL


----------------------------------------------------------------------------
(* TiledStorage: sums of bytes and of rows.                                *)

\* A running sum exists for any addends.
LEMMA RunningSumExists ==
    ASSUME NEW n \in Nat, NEW F \in [1..n -> Nat]
    PROVE  \E s \in [0..n -> Nat] : s[0] = 0 /\ \A k \in 1..n : s[k] = s[k - 1] + F[k]
<1> DEFINE Sums(m, s) == s[0] = 0 /\ \A k \in 1..m : s[k] = s[k - 1] + F[k]
           T == {m \in 0..n : ~ \E s \in [0..m -> Nat] : Sums(m, s)}
<1>1. SUFFICES ASSUME T # {} PROVE FALSE
    <2>1. n \notin T
        BY <1>1
    <2> QED BY SMTT(20), <2>1
<1>2. T \in SUBSET Nat
    OBVIOUS
<1>3. PICK m \in T : \A j \in T : m <= j
    BY <1>1, <1>2, LeastNumber
<1>4. m \in 0..n /\ ~ \E s \in [0..m -> Nat] : Sums(m, s)
    OBVIOUS
<1>5. CASE m = 0
    <2>1. [k \in 0..0 |-> 0] \in [0..m -> Nat] /\ Sums(m, [k \in 0..0 |-> 0])
        BY <1>5
    <2> QED BY <1>4, <2>1
<1>6. CASE m # 0
    <2>1. m - 1 \in 0..n /\ m - 1 \notin T
        <3>1. m - 1 \in 0..n /\ ~(m <= m - 1)
            BY <1>4, <1>6
        <3> HIDE DEF T
        <3> QED BY <1>3, <3>1
    <2>2. PICK s \in [0..(m - 1) -> Nat] : Sums(m - 1, s)
        BY <2>1
    <2> DEFINE t == [k \in 0..m |-> IF k = m THEN s[m - 1] + F[m] ELSE s[k]]
    <2>3. t \in [0..m -> Nat]
        <3>1. s[m - 1] \in Nat /\ F[m] \in Nat
            BY <1>4, <1>6
        <3>2. \A k \in 0..m : k # m => s[k] \in Nat
            BY <1>4, <1>6
        <3> QED BY <3>1, <3>2
    <2>4. t[0] = 0
        BY <1>4, <1>6, <2>2
    <2>5. ASSUME NEW k \in 1..m PROVE t[k] = t[k - 1] + F[k]
        <3>1. k - 1 \in 0..m /\ k - 1 # m /\ t[k - 1] = s[k - 1]
            BY <1>4
        <3>2. CASE k = m
            BY <3>1, <3>2
        <3>3. CASE k # m
            <4>1. k \in 1..(m - 1) /\ t[k] = s[k]
                BY <1>4, <3>3
            <4> QED BY <2>2, <3>1, <4>1
        <3> QED BY <3>2, <3>3
    <2>6. Sums(m, t)
        BY <2>4, <2>5
    <2> QED BY <1>4, <2>3, <2>6
<1> QED BY <1>5, <1>6

\* ... and is a sequence of numbers that grows.
LEMMA RunningSumIs ==
    ASSUME NEW n \in Nat, NEW F \in [1..n -> Nat],
           NEW s, s = [k \in 0..n |-> IF k = 0 THEN 0 ELSE s[k - 1] + F[k]]
    PROVE  /\ s \in [0..n -> Nat] /\ s[0] = 0
           /\ \A k \in 1..n : s[k] = s[k - 1] + F[k]
           /\ \A j, k \in 0..n : j <= k => s[j] <= s[k]
<1>1. DOMAIN s = 0..n
    OBVIOUS
<1>2. s[0] = 0 /\ \A k \in 1..n : s[k] = s[k - 1] + F[k]
    OBVIOUS
<1>3. \A k \in 0..n : s[k] \in Nat
    <2> DEFINE T == {k \in 0..n : s[k] \notin Nat}
    <2>1. SUFFICES ASSUME T # {} PROVE FALSE
        OBVIOUS
    <2>2. T \in SUBSET Nat
        OBVIOUS
    <2>3. PICK k \in T : \A j \in T : k <= j
        BY <2>1, <2>2, LeastNumber
    <2>4. k \in 1..n /\ k - 1 \in 0..n /\ k - 1 \notin T
        BY <1>2, <2>3
    <2> QED BY <1>2, <2>4
<1>4. s \in [0..n -> Nat]
    BY <1>1, <1>3
<1>5. ASSUME NEW j \in 0..n PROVE \A k \in 0..n : j <= k => s[j] <= s[k]
    <2> DEFINE T == {k \in 0..n : j <= k /\ ~(s[j] <= s[k])}
    <2>1. SUFFICES ASSUME T # {} PROVE FALSE
        OBVIOUS
    <2>2. T \in SUBSET Nat
        OBVIOUS
    <2>3. PICK k \in T : \A i \in T : k <= i
        BY <2>1, <2>2, LeastNumber
    <2>4. s[j] \in Nat /\ s[k] \in Nat
        BY <1>3
    <2>5. j < k /\ k \in 1..n /\ k - 1 \in 0..n /\ j <= k - 1 /\ k - 1 \notin T
        BY <2>3, <2>4
    <2>6. s[k] = s[k - 1] + F[k] /\ F[k] \in Nat /\ s[k - 1] \in Nat /\ s[j] <= s[k - 1]
        BY <1>2, <1>3, <2>5
    <2> QED BY SMTT(20), <2>4, <2>6
<1> QED BY <1>2, <1>4, <1>5

\* compute_col_offsets.
LEMMA OffsetsAre ==
    ASSUME NEW S, NEW order \in Seq(S), NEW area \in [S -> Nat]
    PROVE  /\ ColumnOffsets(order, area) \in [0..Len(order) -> Nat]
           /\ ColumnOffsets(order, area)[0] = 0
           /\ \A k \in 1..Len(order) :
                ColumnOffsets(order, area)[k] = ColumnOffsets(order, area)[k - 1] + area[order[k]]
           /\ \A j, k \in 0..Len(order) :
                j <= k => ColumnOffsets(order, area)[j] <= ColumnOffsets(order, area)[k]
<1>1. PICK n \in Nat : n = Len(order)
    OBVIOUS
<1>2. \A k \in 1..n : order[k] \in S
    BY <1>1
<1>3. PICK F \in [1..n -> Nat] : F = [k \in 1..n |-> area[order[k]]]
    BY <1>2
<1>4. \E s : s = [k \in 0..n |-> IF k = 0 THEN 0 ELSE s[k - 1] + area[order[k]]]
    <2>1. PICK s \in [0..n -> Nat] : s[0] = 0 /\ \A k \in 1..n : s[k] = s[k - 1] + F[k]
        BY RunningSumExists
    <2>2. \A k \in 0..n : s[k] = IF k = 0 THEN 0 ELSE s[k - 1] + area[order[k]]
        BY <1>3, <2>1
    <2>3. s = [k \in 0..n |-> IF k = 0 THEN 0 ELSE s[k - 1] + area[order[k]]]
        BY <2>2
    <2> QED BY <2>3
<1>5. PICK o : o = ColumnOffsets(order, area)
    OBVIOUS
<1>6. o = [k \in 0..n |-> IF k = 0 THEN 0 ELSE o[k - 1] + area[order[k]]]
    BY <1>1, <1>4, <1>5, Zenon DEF ColumnOffsets
<1>7. o = [k \in 0..n |-> IF k = 0 THEN 0 ELSE o[k - 1] + F[k]]
    BY <1>3, <1>6
<1>8. /\ o \in [0..n -> Nat] /\ o[0] = 0
      /\ \A k \in 1..n : o[k] = o[k - 1] + F[k]
      /\ \A j, k \in 0..n : j <= k => o[j] <= o[k]
    BY <1>7, RunningSumIs
<1> QED BY <1>1, <1>3, <1>5, <1>8
----------------------------------------------------------------------------
(* TiledStorage: the columns in the order of their sizes.                  *)

\* c goes before d in a tile.
Larger(size, c, d) == size[c] > size[d] \/ (size[c] = size[d] /\ c > d)

LEMMA SmallestColumn ==
    ASSUME NEW U \in SUBSET Nat, U # {}, NEW size, \A c \in U : size[c] \in Nat
    PROVE  \E m \in U : \A c \in U : c # m => Larger(size, c, m)
<1>1. PICK T \in SUBSET Nat : T = {size[c] : c \in U}
    OBVIOUS
<1>0. T # {}
    BY <1>1
<1>2. PICK k \in T : \A j \in T : k <= j
    BY <1>0, LeastNumber
<1>3. PICK V \in SUBSET Nat : V = {c \in U : size[c] = k}
    OBVIOUS
<1>4. V # {}
    BY <1>1, <1>2, <1>3
<1>5. PICK m \in V : \A j \in V : m <= j
    BY <1>4, LeastNumber
<1>6. ASSUME NEW c \in U, c # m PROVE Larger(size, c, m)
    <2>1. k <= size[c] /\ size[m] = k /\ size[c] \in Nat /\ k \in Nat /\ c \in Nat /\ m \in Nat
        BY <1>1, <1>2, <1>3
    <2>2. size[c] = k => m <= c
        BY <1>3, <1>5
    <2> QED BY <1>6, <2>1, <2>2 DEF Larger
<1> QED BY <1>3, <1>6

LEMMA SortedExists ==
    ASSUME NEW S \in SUBSET Nat, IsFiniteSet(S), NEW size, \A c \in S : size[c] \in Nat
    PROVE  \E s \in SetToSeqs(S) : \A i, j \in DOMAIN s : i < j => Larger(size, s[i], s[j])
<1> DEFINE Sorted(s) == \A i, j \in DOMAIN s : i < j => Larger(size, s[i], s[j])
           Lacks(U) == ~ \E s \in SetToSeqs(U) : Sorted(s)
           T == {n \in Nat : \E U \in SUBSET S : IsFiniteSet(U) /\ Cardinality(U) = n /\ Lacks(U)}
<1>1. SUFFICES ASSUME Lacks(S) PROVE FALSE
    OBVIOUS
<1>2. Cardinality(S) \in T
    BY <1>1, FS_CardinalityType
<1>3. T \in SUBSET Nat /\ T # {}
    BY <1>2
<1>4. \A n \in T : \E U \in SUBSET S : IsFiniteSet(U) /\ Cardinality(U) = n /\ Lacks(U)
    OBVIOUS
<1>5. \A U \in SUBSET S : IsFiniteSet(U) /\ Lacks(U) => Cardinality(U) \in T
    BY FS_CardinalityType
<1> HIDE DEF T
<1>6. PICK n \in T : \A k \in T : n <= k
    BY <1>3, LeastNumber
<1>7. PICK U \in SUBSET S : IsFiniteSet(U) /\ Cardinality(U) = n /\ Lacks(U)
    BY <1>4
<1>8. n \in Nat
    BY <1>3
<1>9. CASE U = {}
    <2>1. n = 0
        BY <1>7, <1>9, FS_EmptySet
    <2>2. <<>> \in [1..0 -> {}] /\ Sorted(<<>>) /\ DOMAIN <<>> = {}
        OBVIOUS
    <2>3. \A f \in [1..0 -> {}] : f \in SetToSeqs({})
        BY <1>7, <1>9, <2>1 DEF SetToSeqs
    <2> QED BY <1>7, <1>9, <2>2, <2>3
<1>10. CASE U # {}
    <2>1. PICK m \in U : \A c \in U : c # m => Larger(size, c, m)
        BY <1>10, SmallestColumn
    <2>2. IsFiniteSet(U \ {m}) /\ Cardinality(U \ {m}) = n - 1
        BY <1>7, <2>1, FS_RemoveElement
    <2>3. n - 1 \in Nat
        BY <2>2, FS_CardinalityType
    <2>4. ~ Lacks(U \ {m})
        <3>1. ~ (n - 1 \in T)
            BY <1>6, <1>8
        <3>2. U \ {m} \in SUBSET S
            OBVIOUS
        <3> QED BY <1>5, <2>2, <3>1, <3>2
    <2>5. PICK s \in SetToSeqs(U \ {m}) : Sorted(s)
        BY <2>4
    <2>6. /\ s \in [1..(n - 1) -> U \ {m}]
          /\ \A i, j \in 1..(n - 1) : i < j => Larger(size, s[i], s[j])
          /\ \A i, j \in 1..(n - 1) : i # j => s[i] # s[j]
        BY <2>2, <2>5 DEF SetToSeqs
    <2> DEFINE t == [i \in 1..n |-> IF i = n THEN m ELSE s[i]]
    <2>7. \A i \in 1..n : i = n \/ i \in 1..(n - 1)
        BY <1>8
    <2>8. t \in [1..n -> U]
        BY <2>1, <2>6, <2>7
    <2>9. ASSUME NEW i \in 1..n, NEW j \in 1..n, i < j PROVE Larger(size, t[i], t[j])
        <3>1. i \in 1..(n - 1) /\ t[i] = s[i] /\ s[i] \in U /\ s[i] # m
            BY <1>8, <2>6, <2>9
        <3>2. CASE j = n
            BY <2>1, <3>1, <3>2
        <3>3. CASE j # n
            BY <2>6, <2>7, <2>9, <3>1, <3>3
        <3> QED BY <3>2, <3>3
    <2>10. ASSUME NEW i \in 1..n, NEW j \in 1..n, i # j PROVE t[i] # t[j]
        <3>1. CASE i = n
            BY <2>6, <2>7, <2>10, <3>1
        <3>2. CASE j = n
            BY <2>6, <2>7, <2>10, <3>2
        <3>3. CASE i # n /\ j # n
            BY <2>6, <2>7, <2>10, <3>3
        <3> QED BY <3>1, <3>2, <3>3
    <2>11. t \in SetToSeqs(U)
        BY <1>7, <2>8, <2>10 DEF SetToSeqs
    <2>12. Sorted(t)
        BY <2>8, <2>9
    <2> QED BY <1>7, <2>11, <2>12
<1> QED BY <1>9, <1>10

\* What the assumptions say of a table that was set up.
LEMMA TiledTable ==
    ASSUME tiled \in TiledTables
    PROVE  /\ tiled.manager \in {"cell", "shape", "data", "column"}
           /\ Len(tiled.columns) \in Nat \ {0} /\ Columns = 1..Len(tiled.columns)
           /\ Columns \in SUBSET Nat /\ IsFiniteSet(Columns)
           /\ Cardinality(Columns) = Len(tiled.columns)
           /\ \A c \in Columns : /\ tiled.columns[c].size \in Nat \ {0}
                                 /\ IsBool(c) \in BOOLEAN
                                 /\ IsBool(c) <=> tiled.columns[c].size = 1
           /\ tiled.pixels \in Nat \ {0} /\ tiled.rows \in Nat \ {0}
<1>1. PICK t \in TiledTables : t = tiled
    OBVIOUS
<1>2. /\ t.manager \in {"cell", "shape", "data", "column"}
      /\ t.columns \in Seq([bool : BOOLEAN, size : Nat \ {0}]) \ {<<>>}
      /\ \A c \in DOMAIN t.columns : t.columns[c].bool <=> t.columns[c].size = 1
      /\ t.pixels \in Nat \ {0} /\ t.rows \in Nat \ {0}
    BY TiledAssumption
<1>3. PICK n \in Nat : n = Len(t.columns)
    BY <1>2
<1>4. DOMAIN t.columns = 1..n /\ n # 0
    <2>1. t.columns \in Seq([bool : BOOLEAN, size : Nat \ {0}]) /\ t.columns # <<>>
        BY <1>2
    <2>2. DOMAIN t.columns = 1..n
        BY <1>3, <2>1, LenProperties
    <2> QED BY <1>3, <2>1, <2>2, EmptySeq
<1>5. \A c \in 1..n : t.columns[c] \in [bool : BOOLEAN, size : Nat \ {0}]
    <2>1. t.columns \in Seq([bool : BOOLEAN, size : Nat \ {0}])
        BY <1>2
    <2> QED BY <1>3, <2>1, ElementOfSeq
<1>6. IsFiniteSet(1..n) /\ Cardinality(1..n) = n
    BY FS_Interval
<1> QED BY <1>1, <1>2, <1>3, <1>4, <1>5, <1>6 DEF Columns, IsBool

\* An order of the columns has each of them once.
IsOrder(order) ==
    /\ order \in [1..Len(tiled.columns) -> Columns]
    /\ \A i, j \in 1..Len(tiled.columns) : i # j => order[i] # order[j]
    /\ \A c \in Columns : \E i \in 1..Len(tiled.columns) : order[i] = c

LEMMA OrderIs ==
    ASSUME tiled \in TiledTables, NEW size \in [Columns -> Nat]
    PROVE  IsOrder(Order(size))
<1>1. PICK n \in Nat \ {0} : n = Len(tiled.columns) /\ Columns = 1..n
    BY TiledTable
<1>2. Columns \in SUBSET Nat /\ IsFiniteSet(Columns) /\ Cardinality(Columns) = n
    BY <1>1, TiledTable
<1>3. \E s \in SetToSeqs(Columns) : \A i, j \in DOMAIN s : i < j => Larger(size, s[i], s[j])
    BY <1>2, SortedExists
<1>4. PICK s : s = Order(size)
    OBVIOUS
<1>5. s \in SetToSeqs(Columns)
    BY <1>3, <1>4, Zenon DEF Order, Larger
<1>6. s \in [1..n -> Columns] /\ \A i, j \in 1..n : i # j => s[i] # s[j]
    BY <1>2, <1>5 DEF SetToSeqs
<1>7. s \in Injection(1..n, Columns)
    BY <1>6 DEF Injection, IsInjective
<1>8. IsFiniteSet(1..n) /\ Cardinality(1..n) = n
    BY FS_Interval
<1>9. s \in Surjection(1..n, Columns)
    BY <1>2, <1>7, <1>8, FS_Injection
<1> QED BY <1>1, <1>4, <1>6, <1>9 DEF IsOrder, Surjection

\* Numbers have more bytes than booleans, so both sides sort alike.
LEMMA OrdersAgree ==
    ASSUME tiled \in TiledTables
    PROVE  WriterOrder = ReaderOrder /\ IsOrder(WriterOrder)
<1>1. PICK u \in [Columns -> Nat] : u = [c \in Columns |-> tiled.columns[c].size]
    BY TiledTable
<1>2. PICK v \in [Columns -> Nat] : v = [c \in Columns |-> IF IsBool(c) THEN 0 ELSE tiled.columns[c].size]
    BY TiledTable
<1>3. ASSUME NEW c \in Columns, NEW d \in Columns
      PROVE  Larger(u, c, d) <=> Larger(v, c, d)
    <2>1. /\ u[c] \in Nat \ {0} /\ u[d] \in Nat \ {0}
          /\ v[c] = IF u[c] = 1 THEN 0 ELSE u[c]
          /\ v[d] = IF u[d] = 1 THEN 0 ELSE u[d]
        BY <1>1, <1>2, TiledTable
    <2> QED BY <2>1 DEF Larger
<1>4. ASSUME NEW s \in SetToSeqs(Columns)
      PROVE  (\A i, j \in DOMAIN s : i < j => Larger(u, s[i], s[j]))
                <=> (\A i, j \in DOMAIN s : i < j => Larger(v, s[i], s[j]))
    <2>1. \A i \in DOMAIN s : s[i] \in Columns
        BY DEF SetToSeqs
    <2> QED BY <1>3, <2>1
<1>5. Order(u) = Order(v)
    BY <1>4, Zenon DEF Order, Larger
<1>6. WriterOrder = Order(u) /\ ReaderOrder = Order(v)
    BY <1>1, <1>2 DEF WriterOrder, ReaderOrder
<1> QED BY <1>5, <1>6, OrderIs
\* Where the columns lie in a tile: inside of it, and apart from each other.
LEMMA ColumnsLieApart ==
    ASSUME tiled \in TiledTables, NEW order, IsOrder(order), NEW area \in [Columns -> Nat]
    PROVE  /\ BucketBytes(order, area) \in Nat
           /\ \A c \in Columns : /\ AreaStart(order, area, c) \in Nat
                                 /\ AreaStart(order, area, c) + area[c] <= BucketBytes(order, area)
           /\ \A c, d \in Columns : c # d =>
                \/ AreaStart(order, area, c) + area[c] <= AreaStart(order, area, d)
                \/ AreaStart(order, area, d) + area[d] <= AreaStart(order, area, c)
<1>1. PICK n \in Nat \ {0} : n = Len(tiled.columns) /\ Columns = 1..n
    BY TiledTable
<1>2. /\ order \in [1..n -> Columns] /\ \A i, j \in 1..n : i # j => order[i] # order[j]
      /\ \A c \in Columns : \E i \in 1..n : order[i] = c
    BY <1>1 DEF IsOrder
<1>3. order \in Seq(Columns) /\ Len(order) = n /\ DOMAIN order = 1..n
    <2>1. order \in Seq(Columns)
        <3>1. n \in Nat /\ order \in [1..n -> Columns]
            BY <1>1, <1>2
        <3>2. order \in UNION {[1..m -> Columns] : m \in Nat}
            BY <3>1, Zenon
        <3> QED BY <3>2, SeqDef, Zenon
    <2>2. DOMAIN order = 1..n
        BY <1>2
    <2> QED BY <1>1, <2>1, <2>2, LenProperties
<1>4. PICK o : o = ColumnOffsets(order, area)
    OBVIOUS
<1>5. /\ o \in [0..n -> Nat] /\ o[0] = 0
      /\ \A k \in 1..n : o[k] = o[k - 1] + area[order[k]]
      /\ \A j, k \in 0..n : j <= k => o[j] <= o[k]
    BY ZenonT(30), <1>3, <1>4, OffsetsAre
<1>6. BucketBytes(order, area) = o[n]
    BY <1>3, <1>4 DEF BucketBytes
<1>7. ASSUME NEW c \in Columns
      PROVE  \E k \in 1..n : /\ order[k] = c
                             /\ AreaStart(order, area, c) = o[k - 1]
                             /\ o[k] = o[k - 1] + area[c]
    <2>1. PICK k : k = CHOOSE i \in DOMAIN order : order[i] = c
        OBVIOUS
    <2>2. k \in 1..n /\ order[k] = c
        BY <1>2, <1>3, <2>1
    <2>3. AreaStart(order, area, c) = o[k - 1]
        BY <1>4, <2>1 DEF AreaStart
    <2> QED BY <1>5, <2>2, <2>3
<1>8. \A k \in 1..n : k - 1 \in 0..n /\ k \in 0..n /\ k <= n
    BY <1>1
<1>9. \A c \in Columns : area[c] \in Nat
    OBVIOUS
<1>10. BucketBytes(order, area) \in Nat
    BY <1>1, <1>5, <1>6
<1>11. ASSUME NEW c \in Columns
       PROVE  /\ AreaStart(order, area, c) \in Nat
              /\ AreaStart(order, area, c) + area[c] <= BucketBytes(order, area)
    <2>1. PICK k \in 1..n : AreaStart(order, area, c) = o[k - 1] /\ o[k] = o[k - 1] + area[c]
        BY <1>7
    <2>2. o[k] <= o[n]
        BY SMTT(20), <1>1, <1>5, <1>8
    <2> QED BY <1>5, <1>6, <1>8, <2>1, <2>2
<1>12. ASSUME NEW c \in Columns, NEW d \in Columns, c # d
       PROVE  \/ AreaStart(order, area, c) + area[c] <= AreaStart(order, area, d)
              \/ AreaStart(order, area, d) + area[d] <= AreaStart(order, area, c)
    <2>1. PICK k \in 1..n : /\ order[k] = c /\ AreaStart(order, area, c) = o[k - 1]
                            /\ o[k] = o[k - 1] + area[c]
        BY <1>7
    <2>2. PICK l \in 1..n : /\ order[l] = d /\ AreaStart(order, area, d) = o[l - 1]
                            /\ o[l] = o[l - 1] + area[d]
        BY <1>7
    <2>3. k <= l - 1 \/ l <= k - 1
        BY <1>12, <2>1, <2>2
    <2>4. k <= l - 1 => o[k] <= o[l - 1]
        BY <1>5, <1>8
    <2>5. l <= k - 1 => o[l] <= o[k - 1]
        BY <1>5, <1>8
    <2> QED BY <2>1, <2>2, <2>3, <2>4, <2>5
<1> QED BY <1>10, <1>11, <1>12

\* The rows of a tile, by manager.
LEMMA TileRowsAre ==
    ASSUME tiled \in TiledTables
    PROVE  /\ TileRows \in Nat \ {0}
           /\ tiled.manager \in {"cell", "shape"} => TileRows = 1
           /\ tiled.manager = "data" => TileRows = tiled.rows
<1>1. tiled.manager \in {"cell", "shape"} => TileRows = 1
    <2>1. CASE tiled.manager = "cell"
        BY <2>1, Zenon DEF TileRows
    <2>2. CASE tiled.manager = "shape"
        BY <2>2, Zenon DEF TileRows
    <2> QED BY <2>1, <2>2
<1>2. tiled.manager = "data" => TileRows = tiled.rows
    BY Zenon DEF TileRows
<1>3. tiled.manager = "column" => TileRows = Largest(1, (2 * TargetPixels + tiled.pixels) \div (2 * tiled.pixels))
    BY Zenon DEF TileRows
<1>4. Largest(1, (2 * TargetPixels + tiled.pixels) \div (2 * tiled.pixels)) \in Nat \ {0}
    <2>1. PICK p \in Nat \ {0} : p = tiled.pixels
        BY TiledTable
    <2>2. 2 * p \in Nat \ {0} /\ 2 * TargetPixels + p \in Nat
        BY TiledAssumption
    <2>3. (2 * TargetPixels + p) \div (2 * p) \in Nat
        BY <2>2, Divided
    <2> QED BY <2>1, <2>3 DEF Largest
<1> QED BY <1>1, <1>2, <1>3, <1>4, TiledTable

LEMMA BitsAre ==
    ASSUME NEW n \in Nat
    PROVE  Bits(n) \in Nat /\ (n # 0 => Bits(n) # 0) /\ Bits(8 * n) = n
BY DEF Bits

\* The areas and the cells of the columns are numbers of bytes.
LEMMA BytesAre ==
    ASSUME tiled \in TiledTables
    PROVE  /\ TilePixels \in Nat
           /\ WriterArea \in [Columns -> Nat]
           /\ \A c \in Columns : CellBytes(c) \in Nat \ {0}
<1>1. PICK p \in Nat \ {0} : p = tiled.pixels
    BY TiledTable
<1>2. \A c \in Columns : tiled.columns[c].size \in Nat \ {0} /\ IsBool(c) \in BOOLEAN
    BY TiledTable
<1>3. TilePixels \in Nat
    <2>1. PICK w \in Nat : w = TileRows
        BY TileRowsAre
    <2> QED BY <1>1, <2>1 DEF TilePixels
<1>4. ASSUME NEW c \in Columns PROVE TilePixels * tiled.columns[c].size \in Nat
    BY <1>2, <1>3, Products
<1>5. ASSUME NEW c \in Columns PROVE CellBytes(c) \in Nat \ {0}
    <2>1. PICK s \in Nat \ {0} : s = tiled.columns[c].size
        BY <1>2
    <2>2. p * s \in Nat /\ p * s # 0
        OBVIOUS
    <2>3. Bits(p) \in Nat \ {0}
        BY BitsAre
    <2> QED BY <1>1, <2>1, <2>2, <2>3 DEF CellBytes
<1>6. Bits(TilePixels) \in Nat
    BY <1>3, BitsAre
<1> QED BY <1>3, <1>4, <1>5, <1>6 DEF WriterArea

\* Where writer and reader agree on booleans they agree on the areas, and the
\* cells of a tile's rows fit into their column's area, one after the other.
LEMMA CellsFit ==
    ASSUME tiled \in TiledTables, WholeBools
    PROVE  /\ WriterArea = ReaderArea
           /\ \A c \in Columns : \A k \in 0..(TileRows - 1) :
                k * CellBytes(c) + CellBytes(c) <= WriterArea[c]
<1>1. PICK p \in Nat \ {0}, w \in Nat \ {0} : p = tiled.pixels /\ w = TileRows
    BY TiledTable, TileRowsAre
<1>2. TilePixels = p * w
    BY <1>1 DEF TilePixels
<1>3. \A c \in Columns : IsBool(c) => tiled.manager # "column"
    BY DEF WholeBools
<1>4. WriterArea = ReaderArea
    BY <1>3 DEF WriterArea, ReaderArea
<1>5. ASSUME NEW c \in Columns, NEW k \in 0..(TileRows - 1)
      PROVE  k * CellBytes(c) + CellBytes(c) <= WriterArea[c]
    <2>1. k \in Nat /\ k < w
        BY <1>1
    <2>2. CASE ~IsBool(c)
        <3>1. PICK s \in Nat \ {0} : s = tiled.columns[c].size
            BY TiledTable
        <3>2. CellBytes(c) = p * s /\ WriterArea[c] = (p * w) * s
            BY <1>1, <1>2, <2>2, <3>1 DEF CellBytes, WriterArea
        <3>3. p * s \in Nat /\ (p * w) * s = w * (p * s)
            OBVIOUS
        <3> QED BY <2>1, <3>2, <3>3, Products
    <2>3. CASE IsBool(c)
        <3>1. CellBytes(c) = Bits(p) /\ WriterArea[c] = Bits(p * w)
            BY <1>1, <1>2, <1>3, <2>3 DEF CellBytes, WriterArea
        <3>2. CASE tiled.manager = "shape"
            <4>1. w = 1 /\ k = 0
                BY <1>1, <2>1, <3>2, TileRowsAre
            <4> QED BY <3>1, <4>1 DEF Bits
        <3>3. CASE tiled.manager = "data" /\ p % 8 = 0
            <4>1. PICK m \in Nat : p = 8 * m
                <5>1. p = (p \div 8) * 8 + (p % 8) /\ p \div 8 \in Nat
                    BY Divided
                <5> QED BY <3>3, <5>1
            <4>2. p * w = 8 * (w * m) /\ w * m \in Nat
                BY <4>1
            <4>3. Bits(p) = m /\ Bits(p * w) = w * m
                BY <4>1, <4>2, BitsAre
            <4> QED BY <2>1, <3>1, <4>3, Products
        <3> QED BY <1>1, <2>3, <3>2, <3>3 DEF WholeBools
    <2> QED BY <2>2, <2>3
<1> QED BY <1>4, <1>5

\* A later row of the same tile is a whole cell further.
LEMMA TilesFollow ==
    ASSUME NEW r \in Nat, NEW w \in Nat \ {0}
    PROVE  (r + w) \div w = (r \div w) + 1
<1>0. PICK q \in Nat : q = r + w
    OBVIOUS
<1>1. /\ r \div w \in Nat /\ r % w \in 0..(w - 1) /\ r = (r \div w) * w + (r % w)
      /\ q \div w \in Nat /\ q % w \in 0..(w - 1) /\ q = (q \div w) * w + (q % w)
    BY Divided
<1>2. PICK a \in Nat : a = (r \div w) + 1
    BY <1>1
<1>3. PICK b \in Nat : b = q \div w
    BY <1>1
<1>6. a * w = (r \div w) * w + w /\ a * w \in Nat /\ b * w \in Nat
    BY <1>1, <1>2
<1>4. ~(a < b)
    <2>1. a < b => a * w + w <= b * w
        BY Products
    <2> QED BY <1>0, <1>1, <1>2, <1>3, <1>6, <2>1
<1>5. ~(b < a)
    <2>1. b < a => b * w + w <= a * w
        BY Products
    <2> QED BY <1>0, <1>1, <1>2, <1>3, <1>6, <2>1
<1> QED BY <1>0, <1>2, <1>3, <1>4, <1>5

\* The bytes of the cells are in the file, and no two cells share one.
LEMMA CellsLieApart ==
    ASSUME tiled \in TiledTables, WholeBools
    PROVE  /\ \A c \in Columns, r \in 0..(tiled.rows - 1) :
                PutAt(c, r) + CellBytes(c) <= FileBytes
           /\ \A c, d \in Columns, r, q \in 0..(tiled.rows - 1) :
                c # d \/ r # q => \/ PutAt(c, r) + CellBytes(c) <= PutAt(d, q)
                                  \/ PutAt(d, q) + CellBytes(d) <= PutAt(c, r)
<1>1. PICK w \in Nat \ {0}, n \in Nat \ {0} : w = TileRows /\ n = tiled.rows
    BY TiledTable, TileRowsAre
<1>2. PICK b \in Nat : b = BucketBytes(WriterOrder, WriterArea)
    BY BytesAre, ColumnsLieApart, OrdersAgree
<1> DEFINE At(c) == AreaStart(WriterOrder, WriterArea, c)
           End(c) == At(c) + WriterArea[c]
           Tile(r) == r \div w
           Pos(r) == r % w
           TileAt(r) == Tile(r) * b
           RowAt(c, r) == Pos(r) * CellBytes(c)
           Rows == 0..(n - 1)
<1>3. \A c \in Columns : /\ At(c) \in Nat /\ End(c) \in Nat /\ End(c) <= b
                         /\ CellBytes(c) \in Nat /\ WriterArea[c] = End(c) - At(c)
    BY <1>2, BytesAre, ColumnsLieApart, OrdersAgree
<1>4. \A c, d \in Columns : c # d => End(c) <= At(d) \/ End(d) <= At(c)
    BY BytesAre, ColumnsLieApart, OrdersAgree
<1>5. ASSUME NEW r \in Rows
      PROVE  /\ r \in Nat /\ Tile(r) \in Nat /\ Pos(r) \in 0..(w - 1) /\ TileAt(r) \in Nat
             /\ r = Tile(r) * w + Pos(r)
    <2>1. r \in Nat
        OBVIOUS
    <2>2. Tile(r) \in Nat /\ Pos(r) \in 0..(w - 1) /\ r = Tile(r) * w + Pos(r)
        BY <2>1, Divided
    <2> HIDE DEF Tile, Pos
    <2> QED BY <2>1, <2>2, Products
<1>6. \A c \in Columns, r \in Rows : PutAt(c, r) = TileAt(r) + At(c) + RowAt(c, r)
    BY <1>1, <1>2 DEF PutAt
<1>7. \A c \in Columns : \A k \in 0..(w - 1) : k * CellBytes(c) + CellBytes(c) <= End(c) - At(c)
    BY <1>1, <1>3, CellsFit
<1>8. \A r, q \in Rows : Tile(r) < Tile(q) => TileAt(r) + b <= TileAt(q)
    <2> HIDE DEF Tile
    <2> QED BY <1>5, Products
<1>9. \A c \in Columns, r, q \in Rows :
        Pos(r) < Pos(q) => RowAt(c, r) + CellBytes(c) <= RowAt(c, q)
    <2> TAKE c \in Columns, r \in Rows, q \in Rows
    <2> HIDE DEF Pos, Rows
    <2>1. PICK i \in Nat, j \in Nat, m \in Nat : i = Pos(r) /\ j = Pos(q) /\ m = CellBytes(c)
        BY <1>3, <1>5
    <2>2. i < j => i * m + m <= j * m
        BY Products
    <2> QED BY <2>1, <2>2
<1>10. \A c \in Columns, r \in Rows :
            RowAt(c, r) \in Nat /\ RowAt(c, r) + CellBytes(c) <= End(c) - At(c)
    <2> TAKE c \in Columns, r \in Rows
    <2> HIDE DEF Pos, Rows, At, End
    <2>1. PICK i \in 0..(w - 1), m \in Nat : i = Pos(r) /\ m = CellBytes(c)
        BY <1>3, <1>5
    <2>2. i * m \in Nat /\ i * m + m <= End(c) - At(c)
        BY <1>7, <2>1, Products
    <2> QED BY <2>1, <2>2
<1>11. \A r, q \in Rows : Tile(r) = Tile(q) /\ Pos(r) = Pos(q) => r = q
    <2> HIDE DEF Tile, Pos
    <2> QED BY <1>5
<1> HIDE DEF At, End, Tile, Pos, TileAt, RowAt, Rows
<1>12. \A c \in Columns, r \in Rows :
            /\ PutAt(c, r) \in Nat
            /\ TileAt(r) + At(c) <= PutAt(c, r)
            /\ PutAt(c, r) + CellBytes(c) <= TileAt(r) + End(c)
            /\ PutAt(c, r) + CellBytes(c) <= TileAt(r) + b
    BY <1>3, <1>5, <1>6, <1>10
<1>13. ASSUME NEW c \in Columns, NEW d \in Columns, NEW r \in Rows, NEW q \in Rows,
              c # d \/ r # q
       PROVE  \/ PutAt(c, r) + CellBytes(c) <= PutAt(d, q)
              \/ PutAt(d, q) + CellBytes(d) <= PutAt(c, r)
    <2>1. CASE Tile(r) # Tile(q)
        <3>1. Tile(r) < Tile(q) \/ Tile(q) < Tile(r)
            BY <1>5, <2>1
        <3> QED BY <1>3, <1>5, <1>8, <1>12, <3>1
    <2>2. CASE Tile(r) = Tile(q) /\ c # d
        <3>1. TileAt(r) = TileAt(q)
            BY <2>2 DEF TileAt
        <3>2. End(c) <= At(d) \/ End(d) <= At(c)
            BY <1>4, <2>2
        <3> QED BY <1>3, <1>5, <1>12, <3>1, <3>2
    <2>3. CASE Tile(r) = Tile(q) /\ c = d
        <3>1. TileAt(r) = TileAt(q)
            BY <2>3 DEF TileAt
        <3>2. Pos(r) < Pos(q) \/ Pos(q) < Pos(r)
            BY <1>5, <1>11, <1>13, <2>3
        <3> QED BY <1>3, <1>5, <1>6, <1>9, <1>10, <2>3, <3>1, <3>2
    <2> QED BY <2>1, <2>2, <2>3
<1>14. ASSUME NEW c \in Columns, NEW r \in Rows
       PROVE  PutAt(c, r) + CellBytes(c) <= FileBytes
    <2>1. r \in Nat /\ r <= n - 1
        BY DEF Rows
    <2>2. PICK q \in Nat, m \in Nat : q = r + w /\ m = n + w - 1 /\ q <= m
        BY <2>1
    <2>3. q \div w <= m \div w /\ q \div w = Tile(r) + 1
        BY <2>1, <2>2, DividedInOrder, TilesFollow DEF Tile
    <2>4. PICK t \in Nat : t = m \div w
        BY Divided
    <2>5. Tile(r) < t
        BY <1>5, <2>3, <2>4
    <2>6. TileAt(r) + b <= t * b /\ t * b \in Nat
        BY <1>5, <2>5, Products DEF TileAt
    <2>7. FileBytes = t * b
        BY <1>1, <1>2, <2>2, <2>4 DEF FileBytes
    <2> QED BY <1>3, <1>5, <1>12, <2>6, <2>7
<1> QED BY <1>1, <1>13, <1>14 DEF Rows

\* What only depends on the table does not change with the rest of the state.
LEMMA SameTable ==
    ASSUME tiled' = tiled, tiled \in TiledTables
    PROVE  /\ Columns' = Columns
           /\ \A c : IsBool(c)' = IsBool(c) /\ CellBytes(c)' = CellBytes(c)
           /\ TileRows' = TileRows
           /\ WriterOrder' = WriterOrder /\ WriterArea' = WriterArea
           /\ WholeBools' = WholeBools
           /\ FileBytes' = FileBytes
           /\ \A c, r : PutAt(c, r)' = PutAt(c, r)
<1>1. Columns' = Columns /\ \A c : IsBool(c)' = IsBool(c)
    BY DEF Columns, IsBool
<1>2. TileRows' = TileRows
    <2>1. CASE tiled.manager = "cell"
        BY <2>1, Zenon DEF TileRows
    <2>2. CASE tiled.manager = "shape"
        BY <2>2, Zenon DEF TileRows
    <2>3. CASE tiled.manager = "data"
        BY <2>3, Zenon DEF TileRows
    <2>4. CASE tiled.manager = "column"
        BY <2>4, Zenon DEF TileRows
    <2> QED BY <2>1, <2>2, <2>3, <2>4, TiledTable
<1>3. TilePixels' = TilePixels
    BY <1>2 DEF TilePixels
<1>4. WriterArea' = WriterArea
    BY <1>1, <1>3 DEF WriterArea
<1>5. WriterOrder' = WriterOrder
    <2>1. PICK u : u = [c \in Columns |-> tiled.columns[c].size]
        OBVIOUS
    <2>2. u = [c \in Columns' |-> tiled'.columns[c].size]
        BY <1>1, <2>1
    <2>3. WriterOrder = Order(u)
        BY <2>1 DEF WriterOrder
    <2>4. WriterOrder' = Order(u)'
        BY <2>2, Zenon DEF WriterOrder
    <2>5. Order(u)' = Order(u)
        BY <1>1, Zenon DEF Order
    <2> QED BY <2>3, <2>4, <2>5
<1>6. \A c : CellBytes(c)' = CellBytes(c)
    BY <1>1 DEF CellBytes
<1>7. WholeBools' = WholeBools
    BY <1>1 DEF WholeBools
<1>8. FileBytes' = FileBytes
    BY <1>2, <1>4, <1>5 DEF FileBytes
<1>9. \A c, r : PutAt(c, r)' = PutAt(c, r)
    BY <1>2, <1>4, <1>5, <1>6 DEF PutAt
<1> QED BY <1>1, <1>2, <1>4, <1>5, <1>6, <1>7, <1>8, <1>9

\* A quotient and a remainder are the only ones.
LEMMA DividedOnce ==
    ASSUME NEW q \in Nat, NEW w \in Nat \ {0}, NEW k \in 0..(w - 1)
    PROVE  (q * w + k) \div w = q /\ (q * w + k) % w = k
<1>1. PICK n \in Nat : n = q * w + k
    BY Products
<1>2. PICK a \in Nat, b \in 0..(w - 1) : a = n \div w /\ b = n % w /\ n = a * w + b
    BY Divided
<1>3. a * w \in Nat /\ q * w \in Nat /\ k \in Nat
    BY Products
<1>4. ~(a < q) /\ ~(q < a)
    <2>1. a < q => a * w + w <= q * w
        BY Products
    <2>2. q < a => q * w + w <= a * w
        BY Products
    <2> QED BY <1>1, <1>2, <1>3, <2>1, <2>2
<1> QED BY <1>1, <1>2, <1>3, <1>4

\* The cell that write_tsm_data_file puts as the p-th one.
CellPut(p) == <<WriterOrder[(p % Len(tiled.columns)) + 1], p \div Len(tiled.columns)>>

LEMMA CellsPutOnce ==
    ASSUME tiled \in TiledTables
    PROVE  LET n == Len(tiled.columns) * tiled.rows IN
           /\ n \in Nat
           /\ \A p \in 0..(n - 1) : CellPut(p) \in Columns \X (0..(tiled.rows - 1))
           /\ \A p, q \in 0..(n - 1) : p # q => CellPut(p) # CellPut(q)
           /\ \A cell \in Columns \X (0..(tiled.rows - 1)) : \E p \in 0..(n - 1) : CellPut(p) = cell
<1>1. PICK w \in Nat \ {0}, m \in Nat \ {0} : w = Len(tiled.columns) /\ m = tiled.rows
    BY TiledTable
<1>2. PICK n \in Nat : n = m * w /\ n = Len(tiled.columns) * tiled.rows
    BY <1>1, Products
<1>3. PICK order : order = WriterOrder
    OBVIOUS
<1>4. /\ order \in [1..w -> Columns] /\ \A i, j \in 1..w : i # j => order[i] # order[j]
      /\ \A c \in Columns : \E i \in 1..w : order[i] = c
    BY <1>1, <1>3, OrdersAgree DEF IsOrder
<1>5. \A p : CellPut(p) = <<order[(p % w) + 1], p \div w>>
    BY <1>1, <1>3 DEF CellPut
<1>6. ASSUME NEW p \in 0..(n - 1)
      PROVE  /\ p \in Nat /\ p % w \in 0..(w - 1) /\ p \div w \in 0..(m - 1)
             /\ p = (p \div w) * w + (p % w)
    <2>1. PICK a \in Nat, b \in 0..(w - 1) : a = p \div w /\ b = p % w /\ p = a * w + b
        BY Divided
    <2>2. a < m
        <3>1. ~(a < m) => m * w <= a * w
            BY Products
        <3>2. a * w \in Nat
            BY Products
        <3> QED BY <1>2, <2>1, <3>1, <3>2
    <2> QED BY <2>1, <2>2
<1>7. ASSUME NEW p \in 0..(n - 1) PROVE CellPut(p) \in Columns \X (0..(m - 1))
    <2>1. (p % w) + 1 \in 1..w
        BY <1>6
    <2> QED BY <1>4, <1>5, <1>6, <2>1
<1>8. ASSUME NEW p \in 0..(n - 1), NEW q \in 0..(n - 1), CellPut(p) = CellPut(q)
      PROVE  p = q
    <2>1. (p % w) + 1 \in 1..w /\ (q % w) + 1 \in 1..w
        BY <1>6
    <2>2. order[(p % w) + 1] = order[(q % w) + 1] /\ p \div w = q \div w
        BY <1>5, <1>8
    <2>3. p % w = q % w
        BY SMTT(20), <1>4, <1>6, <2>1, <2>2
    <2> QED BY <1>6, <2>2, <2>3
<1>9. ASSUME NEW c \in Columns, NEW r \in 0..(m - 1)
      PROVE  \E p \in 0..(n - 1) : CellPut(p) = <<c, r>>
    <2>1. PICK i \in 1..w : order[i] = c
        BY <1>4
    <2>2. PICK k \in 0..(w - 1) : k = i - 1
        BY <1>1
    <2>3. PICK p : p = r * w + k
        OBVIOUS
    <2>4. p \div w = r /\ p % w = k
        BY <2>3, DividedOnce
    <2>5. p \in 0..(n - 1)
        <3>1. r \in Nat /\ r < m
            OBVIOUS
        <3>2. r * w + w <= m * w /\ r * w \in Nat
            BY <3>1, Products
        <3> QED BY <1>2, <2>2, <2>3, <3>2
    <2>6. CellPut(p) = <<c, r>>
        BY <1>5, <2>1, <2>2, <2>4
    <2> QED BY <2>5, <2>6
<1>10. ASSUME NEW cell \in Columns \X (0..(m - 1)) PROVE \E p \in 0..(n - 1) : CellPut(p) = cell
    <2>1. PICK c \in Columns, r \in 0..(m - 1) : cell = <<c, r>>
        OBVIOUS
    <2> QED BY <1>9, <2>1
<1>11. \A p, q \in 0..(n - 1) : p # q => CellPut(p) # CellPut(q)
    BY <1>8
<1> QED BY <1>1, <1>2, <1>7, <1>10, <1>11

----------------------------------------------------------------------------
(* TiledStorage: what is in the file while it is written.                  *)

\* The bytes of a cell are in the file.
CellIsPut(cells, c, r) ==
    \A k \in 0..(CellBytes(c) - 1) :
        /\ (PutAt(c, r) + k) \in DOMAIN tileBytes
        /\ tileBytes[PutAt(c, r) + k] = IF IsBool(c) THEN Packed(cells[<<c, r>>], k)
                                        ELSE Number(cells[<<c, r>>], k)

\* The cells put so far lie in the file as they are in the buffer, and those of
\* a written file as they were when it was written.
TiledInv ==
    /\ TiledTypeOK
    /\ tilePhase = "new" => put = 0
    /\ tilePhase = "overrun" => ~WholeBools
    /\ tilePhase = "putting" /\ WholeBools =>
         \A p \in 0..(put - 1) : CellIsPut(buffer, CellPut(p)[1], CellPut(p)[2])
    /\ tilePhase = "written" /\ WholeBools =>
         \A c \in Columns, r \in 0..(tiled.rows - 1) : CellIsPut(saved, c, r)

\* A cell's place in the file and its bytes are numbers.
LEMMA PutAtIs ==
    ASSUME tiled \in TiledTables, NEW c \in Columns, NEW r \in 0..(tiled.rows - 1)
    PROVE  PutAt(c, r) \in Nat /\ CellBytes(c) \in Nat \ {0}
<1>1. PICK w \in Nat \ {0}, b \in Nat, s \in Nat, m \in Nat \ {0} :
        /\ w = TileRows /\ b = BucketBytes(WriterOrder, WriterArea)
        /\ s = AreaStart(WriterOrder, WriterArea, c) /\ m = CellBytes(c)
    BY TileRowsAre, BytesAre, ColumnsLieApart, OrdersAgree
<1>2. r \in Nat
    BY TiledTable
<1>3. r \div w \in Nat /\ r % w \in Nat
    BY <1>2, Divided
<1>4. (r \div w) * b \in Nat /\ (r % w) * m \in Nat
    BY <1>3, Products
<1>5. PutAt(c, r) = (r \div w) * b + s + (r % w) * m
    BY <1>1 DEF PutAt
<1> QED BY <1>1, <1>4, <1>5

LEMMA FileBytesIs ==
    ASSUME tiled \in TiledTables
    PROVE  FileBytes \in Nat
<1>1. PICK w \in Nat \ {0}, b \in Nat, n \in Nat :
        w = TileRows /\ b = BucketBytes(WriterOrder, WriterArea) /\ n = tiled.rows
    BY TiledTable, TileRowsAre, BytesAre, ColumnsLieApart, OrdersAgree
<1>2. (n + w - 1) \div w \in Nat
    <2>1. n + w - 1 \in Nat
        BY <1>1
    <2> QED BY <2>1, Divided
<1> QED BY <1>1, <1>2, Products DEF FileBytes

LEMMA TiledInitInv == TiledInit => TiledInv
BY TiledAssumption DEF TiledInit, TiledInv, TiledTypeOK, NoTable

LEMMA SetupTiledStep == TiledInv /\ SetupTiled => TiledInv'
<1> SUFFICES ASSUME TiledInv, SetupTiled PROVE TiledInv'
    OBVIOUS
<1>1. PICK t \in TiledTables :
        /\ tiled' = t
        /\ buffer' = [cell \in (DOMAIN t.columns) \X (0..(t.rows - 1)) |-> {}]
    BY DEF SetupTiled
<1>2. buffer' \in TiledCells'
    BY <1>1 DEF TiledCells, Columns
<1>3. put' = 0 /\ tilePhase' = "open" /\ tileBytes' = tileBytes /\ tiledWrites' = tiledWrites
    BY DEF SetupTiled, TiledInv
<1>4. 0 \in 0..(Len(tiled'.columns) * tiled'.rows)
    <2>1. PICK w \in Nat, m \in Nat : w = Len(t.columns) /\ m = t.rows
        <3>1. t.columns \in Seq([bool : BOOLEAN, size : Nat \ {0}]) /\ t.rows \in Nat
            BY TiledAssumption
        <3> QED BY <3>1, LenProperties
    <2>2. w * m \in Nat
        BY Products
    <2> QED BY <1>1, <2>1, <2>2
<1>5. DOMAIN tileBytes \subseteq Nat /\ tiledWrites \in 0..MaxTiledWrites
    BY DEF TiledInv, TiledTypeOK
<1>6. TiledTypeOK'
    BY <1>1, <1>2, <1>3, <1>4, <1>5 DEF TiledTypeOK
<1> QED BY <1>3, <1>6 DEF TiledInv

LEMMA WriteTiledStep ==
    ASSUME TiledInv, tilePhase \in {"open", "written"},
           NEW c \in Columns, NEW r \in 0..(tiled.rows - 1),
           NEW v \in SUBSET (TiledNumbers \cup 0..(tiled.pixels - 1)), WriteTiled(c, r, v)
    PROVE  TiledInv'
<1>1. tiled' = tiled /\ tiled \in TiledTables
    BY DEF TiledInv, TiledTypeOK, WriteTiled
<1>2. buffer' \in TiledCells
    <2>1. buffer \in TiledCells /\ buffer' = [buffer EXCEPT ![<<c, r>>] = v]
        BY DEF TiledInv, TiledTypeOK, WriteTiled
    <2> QED BY <2>1 DEF TiledCells
<1>3. TiledCells' = TiledCells
    BY <1>1, SameTable DEF TiledCells
<1>4. put' = put /\ tilePhase' = "open" /\ tileBytes' = tileBytes /\ tiledWrites' = tiledWrites + 1
    BY DEF WriteTiled
<1>5. tiledWrites' \in 0..MaxTiledWrites
    BY TiledAssumption DEF WriteTiled, TiledInv, TiledTypeOK
<1>6. TiledTypeOK'
    BY <1>1, <1>2, <1>3, <1>4, <1>5 DEF TiledInv, TiledTypeOK
<1> QED BY <1>4, <1>6 DEF TiledInv

LEMMA WriteFilesStep == TiledInv /\ WriteFiles => TiledInv'
<1> SUFFICES ASSUME TiledInv, WriteFiles PROVE TiledInv'
    OBVIOUS
<1>1. tiled' = tiled /\ tiled \in TiledTables
    BY DEF TiledInv, TiledTypeOK, WriteFiles
<1>2. TiledCells' = TiledCells
    BY <1>1, SameTable DEF TiledCells
<1>3. /\ put' = 0 /\ tilePhase' = "putting" /\ tileBytes' = <<>> /\ buffer' = buffer
      /\ tiledWrites' = tiledWrites
    BY DEF WriteFiles
<1>4. 0 \in 0..(Len(tiled.columns) * tiled.rows)
    BY <1>1, CellsPutOnce
<1>5. DOMAIN <<>> \subseteq Nat
    OBVIOUS
<1>6. buffer \in TiledCells /\ tiledWrites \in 0..MaxTiledWrites
    BY DEF WriteFiles, TiledInv, TiledTypeOK
<1>7. TiledTypeOK'
    BY <1>1, <1>2, <1>3, <1>4, <1>5, <1>6 DEF TiledTypeOK
<1>8. \A p : p \notin 0..(put' - 1)
    BY <1>3
<1> QED BY <1>3, <1>7, <1>8 DEF TiledInv

LEMMA FilesWrittenStep == TiledInv /\ FilesWritten => TiledInv'
<1> SUFFICES ASSUME TiledInv, FilesWritten PROVE TiledInv'
    OBVIOUS
<1>1. tiled' = tiled /\ tiled \in TiledTables
    BY DEF TiledInv, TiledTypeOK, FilesWritten
<1>2. TiledCells' = TiledCells
    BY <1>1, SameTable DEF TiledCells
<1>3. /\ put' = put /\ tilePhase' = "written" /\ tileBytes' = tileBytes /\ buffer' = buffer
      /\ saved' = buffer /\ tiledWrites' = tiledWrites
      /\ tilePhase = "putting" /\ put = Len(tiled.columns) * tiled.rows
    BY DEF FilesWritten
<1>4. TiledTypeOK'
    BY <1>1, <1>2, <1>3 DEF TiledInv, TiledTypeOK
<1>5. ASSUME WholeBools, NEW c \in Columns, NEW r \in 0..(tiled.rows - 1)
      PROVE  CellIsPut(buffer, c, r)
    <2>1. PICK p \in 0..(put - 1) : CellPut(p) = <<c, r>>
        BY <1>1, <1>3, CellsPutOnce
    <2>2. CellIsPut(buffer, CellPut(p)[1], CellPut(p)[2])
        BY <1>3, <1>5 DEF TiledInv
    <2> QED BY <2>1, <2>2
<1>6. ASSUME WholeBools', NEW c \in Columns', NEW r \in 0..(tiled'.rows - 1)
      PROVE  CellIsPut(saved, c, r)'
    <2>1. WholeBools /\ c \in Columns /\ r \in 0..(tiled.rows - 1)
        BY <1>1, <1>6, SameTable
    <2>2. CellIsPut(buffer, c, r)
        BY <1>5, <2>1
    <2> QED BY <1>1, <1>3, <2>2, SameTable DEF CellIsPut, Packed, Number
<1> QED BY <1>3, <1>4, <1>6 DEF TiledInv

LEMMA PutCellStep == TiledInv /\ PutCell => TiledInv'
<1> SUFFICES ASSUME TiledInv, PutCell PROVE TiledInv'
    OBVIOUS
<1>1. tiled' = tiled /\ tiled \in TiledTables
    BY DEF TiledInv, TiledTypeOK, PutCell
<1>2. TiledCells' = TiledCells
    BY <1>1, SameTable DEF TiledCells
<1>3. PICK n \in Nat : n = Len(tiled.columns) * tiled.rows
    BY <1>1, CellsPutOnce
<1>4. put \in 0..(n - 1)
    BY <1>3 DEF TiledInv, TiledTypeOK, PutCell
<1>5. PICK c \in Columns, r \in 0..(tiled.rows - 1) : CellPut(put) = <<c, r>>
    BY <1>1, <1>3, <1>4, CellsPutOnce
<1>6. PICK at \in Nat, m \in Nat \ {0} : at = PutAt(c, r) /\ m = CellBytes(c)
    BY <1>1, PutAtIs
<1>7. /\ DOMAIN tileBytes' = (at..(at + m - 1)) \cup DOMAIN tileBytes
      /\ \A a \in at..(at + m - 1) :
            tileBytes'[a] = IF IsBool(c) THEN Packed(buffer[<<c, r>>], a - at)
                            ELSE Number(buffer[<<c, r>>], a - at)
      /\ \A a \in DOMAIN tileBytes : a \notin at..(at + m - 1) => tileBytes'[a] = tileBytes[a]
      /\ tilePhase' = IF at + m > FileBytes THEN "overrun" ELSE "putting"
      /\ tilePhase = "putting"
      /\ put' = put + 1 /\ buffer' = buffer /\ tiledWrites' = tiledWrites
    <2>1. c = WriterOrder[(put % Len(tiled.columns)) + 1] /\ r = put \div Len(tiled.columns)
        BY <1>5 DEF CellPut
    <2> QED BY <1>6, <2>1 DEF PutCell, Overwritten, BytesOfCell
<1>10. TiledTypeOK'
    <2>1. DOMAIN tileBytes \subseteq Nat /\ tiledWrites \in 0..MaxTiledWrites /\ buffer \in TiledCells
        BY <1>7 DEF TiledInv, TiledTypeOK
    <2>2. DOMAIN tileBytes' \subseteq Nat
        BY <1>7, <2>1
    <2>3. put' \in 0..n
        BY <1>3, <1>4, <1>7
    <2>4. tilePhase' \in {"overrun", "putting"}
        BY <1>7
    <2> QED BY <1>1, <1>2, <1>3, <1>7, <2>1, <2>2, <2>3, <2>4 DEF TiledTypeOK
<1>11. ASSUME WholeBools PROVE tilePhase' # "overrun"
    <2>1. at + m <= FileBytes
        BY <1>1, <1>6, <1>11, CellsLieApart
    <2>2. FileBytes \in Nat
        BY <1>1, FileBytesIs
    <2> QED BY <1>7, <2>1, <2>2
<1>12. ASSUME WholeBools, NEW p \in 0..put, NEW d, NEW q, CellPut(p) = <<d, q>>
       PROVE  CellIsPut(buffer, d, q)'
    <2> SUFFICES ASSUME NEW k \in 0..(CellBytes(d) - 1)
                 PROVE  /\ (PutAt(d, q) + k) \in DOMAIN tileBytes'
                        /\ tileBytes'[PutAt(d, q) + k] = IF IsBool(d) THEN Packed(buffer[<<d, q>>], k)
                                                        ELSE Number(buffer[<<d, q>>], k)
        BY <1>1, <1>7, SameTable DEF CellIsPut, Packed, Number
    <2>1. CASE p = put
        <3>1. d = c /\ q = r
            BY <1>5, <1>12, <2>1
        <3>2. at + k \in at..(at + m - 1) /\ (at + k) - at = k
            BY <1>6, <3>1
        <3> QED BY <1>6, <1>7, <3>1, <3>2
    <2>2. CASE p # put
        <3>1. p \in 0..(put - 1) /\ p \in 0..(n - 1)
            BY <1>4, <2>2
        <3>2. d \in Columns /\ q \in 0..(tiled.rows - 1) /\ (d # c \/ q # r)
            BY <1>1, <1>3, <1>4, <1>5, <1>12, <2>2, <3>1, CellsPutOnce
        <3>3. PutAt(d, q) \in Nat /\ CellBytes(d) \in Nat
            BY <1>1, <3>2, PutAtIs
        <3>4. at + m <= PutAt(d, q) \/ PutAt(d, q) + CellBytes(d) <= at
            BY <1>1, <1>6, <1>12, <3>2, CellsLieApart
        <3>5. (PutAt(d, q) + k) \notin at..(at + m - 1)
            BY <3>3, <3>4
        <3>6. CellIsPut(buffer, CellPut(p)[1], CellPut(p)[2])
            BY <1>7, <1>12, <3>1 DEF TiledInv
        <3>7. CellIsPut(buffer, d, q)
            BY <1>12, <3>6
        <3> QED BY <1>7, <3>5, <3>7 DEF CellIsPut
    <2> QED BY <2>1, <2>2
<1>13. ASSUME WholeBools', NEW p \in 0..(put' - 1)
       PROVE  CellIsPut(buffer, CellPut(p)[1], CellPut(p)[2])'
    <2>1. WholeBools /\ p \in 0..put /\ p \in 0..(n - 1)
        <3>1. WholeBools
            BY <1>1, <1>13, SameTable
        <3>2. put' - 1 = put /\ put \in Nat /\ put <= n - 1
            BY <1>4, <1>7
        <3> QED BY <1>13, <3>1, <3>2
    <2>2. PICK d, q : CellPut(p) = <<d, q>>
        BY <1>1, <1>3, <2>1, CellsPutOnce
    <2>3. CellIsPut(buffer, d, q)'
        BY <1>12, <2>1, <2>2
    <2>4. CellPut(p)' = CellPut(p)
        BY <1>1, SameTable DEF CellPut
    <2>5. CellPut(p)'[1] = d /\ CellPut(p)'[2] = q
        BY <2>2, <2>4
    <2> QED BY <2>3, <2>5
<1> QED BY <1>1, <1>7, <1>10, <1>11, <1>13, SameTable DEF TiledInv

----------------------------------------------------------------------------
(* TiledStManReader: where it looks.                                       *)

\* The rows before a cube, when there is at most one other one or every cube
\* has one row.
LEMMA RowsBeforeAre ==
    ASSUME tiled \in TiledTables
    PROVE  /\ tiled.manager = "column" => RowsBefore(1) = 0
           /\ tiled.manager = "cell" => \A i \in 1..tiled.rows : RowsBefore(i) = i - 1
<1>1. PICK n \in Nat \ {0} : n = tiled.rows
    BY TiledTable
<1> DEFINE Addend(k) == IF Cubes[k].file >= 0 THEN Cubes[k].rows ELSE 0
<1>2. ASSUME NEW l \in Nat, l = Len(Cubes), NEW F \in [1..l -> Nat], \A k \in 1..l : F[k] = Addend(k)
      PROVE  \E s \in [0..l -> Nat] : /\ s[0] = 0 /\ \A k \in 1..l : s[k] = s[k - 1] + F[k]
                                      /\ \A i : RowsBefore(i) = s[i - 1]
    <2>1. PICK t \in [0..l -> Nat] : t[0] = 0 /\ \A k \in 1..l : t[k] = t[k - 1] + F[k]
        BY RunningSumExists
    <2>2. t = [k \in 0..l |-> IF k = 0 THEN 0 ELSE t[k - 1] + Addend(k)]
        <3> HIDE DEF Addend
        <3>1. \A k \in 0..l : t[k] = IF k = 0 THEN 0 ELSE t[k - 1] + Addend(k)
            BY <1>2, <2>1
        <3> QED BY <2>1, <3>1
    <2>3. PICK s : s = CHOOSE g : g = [k \in 0..l |-> IF k = 0 THEN 0 ELSE g[k - 1] + Addend(k)]
        OBVIOUS
    <2>4. s = [k \in 0..l |-> IF k = 0 THEN 0 ELSE s[k - 1] + Addend(k)]
        BY <2>2, <2>3, Zenon
    <2>5. \A i : RowsBefore(i) = s[i - 1]
        BY <1>2, <2>3, Zenon DEF RowsBefore
    <2>6. s = [k \in 0..l |-> IF k = 0 THEN 0 ELSE s[k - 1] + F[k]]
        <3> HIDE DEF Addend
        <3>1. DOMAIN s = 0..l
            BY <2>4
        <3>2. \A k \in 0..l : s[k] = IF k = 0 THEN 0 ELSE s[k - 1] + F[k]
            BY <1>2, <2>4
        <3>3. s = [k \in 0..l |-> s[k]]
            BY <2>4, <3>1
        <3> QED BY <3>2, <3>3
    <2>7. /\ s \in [0..l -> Nat] /\ s[0] = 0
          /\ \A k \in 1..l : s[k] = s[k - 1] + F[k]
          /\ \A j, k \in 0..l : j <= k => s[j] <= s[k]
        BY <2>6, RunningSumIs
    <2> QED BY <2>5, <2>7
<1>3. CASE tiled.manager = "column"
    <2>1. Cubes = <<Cube(n, 0, 0)>>
        BY <1>1, <1>3, Zenon DEF Cubes
    <2>2. Len(Cubes) = 1 /\ Cubes[1].file = 0 /\ Cubes[1].rows = n
        BY <2>1 DEF Cube
    <2>3. PICK F \in [1..1 -> Nat] : F = [k \in 1..1 |-> n]
        OBVIOUS
    <2>4. \A k \in 1..1 : F[k] = Addend(k)
        BY <2>2, <2>3
    <2>5. PICK s \in [0..1 -> Nat] : s[0] = 0 /\ \A i : RowsBefore(i) = s[i - 1]
        BY <1>2, <2>2, <2>4
    <2> QED BY <1>3, <2>5
<1>4. CASE tiled.manager = "cell"
    <2>1. PICK b : b = BucketBytes(WriterOrder, [c \in Columns |-> tiled.pixels * tiled.columns[c].size])
        OBVIOUS
    <2>2. Cubes = [i \in 1..n |-> Cube(1, 0, (i - 1) * b)]
        BY <1>1, <1>4, <2>1, Zenon DEF Cubes
    <2>3. Len(Cubes) = n /\ \A k \in 1..n : Cubes[k].file = 0 /\ Cubes[k].rows = 1
        BY <2>2 DEF Cube
    <2>4. PICK F \in [1..n -> Nat] : F = [k \in 1..n |-> 1]
        OBVIOUS
    <2>5. \A k \in 1..n : F[k] = Addend(k)
        BY <2>3, <2>4
    <2>6. PICK s \in [0..n -> Nat] : /\ s[0] = 0 /\ \A k \in 1..n : s[k] = s[k - 1] + F[k]
                                     /\ \A i : RowsBefore(i) = s[i - 1]
        BY <1>2, <2>3, <2>5
    <2>7. \A k \in 0..n : s[k] = k
        <3> DEFINE T == {k \in 0..n : s[k] # k}
        <3>1. SUFFICES ASSUME T # {} PROVE FALSE
            OBVIOUS
        <3>2. T \in SUBSET Nat
            OBVIOUS
        <3>3. PICK k \in T : \A j \in T : k <= j
            BY <3>1, <3>2, LeastNumber
        <3>4. k \in 1..n /\ k - 1 \in 0..n /\ k - 1 \notin T
            BY <2>6, <3>3
        <3> QED BY <2>4, <2>6, <3>3, <3>4
    <2> QED BY <1>1, <1>4, <2>6, <2>7
<1> QED BY <1>3, <1>4

\* Reader and writer look for a cell of a table of whole bytes in the same place.
LEMMA ReaderFinds ==
    ASSUME tiled \in TiledTables, WholeBools, NEW c \in Columns, NEW r \in 0..(tiled.rows - 1)
    PROVE  /\ TileBase(c, r) = (r \div TileRows) * BucketBytes(WriterOrder, WriterArea)
                                    + AreaStart(WriterOrder, WriterArea, c)
           /\ RowInTile(r) = r % TileRows
<1>1. PICK n \in Nat \ {0}, w \in Nat \ {0}, b \in Nat, s \in Nat :
        /\ n = tiled.rows /\ w = TileRows /\ b = BucketBytes(WriterOrder, WriterArea)
        /\ s = AreaStart(WriterOrder, WriterArea, c)
    BY TiledTable, TileRowsAre, BytesAre, ColumnsLieApart, OrdersAgree
<1>2. r \in Nat /\ r <= n - 1
    BY <1>1
<1>3. b = BucketBytes(ReaderOrder, ReaderArea) /\ s = AreaStart(ReaderOrder, ReaderArea, c)
    BY <1>1, CellsFit, OrdersAgree
<1>4. ASSUME NEW k, NEW o \in Nat, NEW p \in Nat,
             Locate(r) = [cube |-> k, pos |-> p], Cubes[k].offset = o,
             o + (p \div w) * b = (r \div w) * b, p % w = r % w
      PROVE  TileBase(c, r) = (r \div w) * b + s /\ RowInTile(r) = r % w
    <2>1. Locate(r).cube = k /\ Locate(r).pos = p
        BY <1>4
    <2>2. TileBase(c, r) = o + (p \div w) * b + s
        BY <1>1, <1>3, <1>4, <2>1 DEF TileBase
    <2> QED BY <1>1, <1>4, <2>1, <2>2 DEF RowInTile
<1>5. CASE tiled.manager = "shape"
    <2>1. Cubes = <<Cube(0, -1, 0), Cube(n, 1, 0)>>
        BY <1>1, <1>5, Zenon DEF Cubes
    <2>2. Cubes[2].offset = 0
        BY <2>1 DEF Cube
    <2>3. Locate(r) = [cube |-> ShapeRowMap.cube, pos |-> ShapeRowMap.pos - (ShapeRowMap.end - r)]
        BY <1>5, Zenon DEF Locate
    <2>4. Locate(r) = [cube |-> 2, pos |-> r]
        BY <1>1, <1>2, <2>3 DEF ShapeRowMap
    <2>5. 0 + (r \div w) * b = (r \div w) * b
        BY <1>2, Divided, Products
    <2> QED BY <1>1, <1>2, <1>4, <2>2, <2>4, <2>5
<1>6. CASE tiled.manager = "data"
    <2>1. Cubes = <<Cube(n, 0, 0)>>
        BY <1>1, <1>6, Zenon DEF Cubes
    <2>2. Cubes[1].offset = 0
        BY <2>1 DEF Cube
    <2>3. Locate(r) = [cube |-> DataRowMap.cube, pos |-> DataRowMap.pos + (r - DataRowMap.start)]
        BY <1>6, Zenon DEF Locate
    <2>4. Locate(r) = [cube |-> 1, pos |-> r]
        BY <1>1, <1>2, <2>3 DEF DataRowMap
    <2>5. 0 + (r \div w) * b = (r \div w) * b
        BY <1>2, Divided, Products
    <2> QED BY <1>1, <1>2, <1>4, <2>2, <2>4, <2>5
<1>7. CASE tiled.manager = "column"
    <2>1. Cubes = <<Cube(n, 0, 0)>>
        BY <1>1, <1>7, Zenon DEF Cubes
    <2>2. DOMAIN Cubes = {1} /\ Cubes[1].offset = 0 /\ Cubes[1].rows = n /\ RowsBefore(1) = 0
        BY <1>7, <2>1, RowsBeforeAre DEF Cube
    <2>3. PICK i : i = CHOOSE k \in DOMAIN Cubes :
                            RowsBefore(k) <= r /\ r < RowsBefore(k) + Cubes[k].rows
        OBVIOUS
    <2>4. RowsBefore(1) <= r /\ r < RowsBefore(1) + Cubes[1].rows
        BY <1>2, <2>2
    <2>5. i \in DOMAIN Cubes
        <3>1. 1 \in DOMAIN Cubes
            BY <2>2
        <3> QED BY <2>3, <2>4, <3>1, Zenon
    <2>6. Locate(r) = [cube |-> i, pos |-> r - RowsBefore(i)]
        BY <1>7, <2>3, Zenon DEF Locate
    <2>7. Locate(r) = [cube |-> 1, pos |-> r]
        BY <1>2, <2>2, <2>5, <2>6
    <2>8. 0 + (r \div w) * b = (r \div w) * b
        BY <1>2, Divided, Products
    <2> QED BY <1>1, <1>2, <1>4, <2>2, <2>7, <2>8
<1>8. CASE tiled.manager = "cell"
    <2>1. w = 1 /\ \A d \in Columns : ~IsBool(d)
        BY <1>1, <1>8, TileRowsAre DEF WholeBools
    <2>2. WriterArea = [d \in Columns |-> tiled.pixels * tiled.columns[d].size]
        <3>1. TilePixels = tiled.pixels
            BY <1>1, <2>1, TiledTable DEF TilePixels
        <3> QED BY <2>1, <3>1 DEF WriterArea
    <2>3. Cubes = [i \in 1..n |-> Cube(1, 0, (i - 1) * b)]
        BY <1>1, <1>8, <2>2, Zenon DEF Cubes
    <2>4. \A k \in 1..n : /\ RowsBefore(k) = k - 1
                          /\ Cubes[k].rows = 1 /\ Cubes[k].offset = (k - 1) * b
        BY <1>1, <1>8, <2>3, RowsBeforeAre DEF Cube
    <2>5. DOMAIN Cubes = 1..n
        BY <2>3
    <2>6. PICK i : i = CHOOSE k \in DOMAIN Cubes :
                            RowsBefore(k) <= r /\ r < RowsBefore(k) + Cubes[k].rows
        OBVIOUS
    <2>7. i \in DOMAIN Cubes /\ RowsBefore(i) <= r /\ r < RowsBefore(i) + Cubes[i].rows
        <3>1. r + 1 \in DOMAIN Cubes /\ RowsBefore(r + 1) <= r
              /\ r < RowsBefore(r + 1) + Cubes[r + 1].rows
            BY <1>2, <2>4, <2>5
        <3> QED BY <2>6, <3>1, Zenon
    <2>8. i = r + 1 /\ RowsBefore(i) = r /\ Cubes[i].offset = r * b
        BY <1>2, <2>4, <2>5, <2>7
    <2>9. Locate(r) = [cube |-> i, pos |-> r - RowsBefore(i)]
        BY <1>8, <2>6, Zenon DEF Locate
    <2>10. Locate(r) = [cube |-> i, pos |-> 0]
        BY <1>2, <2>8, <2>9
    <2>11. r \div w = r /\ 0 \div w = 0 /\ 0 % w = r % w
        BY <1>2, <2>1
    <2>12. r * b \in Nat /\ 0 * b = 0
        BY <1>2, Products
    <2>13. r * b + (0 \div w) * b = (r \div w) * b
        <3>1. PICK x, y : x = 0 \div w /\ y = r \div w
            OBVIOUS
        <3>2. x * b = 0 /\ y * b = r * b
            BY <2>11, <2>12, <3>1
        <3> QED BY <2>12, <3>1, <3>2
    <2> QED BY <1>1, <1>4, <2>8, <2>10, <2>11, <2>12, <2>13
<1> QED BY <1>5, <1>6, <1>7, <1>8, TiledTable

\* What lies in the file as it was saved is what the reader finds.
LEMMA NumbersReadBack ==
    ASSUME tiled \in TiledTables, WholeBools, NEW c \in Columns, NEW r \in 0..(tiled.rows - 1),
           ~IsBool(c), CellIsPut(saved, c, r)
    PROVE  ReadsNumbers(c, r, saved[<<c, r>>])
<1>1. PICK p \in Nat \ {0}, z \in Nat \ {0}, m \in Nat, at \in Nat, f \in Nat, i \in Nat :
        /\ p = tiled.pixels /\ z = tiled.columns[c].size /\ m = CellBytes(c)
        /\ at = PutAt(c, r) /\ f = FileBytes /\ i = r % TileRows
    <2>1. r \in Nat
        BY TiledTable
    <2>2. r % TileRows \in Nat
        BY <2>1, TileRowsAre, Divided
    <2> QED BY <2>2, TiledTable, PutAtIs, FileBytesIs
<1>2. m = p * z
    BY <1>1 DEF CellBytes
<1>3. at = TileBase(c, r) + i * m
    BY <1>1, ReaderFinds DEF PutAt
<1>4. RowInTile(r) * tiled.pixels * tiled.columns[c].size = i * m
    <2>1. RowInTile(r) = i
        BY <1>1, ReaderFinds
    <2>2. i * p * z = i * (p * z)
        OBVIOUS
    <2> QED BY <1>1, <1>2, <2>1, <2>2
<1>5. at + m <= f
    BY <1>1, CellsLieApart
<1>6. ASSUME NEW k \in 0..(m - 1)
      PROVE  at + k < f /\ FileByte(at + k) = Number(saved[<<c, r>>], k)
    <2>1. (at + k) \in DOMAIN tileBytes /\ tileBytes[at + k] = Number(saved[<<c, r>>], k)
        BY <1>1 DEF CellIsPut
    <2> QED BY <1>5, <2>1 DEF FileByte
<1> QED BY <1>1, <1>2, <1>3, <1>4, <1>6 DEF ReadsNumbers

\* The bit of an element of a packed cell.
LEMMA BitOfElement ==
    ASSUME NEW S, NEW k \in Nat
    PROVE  (k % 8) \in Packed(S, k \div 8).bits <=> k \in S
<1>1. k \div 8 \in Nat /\ k % 8 \in 0..7 /\ k = 8 * (k \div 8) + (k % 8)
    OBVIOUS
<1>2. Packed(S, k \div 8).bits = {b \in 0..7 : 8 * (k \div 8) + b \in S}
    BY DEF Packed
<1> QED BY <1>1, <1>2

LEMMA BoolsReadBack ==
    ASSUME tiled \in TiledTables, WholeBools, NEW c \in Columns, NEW r \in 0..(tiled.rows - 1),
           IsBool(c), CellIsPut(saved, c, r)
    PROVE  ReadsBools(c, r, saved[<<c, r>>])
<1>1. PICK p \in Nat \ {0}, m \in Nat, at \in Nat, f \in Nat, i \in Nat :
        /\ p = tiled.pixels /\ m = CellBytes(c)
        /\ at = PutAt(c, r) /\ f = FileBytes /\ i = r % TileRows
    <2>1. r \in Nat
        BY TiledTable
    <2>2. r % TileRows \in Nat
        BY <2>1, TileRowsAre, Divided
    <2> QED BY <2>2, TiledTable, PutAtIs, FileBytesIs
<1>2. m = Bits(p)
    BY <1>1 DEF CellBytes
<1>3. at = TileBase(c, r) + i * m /\ RowInTile(r) = i
    BY <1>1, ReaderFinds DEF PutAt
<1>4. at + m <= f
    BY <1>1, CellsLieApart
<1>5. PICK base : base = TileBase(c, r)
    OBVIOUS
<1>6. base \in Int
    <2>1. PICK x \in Nat, b \in Nat, s \in Nat :
            /\ x = r \div TileRows /\ b = BucketBytes(WriterOrder, WriterArea)
            /\ s = AreaStart(WriterOrder, WriterArea, c)
        <3>1. r \in Nat
            BY TiledTable
        <3>2. r \div TileRows \in Nat
            BY <3>1, TileRowsAre, Divided
        <3> QED BY <3>2, BytesAre, ColumnsLieApart, OrdersAgree
    <2>2. base = x * b + s
        BY <1>5, <2>1, ReaderFinds
    <2> QED BY <2>1, <2>2, Products
<1>7. ASSUME NEW k \in 0..(p - 1)
      PROVE  /\ (i * p + k) % 8 = k % 8
             /\ (i * p + k) \div 8 = i * m + k \div 8
    <2>1. CASE tiled.manager = "shape"
        <3>1. i = 0
            <4>1. PICK q \in Nat : q = r
                BY TiledTable
            <4>2. q % 1 = 0
                OBVIOUS
            <4> QED BY <1>1, <2>1, <4>1, <4>2, TileRowsAre
        <3>2. 0 * p = 0 /\ 0 * m = 0
            OBVIOUS
        <3> QED BY <3>1, <3>2
    <2>2. CASE tiled.manager = "data" /\ p % 8 = 0
        <3>1. PICK n \in Nat : p = 8 * n
            <4>1. p = (p \div 8) * 8 + (p % 8) /\ p \div 8 \in Nat
                BY Divided
            <4> QED BY <2>2, <4>1
        <3>2. m = n
            BY <1>2, <3>1, BitsAre
        <3>3. PICK x \in Nat : x = i * n
            BY Products
        <3>4. i * p = 8 * x
            BY <3>1, <3>3
        <3>5. (8 * x + k) % 8 = k % 8 /\ (8 * x + k) \div 8 = x + k \div 8
            OBVIOUS
        <3> QED BY <3>2, <3>3, <3>4, <3>5
    <2> QED BY <1>1, <2>1, <2>2 DEF WholeBools
<1>8. ASSUME NEW k \in 0..(p - 1)
      PROVE  /\ base + (i * p + k) \div 8 < f
             /\ k \in saved[<<c, r>>] <=>
                    ((i * p + k) % 8) \in FileByte(base + (i * p + k) \div 8).bits
    <2>1. PICK j \in Nat : j = k \div 8 /\ j \in 0..(m - 1)
        BY <1>2 DEF Bits
    <2>2. base + (i * p + k) \div 8 = at + j
        <3>1. i * m \in Nat
            BY Products
        <3> QED BY <1>3, <1>5, <1>6, <1>7, <2>1, <3>1
    <2>3. (at + j) \in DOMAIN tileBytes /\ tileBytes[at + j] = Packed(saved[<<c, r>>], j)
        BY <1>1, <2>1 DEF CellIsPut
    <2>4. FileByte(at + j) = Packed(saved[<<c, r>>], k \div 8)
        BY <2>1, <2>3 DEF FileByte
    <2>5. k \in saved[<<c, r>>] <=> (k % 8) \in FileByte(at + j).bits
        BY <2>4, BitOfElement
    <2> QED BY <1>4, <1>7, <2>1, <2>2, <2>5
<1> QED BY <1>1, <1>3, <1>5, <1>8 DEF ReadsBools

LEMMA TiledInvReads == TiledInv => TiledCellsReadBack
<1> SUFFICES ASSUME TiledInv PROVE TiledCellsReadBack
    OBVIOUS
<1>1. ASSUME tilePhase = "written", WholeBools, NEW c \in Columns, NEW r \in 0..(tiled.rows - 1)
      PROVE  IF IsBool(c) THEN ReadsBools(c, r, saved[<<c, r>>])
             ELSE ReadsNumbers(c, r, saved[<<c, r>>])
    <2>1. tiled \in TiledTables /\ CellIsPut(saved, c, r)
        BY <1>1 DEF TiledInv, TiledTypeOK
    <2> QED BY <1>1, <2>1, NumbersReadBack, BoolsReadBack
<1>2. tilePhase = "overrun" => ~WholeBools
    BY DEF TiledInv
<1> QED BY <1>1, <1>2 DEF TiledCellsReadBack, ReadsSaved

LEMMA TiledStep == TiledInv /\ [TiledNext]_tiledVars => TiledInv'
<1> SUFFICES ASSUME TiledInv, [TiledNext]_tiledVars PROVE TiledInv'
    OBVIOUS
<1>1. CASE SetupTiled
    BY <1>1, SetupTiledStep
<1>2. CASE /\ tilePhase \in {"open", "written"}
           /\ \E c \in Columns, r \in 0..(tiled.rows - 1) :
                \E v \in IF IsBool(c) THEN SUBSET {0, tiled.pixels - 1}
                         ELSE {{}} \cup {{n} : n \in TiledNumbers} : WriteTiled(c, r, v)
    <2>1. tiled \in TiledTables
        BY <1>2 DEF TiledInv, TiledTypeOK
    <2>5. PICK c \in Columns, r \in 0..(tiled.rows - 1) :
                \E v \in IF IsBool(c) THEN SUBSET {0, tiled.pixels - 1}
                         ELSE {{}} \cup {{n} : n \in TiledNumbers} : WriteTiled(c, r, v)
        BY <1>2
    <2>2. PICK v \in IF IsBool(c) THEN SUBSET {0, tiled.pixels - 1}
                     ELSE {{}} \cup {{n} : n \in TiledNumbers} : WriteTiled(c, r, v)
        BY <2>5
    <2>3. 0 \in 0..(tiled.pixels - 1) /\ tiled.pixels - 1 \in 0..(tiled.pixels - 1)
        BY <2>1, TiledTable
    <2>4. v \in SUBSET (TiledNumbers \cup 0..(tiled.pixels - 1))
        BY <2>2, <2>3
    <2> QED BY <1>2, <2>2, <2>4, WriteTiledStep
<1>3. CASE WriteFiles
    BY <1>3, WriteFilesStep
<1>4. CASE PutCell
    BY <1>4, PutCellStep
<1>5. CASE FilesWritten
    BY <1>5, FilesWrittenStep
<1>6. CASE UNCHANGED tiledVars
    <2>1. /\ tiled' = tiled /\ buffer' = buffer /\ tilePhase' = tilePhase /\ put' = put
          /\ tileBytes' = tileBytes /\ saved' = saved /\ tiledWrites' = tiledWrites
        BY <1>6 DEF tiledVars
    <2>2. CASE tilePhase = "new"
        BY <2>1, <2>2 DEF TiledInv, TiledTypeOK
    <2>3. CASE tilePhase # "new"
        <3>1. tiled \in TiledTables
            BY <2>3 DEF TiledInv, TiledTypeOK
        <3>2. TiledCells' = TiledCells
            BY <2>1, <3>1, SameTable DEF TiledCells
        <3>3. TiledTypeOK'
            BY <2>1, <3>2 DEF TiledInv, TiledTypeOK
        <3>4. \A c, r : CellIsPut(buffer, c, r)' <=> CellIsPut(buffer, c, r)
            BY ZenonT(30), <2>1, <3>1, SameTable DEF CellIsPut, Packed, Number
        <3>5. \A p : CellPut(p)' = CellPut(p)
            BY <2>1, <3>1, SameTable DEF CellPut
        <3>6. ASSUME tilePhase = "putting", WholeBools, NEW p \in 0..(put - 1)
              PROVE  CellIsPut(buffer, CellPut(p)[1], CellPut(p)[2])'
            <4>1. CellIsPut(buffer, CellPut(p)[1], CellPut(p)[2])
                BY <3>6 DEF TiledInv
            <4>2. PICK d, q : d = CellPut(p)[1] /\ q = CellPut(p)[2]
                OBVIOUS
            <4>3. CellIsPut(buffer, d, q)'
                BY <3>4, <4>1, <4>2
            <4>4. d = CellPut(p)'[1] /\ q = CellPut(p)'[2]
                BY <3>5, <4>2
            <4> QED BY <4>3, <4>4
        <3>7. WholeBools' = WholeBools /\ Columns' = Columns
            BY <2>1, <3>1, SameTable
        <3>8. tilePhase = "written" /\ WholeBools =>
                \A c \in Columns, r \in 0..(tiled.rows - 1) : CellIsPut(saved, c, r)
            BY DEF TiledInv
        <3>9. tilePhase = "overrun" => ~WholeBools
            BY DEF TiledInv
        <3>10. ASSUME tilePhase' = "putting", WholeBools', NEW p \in 0..(put' - 1)
               PROVE  CellIsPut(buffer, CellPut(p)[1], CellPut(p)[2])'
            <4>1. tilePhase = "putting" /\ WholeBools /\ p \in 0..(put - 1)
                BY <2>1, <3>7, <3>10
            <4> QED BY <3>6, <4>1
        <3>11. ASSUME tilePhase' = "written", WholeBools', NEW c \in Columns', NEW r \in 0..(tiled'.rows - 1)
               PROVE  CellIsPut(saved, c, r)'
            <4>1. tilePhase = "written" /\ WholeBools /\ c \in Columns /\ r \in 0..(tiled.rows - 1)
                BY <2>1, <3>7, <3>11
            <4>2. CellIsPut(saved, c, r)
                BY <3>8, <4>1
            <4> QED BY <2>1, <3>1, <4>2, SameTable DEF CellIsPut, Packed, Number
        <3>12. tilePhase' = "overrun" => ~WholeBools'
            BY <2>1, <3>7, <3>9
        <3> QED BY <2>1, <2>3, <3>3, <3>10, <3>11, <3>12 DEF TiledInv
    <2> QED BY <2>2, <2>3
<1> QED BY <1>1, <1>2, <1>3, <1>4, <1>5, <1>6 DEF TiledNext

\* Every state of the tiled managers is what TiledTypeOK says.
THEOREM TiledTypesCorrect == TiledSpec => []TiledTypeOK
<1>1. TiledInv => TiledTypeOK
    BY DEF TiledInv
<1> QED BY TiledInitInv, TiledStep, <1>1, PTL DEF TiledSpec

\* What TiledStManWriter::write_files wrote is what TiledStManReader finds, for
\* every table, column order and size of a tile.
THEOREM TiledCellsAlwaysReadBack == TiledSpec => []TiledCellsReadBack
BY TiledInitInv, TiledStep, TiledInvReads, PTL DEF TiledSpec
=============================================================================
