----------------------------- MODULE SsmLayout -----------------------------
(***************************************************************************)
(* The bytes of a StandardStMan file (src/src/standard_stman.cpp): how      *)
(* SsmWriter::setup sizes the buckets and places the columns in them, where *)
(* write_cell puts a value, what flush writes as the index, and where       *)
(* SsmReader looks for the cell.                                           *)
(*                                                                         *)
(* A column is the size of its cells: of numbers, of offsets into the file *)
(* of arrays and of the three words of a string; "bits" counts the bits of *)
(* a cell of booleans, which takes no bytes of its own.  Rows, columns,    *)
(* buckets and bytes count from 0, as in the code, but a table's columns   *)
(* are a sequence.                                                         *)
(***************************************************************************)
EXTENDS Integers, SequencesExt

CONSTANTS
    SsmTables,      \* the columns and row counts a table may be set up with
    Texts,          \* strings, by their length and what they say
    Numbers,        \* numbers; zero is all zero bytes
    TestRows,       \* the rows that are written and read
    MaxCellWrites,  \* bound on the writes before a flush
    MinBucketSize, MaxBucketSize, TargetRows,
    IndexFixed,     \* kIndexFixedOverhead
    IndexPerBucket, \* kIndexPerBucket
    StrHeader       \* kStrBucketHeader

ASSUME SsmAssumption ==
    /\ \A t \in SsmTables :
        /\ t.nrow \in Nat
        /\ t.columns \in Seq([kind : {"number", "string", "bool"}, size : Nat, bits : Nat])
        /\ \A c \in DOMAIN t.columns :
            /\ t.columns[c].kind = "string" => t.columns[c].size = 12
            /\ t.columns[c].kind = "bool" => t.columns[c].size = 0 /\ t.columns[c].bits # 0
    /\ \A s \in Texts : s.len \in Nat /\ s.of \in Nat
    /\ 0 \in Numbers
    /\ TestRows \subseteq Nat
    /\ MinBucketSize \in Nat /\ MaxBucketSize \in Nat /\ MinBucketSize <= MaxBucketSize
    /\ TargetRows \in Nat \ {0} /\ MaxCellWrites \in Nat
    /\ IndexFixed \in Nat /\ IndexPerBucket \in Nat /\ StrHeader \in Nat

VARIABLES
    table,          \* what setup was called with
    layout,         \* bucket_size_, rows_per_bucket_ and the columns' offsets
    phase,          \* the loop setup has reached, and how the writer ended
    bytes,          \* bucket_data_: the bytes that were written to
    strBuckets,     \* string_bucket_data_: the bytes taken of each bucket
    wrote,          \* the cells written, with their values
    writes          \* how many writes there were

ssmVars == <<table, layout, phase, bytes, strBuckets, wrote, writes>>

Cols == DOMAIN table.columns
Bytes(n) == (n + 7) \div 8
WordSize == 4
InlineLength == 2 * WordSize

\* The bytes of a column in a bucket of n rows.
Width(c, n) == IF table.columns[c].kind = "bool" THEN Bytes(n * table.columns[c].bits)
               ELSE n * table.columns[c].size

\* compute_data_size
DataSize(n) == FoldFunction(+, 0, [c \in Cols |-> Width(c, n)])

\* total_row_bytes: booleans do not count.
RowBytes == FoldFunction(+, 0, [c \in Cols |-> table.columns[c].size])

Buckets == IF table.nrow = 0 THEN 0 ELSE (table.nrow - 1) \div layout.rows + 1

\* The bytes of the index, with the link words before it.
IndexSize == IndexFixed + IndexPerBucket * Buckets

SsmTypeOK ==
    /\ layout.size \in Nat
    /\ layout.rows \in Nat
    /\ layout.offset \in Seq(Nat)
    /\ phase \in {"new", "size", "grow", "index", "place", "open", "overlaps", "flushed", "failed"}
    /\ \A a \in DOMAIN bytes : a \in 0..(Buckets * layout.size - 1)
    /\ \A i \in DOMAIN strBuckets : Len(strBuckets[i]) <= layout.size - StrHeader
    /\ writes \in 0..MaxCellWrites

SsmInit ==
    /\ table = [columns |-> <<>>, nrow |-> 0]
    /\ layout = [size |-> 0, rows |-> 0, offset |-> <<>>]
    /\ phase = "new"
    /\ bytes = <<>>
    /\ strBuckets = <<>>
    /\ wrote = <<>>
    /\ writes = 0

----------------------------------------------------------------------------
(* SsmWriter::setup.                                                       *)

AtLeastOne(n) == IF n < 1 THEN 1 ELSE n
Clamped(n) == IF n > MaxBucketSize THEN MaxBucketSize
              ELSE IF n < MinBucketSize THEN MinBucketSize ELSE n

\* bucket_size_ / total_row_bytes
RowsByBytes(size, n) == AtLeastOne(IF RowBytes > 0 THEN size \div RowBytes ELSE n)

StartSetup ==
    /\ phase = "new"
    /\ table' \in SsmTables
    /\ phase' = "size"
    /\ UNCHANGED <<layout, bytes, strBuckets, wrote, writes>>

\* Step 1: buckets for 32 rows, within bounds.
SizeBuckets ==
    /\ phase = "size"
    /\ LET size == Clamped(DataSize(TargetRows))
       IN  IF size = DataSize(TargetRows)
           THEN layout' = [layout EXCEPT !.size = size, !.rows = TargetRows] /\ phase' = "index"
           ELSE layout' = [layout EXCEPT !.size = size, !.rows = RowsByBytes(size, TargetRows)]
                /\ phase' = "grow"
    /\ UNCHANGED <<table, bytes, strBuckets, wrote, writes>>

\* The loop that takes one more row as long as the rows fit.
GrowRows ==
    /\ phase = "grow"
    /\ DataSize(layout.rows + 1) <= layout.size
    /\ layout' = [layout EXCEPT !.rows = @ + 1]
    /\ UNCHANGED <<table, phase, bytes, strBuckets, wrote, writes>>

GrowEnds ==
    /\ phase = "grow"
    /\ DataSize(layout.rows + 1) > layout.size
    /\ phase' = "index"
    /\ UNCHANGED <<table, layout, bytes, strBuckets, wrote, writes>>

\* est_index <= bucket_size_
IndexFits == IndexSize <= layout.size

DoubleBucket ==
    /\ phase = "index"
    /\ layout.size < MaxBucketSize /\ ~IndexFits
    /\ LET size == IF 2 * layout.size > MaxBucketSize THEN MaxBucketSize ELSE 2 * layout.size
       IN  layout' = [layout EXCEPT !.size = size, !.rows = RowsByBytes(size, @)]
    /\ phase' = "grow"
    /\ UNCHANGED <<table, bytes, strBuckets, wrote, writes>>

PlaceColumns ==
    /\ phase = "index"
    /\ layout.size < MaxBucketSize => IndexFits
    /\ phase' = "place"
    /\ UNCHANGED <<table, layout, bytes, strBuckets, wrote, writes>>

EndOf(c) == layout.offset[c] + Width(c, layout.rows)
NextOffset == IF layout.offset = <<>> THEN 0 ELSE EndOf(Len(layout.offset))

PlaceColumn ==
    /\ phase = "place"
    /\ Len(layout.offset) < Len(table.columns)
    /\ layout' = [layout EXCEPT !.offset = Append(@, NextOffset)]
    /\ UNCHANGED <<table, phase, bytes, strBuckets, wrote, writes>>

\* Nothing compares the columns with the bucket.  Where they are longer, cells
\* lie in the next bucket or behind the last, and what happens is undefined;
\* such a writer is not followed further.
SetupEnds ==
    /\ phase = "place"
    /\ Len(layout.offset) = Len(table.columns)
    /\ phase' = IF NextOffset <= layout.size THEN "open" ELSE "overlaps"
    /\ UNCHANGED <<table, layout, bytes, strBuckets, wrote, writes>>

----------------------------------------------------------------------------
(* SsmWriter::write_cell, write_array_raw and write_indirect_offset.       *)

ZeroByte == [of |-> 0, part |-> 0, bits |-> {}]
ByteOf(v, k) == IF v = 0 THEN ZeroByte ELSE [ZeroByte EXCEPT !.of = v, !.part = k]
ByteAt(a) == IF a \in DOMAIN bytes THEN bytes[a] ELSE ZeroByte
Stored(a, v, n) == [x \in a..(a + n - 1) |-> ByteOf(v, x - a)]

\* What is written, over what there was.
Over(new, old) ==
    [x \in DOMAIN new \cup DOMAIN old |-> IF x \in DOMAIN new THEN new[x] ELSE old[x]]

InBucket(b, c, k) == b * layout.size + layout.offset[c] + k

\* Where the writer has a cell.
CellAt(c, r) ==
    InBucket(r \div layout.rows, c, (r % layout.rows) * table.columns[c].size)

Writing(c, r, kind, v) ==
    /\ phase = "open"
    /\ writes < MaxCellWrites
    /\ table.columns[c].kind = kind
    /\ r < table.nrow
    /\ wrote' = Over([cell \in {<<c, r>>} |-> v], wrote)
    /\ writes' = writes + 1
    /\ UNCHANGED <<table, layout, phase>>

WriteNumber(c, r, v) ==
    /\ Writing(c, r, "number", v)
    /\ bytes' = Over(Stored(CellAt(c, r), v, table.columns[c].size), bytes)
    /\ UNCHANGED strBuckets

WriteBool(c, r, v) ==
    /\ Writing(c, r, "bool", v)
    /\ LET bit == r % layout.rows
           a == InBucket(r \div layout.rows, c, bit \div 8)
           set == ByteAt(a).bits
           new == IF v THEN set \cup {bit % 8} ELSE set \ {bit % 8}
       IN  bytes' = Over([x \in {a} |-> [ByteAt(a) EXCEPT !.bits = new]], bytes)
    /\ UNCHANGED strBuckets

\* Up to eight bytes are kept in the cell, with the length.
WriteShortText(c, r, s) ==
    /\ s.len <= InlineLength
    /\ Writing(c, r, "string", s)
    /\ LET a == CellAt(c, r)
           text == [x \in a..(a + InlineLength - 1) |->
                        IF x - a < s.len THEN ByteOf(s.of, x - a) ELSE ZeroByte]
       IN  bytes' = Over(text, Over(Stored(a + InlineLength, s.len, WordSize), bytes))
    /\ UNCHANGED strBuckets

Usable == layout.size - StrHeader
UsedOf(b) == IF b = <<>> THEN 0 ELSE Last(b).at + Last(b).text.len

\* Mutant: the room of the whole bucket is used.
ChainFull(n) ==
    IF strBuckets = <<>> \/ UsedOf(Last(strBuckets)) + n > layout.size
    THEN Append(strBuckets, <<>>) ELSE strBuckets

\* The string buckets with room for n bytes in the last one.
Chain(n) ==
    IF strBuckets = <<>> \/ UsedOf(Last(strBuckets)) + n > Usable
    THEN Append(strBuckets, <<>>) ELSE strBuckets

\* A longer one goes into the last string bucket, and its bucket, offset and
\* length into the cell; what the cell had before stays.  A string that is
\* longer than a bucket is written past its end: undefined, and left out.
WriteLongText(c, r, s) ==
    /\ s.len > InlineLength
    /\ s.len <= Usable
    /\ Writing(c, r, "string", s)
    /\ LET a == CellAt(c, r)
           chain == Chain(s.len)
           at == UsedOf(Last(chain))
       IN  /\ strBuckets' = [chain EXCEPT ![Len(chain)] = Append(@, [at |-> at, text |-> s])]
           /\ bytes' = Over(Stored(a, Buckets + Len(chain) - 1, WordSize),
                        Over(Stored(a + WordSize, at, WordSize),
                        Over(Stored(a + 2 * WordSize, s.len, WordSize), bytes)))

\* SsmWriter::flush: the index must fit into its bucket.
FlushSsm ==
    /\ phase = "open"
    /\ phase' = IF IndexSize > layout.size THEN "failed" ELSE "flushed"
    /\ UNCHANGED <<table, layout, bytes, strBuckets, wrote, writes>>

SsmNext ==
    \/ StartSetup \/ SizeBuckets \/ GrowRows \/ GrowEnds \/ DoubleBucket
    \/ PlaceColumns \/ PlaceColumn \/ SetupEnds
    \/ phase = "open" /\ \E c \in Cols, r \in TestRows :
        \/ \E v \in Numbers : WriteNumber(c, r, v)
        \/ \E v \in BOOLEAN : WriteBool(c, r, v)
        \/ \E s \in Texts : WriteShortText(c, r, s) \/ WriteLongText(c, r, s)
    \/ FlushSsm

SsmSpec == SsmInit /\ [][SsmNext]_ssmVars

----------------------------------------------------------------------------
(* SsmReader.                                                              *)

\* Mutant: the last row of a bucket is the first of the next.
LastRowOff(b) ==
    IF (b + 1) * layout.rows >= table.nrow THEN table.nrow - 1 ELSE (b + 1) * layout.rows

\* The index: the last row of each data bucket.
LastRow(b) ==
    IF (b + 1) * layout.rows - 1 >= table.nrow THEN table.nrow - 1
    ELSE (b + 1) * layout.rows - 1

\* find_bucket: the first bucket whose last row is not before the row.
FindBucket(r) ==
    CHOOSE b \in 0..(Buckets - 1) : LastRow(b) >= r /\ \A d \in 0..(b - 1) : LastRow(d) < r
StartRow(b) == IF b > 0 THEN LastRow(b - 1) + 1 ELSE 0

ReadAt(c, r) ==
    LET b == FindBucket(r)
    IN  InBucket(b, c, (r - StartRow(b)) * table.columns[c].size)

ReadsNumber(c, r, v) ==
    \A k \in 0..(table.columns[c].size - 1) : ByteAt(ReadAt(c, r) + k) = ByteOf(v, k)

ReadsBool(c, r, v) ==
    LET b == FindBucket(r)
        bit == r - StartRow(b)
    IN  v <=> (bit % 8) \in ByteAt(InBucket(b, c, bit \div 8)).bits

\* read_ssm_string_cell
ReadsText(c, r, s) ==
    LET a == ReadAt(c, r)
        Word(k) == ByteAt(a + k * WordSize).of
    IN  /\ Word(2) = s.len
        /\ IF s.len <= InlineLength
           THEN \A k \in 0..(s.len - 1) : ByteAt(a + k) = ByteOf(s.of, k)
           ELSE LET b == Word(0) - Buckets + 1
                IN  /\ b \in DOMAIN strBuckets
                    /\ Word(1) + s.len <= Usable
                    /\ [at |-> Word(1), text |-> s] \in Range(strBuckets[b])

Reads(c, r, v) ==
    CASE table.columns[c].kind = "number" -> ReadsNumber(c, r, v)
      [] table.columns[c].kind = "bool" -> ReadsBool(c, r, v)
      [] table.columns[c].kind = "string" -> ReadsText(c, r, v)

\* What a cell holds that nobody wrote.
Default(c) ==
    CASE table.columns[c].kind = "number" -> 0
      [] table.columns[c].kind = "bool" -> FALSE
      [] table.columns[c].kind = "string" -> [len |-> 0, of |-> 0]

----------------------------------------------------------------------------
(* Properties.                                                             *)

\* A file that was flushed gives every cell the last value written to it, or
\* none, although columns share buckets, booleans bytes and strings buckets of
\* their own, and the reader goes by the index (standard_stman.cpp:1831-2392
\* and 874-946).
SsmCellsReadBack ==
    phase = "flushed" =>
        \A c \in Cols, r \in TestRows : r < table.nrow =>
            Reads(c, r, IF <<c, r>> \in DOMAIN wrote THEN wrote[<<c, r>>] ELSE Default(c))

\* The index leads to the bucket and the row in it that the writer divided out,
\* and flush() fails for its index only when setup could not make the buckets any
\* larger (standard_stman.cpp:1480, 1773-1801 against 2384).
IndexFindsRows ==
    /\ phase = "flushed" =>
          \A r \in TestRows : r < table.nrow =>
              /\ FindBucket(r) = r \div layout.rows
              /\ r - StartRow(FindBucket(r)) = r % layout.rows
    /\ phase = "failed" => layout.size = MaxBucketSize

\* "Bucket was clamped; compute rows that fit in the clamped size"
\* (standard_stman.cpp:1757): the rows setup counts fit into the bucket.
RowsFitBuckets == phase = "overlaps" => DataSize(1) > MaxBucketSize
=============================================================================
