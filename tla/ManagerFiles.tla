---------------------------- MODULE ManagerFiles ----------------------------
(***************************************************************************)
(* What StandardStMan and IncrementalStMan write around the cells, and how *)
(* their readers find the cells again: the headers, the index and its      *)
(* buckets, the buckets of an IncrementalStMan and the arrays of texts     *)
(* (src/src/standard_stman.cpp, src/src/incremental_stman.cpp).            *)
(*                                                                         *)
(* Files come from these writers and from casacore, which wrote several    *)
(* versions of each, in the byte order of its machine.  A file is a        *)
(* sequence of typed numbers and texts, and where pieces of it lie in      *)
(* different places, of the bytes of them.                                 *)
(***************************************************************************)
LOCAL INSTANCE RecordStreams WITH TablePrefix <- "Table: ", MaxDepth <- 1

Orders == {"big", "little"}
Smaller(m, n) == IF m < n THEN m ELSE n
Larger(m, n) == IF m > n THEN m ELSE n
HeaderSize == 512

\* Numbers here fit one byte: the other way round they are huge, but for those
\* with all bytes the same.  A text has its length in front.
Reversed(n) == IF n \in {0, Magic} THEN n ELSE 16777217
ReadIn(s, written, order) ==
    IF written = order THEN s
    ELSE [i \in DOMAIN s |->
            CASE s[i][1] = "u8" -> s[i]
              [] s[i][1] \in {"u32", "i32", "u64"} -> <<s[i][1], Reversed(s[i][2])>>
              [] OTHER -> <<"garbage", s[i][2]>>]

\* The bytes of a sequence, and the sequence that bytes are, if they are one.
Spread(s) == FlattenSeq([i \in DOMAIN s |-> [b \in 1..Bytes(<<s[i]>>) |-> <<s[i], b>>]])
Rejoined(bytes) ==
    LET firsts == SelectSeq(bytes, LAMBDA b : b[2] = 1)
        s == [i \in DOMAIN firsts |-> firsts[i][1]]
    IN  IF Spread(s) = bytes THEN s ELSE <<>>

\* The place that so many bytes are in front of.
At(s, offset) ==
    LET places == {i \in 1..(Len(s) + 1) : Bytes(SubSeq(s, 1, i - 1)) = offset}
    IN  IF places = {} THEN Throw(Start)
        ELSE [Start EXCEPT !.at = CHOOSE i \in places : TRUE]

Numbers(type, xs) == FlattenSeq([i \in DOMAIN xs |-> Num(type, xs[i])])
Nested == [magic |-> FALSE]
Root == [magic |-> TRUE]

write_block(type, xs) == ObjectIn(Nested, "Block", 1, Num("u32", Len(xs)) \o Numbers(type, xs))

\* The length of an object is not looked at, nor is what a block says it is.
NestedHeader(s, c) ==
    Then(ReadText(s, Token(s, c, "u32")), LAMBDA type :
    Then(Token(s, type, "u32"), LAMBDA version :
         Returns(version, <<type.value[1], version.value>>)))
read_object_header(s, c, type) ==
    Then(Token(s, c, "u32"), LAMBDA magic :
    Then(NestedHeader(s, If(magic.value = Magic, magic)), LAMBDA header :
         Returns(If(header.value[1] = type, header), header.value[2])))

read_numbers(s, c, types) == Each(c, types, LAMBDA a, t : Token(s, a, t))
read_block(s, c, type) ==
    Then(Token(s, NestedHeader(s, c), "u32"), LAMBDA count :
         Times(count, count.value, LAMBDA a : Token(s, a, type)))

\* A mutant: what table.dat says of itself is taken for the manager's file.
OrderTrusted(file, otherwise) == otherwise

\* The byte order in which the length of the header is less than the header, or
\* else the one given.
DetectedOrder(file, otherwise) ==
    LET Plausible(order) == ReadIn(file.header, file.order, order)[2][2] < HeaderSize
    IN  IF Plausible("big") = Plausible("little") THEN otherwise
        ELSE CHOOSE order \in Orders : Plausible(order)

----------------------------------------------------------------------------
(* StandardStMan.  An index says of each of its buckets the last row; the  *)
(* blob in table.dat says where a column lies in a bucket, and in which    *)
(* index the bucket is found.                                              *)

SsmIndex(rows, last, buckets) ==
    [rows_per_bucket |-> rows, last_row |-> last, bucket_number |-> buckets]
SsmStore(columns, indices) == [columns |-> columns, indices |-> indices]
SsmColumn(offset, index) == [col_offset |-> offset, index_nr |-> index]

\* flush: the last rows that the index of a table is made of.
LastRows(rows, rowCount) ==
    LET n == (rowCount + rows - 1) \div rows
    IN  [b \in 1..n |-> IF b * rows <= rowCount THEN b * rows - 1 ELSE rowCount - 1]
FlushedIndex(rows, rowCount) ==
    LET last == LastRows(rows, rowCount)
    IN  SsmIndex(rows, last, [b \in DOMAIN last |-> b - 1])

\* A form of the files: versions of the header and of the index, entries of the
\* index that are not used, entries of the map of free space, magic values.
SsmForm(header, index, spare, free, magic) ==
    [header |-> header, index |-> index, spare |-> spare, free |-> free, magic |-> magic]
SsmWritten == SsmForm(3, 1, 0, 0, TRUE)

write_index(form, columns, index) ==
    LET Spare(xs) == xs \o [i \in 1..form.spare |-> 7]
    IN  ObjectIn(Root, "SSMIndex", form.index,
           Num("u32", Len(index.last_row)) \o Num("u32", index.rows_per_bucket)
           \o Num("i32", columns)
           \o ObjectIn(Nested, "SimpleOrderedMap", 1,
                Num("i32", 0) \o Num("u32", form.free) \o Num("u32", 1)
                \o Numbers("i32", [i \in 1..(2 * form.free) |-> i]))
           \o write_block(IF form.index = 1 THEN "u32" ELSE "u64", Spare(index.last_row))
           \o write_block("u32", Spare(index.bucket_number)))

WrittenIndices(form, store) ==
    FlattenSeq([i \in DOMAIN store.indices |->
        write_index(form, Cardinality({c \in DOMAIN store.columns :
                                          store.columns[c].index_nr = i - 1}),
                    store.indices[i])])

\* A bucket: the number of the next, which is big-endian in every file, and the
\* bytes behind this link.
LinkSize == 8
Bucket(next, bytes) == [next |-> next, bytes |-> bytes]

write_ssm_header(form, order, size, at, length, nrIndices) ==
    ObjectIn(Root, "StandardStMan", form.header,
       (IF form.header >= 3 THEN Num("u8", order) ELSE <<>>)
       \o Numbers("u32", <<size, 9, 2, 0>>) \o Num("i32", -1)
       \o Num("u32", at.count) \o Num("i32", at.first)
       \o (IF form.header >= 2 THEN Num("u32", at.offset) ELSE <<>>)
       \o Num("i32", -1) \o Num("u32", length) \o Num("u32", nrIndices))

make_ssm_blob(form, store) ==
    LET Per(F) == write_block("u32", F)
    IN  ObjectIn(form, "SSM", 2, WriteText(<<"name">>)
           \o Per([c \in DOMAIN store.columns |-> store.columns[c].col_offset])
           \o Per([c \in DOMAIN store.columns |-> store.columns[c].index_nr]))

\* The index in one bucket, behind so many bytes of it; or in a chain of them,
\* here every other one.  flush() makes the first kind, with the link in front.
OneBucket == LinkSize
Chained == 0
SsmFile(form, order, size, offset, store) ==
    LET bytes == Spread(WrittenIndices(form, store))
        room == size - LinkSize
        count == IF offset > 0 THEN 1 ELSE (Len(bytes) + room - 1) \div room
        Part(k) == SubSeq(bytes, (k - 1) * room + 1, Smaller(k * room, Len(bytes)))
        buckets == IF offset > 0
                   THEN 3 :> Bucket(-1, [i \in 1..(offset - LinkSize) |-> <<>>] \o bytes)
                   ELSE [b \in {1 + 2 * k : k \in 1..count} |->
                           Bucket(IF b = 1 + 2 * count THEN -1 ELSE b + 2, Part((b - 1) \div 2))]
    IN  [kind |-> "StandardStMan", order |-> order, buckets |-> buckets,
         header |-> write_ssm_header(form, order, size,
                       [count |-> count, first |-> 3, offset |-> offset], Len(bytes),
                       Len(store.indices)),
         blob |-> make_ssm_blob(form, store)]

\* flush() throws when the index does not fit its bucket; setup has seen to that.
FlushedSsm(order, size, store) == SsmFile(SsmWritten, order, size, OneBucket, store)
FitsFlush(size, store) == Bytes(WrittenIndices(SsmWritten, store)) + LinkSize <= size

parse_ssm_file_header(file, hint) ==
    LET order == DetectedOrder(file, hint)
        s == ReadIn(file.header, file.order, order)
        first == <<"u32", "u32", "u32", "u32", "i32", "u32", "i32">>
    IN  Then(read_object_header(s, Start, "StandardStMan"), LAMBDA version :
        Then(IF version.value >= 3 THEN Token(s, version, "u8") ELSE Returns(version, order),
             LAMBDA flag :
        Then(read_numbers(s, flag, first), LAMBDA sizes :
        Then(IF version.value >= 2 THEN Token(s, sizes, "u32") ELSE Returns(sizes, 0),
             LAMBDA offset :
        Then(read_numbers(s, offset, <<"i32", "u32", "u32">>), LAMBDA rest :
             Returns(rest, [order |-> flag.value, bucket_size |-> sizes.value[1],
                            nr_idx_buckets |-> sizes.value[6], first_idx_bucket |-> sizes.value[7],
                            idx_bucket_offset |-> offset.value, index_length |-> rest.value[2],
                            nr_indices |-> rest.value[3]]))))))

\* open: the bytes of the index, bucket after bucket.
assembled_index(file, h) ==
    LET Take(a, offset) ==
           LET left == h.index_length - Len(a.bytes)
               n == Smaller(left, h.bucket_size - offset)
               bucket == file.buckets[a.next]
           IN  Bucket(IF h.idx_bucket_offset > 0 THEN a.next ELSE bucket.next,
                      a.bytes \o SubSeq(bucket.bytes, offset - LinkSize + 1, offset - LinkSize + n))
    IN  FoldLeft(LAMBDA a, j :
            IF Len(a.bytes) = h.index_length \/ a.next \notin DOMAIN file.buckets THEN a
            ELSE Take(a, IF h.idx_bucket_offset > 0 THEN h.idx_bucket_offset ELSE LinkSize),
            Bucket(h.first_idx_bucket, <<>>), [j \in 1..h.nr_idx_buckets |-> j]).bytes

\* Entries that are not used are left out.
parse_ssm_index(s, c) ==
    Then(read_object_header(s, c, "SSMIndex"), LAMBDA version :
    Then(read_numbers(s, version, <<"u32", "u32", "i32">>), LAMBDA sizes :
    Then(read_numbers(s, NestedHeader(s, sizes), <<"i32", "u32", "u32">>), LAMBDA free :
    Then(Times(free, 2 * free.value[2], LAMBDA a : Token(s, a, "i32")), LAMBDA pairs :
    Then(read_block(s, pairs, IF version.value = 1 THEN "u32" ELSE "u64"), LAMBDA last :
    Then(read_block(s, last, "u32"), LAMBDA buckets :
         LET Used(xs) == SubSeq(xs, 1, Smaller(sizes.value[1], Len(xs)))
         IN  Returns(buckets,
                     SsmIndex(sizes.value[2], Used(last.value), Used(buckets.value)))))))))
parse_ssm_indices(s, n) == Times(Start, n, LAMBDA a : parse_ssm_index(s, a))

parse_ssm_blob(s) ==
    Then(Token(s, Start, "u32"), LAMBDA first :
    Then(IF first.value = Magic THEN Token(s, first, "u32") ELSE first, LAMBDA length :
    Then(ReadText(s, length), LAMBDA type :
    Then(Token(s, If(type.value[1] = "SSM", type), "u32"), LAMBDA version :
    Then(read_block(s, ReadText(s, version), "u32"), LAMBDA offsets :
    Then(read_block(s, offsets, "u32"), LAMBDA indices :
         Returns(indices, [c \in DOMAIN offsets.value |->
                             SsmColumn(offsets.value[c], indices.value[c])])))))))

\* SsmReader::open.  The hint is the byte order that table.dat says it has.
open_ssm(file, hint) ==
    Then(parse_ssm_blob(file.blob), LAMBDA blob :
    Then(parse_ssm_file_header(file, hint), LAMBDA header :
    Then(parse_ssm_indices(ReadIn(Rejoined(assembled_index(file, header.value)),
                                  file.order, header.value.order),
                           header.value.nr_indices), LAMBDA indices :
         Returns(indices, SsmStore(blob.value, indices.value)))))

----------------------------------------------------------------------------
(* Arrays of texts of a StandardStMan, which casacore writes: a cell says  *)
(* where in which string bucket they begin, and how long they are.  A      *)
(* bucket says how much of it is used and which is next.                   *)

TextCell(bucket, offset, length) == [bucket |-> bucket, offset |-> offset, length |-> length]
TextBucket(used, next, bytes) == [used |-> used, next |-> next, bytes |-> bytes]

\* A column without a fixed shape has the shape in front of the texts, and
\* whether there are any: otherwise all of them are empty.
WrittenTexts(fixed, shape, texts) ==
    (IF fixed THEN <<>>
     ELSE Num("u32", Len(shape)) \o Numbers("u32", shape)
          \o Num("u32", IF texts = <<>> THEN 0 ELSE 1))
    \o FlattenSeq([i \in DOMAIN texts |-> WriteText(texts[i])])

\* The bytes lie in as many buckets as they need, in the first behind others.
TextsFile(order, room, behind, fixed, shape, texts) ==
    LET bytes == Spread(WrittenTexts(fixed, shape, texts))
        all == [i \in 1..behind |-> <<>>] \o bytes
        count == (Len(all) + room - 1) \div room
        Part(b) == SubSeq(all, (b - 1) * room + 1, Smaller(b * room, Len(all)))
    IN  [kind |-> "Texts", order |-> order, room |-> room, fixed |-> fixed, shape |-> shape,
         cell |-> TextCell(1, behind, IF texts = <<>> /\ fixed THEN 0 ELSE Len(bytes)),
         buckets |-> [b \in 1..count |->
            TextBucket(Len(Part(b)), IF b < count THEN b + 1 ELSE -1, Part(b))]]

\* read_ssm_string_payload: a chain that ends too early gives nothing.
RECURSIVE read_ssm_string_payload(_, _)
read_ssm_string_payload(file, ref) ==
    IF ref.length <= 0 THEN <<>>
    ELSE IF ref.bucket \notin DOMAIN file.buckets \/ ref.offset \notin 0..file.room THEN <<>>
    ELSE LET b == file.buckets[ref.bucket]
             ncopy == Smaller(ref.length, Smaller(Larger(b.used - ref.offset, 0),
                                                  file.room - ref.offset))
             rest == TextCell(b.next, 0, ref.length - ncopy)
         IN  SubSeq(b.bytes, ref.offset + 1, ref.offset + ncopy)
                \o read_ssm_string_payload(file, rest)

\* parse_ssm_string_array_payload, read_indirect_string and read_indirect_shape.
NoTexts(shape) == [i \in 1..Product(shape) |-> <<>>]
parse_ssm_string_array_payload(s, fixed, fixedShape) ==
    LET Texts(c, shape) ==
            Then(Times(c, Product(shape), LAMBDA a : ReadText(s, a)), LAMBDA texts :
                 Returns(texts, [shape |-> shape, texts |-> texts.value]))
    IN  IF fixed THEN Texts(Start, fixedShape)
        ELSE Then(Token(s, Start, "u32"), LAMBDA ndim :
             Then(Times(ndim, ndim.value, LAMBDA a : Token(s, a, "u32")), LAMBDA shape :
             Then(Token(s, shape, "u32"), LAMBDA filled :
                  IF filled.value = 0
                  THEN Returns(filled, [shape |-> shape.value, texts |-> NoTexts(shape.value)])
                  ELSE Texts(filled, shape.value))))
read_texts(file, order) ==
    IF file.cell.length <= 0
    THEN Returns(Start, [shape |-> IF file.fixed THEN file.shape ELSE <<>>,
                         texts |-> IF file.fixed THEN NoTexts(file.shape) ELSE <<>>])
    ELSE parse_ssm_string_array_payload(
            ReadIn(Rejoined(read_ssm_string_payload(file, file.cell)), file.order, order),
            file.fixed, file.shape)

----------------------------------------------------------------------------
(* IncrementalStMan.  A bucket holds values and, for each column, the rows *)
(* that a value is stored for and where it is.                             *)

\* A text has its own length in front, counted with it.
write_ism_value(type, x) ==
    IF type = "String" THEN Num("u32", 4 + Len(x)) \o [i \in DOMAIN x |-> <<"u8", x[i]>>]
    ELSE Element(type, x)

IsmStore(types, cells) == [types |-> types, cells |-> cells]
IsmRows(store) == DOMAIN store.cells[1]

\* casacore repeats a column's value in each bucket, and counts rows from the first
\* of the bucket, which an ISMIndex behind the buckets names; flush() does neither,
\* but puts all columns' values there for every row it stores.
Changes(store, c, r) == r = 0 \/ store.cells[c][r] # store.cells[c][r - 1]
Stored(store, r) == \E c \in DOMAIN store.types : Changes(store, c, r)
EntryRows(form, store, c, rows) ==
    {r \in rows : Changes(store, c, r) \/ (form = "casacore" /\ \A q \in rows : r <= q)}
Ascending(rows) == SetToSortSeq(rows, LAMBDA a, b : a < b)

IsmBucket(form, store, rows) ==
    LET columns == [c \in DOMAIN store.types |-> c]
        places == FlattenSeq([k \in 1..Cardinality(rows) |->
                     LET r == Ascending(rows)[k]
                         kept == SelectSeq(columns, LAMBDA c :
                                    \/ r \in EntryRows(form, store, c, rows)
                                    \/ form = "written" /\ Stored(store, r))
                     IN  [i \in DOMAIN kept |-> <<kept[i], r>>]])
        Value(p) == write_ism_value(store.types[p[1]], store.cells[p[1]][p[2]])
        Values(n) == FlattenSeq([i \in 1..n |-> Value(places[i])])
        Offset(c, r) == LET n == CHOOSE i \in DOMAIN places : places[i] = <<c, r>>
                        IN  Bytes(Values(n - 1))
        ColumnIndex(c) ==
            LET entries == Ascending(EntryRows(form, store, c, rows))
                first == IF form = "casacore" THEN Ascending(rows)[1] ELSE 0
            IN  Num("u32", Len(entries))
                \o Numbers("u32", [i \in DOMAIN entries |-> entries[i] - first])
                \o Numbers("u32", [i \in DOMAIN entries |-> Offset(c, entries[i])])
    IN  Num("u32", 4 + Bytes(Values(Len(places)))) \o Values(Len(places))
           \o FlattenSeq([c \in DOMAIN columns |-> ColumnIndex(c)])

\* flush() writes version 5, little-endian.
IsmFile(form, version, order, size, store, starts) ==
    LET Until(b) == IF b < Len(starts) THEN starts[b + 1] ELSE Cardinality(IsmRows(store))
    IN  [kind |-> "IncrementalStMan", order |-> order, types |-> store.types,
         rows |-> Cardinality(IsmRows(store)),
         header |-> ObjectIn(Root, "IncrementalStMan", version,
                       (IF version >= 5 THEN Num("u8", order) ELSE <<>>)
                       \o Numbers("u32", <<size, Len(starts), 1, 0>>) \o Num("i32", -1)
                       \o Num("u32", 0)),
         buckets |-> [b \in DOMAIN starts |->
                        IsmBucket(form, store, starts[b]..(Until(b) - 1))]]
FlushedIsm(size, store, starts) == IsmFile("written", 5, "little", size, store, starts)

parse_ism_file_header(file) ==
    LET order == DetectedOrder(file, "little")
        s == ReadIn(file.header, file.order, order)
    IN  Then(read_object_header(s, Start, "IncrementalStMan"), LAMBDA version :
        Then(IF version.value >= 5 THEN Token(s, version, "u8") ELSE Returns(version, order),
             LAMBDA flag :
        Then(read_numbers(s, flag, <<"u32", "u32", "u32">>), LAMBDA sizes :
             Returns(If(sizes.value[1] # 0, sizes),
                     [order |-> flag.value, bucket_size |-> sizes.value[1],
                      nr_buckets |-> sizes.value[2]]))))

\* The indices of all columns, from the place that the first number says.
parse_ism_bucket_indices(s, size, types) ==
    LET Numbered(a, n) == Times(a, n, LAMBDA b : Token(s, b, "u32"))
        ColumnEntries(a) ==
            Then(Token(s, a, "u32"), LAMBDA count :
            Then(Numbered(If(count.value <= size \div 8, count), count.value), LAMBDA rows :
            Then(Numbered(rows, count.value), LAMBDA offsets :
                 Returns(offsets, [rows |-> rows.value, at |-> offsets.value]))))
    IN  Then(Token(s, Start, "u32"), LAMBDA free :
             IF free.value \notin 4..size THEN Throw(free)
             ELSE Times(At(s, free.value), Len(types), ColumnEntries))

\* Offsets count from behind the first number.
read_ism_value(s, offset, type) ==
    IF type = "String"
    THEN Then(Token(s, At(s, 4 + offset), "u32"), LAMBDA length :
              Times(length, Larger(length.value - 4, 0), LAMBDA a : Token(s, a, "u8")))
    ELSE ReadElement(s, At(s, 4 + offset), type)

\* IsmReader::open and read_cell: the entries of all buckets, sorted by row; a
\* row has the last value up to it.  The ISMIndex is not read: the rows of every
\* bucket are taken for rows of the table.  Then several buckets may have the same
\* row, and so few entries stay in the order of their buckets (std::sort).
EntriesOf(s, index, types, c) ==
    UNION {{[row |-> index[b].value[c].rows[e], bucket |-> b,
             value |-> read_ism_value(s[b], index[b].value[c].at[e], types[c])] :
                e \in DOMAIN index[b].value[c].rows} : b \in DOMAIN s}
InForceAt(entries, r) ==
    CHOOSE e \in entries :
        /\ e.row <= r
        /\ \A f \in entries : f.row <= r => f.row < e.row \/ (f.row = e.row /\ f.bucket <= e.bucket)
open_ism(file) ==
    Then(parse_ism_file_header(file), LAMBDA header :
         LET s == [b \in 1..header.value.nr_buckets |->
                      ReadIn(file.buckets[b], file.order, header.value.order)]
             index == [b \in DOMAIN s |->
                         parse_ism_bucket_indices(s[b], header.value.bucket_size, file.types)]
             entries == [c \in DOMAIN file.types |-> EntriesOf(s, index, file.types, c)]
             Readable(c) == /\ \A e \in entries[c] : e.value.ok
                            /\ \E e \in entries[c] : e.row = 0
         IN  IF \E b \in DOMAIN s : ~index[b].ok THEN Throw(header)
             ELSE IF \E c \in DOMAIN file.types : ~Readable(c) THEN Throw(header)
             ELSE Returns(header, IsmStore(file.types,
                    [c \in DOMAIN file.types |->
                        [r \in 0..(file.rows - 1) |-> InForceAt(entries[c], r).value.value]])))
=============================================================================
