------------------------- MODULE TableDescriptions -------------------------
(***************************************************************************)
(* The description of a table in table.dat (src/src/table_desc.cpp,        *)
(* table_desc_writer.cpp, table_dat.cpp): its keywords and columns and the *)
(* storage manager of each, as a Table (src/src/table.cpp) reads them,     *)
(* changes keywords and writes them back at a flush.  The table was made   *)
(* by Table::create or by casacore, whose older versions wrote other forms *)
(* of the file.                                                            *)
(*                                                                         *)
(* The name, comment and storage manager names of a column are one entry,  *)
(* its texts, and the maximum length of its strings is left out.           *)
(***************************************************************************)
EXTENDS RecordStreams

----------------------------------------------------------------------------
(***************************************************************************)
(* The file table.dat (src/src/table_desc.cpp, table_desc_writer.cpp,      *)
(* table_dat.cpp, table_dat_writer.cpp): the description of a table as a   *)
(* stream of AipsIO, in the three versions of the file.                    *)
(***************************************************************************)

write_table_record(form, r) ==
    ObjectIn(form, "TableRecord", 1, write_record_body(form, "TableRecord", r))

\* Zeros of the width of the type, or an empty text.
write_scalar_default(type) ==
    IF type \in {"String", "Table"} THEN WriteText(<<>>)
    ELSE [i \in DOMAIN Wire[type] |-> <<Wire[type][i], 0>>]

FixedShape(options) == (options \div 4) % 2 = 1

write_column_desc(form, col) ==
    ObjectIn(form, col.kind, col.version,
       FlattenSeq([i \in DOMAIN col.texts |-> WriteText(col.texts[i])])
       \o Num("i32", col.type) \o Num("i32", col.options) \o Num("i32", col.ndim)
       \o (IF col.ndim # 0 THEN write_iposition(form, col.shape) ELSE <<>>)
       \o write_table_record(form, col.keywords)
       \o Num("u32", 1)
       \o (IF col.kind = "ScalarColumnDesc" THEN write_scalar_default(col.type)
           ELSE Num("u8", IF FixedShape(col.options) THEN 1 ELSE 0)))

write_table_desc(form, desc) ==
    ObjectIn(form, "TableDesc", desc.version,
       (IF desc.version >= 2 THEN WriteText(<<>>) ELSE <<>>)
       \o FlattenSeq([i \in DOMAIN desc.texts |-> WriteText(desc.texts[i])])
       \o write_table_record(form, desc.keywords)
       \o write_table_record(form, desc.private_keywords)
       \o Num("u32", Len(desc.columns))
       \o FlattenSeq([i \in DOMAIN desc.columns |-> write_column_desc(form, desc.columns[i])]))

\* The storage manager of a column, and the shape of its arrays; casacore's
\* version 1 also had the keywords of the column here.
write_column_setup(form, setup, is_array) ==
    Num("u32", form.file)
    \o (IF form.file = 1 THEN write_table_record(form, Record(<<>>)) ELSE <<>>)
    \o WriteText(setup.column_name) \o Num("u32", 1) \o Num("u32", setup.sequence_number)
    \o (CASE ~is_array -> <<>>
          [] setup.shape = <<>> -> Num("u8", 0)
          [] OTHER -> Num("u8", 1) \o write_iposition(form, setup.shape))

write_table_dat(form, t) ==
    LET rows(type) == Num(type, t.row_count)
        manager(sm) == WriteText(sm.type_name) \o Num("u32", sm.sequence_number)
        blob(sm) == Num("u32", Len(sm.data_blob))
                    \o [b \in DOMAIN sm.data_blob |-> <<"u8", sm.data_blob[b]>>]
        n == Num("u32", Len(t.storage_managers))
        is_array(i) == t.table_desc.columns[i].kind = "ArrayColumnDesc"
    IN  Num("u32", Magic)
        \o ObjectIn([form EXCEPT !.magic = FALSE], "Table", form.file,
              rows(IF form.file <= 2 THEN "u32" ELSE "u64")
              \o Num("u32", IF t.big_endian THEN 0 ELSE 1) \o WriteText(t.table_type)
              \o write_table_desc(form, t.table_desc)
              \o (IF form.file = 1 THEN write_table_record(form, t.table_keywords_v1) ELSE <<>>)
              \o Num("i32", -2) \o rows("u32") \o n \o n
              \o FlattenSeq([m \in DOMAIN t.storage_managers |-> manager(t.storage_managers[m])])
              \o FlattenSeq([i \in DOMAIN t.column_setups |->
                    write_column_setup(form, t.column_setups[i], is_array(i))])
              \o (IF form.blobs
                  THEN FlattenSeq([m \in DOMAIN t.storage_managers |-> blob(t.storage_managers[m])])
                  ELSE <<>>))

\* The writer throws, before table.dat is opened, when a keyword has a value
\* that AipsIO does not have.
CanDescribe(t) ==
    /\ CanWrite(t.table_desc.keywords, 0) /\ CanWrite(t.table_desc.private_keywords, 0)
    /\ \A i \in DOMAIN t.table_desc.columns : CanWrite(t.table_desc.columns[i].keywords, 0)

----------------------------------------------------------------------------
(* Reading it.                                                             *)

read_table_record(s, c) ==
    read_record_body(s, read_embedded_object_header(s, c, {"TableRecord"}))

\* Bytes are skipped, whatever they hold.
skip_scalar_default(s, c, type) ==
    IF type \in {"String", "Table"} THEN ReadText(s, c)
    ELSE LET width == Bytes([i \in DOMAIN Wire[type] |-> <<Wire[type][i], 0>>])
             ends == {k \in c.at..Len(s) : s[k][1] # "string" /\ Bytes(SubSeq(s, c.at, k)) = width}
         IN  IF ~c.ok \/ ends = {} THEN Throw(c)
             ELSE [c EXCEPT !.at = 1 + CHOOSE k \in ends : TRUE]

read_column_desc(s, c) ==
    LET header == read_embedded_object_header(s, c, {"ScalarColumnDesc", "ArrayColumnDesc"})
        kind == s[header.at - 2][2][1]
        texts == Times(header, 4, LAMBDA a : ReadText(s, a))
        type == Token(s, texts, "i32")
        options == Token(s, type, "i32")
        ndim == Token(s, options, "i32")
        shape == IF ndim.ok /\ ndim.value # 0 THEN read_iposition(s, ndim) ELSE Returns(ndim, <<>>)
        keywords == read_table_record(s, shape)
        version == Token(s, keywords, "u32")
        last == CASE ~version.ok -> version
                  [] kind = "ScalarColumnDesc" -> skip_scalar_default(s, version, type.value)
                  [] OTHER -> Token(s, version, "u8")
    IN  IF ~last.ok THEN last
        ELSE Returns(last, [kind |-> kind, version |-> header.value, texts |-> texts.value,
                            type |-> type.value, options |-> options.value, ndim |-> ndim.value,
                            shape |-> shape.value, keywords |-> keywords.value])

read_table_desc(s, c) ==
    LET header == read_embedded_object_header(s, c, {"TableDesc"})
        userType == IF header.ok /\ header.value >= 2 THEN ReadText(s, header) ELSE header
        texts == Times(userType, 2, LAMBDA a : ReadText(s, a))
        keywords == read_table_record(s, texts)
        private == read_table_record(s, keywords)
        ncol == Token(s, private, "u32")
        columns == Times(ncol, ncol.value, LAMBDA a : read_column_desc(s, a))
    IN  IF ~columns.ok THEN columns
        ELSE Returns(columns, [version |-> header.value, texts |-> texts.value,
                               keywords |-> keywords.value, private_keywords |-> private.value,
                               columns |-> columns.value])

read_column_setup(s, c, version, is_array) ==
    LET plain == Token(s, c, "u32")
        keywords == IF version = 1 THEN read_table_record(s, plain) ELSE plain
        name == ReadText(s, keywords)
        number == Token(s, Token(s, name, "u32"), "u32")
        has_shape == Token(s, number, "u8")
        shape == CASE ~is_array -> Returns(number, <<>>)
                   [] has_shape.ok /\ has_shape.value # 0 -> read_iposition(s, has_shape)
                   [] OTHER -> Returns(has_shape, <<>>)
    IN  IF ~shape.ok THEN shape
        ELSE Returns(shape, [column_name |-> name.value, sequence_number |-> number.value,
                             shape |-> shape.value])

\* The first part, which parse_table_dat_metadata reads alone.
parse_table_dat_metadata(s) ==
    LET length == Token(s, Token(s, Start, "u32"), "u32")
        type == ReadText(s, length)
        version == Token(s, type, "u32")
        rows == Token(s, version, IF version.ok /\ version.value <= 2 THEN "u32" ELSE "u64")
        endian == Token(s, rows, "u32")
        kind == ReadText(s, If(endian.value <= 1, endian))
    IN  IF ~kind.ok THEN kind
        ELSE Returns(If(s[1][2] = Magic /\ type.value = <<"Table">>, kind),
               [table_version |-> version.value, row_count |-> rows.value,
                big_endian |-> endian.value = 0, table_type |-> kind.value])

\* Older files end before the blobs.
read_blob(s, c) ==
    IF c.ok /\ Remaining(s, c) < 4 THEN Returns(c, <<>>)
    ELSE LET length == Token(s, c, "u32")
         IN  Times(If(length.value <= Remaining(s, length), length), length.value,
                   LAMBDA a : Token(s, a, "u8"))

parse_table_dat_full(s) ==
    LET head == parse_table_dat_metadata(s)
        version == head.value.table_version
        desc == read_table_desc(s, head)
        v1 == IF head.ok /\ version = 1 THEN read_table_record(s, desc)
              ELSE Returns(desc, Record(<<>>))
        sentinel == Token(s, v1, "i32")
        rows == Token(s, If(sentinel.value = -2, sentinel), "u32")
        count == Token(s, Token(s, rows, "u32"), "u32")
        managers == Times(count, count.value, LAMBDA a :
                       LET name == ReadText(s, a)
                           number == Token(s, name, "u32")
                       IN  IF number.ok THEN Returns(number, <<name.value, number.value>>)
                           ELSE number)
        setups == Each(managers, desc.value.columns, LAMBDA a, col :
                       read_column_setup(s, a, version, col.kind = "ArrayColumnDesc"))
        blobs == Times(setups, count.value, LAMBDA a : read_blob(s, a))
    IN  IF ~blobs.ok THEN blobs
        ELSE Returns(blobs,
               head.value @@
               [table_desc |-> desc.value, table_keywords_v1 |-> v1.value,
                post_td_row_count |-> rows.value, column_setups |-> setups.value,
                storage_managers |-> [m \in DOMAIN managers.value |->
                   [type_name |-> managers.value[m][1], sequence_number |-> managers.value[m][2],
                    data_blob |-> blobs.value[m]]]])

----------------------------------------------------------------------------
(* A table whose description is written and changed.                       *)

CONSTANTS
    CreatedTables,  \* what a program gives to Table::create
    CasacoreTables, \* pairs of a description and the form casacore wrote it in
    KeywordNames,   \* keywords a program changes
    KeywordValues,  \* and the values it gives them,
    Removed,        \* or that it removes them
    Blobs,          \* what a storage manager writes into table.dat
    CubeShape,      \* of the arrays in the tiled files of CasacoreTables
    WriteTableDat(_, _), ParseTableDat(_), CanWriteTableDat(_),
                    \* the format of table.dat, and whether it has a description
    WriteRecord(_, _), ReadRecord(_), CanWriteRecord(_), WriteBinary(_), ReadBinary(_),
                    \* those of a Record
    MaxChanges      \* bound on the changes of keywords

VARIABLES
    dat,        \* the stream in table.dat
    table_dat,  \* Impl::dir.table_dat of the Table object
    handle,     \* whether there is one, its mode, whether it has a writer
    saved,      \* what table.dat was to say when it was last written
    changes     \* made so far

descVars == <<dat, table_dat, handle, saved, changes>>

NoDescription == [table_desc |-> [columns |-> <<>>]]
NoHandle == [open |-> FALSE, writable |-> FALSE, writer |-> FALSE]

----------------------------------------------------------------------------
(* The calls of a Table.                                                   *)

\* Table::create: one storage manager for all columns.
TableOf(spec, blob) ==
    LET column(cs) ==
           [kind |-> cs.kind, version |-> 1, texts |-> cs.texts, type |-> cs.type,
            options |-> IF cs.shape # <<>> THEN 5 ELSE 0,
            ndim |-> CASE cs.kind = "ScalarColumnDesc" -> 0
                       [] cs.shape # <<>> -> Len(cs.shape)
                       [] OTHER -> -1,
            shape |-> cs.shape, keywords |-> cs.keywords]
        setup(cs) == [column_name |-> cs.texts[1], sequence_number |-> 0, shape |-> cs.shape]
    IN  [table_version |-> 2, row_count |-> spec.nrows, big_endian |-> spec.big_endian,
         table_type |-> <<"PlainTable">>,
         table_desc |-> [version |-> 2, texts |-> <<<<>>, <<>>>>,
                         keywords |-> spec.keywords, private_keywords |-> Record(<<>>),
                         columns |-> [i \in DOMAIN spec.columns |-> column(spec.columns[i])]],
         table_keywords_v1 |-> Record(<<>>), post_td_row_count |-> spec.nrows,
         storage_managers |-> <<[type_name |-> spec.sm_type, sequence_number |-> 0,
                                 data_blob |-> blob]>>,
         column_setups |-> [i \in DOMAIN spec.columns |-> setup(spec.columns[i])]]

\* table.dat.  The file gets version 2 and loses the keywords that version 1 had apart.
Write(t) == /\ dat' = WriteTableDat(OwnForm, t)
            /\ saved' = [t EXCEPT !.table_version = 2, !.table_keywords_v1 = Record(<<>>)]

\* The Table has the description that it wrote, read back.
Create(spec, blob) ==
    /\ dat = <<>>
    /\ Write(TableOf(spec, blob))
    /\ table_dat' = ParseTableDat(dat').value
    /\ handle' = [open |-> TRUE, writable |-> TRUE, writer |-> TRUE]
    /\ UNCHANGED changes

\* casacore made the table: external.
CasacoreCreates(made) ==
    /\ dat = <<>>
    /\ saved' = made[1]
    /\ dat' = WriteTableDat(made[2], made[1])
    /\ UNCHANGED <<table_dat, handle, changes>>

\* find_sm_for_column: the storage managers of a type, and the columns it has.
SmType(t, i) ==
    LET number == t.column_setups[i].sequence_number
        of == {m \in DOMAIN t.storage_managers : t.storage_managers[m].sequence_number = number}
    IN  IF of = {} THEN <<>> ELSE t.storage_managers[CHOOSE m \in of : TRUE].type_name
ColumnsOf(t, types) == {i \in DOMAIN t.table_desc.columns : SmType(t, i) \in types}
Tiled == {<<"TiledShapeStMan">>, <<"TiledColumnStMan">>}
Standard == {<<"StandardStMan">>}

\* Arrays of a tiled column get the shape they have in the first row.
Inferred(t) ==
    LET cols == {i \in ColumnsOf(t, Tiled) : /\ t.row_count > 0
                                             /\ t.table_desc.columns[i].kind = "ArrayColumnDesc"
                                             /\ t.table_desc.columns[i].shape = <<>>}
    IN  [t EXCEPT !.table_desc.columns = [i \in DOMAIN @ |->
                      IF i \in cols THEN [@[i] EXCEPT !.shape = CubeShape, !.ndim = Len(CubeShape)]
                      ELSE @[i]],
                  !.column_setups = [i \in DOMAIN @ |->
                      IF i \in cols THEN [@[i] EXCEPT !.shape = CubeShape] ELSE @[i]]]

Open ==
    /\ ~handle.open /\ dat # <<>>
    /\ table_dat' = Inferred(ParseTableDat(dat).value)
    /\ handle' = [open |-> TRUE, writable |-> FALSE, writer |-> FALSE]
    /\ UNCHANGED <<dat, saved, changes>>

\* A table whose columns are all in other storage managers gets no writer.
OpenRw ==
    /\ ~handle.open /\ dat # <<>>
    /\ table_dat' = Inferred(ParseTableDat(dat).value)
    /\ handle' = [open |-> TRUE, writable |-> TRUE,
                  writer |-> ColumnsOf(table_dat', Standard \cup Tiled) # {}]
    /\ UNCHANGED <<dat, saved, changes>>

Close ==
    /\ handle.open
    /\ handle' = NoHandle
    /\ UNCHANGED <<dat, table_dat, saved, changes>>

\* rw_keywords() and the keywords of a column: records in memory.
ChangeRecord(r, name, value) ==
    IF value = Removed THEN RemoveField(r, name) ELSE SetField(r, name, value)

SetKeyword(name, value) ==
    /\ handle.open /\ changes < MaxChanges
    /\ table_dat' = [table_dat EXCEPT !.table_desc.keywords = ChangeRecord(@, name, value)]
    /\ changes' = changes + 1
    /\ UNCHANGED <<dat, handle, saved>>

SetColumnKeyword(i, name, value) ==
    /\ handle.open /\ changes < MaxChanges
    /\ table_dat' = [table_dat EXCEPT !.table_desc.columns[i].keywords = ChangeRecord(@, name, value)]
    /\ changes' = changes + 1
    /\ UNCHANGED <<dat, handle, saved>>

\* The storage manager's file first, then table.dat, whose writer throws before
\* it opens the file.
FlushTable ==
    /\ handle.writable
    /\ IF ~handle.writer THEN UNCHANGED <<table_dat, dat, saved>>
       ELSE \E blob \in Blobs :
               /\ table_dat' = [table_dat EXCEPT !.storage_managers[1].data_blob = blob]
               /\ IF CanWriteTableDat(table_dat) THEN Write(table_dat') ELSE UNCHANGED <<dat, saved>>
    /\ UNCHANGED <<handle, changes>>

----------------------------------------------------------------------------
\* No table yet.
DescInit ==
    /\ dat = <<>> /\ handle = NoHandle /\ changes = 0
    /\ saved = NoDescription /\ table_dat = NoDescription

DescNext ==
    \/ \E spec \in CreatedTables, blob \in Blobs : Create(spec, blob)
    \/ \E made \in CasacoreTables : CasacoreCreates(made)
    \/ Open \/ OpenRw \/ Close \/ FlushTable
    \/ \E name \in KeywordNames, value \in KeywordValues \cup {Removed} :
          \/ SetKeyword(name, value)
          \/ \E i \in DOMAIN table_dat.table_desc.columns : SetColumnKeyword(i, name, value)

----------------------------------------------------------------------------
(* Properties.                                                             *)

\* What a value becomes in a stream of casacore's that this program reads.
RECURSIVE AsRead(_)
AsRead(v) ==
    CASE v.kind = "record" ->
           Record([i \in DOMAIN v.items |-> <<v.items[i][1], AsRead(v.items[i][2])>>])
      [] v.kind = "array" /\ v.type = "Bool" -> [v EXCEPT !.type = "Int"]
      [] OTHER -> [v EXCEPT !.type = Promoted(v.type)]

\* table.dat says what it was to say, at whatever point a program stopped: the
\* keywords in their order and with their types, the shapes of the columns, their
\* storage managers; in every version of the file; and a Table whose keywords
\* cannot be written leaves the file as it was.
TableDatReadsBack ==
    LET full == ParseTableDat(dat)
    IN  dat # <<>> =>
        /\ full.ok /\ full.at = Len(dat) + 1
        /\ full.value =
              [saved EXCEPT
                 !.table_keywords_v1 = AsRead(@), !.table_desc.keywords = AsRead(@),
                 !.table_desc.columns =
                    [i \in DOMAIN @ |-> [@[i] EXCEPT !.keywords = AsRead(@)]]]

\* A record that can be written is read back with its names, order, types and
\* values, from a binary Record and from AipsIO in every form casacore has
\* written it in; the readers take all of the stream.
Forms == [magic : BOOLEAN, iposition : {1, 2}, array : {2, 3}, desc : {1, 2}, fixed : BOOLEAN]
RecordsReadBack ==
    LET r == table_dat.table_desc.keywords
        binary == WriteBinary(r)
        back == ReadBinary(binary)
    IN  handle.open =>
        /\ back.ok /\ back.value = r
        /\ CanWriteRecord(r) =>
              \A form \in Forms :
                 LET s == WriteRecord(form, r)
                     q == ReadRecord(s)
                 IN  q.ok /\ q.at = Len(s) + 1 /\ q.value = r

\* What is written, into table.dat or into a record, is read back.
WhatIsWrittenReadsBack == TableDatReadsBack /\ RecordsReadBack
=============================================================================
