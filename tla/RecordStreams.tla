--------------------------- MODULE RecordStreams ---------------------------
(***************************************************************************)
(* Records of typed values (src/src/record.cpp) and the two streams they   *)
(* are written to: the binary Record (src/src/record_io.cpp) and casacore's*)
(* AipsIO (src/src/aipsio_writer.cpp, aipsio_record_writer.cpp and their   *)
(* readers).                                                               *)
(*                                                                         *)
(* A stream is a sequence of typed numbers and texts, not of bytes: what   *)
(* was written as one type has no meaning when read as another.  A text is *)
(* a sequence of pieces, so that "Table: " in front of a text can be seen. *)
(* AipsIO streams are also written by casacore and by older versions, in   *)
(* the forms the reader says it accepts.                                   *)
(***************************************************************************)
EXTENDS Cursors

CONSTANTS
    TablePrefix,    \* the piece of text "Table: "
    MaxDepth        \* kMaxWriteDepth and kMaxRecordDepth, bounded

----------------------------------------------------------------------------
(* Values.  Numbers and texts are tuples: a complex number is two numbers. *)
(* Only casacore writes Char and uChar, and arrays of Bool.                *)

Wire == [Bool |-> <<"u8">>, Short |-> <<"i16">>, uShort |-> <<"u16">>, Int |-> <<"i32">>,
         uInt |-> <<"u32">>, Int64 |-> <<"i64">>, uInt64 |-> <<"u64">>, Float |-> <<"f32">>,
         Double |-> <<"f64">>, Complex |-> <<"f32", "f32">>, DComplex |-> <<"f64", "f64">>,
         Char |-> <<"u8">>, uChar |-> <<"u8">>]

MakeValue(kind, type, shape, items) ==
    [kind |-> kind, type |-> type, shape |-> shape, items |-> items]
Scalar(type, x) == MakeValue("scalar", type, <<>>, <<x>>)
List(values) == MakeValue("list", "", <<>>, values)
Record(entries) == MakeValue("record", "", <<>>, entries)

Product(shape) == FoldLeft(LAMBDA a, b : a * b, 1, shape)

\* validate_array_shape: an empty shape has no elements.
IsArray(v) == v.kind = "array"
ShapeHolds(shape, n) == n = IF shape = <<>> THEN 0 ELSE Product(shape)
Array(type, shape, elements) == MakeValue("array", type, shape, elements)

\* Record::set, find and remove: a field keeps its place when it gets a value.
Field(record, name) == {i \in DOMAIN record.items : record.items[i][1] = name}
SetField(record, name, value) ==
    IF Field(record, name) = {} THEN Record(Append(record.items, <<name, value>>))
    ELSE Record([i \in DOMAIN record.items |->
                    IF record.items[i][1] = name THEN <<name, value>> ELSE record.items[i]])
RemoveField(record, name) == Record(SelectSeq(record.items, LAMBDA e : e[1] # name))

IsTableName(v) ==
    /\ v.kind = "scalar" /\ v.type = "String"
    /\ v.items[1] # <<>> /\ v.items[1][1] = TablePrefix

----------------------------------------------------------------------------
(* Writing.                                                                *)

Num(type, n) == <<<<type, n>>>>
WriteText(t) == <<<<"string", t>>>>
Width == [u8 |-> 1, i16 |-> 2, u16 |-> 2, i32 |-> 4, u32 |-> 4, i64 |-> 8, u64 |-> 8,
          f32 |-> 4, f64 |-> 8]

\* Bytes of a stream; a piece of text, and the name of a type, counts as one.
RECURSIVE Bytes(_)
Bytes(s) ==
    LET half == Len(s) \div 2
    IN  CASE s = <<>> -> 0
          [] Len(s) = 1 /\ s[1][1] = "string" -> 4 + Len(s[1][2])
          [] Len(s) = 1 -> Width[s[1][1]]
          [] OTHER -> Bytes(SubSeq(s, 1, half)) + Bytes(SubSeq(s, half + 1, Len(s)))

Element(type, x) == IF type = "String" THEN WriteText(x)
                    ELSE [i \in DOMAIN Wire[type] |-> <<Wire[type][i], x[i]>>]
Elements(type, xs) == FlattenSeq([i \in DOMAIN xs |-> Element(type, xs[i])])

\* The bits of an array of Bool, eight to a byte.
PackedBytes(n) == (n + 7) \div 8
Packed(bits) == [b \in 1..PackedBytes(Len(bits)) |->
                   <<"u8", [i \in 1..(IF 8 * b <= Len(bits) THEN 8 ELSE Len(bits) % 8) |->
                               bits[8 * (b - 1) + i]]>>]

\* record_io.cpp: a tag in front of every value.
RECURSIVE write_value(_)
write_value(v) ==
    LET Tag == Num("u8", <<v.kind, v.type>>)
    IN  CASE v.kind = "scalar" -> Tag \o Element(v.type, v.items[1])
          [] v.kind = "array" ->
               Tag \o Num("u32", Len(v.shape))
                   \o FlattenSeq([d \in DOMAIN v.shape |-> Num("u64", v.shape[d])])
                   \o Num("u64", Len(v.items)) \o Elements(v.type, v.items)
          [] v.kind = "list" ->
               Tag \o Num("u32", Len(v.items))
                   \o FlattenSeq([i \in DOMAIN v.items |-> write_value(v.items[i])])
          [] OTHER ->
               Tag \o Num("u32", Len(v.items))
                   \o FlattenSeq([i \in DOMAIN v.items |->
                         WriteText(<<v.items[i][1]>>) \o write_value(v.items[i][2])])

\* The outermost record has the format's name and version for a tag.
BinaryVersion == 1
write_record_binary(r) ==
    Num("magic", "CCMR") \o Num("u8", BinaryVersion) \o Tail(write_value(r))

\* A form of AipsIO: nested magic values, the versions of its objects, and
\* whether the fields of subrecords are fixed by the descriptor around them.
Written == [magic |-> FALSE, iposition |-> 1, array |-> 3, desc |-> 2, fixed |-> FALSE]
\* table.dat as casacore-mini writes it: version 2 of the file, whatever it read before.
OwnForm == Written @@ [file |-> 2, blobs |-> TRUE]

Magic == -1

\* begin_object and end_object: the length covers all but the magic value.
ObjectIn(form, type, version, body) ==
    LET rest == WriteText(<<type>>) \o Num("u32", version) \o body
    IN  (IF form.magic THEN Num("u32", Magic) ELSE <<>>)
           \o Num("u32", 4 + Bytes(rest)) \o rest

write_iposition(form, shape) ==
    ObjectIn(form, "IPosition", form.iposition,
       Num("u32", Len(shape))
       \o FlattenSeq([d \in DOMAIN shape |->
             Num(IF form.iposition >= 2 THEN "i64" ELSE "i32", shape[d])]))

write_aipsio_array(form, v) ==
    LET perAxis(type, F) == FlattenSeq([d \in DOMAIN v.shape |-> Num(type, F[d])])
    IN  ObjectIn(form, "Array", form.array,
           Num("u32", Len(v.shape))
           \o (IF form.array < 3 THEN perAxis("i32", [d \in DOMAIN v.shape |-> 0]) ELSE <<>>)
           \o perAxis("u32", v.shape)
           \o Num("u32", Len(v.items))
           \o (IF v.type = "Bool" THEN Packed(v.items) ELSE Elements(v.type, v.items)))

\* The type that casacore has for the path of a table, forgotten.
CasacoreTypeNoTable(v) == <<v.type, v.kind>>

casacore_type_for(v) ==
    IF IsTableName(v) THEN <<"Table", "">> ELSE <<v.type, v.kind>>

RECURSIVE write_record_desc(_, _)
write_record_desc(form, r) ==
    ObjectIn(form, "RecordDesc", form.desc,
       Num("i32", Len(r.items))
       \o FlattenSeq([i \in DOMAIN r.items |->
             LET v == r.items[i][2]
             IN  WriteText(<<r.items[i][1]>>) \o Num("i32", casacore_type_for(v))
                 \o (CASE IsTableName(v) -> WriteText(<<>>)
                       [] v.kind = "record" ->
                            write_record_desc(form, IF form.fixed THEN v ELSE Record(<<>>))
                       [] IsArray(v) -> write_iposition(form, v.shape)
                       [] OTHER -> <<>>)
                 \o (IF form.desc >= 2 THEN WriteText(<<>>) ELSE <<>>)]))

\* The body: descriptor, kind of record, values.  The path of a table is written
\* without "Table: ", which its type says.
RECURSIVE write_record_body(_, _, _), write_field_values(_, _, _)
write_field_values(form, name, r) ==
    FlattenSeq([i \in DOMAIN r.items |->
       LET v == r.items[i][2]
       IN  CASE IsTableName(v) -> WriteText(Tail(v.items[1]))
             [] v.kind = "scalar" -> Element(v.type, v.items[1])
             [] IsArray(v) -> write_aipsio_array(form, v)
             [] form.fixed /\ v.items # <<>> -> write_field_values(form, name, v)
             [] OTHER -> ObjectIn(form, name, 1, write_record_body(form, name, v))])
write_record_body(form, name, r) ==
    write_record_desc(form, r) \o Num("i32", IF form.fixed THEN 0 ELSE 1)
       \o write_field_values(form, name, r)

\* What the writer refuses: uint64 and lists, which casacore does not have, and
\* records nested too deeply.
RECURSIVE CanWrite(_, _)
CanWrite(v, depth) ==
    CASE v.kind = "scalar" -> v.type # "uInt64"
      [] IsArray(v) -> v.type # "uInt64"
      [] v.kind = "record" ->
           depth <= MaxDepth /\ \A i \in DOMAIN v.items : CanWrite(v.items[i][2], depth + 1)
      [] OTHER -> FALSE

write_aipsio_record(form, r) ==
    Num("u32", Magic) \o ObjectIn([form EXCEPT !.magic = FALSE], "Record", 1,
                                  write_record_body(form, "Record", r))

----------------------------------------------------------------------------
(* Reading.  An exception ends it.                                         *)

Token(s, c, type) ==
    IF c.ok /\ c.at <= Len(s) /\ s[c.at][1] = type
    THEN [at |-> c.at + 1, value |-> s[c.at][2], ok |-> TRUE]
    ELSE Throw(c)

ReadText(s, c) == Token(s, c, "string")
ReadElement(s, c, type) ==
    IF type = "String" THEN ReadText(s, c)
    ELSE Each(c, Wire[type], LAMBDA a, t : Token(s, a, t))

Remaining(s, c) == Bytes(SubSeq(s, c.at, Len(s)))

RECURSIVE read_value(_, _, _)
read_tagged(s, c) == Then(Token(s, c, "u8"), LAMBDA tag : read_value(s, tag, tag.value))
read_entry(s, c) ==
    Then(ReadText(s, c), LAMBDA key :
    Then(read_tagged(s, key), LAMBDA item : Returns(item, <<key.value[1], item.value>>)))
read_value(s, c, tag) ==
    CASE tag[1] = "scalar" ->
           Then(ReadElement(s, c, tag[2]), LAMBDA x : Returns(x, Scalar(tag[2], x.value)))
      [] tag[1] = "array" ->
           Then(Token(s, c, "u32"), LAMBDA ndim :
           Then(Times(ndim, ndim.value, LAMBDA a : Token(s, a, "u64")), LAMBDA shape :
           Then(Token(s, shape, "u64"), LAMBDA stored :
           Then(Times(If(ShapeHolds(shape.value, stored.value), stored), stored.value,
                      LAMBDA a : ReadElement(s, a, tag[2])), LAMBDA elements :
                Returns(elements, Array(tag[2], shape.value, elements.value))))))
      [] tag[1] = "list" ->
           Then(Token(s, c, "u32"), LAMBDA count :
           Then(Times(count, count.value, LAMBDA a : read_tagged(s, a)), LAMBDA items :
                Returns(items, List(items.value))))
      [] OTHER ->
           Then(Token(s, c, "u32"), LAMBDA count :
           Then(Times(count, count.value, LAMBDA a : read_entry(s, a)), LAMBDA entries :
                Returns(entries, FoldLeft(LAMBDA r, e : SetField(r, e[1], e[2]),
                                          Record(<<>>), entries.value))))

\* deserialize_record_binary: no bytes may be left.
read_record_binary(s) ==
    Then(Token(s, Token(s, Start, "magic"), "u8"), LAMBDA version :
    Then(read_value(s, If(version.value = BinaryVersion, version), <<"record", "">>), LAMBDA r :
         If(r.at = Len(s) + 1, r)))

\* read_embedded_object_header: a magic value may stand in front.
read_embedded_object_header(s, c, types) ==
    Then(Token(s, c, "u32"), LAMBDA first :
    Then(IF first.value = Magic THEN Token(s, first, "u32") ELSE first, LAMBDA length :
    Then(ReadText(s, length), LAMBDA type :
    Then(Token(s, type, "u32"), LAMBDA version : If(type.value[1] \in types, version)))))

read_iposition(s, c) ==
    Then(read_embedded_object_header(s, c, {"IPosition"}), LAMBDA header :
    Then(Token(s, header, "u32"), LAMBDA count :
         Times(If(count.value <= Remaining(s, count) \div 4, count), count.value,
               LAMBDA a : Token(s, a, IF header.value >= 2 THEN "i64" ELSE "i32"))))

\* There is no value of one byte but a Bool, and no array of Bool.
Promoted(type) == CASE type = "Char" -> "Short" [] type = "uChar" -> "uShort" [] OTHER -> type

\* The least that an element takes is that of the type it becomes.
MinBytes(type) == IF type = "String" THEN 4
                  ELSE Bytes([i \in DOMAIN Wire[Promoted(type)] |-> <<Wire[Promoted(type)][i], 0>>])

read_elements(s, c, n, type) ==
    IF type = "Bool"
    THEN Then(Times(If(PackedBytes(n) <= Remaining(s, c), c), PackedBytes(n),
                    LAMBDA a : Token(s, a, "u8")), LAMBDA bytes :
              Returns(bytes, FlattenSeq(bytes.value)))
    ELSE Times(If(n <= Remaining(s, c) \div MinBytes(type), c), n,
               LAMBDA a : ReadElement(s, a, type))

read_aipsio_array(s, c, type) ==
    Then(read_embedded_object_header(s, c, {"Array"}), LAMBDA header :
    Then(Token(s, header, "u32"), LAMBDA ndim :
    Then(IF header.value >= 3 THEN ndim
         ELSE Times(ndim, ndim.value, LAMBDA a : Token(s, a, "i32")), LAMBDA origin :
    Then(Times(origin, ndim.value, LAMBDA a : Token(s, a, "u32")), LAMBDA shape :
    Then(Token(s, shape, "u32"), LAMBDA count :
    Then(read_elements(s, count, count.value, type), LAMBDA elements :
         Returns(If(ShapeHolds(shape.value, count.value), elements),
                 Array(IF type = "Bool" THEN "Int" ELSE Promoted(type),
                       shape.value, elements.value))))))))

\* A descriptor is read into a sequence of fields <<name, type, subfields>>.
RECURSIVE read_record_desc(_, _)
read_field_desc(s, c, version) ==
    Then(ReadText(s, c), LAMBDA name :
    Then(Token(s, name, "i32"), LAMBDA type :
    Then(CASE type.value[2] = "record" -> read_record_desc(s, type)
           [] type.value[2] = "array" -> read_iposition(s, type)
           [] type.value[1] = "Table" -> ReadText(s, type)
           [] OTHER -> type, LAMBDA detail :
    Then(IF version >= 2 THEN ReadText(s, detail) ELSE detail, LAMBDA comment :
         Returns(comment, <<name.value[1], type.value,
                            IF type.value[2] = "record" THEN detail.value ELSE <<>>>>)))))
read_record_desc(s, c) ==
    Then(read_embedded_object_header(s, c, {"RecordDesc"}), LAMBDA header :
    Then(Token(s, header, "i32"), LAMBDA nfields :
         Times(If(nfields.value <= Remaining(s, nfields) \div 8, nfields), nfields.value,
               LAMBDA a : read_field_desc(s, a, header.value))))

\* A subrecord without subfields in the descriptor is an object of its own.
RECURSIVE read_record_fields(_, _, _, _), read_record_body(_, _)
read_field(s, c, f, depth) ==
    CASE f[2] = <<"Table", "">> ->
           Then(ReadText(s, c), LAMBDA path :
                Returns(path, Scalar("String", <<TablePrefix>> \o path.value)))
      [] f[2][2] = "scalar" ->
           Then(ReadElement(s, c, f[2][1]), LAMBDA x :
                Returns(x, Scalar(Promoted(f[2][1]), x.value)))
      [] f[2][2] = "array" -> read_aipsio_array(s, c, f[2][1])
      [] f[3] = <<>> ->
           read_record_body(s, read_embedded_object_header(s, c, {"Record", "TableRecord"}))
      [] OTHER -> read_record_fields(s, c, f[3], depth + 1)
read_record_fields(s, c, fields, depth) ==
    IF depth > MaxDepth THEN Throw(c)
    ELSE FoldLeft(LAMBDA a, f :
            Then(a, LAMBDA before :
            Then(read_field(s, before, f, depth), LAMBDA x :
                 Returns(x, SetField(before.value, f[1], x.value)))),
            Returns(c, Record(<<>>)), fields)

read_record_body(s, c) ==
    Then(read_record_desc(s, c), LAMBDA desc :
    Then(Token(s, desc, "i32"), LAMBDA recordType :
         read_record_fields(s, recordType, desc.value, 0)))

read_aipsio_record(s) ==
    Then(Token(s, Start, "u32"), LAMBDA magic :
    Then(Token(s, If(magic.value = Magic, magic), "u32"), LAMBDA length :
    Then(ReadText(s, length), LAMBDA type :
    Then(Token(s, type, "u32"), LAMBDA version :
         read_record_body(s, If(type.value[1] \in {"Record", "TableRecord"}, version))))))
=============================================================================
