------------------------------ MODULE Measures ------------------------------
(***************************************************************************)
(* Measures: their conversion between references                           *)
(* (src/src/measure_convert.cpp), their records                            *)
(* (src/src/measure_record.cpp), and the columns that hold them, with the  *)
(* keywords that describe such a column (src/src/table_measure_desc.cpp,   *)
(* src/src/table_measure_column.cpp).                                      *)
(*                                                                         *)
(* A component of a value is a term: what it was first, which of the       *)
(* components it is, and the steps it has been taken through since.  A     *)
(* step and the one that undoes it cancel; in numbers they do up to        *)
(* rounding.                                                               *)
(***************************************************************************)
EXTENDS Cursors

CONSTANTS ToRecord(_), FromRecord(_)    \* measure_to_record and measure_from_record

Nothing == <<>>
Refused == [ok |-> FALSE, value |-> Nothing]
Got(x) == [ok |-> TRUE, value |-> x]

----------------------------------------------------------------------------
(* Types, references and their names.                                      *)

value_count ==
    "frequency" :> 1 @@ "doppler" :> 1 @@ "radialvelocity" :> 1 @@ "epoch" :> 2 @@ "direction" :> 2
    @@ "position" :> 3 @@ "baseline" :> 3 @@ "uvw" :> 3 @@ "earthmagnetic" :> 3
MeasureTypes == DOMAIN value_count

\* Of each type some references, each with the names that are read as it; the
\* first is the one that is written.
Named(names) == [name \in names |-> <<name>>]
EpochRefs == Named({"UTC", "TDB", "LAST"}) @@ "TAI" :> <<"TAI", "IAT">> @@ "TDT" :> <<"TDT", "TT", "ET">>
             @@ "UT1" :> <<"UT1", "UT">>
DirectionRefs == Named({"J2000", "ICRS", "B1950", "B1950_VLA", "ECLIPTIC", "APP", "AZEL"})
                 @@ "GALACTIC" :> <<"GALACTIC", "GAL">>
PositionRefs == Named({"ITRF", "WGS84"})
DopplerRefs == Named({"RADIO", "RATIO", "GAMMA"}) @@ "Z" :> <<"Z", "OPTICAL">> @@ "BETA" :> <<"BETA", "RELATIVISTIC">>
FrequencyRefs == Named({"REST", "TOPO"}) @@ "LSRK" :> <<"LSRK", "LSR">>
RadialVelocityRefs == Named({"TOPO"}) @@ "LSRK" :> <<"LSRK", "LSR">>
BaselineRefs == Named({"J2000", "ICRS", "ECLIPTIC", "APP", "ITRF"}) @@ "GALACTIC" :> <<"GALACTIC", "GAL">>
UvwRefs == BaselineRefs
EarthMagneticRefs == BaselineRefs @@ Named({"IGRF"})

RefsOf ==
    "epoch" :> EpochRefs @@ "direction" :> DirectionRefs @@ "position" :> PositionRefs
    @@ "doppler" :> DopplerRefs @@ "frequency" :> FrequencyRefs @@ "radialvelocity" :> RadialVelocityRefs
    @@ "baseline" :> BaselineRefs @@ "uvw" :> UvwRefs @@ "earthmagnetic" :> EarthMagneticRefs

measure_ref_to_string(type, ref) == RefsOf[type][ref][1]

parse_ref_for_type(type, name) ==
    LET refs == {ref \in DOMAIN RefsOf[type] : name \in Range(RefsOf[type][ref])}
    IN  IF refs = {} THEN Refused ELSE Got(CHOOSE ref \in refs : TRUE)

default_ref_for_type ==
    "epoch" :> "UTC" @@ "direction" :> "J2000" @@ "position" :> "ITRF" @@ "frequency" :> "REST"
    @@ "doppler" :> "RADIO" @@ "radialvelocity" :> "LSRK" @@ "baseline" :> "J2000" @@ "uvw" :> "J2000"
    @@ "earthmagnetic" :> "J2000"

\* A measure; its offset is Nothing or a sequence of one measure.
Measure(type, ref, offset, value) == [type |-> type, ref |-> ref, offset |-> offset, value |-> value]

----------------------------------------------------------------------------
(* Conversion.                                                             *)

Undoes(step) == [step EXCEPT ![1] = step[2], ![2] = step[1]]
Taken(steps, step) ==
    IF steps # <<>> /\ Last(steps) = Undoes(step) THEN Front(steps) ELSE Append(steps, step)

\* All components of a value go through a step together.
Through(value, steps) ==
    [i \in DOMAIN value |-> [value[i] EXCEPT !.steps = FoldLeft(Taken, @, steps)]]

EpochToUtc ==
    "UTC" :> <<>> @@ "TAI" :> << <<"TAI", "UTC">> >> @@ "TDT" :> << <<"TDT", "TAI">>, <<"TAI", "UTC">> >>
    @@ "TDB" :> << <<"TDB", "TDT">>, <<"TDT", "TAI">>, <<"TAI", "UTC">> >> @@ "UT1" :> << <<"UT1", "UTC">> >>

\* Mutant: barycentric time is taken for a step from atomic time.
EpochFromUtcShort ==
    "UTC" :> <<>> @@ "TAI" :> << <<"UTC", "TAI">> >> @@ "TDT" :> << <<"UTC", "TAI">>, <<"TAI", "TDT">> >>
    @@ "TDB" :> << <<"UTC", "TAI">>, <<"TDT", "TDB">> >> @@ "UT1" :> << <<"UTC", "UT1">> >>

EpochFromUtc ==
    "UTC" :> <<>> @@ "TAI" :> << <<"UTC", "TAI">> >> @@ "TDT" :> << <<"UTC", "TAI">>, <<"TAI", "TDT">> >>
    @@ "TDB" :> << <<"UTC", "TAI">>, <<"TAI", "TDT">>, <<"TDT", "TDB">> >> @@ "UT1" :> << <<"UTC", "UT1">> >>

convert_epoch(value, from, to) ==
    CASE from = to -> Got(value)
      [] from \notin DOMAIN EpochToUtc \/ to \notin DOMAIN EpochFromUtc -> Refused
      [] OTHER -> Got(Through(value, EpochToUtc[from] \o EpochFromUtc[to]))

convert_position(value, from, to) ==
    IF from = to THEN Got(value) ELSE Got(Through(value, << <<from, to>> >>))

\* Precession needs an epoch, the one of the frame, which is Nothing or a
\* sequence of one; that of B1950 is 1950 without.
Besselian(frame) == IF frame = Nothing THEN "1950" ELSE frame[1]

DirectionToJ2000(frame) ==
    "J2000" :> <<>> @@ "ICRS" :> <<>> @@ "GALACTIC" :> << <<"GALACTIC", "J2000">> >>
    @@ "ECLIPTIC" :> << <<"ECLIPTIC", "J2000">> >>
    @@ "B1950" :> << <<"B1950", "J2000", Besselian(frame)>> >>
    @@ "B1950_VLA" :> << <<"B1950", "J2000", Besselian(frame)>> >>
    @@ (IF frame = Nothing THEN <<>> ELSE "APP" :> << <<"APP", "J2000", frame[1]>> >>)
DirectionFromJ2000(frame) ==
    "J2000" :> <<>> @@ "ICRS" :> <<>> @@ "GALACTIC" :> << <<"J2000", "GALACTIC">> >>
    @@ "ECLIPTIC" :> << <<"J2000", "ECLIPTIC">> >>
    @@ "B1950" :> << <<"J2000", "B1950", Besselian(frame)>> >>
    @@ "B1950_VLA" :> << <<"J2000", "B1950", Besselian(frame)>> >>
    @@ (IF frame = Nothing THEN <<>> ELSE "APP" :> << <<"J2000", "APP", frame[1]>> >>)

convert_direction(value, from, to, frame) ==
    CASE from = to -> Got(value)
      [] from \notin DOMAIN DirectionToJ2000(frame) \/ to \notin DOMAIN DirectionFromJ2000(frame) -> Refused
      [] OTHER -> Got(Through(value, DirectionToJ2000(frame)[from] \o DirectionFromJ2000(frame)[to]))

DopplerToRadio ==
    "RADIO" :> <<>> @@ "Z" :> << <<"Z", "RADIO">> >> @@ "BETA" :> << <<"BETA", "RADIO">> >>
    @@ "RATIO" :> << <<"RATIO", "RADIO">> >> @@ "GAMMA" :> << <<"GAMMA", "BETA">>, <<"BETA", "RADIO">> >>
DopplerFromRadio ==
    "RADIO" :> <<>> @@ "Z" :> << <<"RADIO", "Z">> >> @@ "BETA" :> << <<"RADIO", "BETA">> >>
    @@ "RATIO" :> << <<"RADIO", "RATIO">> >> @@ "GAMMA" :> << <<"RADIO", "BETA">>, <<"BETA", "GAMMA">> >>

\* Gamma is the same for both signs of beta.
Unsigned(value) == [i \in DOMAIN value |-> [value[i] EXCEPT !.base = "|beta|"]]

convert_doppler(value, from, to) ==
    LET converted == Through(value, DopplerToRadio[from] \o DopplerFromRadio[to])
    IN  CASE from = to -> Got(value)
          [] to = "GAMMA" -> Got(Unsigned(converted))
          [] OTHER -> Got(converted)

convert_same(value, from, to) == IF from = to THEN Got(value) ELSE Refused

\* Vectors turn like directions, in fewer references; a vector of no length stays.
TurningRefs == {"J2000", "ICRS", "GALACTIC", "ECLIPTIC", "APP"}
convert_xyz(value, from, to, frame) ==
    CASE from = to -> Got(value)
      [] {from, to} \subseteq TurningRefs /\ value[1].base = "zero" -> Got(value)
      [] {from, to} \subseteq TurningRefs -> convert_direction(value, from, to, frame)
      [] OTHER -> Refused

\* The offset is left behind.
convert_measure(m, target, frame) ==
    LET converted ==
          CASE m.type = "epoch" -> convert_epoch(m.value, m.ref, target)
            [] m.type = "position" -> convert_position(m.value, m.ref, target)
            [] m.type = "direction" -> convert_direction(m.value, m.ref, target, frame)
            [] m.type = "doppler" -> convert_doppler(m.value, m.ref, target)
            [] m.type \in {"frequency", "radialvelocity"} -> convert_same(m.value, m.ref, target)
            [] OTHER -> convert_xyz(m.value, m.ref, target, frame)
    IN  IF converted.ok THEN Got(Measure(m.type, target, Nothing, converted.value)) ELSE Refused

----------------------------------------------------------------------------
(* Records.                                                                *)

ComponentNames == <<"m0", "m1", "m2">>
units_for_type ==
    "epoch" :> <<"d", "d">> @@ "direction" :> <<"rad", "rad">> @@ "position" :> <<"m", "m", "m">>
    @@ "frequency" :> <<"Hz">> @@ "doppler" :> <<"">> @@ "radialvelocity" :> <<"m/s">>
    @@ "baseline" :> <<"m", "m", "m">> @@ "uvw" :> <<"m", "m", "m">> @@ "earthmagnetic" :> <<"T", "T", "T">>

RECURSIVE measure_to_record(_), measure_from_record(_)
measure_to_record(m) ==
    "type" :> m.type @@ "refer" :> measure_ref_to_string(m.type, m.ref)
    @@ [name \in {ComponentNames[i] : i \in DOMAIN m.value} |->
           LET i == CHOOSE i \in DOMAIN m.value : ComponentNames[i] = name
           IN  [value |-> m.value[i], unit |-> units_for_type[m.type][i]]]
    @@ (IF m.offset = Nothing THEN <<>> ELSE "offset" :> measure_to_record(m.offset[1]))

\* The units are not looked at.
measure_from_record(rec) ==
    LET type == rec["type"]
        ref == parse_ref_for_type(type, rec["refer"])
        names == [i \in 1..value_count[type] |-> ComponentNames[i]]
        offset == measure_from_record(rec["offset"])
    IN  CASE ~{"type", "refer"} \subseteq DOMAIN rec -> Refused
          [] type \notin MeasureTypes -> Refused
          [] ~ref.ok -> Refused
          [] ~Range(names) \subseteq DOMAIN rec -> Refused
          [] "offset" \in DOMAIN rec /\ ~offset.ok -> Refused
          [] OTHER -> Got(Measure(type, ref.value,
                                  IF "offset" \in DOMAIN rec THEN <<offset.value>> ELSE Nothing,
                                  [i \in DOMAIN names |-> rec[names[i]].value]))

----------------------------------------------------------------------------
(* Columns of measures, and their description in the column's keywords.    *)

\* A description.  Without a column of references var_ref is "".
TableMeasDesc(type, default_ref, var_ref, tab_types, tab_codes, units, offset, offset_column, per_array) ==
    [measure_type |-> type, default_ref |-> default_ref, var_ref_column |-> var_ref,
     tab_ref_types |-> tab_types, tab_ref_codes |-> tab_codes, units |-> units,
     offset |-> offset, offset_column |-> offset_column, offset_per_array |-> per_array]

When(condition, fields) == IF condition THEN fields ELSE <<>>

write_table_measure_desc(desc, keywords) ==
    LET variable == desc.var_ref_column # ""
        measinfo ==
            "type" :> desc.measure_type
            @@ When(variable, "VarRefCol" :> desc.var_ref_column)
            @@ When(variable /\ desc.tab_ref_types # <<>>, "TabRefTypes" :> desc.tab_ref_types)
            @@ When(variable /\ desc.tab_ref_codes # <<>>, "TabRefCodes" :> desc.tab_ref_codes)
            @@ When(~variable, "Ref" :> measure_ref_to_string(desc.measure_type, desc.default_ref))
            @@ When(desc.offset # Nothing, "RefOffMsr" :> ToRecord(desc.offset[1]))
            @@ When(desc.offset_column # "", "RefOffCol" :> desc.offset_column
                                             @@ "RefOffvarPerArr" :> desc.offset_per_array)
    IN  "MEASINFO" :> measinfo @@ When(desc.units # <<>>, "QuantumUnits" :> desc.units) @@ keywords

Field(record, name, default) == IF name \in DOMAIN record THEN record[name] ELSE default

\* The name the default reference is read from, or "" for the one of the type.
ReferenceName(measinfo) ==
    CASE "VarRefCol" \in DOMAIN measinfo /\ Field(measinfo, "TabRefTypes", <<>>) # <<>> ->
             measinfo["TabRefTypes"][1]
      [] "VarRefCol" \notin DOMAIN measinfo /\ "Ref" \in DOMAIN measinfo -> measinfo["Ref"]
      [] OTHER -> ""

read_table_measure_desc(keywords) ==
    LET measinfo == keywords["MEASINFO"]
        type == measinfo["type"]
        name == ReferenceName(measinfo)
        variable == "VarRefCol" \in DOMAIN measinfo
        ref == IF name = "" THEN Got(default_ref_for_type[type]) ELSE parse_ref_for_type(type, name)
        offset == IF "RefOffMsr" \in DOMAIN measinfo THEN FromRecord(measinfo["RefOffMsr"])
                  ELSE Got(Nothing)
    IN  IF ~ref.ok \/ ~offset.ok THEN Refused
        ELSE Got(TableMeasDesc(type, ref.value, Field(measinfo, "VarRefCol", ""),
                               IF variable THEN Field(measinfo, "TabRefTypes", <<>>) ELSE <<>>,
                               IF variable THEN Field(measinfo, "TabRefCodes", <<>>) ELSE <<>>,
                               Field(keywords, "QuantumUnits", <<>>),
                               IF offset.value = Nothing THEN Nothing ELSE <<offset.value>>,
                               Field(measinfo, "RefOffCol", ""), Field(measinfo, "RefOffvarPerArr", FALSE)))

\* The cell of a column of references: a string or an integer.
NameCell(name) == [kind |-> "string", name |-> name, code |-> 0]
CodeCell(code) == [kind |-> "int", name |-> "", code |-> code]
NoCell == [kind |-> "none", name |-> "", code |-> 0]

\* The reference of a row: the one of the column, or the one its cell in the
\* column of references names or has the code of, the first of those.
resolve_ref(desc, cell) ==
    LET found == {i \in DOMAIN desc.tab_ref_codes : desc.tab_ref_codes[i] = cell.code}
    IN  CASE desc.var_ref_column = "" -> Got(desc.default_ref)
          [] cell.kind = "string" -> parse_ref_for_type(desc.measure_type, cell.name)
          [] cell.kind # "int" \/ desc.tab_ref_types = <<>> \/ found = {} -> Refused
          [] OTHER -> parse_ref_for_type(desc.measure_type, desc.tab_ref_types[Min(found)])

write_array_measures(measures) == FlattenSeq([i \in DOMAIN measures |-> measures[i].value])

read_array_measures(desc, data, cell) ==
    LET count == value_count[desc.measure_type]
        ref == resolve_ref(desc, cell)
    IN  IF data = <<>> \/ Len(data) % count # 0 \/ ~ref.ok THEN Refused
        ELSE Got([i \in 1..(Len(data) \div count) |->
                     Measure(desc.measure_type, ref.value, Nothing,
                             SubSeq(data, (i - 1) * count + 1, i * count))])

\* A scalar cell has the first component; the others are read as zero.
ZeroComponent(i) == [base |-> "zero", part |-> i, steps |-> <<>>]
write_scalar_measure(measure) == measure.value[1]
read_scalar_measure(desc, data, cell) ==
    LET ref == resolve_ref(desc, cell)
    IN  IF ~ref.ok THEN Refused
        ELSE Got(Measure(desc.measure_type, ref.value, Nothing,
                         [i \in 1..value_count[desc.measure_type] |-> IF i = 1 THEN data ELSE ZeroComponent(i)]))

----------------------------------------------------------------------------
(***************************************************************************)
(* A measure that is converted from reference to reference and put into    *)
(* rows of a column, which is read by the description in its keywords.     *)
(***************************************************************************)

CONSTANT MaxMeasureSteps

VARIABLES
    measure, began,   \* the measure, and the reference it began with
    frame,            \* the epoch of the frame, if it has one
    described,        \* the description of the column, as it was written
    keywords,         \* the column's keywords
    cells,            \* of a row: the cell of references and the array or scalar
    put,              \* the measures that were put there
    measureSteps

measureVars == <<measure, began, frame, described, keywords, cells, put, measureSteps>>

----------------------------------------------------------------------------
(* The references form a tree, in which each is a step away from the next, *)
(* the conversion between the two that measure_convert.hpp lists.          *)

TreeParent ==
    "TAI" :> "UTC" @@ "TDT" :> "TAI" @@ "TDB" :> "TDT" @@ "UT1" :> "UTC"
    @@ "GALACTIC" :> "J2000" @@ "ECLIPTIC" :> "J2000" @@ "ICRS" :> "J2000"
    @@ "B1950" :> "J2000" @@ "APP" :> "J2000"
    @@ "WGS84" :> "ITRF" @@ "Z" :> "RADIO" @@ "BETA" :> "RADIO" @@ "RATIO" :> "RADIO" @@ "GAMMA" :> "BETA"
SamePlace == "B1950_VLA" :> "B1950"
Place(ref) == IF ref \in DOMAIN SamePlace THEN SamePlace[ref] ELSE ref

Ancestors[ref \in DOMAIN TreeParent \cup Range(TreeParent)] ==
    <<ref>> \o IF ref \in DOMAIN TreeParent THEN Ancestors[TreeParent[ref]] ELSE <<>>

\* Up from the one to where both meet, and down to the other.
TreePath(from, to) ==
    LET up == Ancestors[Place(from)]
        down == Ancestors[Place(to)]
        meet == Min({i \in DOMAIN up : up[i] \in Range(down)})
        stop == CHOOSE i \in DOMAIN down : down[i] = up[meet]
    IN  [i \in 1..(meet - 1) |-> <<up[i], up[i + 1]>>]
        \o [i \in 1..(stop - 1) |-> <<down[stop - i + 1], down[stop - i]>>]

\* The rotation by the ICRS offset, which the header promises and the code leaves
\* out ("ICRS ~ J2000 for our purposes", measure_convert.cpp:175): the one place
\* where a value does not take the listed way.
IsFrameTie(step) == Range(step) = {"ICRS", "J2000"}
WaysTaken(path) == SelectSeq(path, LAMBDA step : ~IsFrameTie(step))

WithEpoch(step) ==
    CASE "B1950" \in Range(step) -> Append(step, Besselian(frame))
      [] "APP" \in Range(step) -> Append(step, frame[1])
      [] OTHER -> step

----------------------------------------------------------------------------
(* Steps.                                                                  *)

FirstValue(type, base) == [i \in 1..value_count[type] |-> [base |-> base, part |-> i, steps |-> <<>>]]

\* The offset of a measure is given in the default reference of its type.
OffsetOf(type) == Measure(type, default_ref_for_type[type], Nothing, FirstValue(type, "o"))

\* Fixed and variable references, these with codes or without.
References(type) ==
    LET names == FoldSet(LAMBDA ref, seq : Append(seq, ref), <<>>, DOMAIN RefsOf[type])
        tab == [i \in DOMAIN names |-> measure_ref_to_string(type, names[i])]
    IN  {<<ref, "", <<>>, <<>>>> : ref \in DOMAIN RefsOf[type]}
        \cup {<<default_ref_for_type[type], "REFS", <<>>, <<>>>>,
              <<default_ref_for_type[type], "REFS", tab, [i \in DOMAIN names |-> 9 - i]>>}

Descriptions(type) ==
    {TableMeasDesc(type, r[1], r[2], r[3], r[4], <<>>, Nothing, "", FALSE) : r \in References(type)}
    \cup {TableMeasDesc(type, default_ref_for_type[type], "", <<>>, <<>>, units_for_type[type],
                        offset[1], offset[2], offset[2] # "") :
             offset \in {<<Nothing, "">>, << <<OffsetOf(type)>>, "">>, <<Nothing, "OFFSETS">>}}

\* A conversion does not look at a column, nor a column at the frame.
MeasureInit ==
    /\ \E type \in MeasureTypes, base \in {"x", "zero", "|beta|"} : \E ref \in DOMAIN RefsOf[type] :
          /\ measure = Measure(type, ref, Nothing, FirstValue(type, base)) /\ began = ref
          /\ base = "zero" => type \in {"baseline", "uvw"}
          /\ base = "|beta|" <=> ref = "GAMMA"
          /\ \/ described \in Descriptions(type) /\ frame = Nothing
             \/ described = (CHOOSE d \in Descriptions(type) : TRUE) /\ frame = <<"e">>
    /\ keywords = write_table_measure_desc(described, <<>>)
    /\ cells = Nothing
    /\ put = Nothing
    /\ measureSteps = 0

ConvertMeasure ==
    \E target \in DOMAIN RefsOf[measure.type] :
        LET converted == convert_measure(measure, target, frame)
        IN  /\ converted.ok /\ target # measure.ref
            /\ measure' = converted.value
            /\ UNCHANGED <<began, frame, described, keywords, cells, put>>

SetOffset ==
    /\ measure.offset = Nothing
    /\ measure' = [measure EXCEPT !.offset = <<OffsetOf(measure.type)>>]
    /\ UNCHANGED <<began, frame, described, keywords, cells, put>>

\* The cells of references by which a row may say it.
RefCells(ref) ==
    LET name == measure_ref_to_string(measure.type, ref)
        codes == {described.tab_ref_codes[i] : i \in {i \in DOMAIN described.tab_ref_codes :
                                                        described.tab_ref_types[i] = name}}
    IN  IF described.var_ref_column = ""
        THEN IF ref = described.default_ref THEN {NoCell} ELSE {}
        ELSE {NameCell(RefsOf[measure.type][ref][i]) : i \in DOMAIN RefsOf[measure.type][ref]}
             \cup {CodeCell(code) : code \in codes}

\* A column takes measures of its reference without an offset.
PutMeasures ==
    /\ measure.offset = Nothing
    /\ \E cell \in RefCells(measure.ref), count \in {1, 2} :
          LET measures == [i \in 1..count |-> measure]
          IN  /\ cells' = <<cell, "array", write_array_measures(measures)>>
              /\ put' = measures
    /\ UNCHANGED <<measure, began, frame, described, keywords>>

PutScalar ==
    /\ measure.offset = Nothing
    /\ \E cell \in RefCells(measure.ref) :
          /\ cells' = <<cell, "scalar", write_scalar_measure(measure)>>
          /\ put' = <<measure>>
    /\ UNCHANGED <<measure, began, frame, described, keywords>>

MeasureNext ==
    /\ measureSteps < MaxMeasureSteps
    /\ measureSteps' = measureSteps + 1
    /\ ConvertMeasure \/ SetOffset \/ PutMeasures \/ PutScalar

----------------------------------------------------------------------------
(* Properties.                                                             *)

\* However a measure has been converted, it is where the direct way of the tree
\* would have led, but for the rotation between ICRS and J2000, which no conversion
\* makes.  (Gamma has lost a sign; a vector of no length has nowhere to go.)
ConversionsAgree ==
    LET path == WaysTaken(TreePath(began, measure.ref))
    IN  \A i \in DOMAIN measure.value :
            measure.value[i].steps =
                IF began = measure.ref \/ measure.value[i].base = "zero" THEN <<>>
                ELSE [k \in DOMAIN path |-> WithEpoch(path[k])]

\* A conversion can be undone, and leads to the same value as in two parts.
ConversionsUndone ==
    \A target \in DOMAIN RefsOf[measure.type] \ {"GAMMA"} :
        LET there == convert_measure(measure, target, frame)
            back == convert_measure(there.value, measure.ref, frame)
        IN  there.ok => back.ok /\ back.value.value = measure.value

RecordReadsBack ==
    LET read == FromRecord(ToRecord(measure)) IN read.ok /\ read.value = measure

\* The description read from the keywords gives every row the reference, and the
\* column the offset and the units, that were described.
DescriptionKept ==
    LET read == read_table_measure_desc(keywords)
        desc == read.value
    IN  /\ read.ok
        /\ \A ref \in DOMAIN RefsOf[described.measure_type] : \A cell \in RefCells(ref) :
              resolve_ref(desc, cell) = resolve_ref(described, cell)
        /\ desc.offset = described.offset /\ desc.units = described.units
        /\ desc.offset_column = described.offset_column
        /\ desc.offset_per_array = described.offset_per_array

\* A row has the measures that were put there; of a scalar, the first component.
MeasuresReadBack ==
    LET desc == read_table_measure_desc(keywords).value
        array == read_array_measures(desc, cells[3], cells[1])
        scalar == read_scalar_measure(desc, cells[3], cells[1])
    IN  CASE cells = Nothing -> TRUE
          [] cells[2] = "array" -> array.ok /\ array.value = put
          [] cells[2] = "scalar" -> /\ scalar.ok /\ scalar.value.ref = put[1].ref
                                    /\ scalar.value.value[1] = put[1].value[1]

\* Measures are converted to what they are, however many conversions it takes (the
\* rotation between ICRS and J2000 apart, see WaysTaken), and are found again in
\* records and in columns.
MeasuresHold ==
    began # "" =>
        ConversionsAgree /\ ConversionsUndone /\ RecordReadsBack /\ DescriptionKept /\ MeasuresReadBack
=============================================================================
